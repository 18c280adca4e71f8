---------------------------- MODULE ShellProofs ----------------------------
(***************************************************************************)
(* The shell around playback, and what it writes down.  The supervisor     *)
(* host carries out one thing at a time and in order, whatever callbacks   *)
(* dispatch, dispose and throw; the account, what the viewer is told of    *)
(* playback and the numbers of targets; the modes of the window; the power *)
(* requests.  A single instance of the application writes as AtomicFile    *)
(* promises whatever fails, is killed or loses its power between two calls *)
(* (two instances do not: NoTruncatedFile); the ring of every capacity     *)
(* yields its latest lines; the logs of several instances and what they    *)
(* saved of them are never each other's; the settings come back as they    *)
(* were left; the browser shows the last catalogue that came whole; and    *)
(* the notice of a release is of what the feed told, read as what it is.   *)
(* Each part has its own inductive invariant.  The last section is of all  *)
(* the parts together: MCParts runs each as its own specification says, so *)
(* what is proved of one part holds there too.                             *)
(***************************************************************************)
EXTENDS MCParts, PlaybackPartsProofs, SequenceTheorems

-----------------------------------------------------------------------------
(* The supervisor host (core/supervisor_host.cpp)                          *)

HostPlaces == {"Loop", "Transition", "Changed", "Effect", "Silent"}
Frame      == [at : HostPlaces, event : Nat]

(* No loop is nested in another, which is what the flag is for; events are *)
(* numbered, and only a loop that carries out nothing looks like one.      *)
HostInv ==
  /\ frames = << >> \/ \E f \in Frame : frames = <<f>> /\ (f.at = "Loop" => f = Looping)
  /\ dispatching = (frames # << >>)
  /\ dispatched \in Nat /\ pending_events \in Seq(Nat) /\ pending_effects \in Seq(Nat)
  /\ due \in Nat /\ armed \in Nat /\ disposed \in BOOLEAN
  /\ frames = << >> /\ ~thrown => pending_events = << >> /\ pending_effects = << >>
  /\ ~disposed => armed = due
  /\ disposed => armed = 0 /\ pending_events = << >> /\ pending_effects = << >>

\* What a host with one frame carries out, and what becomes of the frame.
LEMMA OneFrame ==
  ASSUME NEW f \in Frame, frames = <<f>>
  PROVE  /\ frames # << >> /\ Head(frames) = f /\ Last(frames) = f /\ Len(frames) = 1
         /\ InLoop <=> f = Looping
         /\ Front(frames) = << >>
         /\ \A place, event : Running(place, event) => frames' = <<[at |-> place, event |-> event]>>
<1>1. Head(frames) = f /\ Len(frames) = 1 /\ frames[1] = f /\ frames # << >>
  OBVIOUS
<1>2. Last(frames) = f
  BY <1>1 DEF Last
<1>3. Front(frames) = << >>
  BY <1>1 DEF Front
<1>4. ASSUME NEW place, NEW event, Running(place, event)
      PROVE  frames' = <<[at |-> place, event |-> event]>>
  BY <1>1, <1>4 DEF Running, ReplaceAt
<1> QED BY <1>1, <1>2, <1>3, <1>4 DEF InLoop

\* The host starts with nothing to carry out.
LEMMA HostInvInit == HostInit => HostInv /\ Serial!LoopInit
<1>1. << >> \in Seq(Nat)
  OBVIOUS
<1>2. HostInit => HostInv
  <2> SUFFICES ASSUME HostInit PROVE HostInv
    OBVIOUS
  <2>1. frames = << >> /\ dispatching = FALSE
    BY DEF HostInit
  <2>2. dispatching = (frames # << >>)
    BY <2>1, Zenon
  <2> QED BY <1>1, <2>1, <2>2 DEF HostInit, HostInv
<1>3. HostInit => Serial!LoopInit
  BY DEF HostInit, Serial!LoopInit, Serial!Rest, Carried
<1> QED BY <1>2, <1>3

\* Every step of the host keeps the invariant and is a step of EventLoop or a
\* stutter, however deep its callbacks call it (core/supervisor_host.cpp).
LEMMA HostStep ==
  ASSUME HostInv, [HostNext]_hostVars
  PROVE  HostInv' /\ [Serial!LoopNext]_<<dispatched, pending_events, pending_effects, Carried>>
<1> DEFINE Step == [Serial!LoopNext]_<<dispatched, pending_events, pending_effects, Carried>>
<1> USE DEF HostInv
<1>1. CASE DispatchEvent
  <2>1. /\ dispatched' = dispatched + 1 /\ pending_events' = Append(pending_events, dispatched')
        /\ UNCHANGED pending_effects /\ dispatched < LastEvent /\ ~disposed
    BY <1>1 DEF DispatchEvent
  <2>2. \/ frames = << >> /\ frames' = <<Looping>> /\ dispatching' = TRUE
        \/ frames # << >> /\ UNCHANGED <<frames, dispatching>>
    <3>1. Append(<< >>, Looping) = <<Looping>>
      OBVIOUS
    <3>2. dispatching <=> frames # << >>
      BY Zenon
    <3>3. IF dispatching THEN UNCHANGED <<frames, dispatching>>
          ELSE frames' = Append(frames, Looping) /\ dispatching' = TRUE
      BY <1>1, Zenon DEF DispatchEvent, DrainsOutermost
    <3>4. CASE frames = << >>
      BY <3>1, <3>2, <3>3, <3>4, Zenon
    <3>5. CASE frames # << >>
      BY <3>2, <3>3, <3>5, Zenon
    <3> QED BY <3>4, <3>5, Zenon
  <2>3. Looping \in Frame
    BY DEF Looping, Frame, HostPlaces
  <2>4. HostInv'
    <3>1. pending_events' \in Seq(Nat) /\ dispatched' \in Nat
      BY <2>1
    <3>2. frames' = << >> \/ \E f \in Frame : frames' = <<f>> /\ (f.at = "Loop" => f = Looping)
      BY <2>2, <2>3
    <3>3. frames' # << >> /\ dispatching' = (frames' # << >>)
      <4>1. <<Looping>> # << >>
        OBVIOUS
      <4>2. CASE frames = << >> /\ frames' = <<Looping>> /\ dispatching' = TRUE
        BY <4>1, <4>2, Zenon
      <4>3. CASE frames # << >> /\ UNCHANGED <<frames, dispatching>>
        BY <4>3, Zenon
      <4> QED BY <2>2, <4>2, <4>3, Zenon
    <3> QED BY <1>1, <2>1, <3>1, <3>2, <3>3 DEF DispatchEvent
  <2>5. Carried' = Carried
    <3>1. CASE frames = << >> /\ frames' = <<Looping>>
      <4>1. Head(frames') = Looping
        BY <3>1
      <4> QED BY <3>1, <4>1 DEF Carried
    <3>2. CASE UNCHANGED frames
      BY <3>2 DEF Carried
    <3> QED BY <2>2, <3>1, <3>2
  <2>6. Serial!Post
    BY <2>1, <2>5 DEF Serial!Post
  <2> QED BY <2>4, <2>6 DEF Serial!LoopNext
<1>2. CASE ApplyEvent
  <2>1. PICK f \in Frame : frames = <<f>> /\ f = Looping
    BY <1>2, OneFrame DEF ApplyEvent, InLoop
  <2> DEFINE event == Head(pending_events)
  <2>2. /\ event \in Nat /\ pending_events # << >> /\ pending_events' = Tail(pending_events)
        /\ pending_events' \in Seq(Nat)
    BY <1>2 DEF ApplyEvent
  <2>3. PICK n \in EffectCounts : pending_effects' = pending_effects \o [i \in 1 .. n |-> event]
    BY <1>2 DEF ApplyEvent
  <2>4. PICK place \in {"Transition", "Silent"} : frames' = <<[at |-> place, event |-> event]>>
    BY <1>2, <2>1, OneFrame DEF ApplyEvent
  <2>5. pending_effects' \in Seq(Nat)
    BY <2>2, <2>3, HostAssumption
  <2>6. [at |-> place, event |-> event] \in Frame /\ place # "Loop"
    BY <2>2 DEF Frame, HostPlaces
  <2>7. HostInv'
    BY <1>2, <2>1, <2>2, <2>4, <2>5, <2>6 DEF ApplyEvent, Rearm
  <2>8. Carried = Serial!Rest /\ Carried' = [kind |-> "Event", event |-> event]
    <3>1. Carried = Serial!Rest
      BY <2>1 DEF Carried, Serial!Rest
    <3>2. frames' # << >> /\ Head(frames') = [at |-> place, event |-> event]
      BY <2>4
    <3> QED BY <2>6, <3>1, <3>2 DEF Carried, Looping
  <2>9. Serial!Serve
    BY <1>2, <2>2, <2>3, <2>8 DEF Serial!Serve, ApplyEvent
  <2> QED BY <2>7, <2>9 DEF Serial!LoopNext
<1>3. CASE PerformEffect
  <2>1. PICK f \in Frame : frames = <<f>> /\ f = Looping
    BY <1>3, OneFrame DEF PerformEffect, InLoop
  <2> DEFINE event == Head(pending_effects)
  <2>2. /\ event \in Nat /\ pending_effects # << >> /\ pending_effects' = Tail(pending_effects)
        /\ pending_effects' \in Seq(Nat) /\ pending_events = << >> /\ UNCHANGED pending_events
    BY <1>3 DEF PerformEffect, NoEventWaits
  <2>3. frames' = <<[at |-> "Effect", event |-> event]>>
    BY <1>3, <2>1, OneFrame DEF PerformEffect
  <2>4. [at |-> "Effect", event |-> event] \in Frame
    BY <2>2 DEF Frame, HostPlaces
  <2>5. HostInv'
    BY <1>3, <2>1, <2>2, <2>3, <2>4 DEF PerformEffect
  <2>6. Carried = Serial!Rest
    BY <2>1 DEF Carried, Serial!Rest
  <2>7. Carried' = [kind |-> "Effect", event |-> event]
    <3>1. frames' # << >> /\ Head(frames') = [at |-> "Effect", event |-> event]
      BY <2>3
    <3> QED BY <3>1 DEF Carried, Looping
  <2>8. Serial!Perform
    BY <1>3, <2>2, <2>6, <2>7 DEF Serial!Perform, PerformEffect
  <2> QED BY <2>5, <2>8 DEF Serial!LoopNext
<1>4. CASE CallbackReturns
  <2>1. PICK f \in Frame : frames = <<f>> /\ f # Looping /\ f.at # "Loop"
    BY <1>4, OneFrame DEF CallbackReturns
  <2>2. Carried = [kind |-> IF f.at = "Effect" THEN "Effect" ELSE "Event", event |-> f.event]
    BY <2>1, OneFrame DEF Carried
  <2>3. CASE f.at = "Transition"
    <3>1. frames' = <<[at |-> "Changed", event |-> f.event]>>
      BY <1>4, <2>1, <2>3, OneFrame DEF CallbackReturns
    <3>2. [at |-> "Changed", event |-> f.event] \in Frame
      BY DEF Frame, HostPlaces
    <3>3. HostInv'
      BY <1>4, <2>1, <3>1, <3>2 DEF CallbackReturns, hostQueues
    <3>4. frames' # << >> /\ Head(frames') = [at |-> "Changed", event |-> f.event]
      BY <3>1
    <3>5. Carried' = Carried
      BY <2>2, <2>3, <3>4 DEF Carried, Looping
    <3> QED BY <1>4, <3>3, <3>5 DEF CallbackReturns, hostQueues
  <2>4. CASE f.at # "Transition"
    <3>1. frames' = <<Looping>>
      BY <1>4, <2>1, <2>4, OneFrame DEF CallbackReturns, Looping
    <3>2. Looping \in Frame
      BY DEF Looping, Frame, HostPlaces
    <3>3. HostInv'
      BY <1>4, <2>1, <3>1, <3>2 DEF CallbackReturns, hostQueues
    <3>4. Carried' = Serial!Rest /\ Carried # Serial!Rest
      BY <2>2, <3>1 DEF Carried, Serial!Rest
    <3>5. Serial!Finish
      BY <1>4, <3>4 DEF Serial!Finish, CallbackReturns, hostQueues
    <3> QED BY <3>3, <3>5 DEF Serial!LoopNext
  <2> QED BY <2>3, <2>4
<1>5. CASE CallbackThrows
  <2>1. PICK f \in Frame : frames = <<f>> /\ f # Looping
    BY <1>5, OneFrame DEF CallbackThrows, CallerRuns, Looping
  <2>2. HostInv'
    BY <1>5 DEF CallbackThrows, hostQueues
  <2>3. Carried' = Serial!Rest
    BY <1>5 DEF CallbackThrows, Carried, Serial!Rest
  <2>4. Carried = [kind |-> IF f.at = "Effect" THEN "Effect" ELSE "Event", event |-> f.event]
    BY <2>1, OneFrame DEF Carried
  <2>5. Carried # Serial!Rest
    BY <2>4 DEF Serial!Rest
  <2>6. Serial!Finish
    BY <1>5, <2>3, <2>5 DEF Serial!Finish, CallbackThrows, hostQueues
  <2> QED BY <2>2, <2>6 DEF Serial!LoopNext
<1>6. CASE LoopEnds
  <2>1. PICK f \in Frame : frames = <<f>> /\ f = Looping
    BY <1>6, OneFrame DEF LoopEnds, InLoop
  <2>2. frames' = << >>
    BY <1>6, <2>1, OneFrame DEF LoopEnds
  <2>3. HostInv'
    BY <1>6, <2>2 DEF LoopEnds, hostQueues
  <2>4. Carried' = Carried
    BY <2>1, <2>2 DEF Carried
  <2> QED BY <1>6, <2>3, <2>4 DEF LoopEnds, hostQueues
<1>7. CASE DisposeHost
  <2>1. HostInv'
    BY <1>7 DEF DisposeHost
  <2>2. Serial!Dispose
    BY <1>7 DEF DisposeHost, Serial!Dispose, Carried
  <2> QED BY <2>1, <2>2 DEF Serial!LoopNext
<1>8. CASE UNCHANGED hostVars
  BY <1>8 DEF hostVars, hostQueues, Carried
<1> QED
  BY <1>1, <1>2, <1>3, <1>4, <1>5, <1>6, <1>7, <1>8 DEF HostNext

(* The host serves whoever feeds it like EventLoop: one event or effect at *)
(* a time, events before effects, each once and in order, whatever its     *)
(* callbacks do (supervisor_host.cpp 54-55).                               *)
THEOREM HostIsSerial == HostSpec => ImplementsEventLoop
BY HostInvInit, HostStep, PTL DEF HostSpec, ImplementsEventLoop, Serial!LoopSpec

(* Nothing is left waiting when no call is in progress, unless a callback  *)
(* threw, and the armed deadline is that of the present state, until the   *)
(* host is disposed of (supervisor_host.cpp 14-49).                        *)
THEOREM HostDrains == HostSpec => []HostTypeOK
<1>1. HostInv => HostTypeOK
  BY DEF HostInv, HostTypeOK
<1> QED
  BY <1>1, HostInvInit, HostStep, PTL DEF HostSpec

-----------------------------------------------------------------------------
(* Connection and sign-in (app/app.cpp)                                    *)

ConnectInv ==
  /\ ConnectTypeOK /\ OneAccount
  /\ stage = "Connecting" => credentials = fetching /\ fetching \in Accounts
  /\ stage = "Connecting" /\ worker # "Fetching" =>
       answer \in {Error, fetching} /\ (answer # Error => answer \in accepted)

\* The application starts signed out, with no worker.
LEMMA ConnectInvInit == ConnectInit => ConnectInv
BY DEF ConnectInit, ConnectInv, ConnectTypeOK, OneAccount, Maybe, ScreenUp

\* Every step of the screen, the worker and the process keeps what is known of
\* the account: while the screen says Connecting, a worker fetches for the
\* fields as they were submitted, or its answer waits (App::begin_connect,
\* App::finish_connect).
LEMMA ConnectInvStep == ConnectInv /\ [ConnectNext]_connectVars => ConnectInv'
<1> SUFFICES ASSUME ConnectInv, [ConnectNext]_connectVars PROVE ConnectInv'
  OBVIOUS
<1> USE DEF ConnectInv, ConnectTypeOK, OneAccount, Maybe, ScreenUp
<1>1. CASE Edit
  BY <1>1 DEF Edit, threadVars
<1>2. CASE BeginConnect
  <2>1. worker = "None" /\ stage = "Login"
    BY <1>2 DEF BeginConnect, MaySubmit
  <2>2. connect_done' = FALSE
    BY <1>2, <2>1, Zenon DEF BeginConnect
  <2> QED BY <1>2, <2>1, <2>2 DEF BeginConnect, MaySubmit
<1>3. CASE WorkerAnswers
  BY <1>3 DEF WorkerAnswers, uiVars
<1>4. CASE WorkerEnds
  BY <1>4 DEF WorkerEnds, uiVars
<1>5. CASE FinishConnect
  BY <1>5 DEF FinishConnect, Save, ClientCredentials
<1>6. CASE Play
  BY <1>6 DEF Play, threadVars
<1>7. CASE SignOut
  BY <1>7 DEF SignOut, threadVars, PlayingAfterSignOut
<1>8. CASE Close
  BY <1>8 DEF Close, threadVars, uiVars
<1>9. CASE Start
  BY <1>9 DEF Start
<1>10. CASE Crash
  BY <1>10 DEF Crash, uiVars
<1>11. CASE UNCHANGED connectVars
  BY <1>11 DEF connectVars, threadVars, uiVars
<1> QED
  BY <1>1, <1>2, <1>3, <1>4, <1>5, <1>6, <1>7, <1>8, <1>9, <1>10, <1>11 DEF ConnectNext, Worker

\* For any accounts: the catalogue, the client and the stream are of one
\* account that the provider accepted, whichever attempts, sign-outs, crashes
\* and restarts came in between (app.cpp 521-602, 1619-1647).
THEOREM CatalogueAndClientAgree == ConnectSpec => []OneAccount
<1>1. ConnectInv => OneAccount
  BY DEF ConnectInv
<1> QED
  BY <1>1, ConnectInvInit, ConnectInvStep, PTL DEF ConnectSpec

\* For any accounts: a worker runs exactly while the screen says Connecting.
LEMMA ConnectIsTyped == ConnectSpec => []ConnectTypeOK
<1>1. ConnectInv => ConnectTypeOK
  BY DEF ConnectInv
<1> QED BY <1>1, ConnectInvInit, ConnectInvStep, PTL DEF ConnectSpec

-----------------------------------------------------------------------------
(* What the viewer is told (app/app.cpp, player/playback_control.hpp)      *)

ViewRecords ==
  [selected : Sources \cup {NoChannel}, intent : {"Running", "StoppedByUser"}, loading : Nat,
   status : {"Quiet", "Loading", "Playing", "Failed", "Resumed", "Stopped"}]
WatchRecords ==
  [name : {"Idle", "Opening", "Recovering", "Playing", "Failed"}, generation : Nat, left : Int]
AimRecords    == [generation : Nat, source : Sources \cup {NoChannel}]
EngineRecords == [up : BOOLEAN, file : Sources \cup {NoChannel}]

ViewFields ==
  /\ view \in ViewRecords /\ watch \in WatchRecords
  /\ aim \in AimRecords /\ engine \in EngineRecords /\ listed \subseteq Channels

\* The player aims at the channel of the current generation, at an earlier
\* one that it could not leave without a backend, or at nothing.
AimIsOwn ==
  /\ aim.generation <= watch.generation
  /\ watch.generation = 0 => watch.name = "Idle"
  /\ aim.generation = watch.generation /\ watch.generation # 0 => aim.source = view.selected
  /\ aim.generation # watch.generation => engine.file = NoChannel
  /\ engine.file # NoChannel => engine.up = TRUE

\* What the supervisor watches has been chosen, and nothing is loading once
\* it watches nothing or has given up.
SelectedIsRun ==
  /\ watch.name # "Idle" => view.selected # NoChannel
  /\ watch.name \in {"Failed", "Idle"} => view.loading = 0
  /\ view.selected = Direct => direct_media = TRUE

ViewInv == ViewFields /\ AimIsOwn /\ SelectedIsRun /\ ViewerSeesWhatPlays

\* Nothing is chosen at the start, and nothing plays.
LEMMA ViewInvInit == ViewInit => ViewInv
<1> SUFFICES ASSUME ViewInit PROVE ViewInv
  OBVIOUS
<1>1. ViewFields
  BY DEF ViewInit, ViewFields, NoAim, ViewRecords, WatchRecords, AimRecords, EngineRecords
<1>2. AimIsOwn
  BY DEF ViewInit, AimIsOwn, NoAim
<1>3. SelectedIsRun
  BY DEF ViewInit, SelectedIsRun, NoChannel, Direct
<1>4. ViewerSeesWhatPlays
  BY DEF ViewInit, ViewerSeesWhatPlays
<1> QED BY <1>1, <1>2, <1>3, <1>4 DEF ViewInv

\* What a transition of the supervisor leaves of what the window says.
LEMMA ShownSound ==
  ASSUME NEW v \in ViewRecords, NEW before \in WatchRecords, NEW w \in WatchRecords,
         v.status = "Failed" => before.name = "Failed",
         before.name = "Failed" => w.name # "Opening" /\ w.name # "Recovering" /\ w.name # "Idle"
  PROVE  LET s == Shown(v, before, w)
         IN  /\ s \in ViewRecords /\ s.selected = v.selected /\ s.intent = v.intent
             /\ s.loading \in {0, v.loading}
             /\ v.loading = w.generation /\ w.name = "Playing" => s.loading = 0
             /\ v.loading = w.generation /\ w.name = "Failed" /\ before.name # "Failed" => s.loading = 0
             /\ s.status = "Failed" <=> w.name = "Failed"
<1> DEFINE arrived == v.loading = w.generation /\ w.name = "Playing"
           failed  == w.name = "Failed" /\ before.name # "Failed"
           loading == IF arrived \/ (failed /\ v.loading = w.generation) THEN 0 ELSE v.loading
           status  == CASE w.name = "Failed" -> "Failed"
                        [] w.name = "Playing" /\ before.name = "Failed" -> "Resumed"
                        [] OTHER -> IF arrived THEN "Playing" ELSE v.status
           s       == Shown(v, before, w)
<1>1. s = [v EXCEPT !.loading = loading, !.status = status]
  BY DEF Shown
<1>2. loading \in {0, v.loading} /\ loading \in Nat
  BY DEF ViewRecords
<1>3. /\ status \in {"Quiet", "Loading", "Playing", "Failed", "Resumed", "Stopped"}
      /\ status = "Failed" <=> w.name = "Failed"
  <2>1. CASE w.name = "Failed"
    BY <2>1
  <2>2. CASE w.name = "Playing" /\ before.name = "Failed"
    <3>1. w.name # "Failed"
      BY <2>2
    <3>2. status = "Resumed"
      BY <2>2, <3>1
    <3> QED BY <3>1, <3>2
  <2>3. CASE w.name # "Failed" /\ ~(w.name = "Playing" /\ before.name = "Failed")
    <3>1. status = IF arrived THEN "Playing" ELSE v.status
      BY <2>3
    <3>2. v.status # "Failed"
      BY <2>3 DEF WatchRecords
    <3> QED BY <2>3, <3>1, <3>2 DEF ViewRecords
  <2> QED BY <2>1, <2>2, <2>3
<1>4. /\ arrived => loading = 0
      /\ failed /\ v.loading = w.generation => loading = 0
  OBVIOUS
<1> HIDE DEF loading, status, s
<1>5. /\ s \in ViewRecords /\ s.selected = v.selected /\ s.intent = v.intent
      /\ s.loading = loading /\ s.status = status
  BY <1>1, <1>2, <1>3 DEF ViewRecords
<1> QED BY <1>2, <1>3, <1>4, <1>5 DEF s

\* A setback costs nothing but the name.
LEMMA SetbackSound ==
  ASSUME NEW w \in WatchRecords
  PROVE  /\ Setback(w) \in WatchRecords /\ Setback(w).generation = w.generation
         /\ Setback(w).name \in {"Recovering", "Failed"}
BY DEF Setback, WatchRecords

\* A choice of a source, whether it is accepted or refused.
LEMMA PlaySound ==
  ASSUME ViewInv, NEW source \in Sources, PlaySource(source),
         source \in listed \/ (source = Direct /\ direct_media = TRUE),
         UNCHANGED <<listed, direct_media>>
  PROVE  ViewInv'
<1> DEFINE g    == watch.generation + 1
           zap  == [name |-> "Opening", generation |-> g, left |-> Attempts]
           said == [selected |-> source, intent |-> "Running", loading |-> g, status |-> "Loading"]
<1> USE ViewingAssumption DEF ViewInv, ViewFields
<1>1. /\ g \in Nat /\ g # 0 /\ g # watch.generation /\ aim.generation < g
      /\ zap \in WatchRecords /\ said \in ViewRecords /\ source # NoChannel
  <2>1. watch.generation \in Nat /\ aim.generation \in Nat /\ aim.generation <= watch.generation
    BY DEF WatchRecords, AimIsOwn, AimRecords
  <2>2. g \in Nat /\ g # 0 /\ g # watch.generation /\ aim.generation < g
    BY <2>1
  <2>3. zap \in WatchRecords /\ said \in ViewRecords
    BY <2>2 DEF WatchRecords, ViewRecords
  <2>4. source # NoChannel
    BY DEF Sources, Direct, NoChannel
  <2> QED BY <2>2, <2>3, <2>4
<1>2. aim' = IF engine.up THEN [generation |-> g, source |-> source] ELSE aim
  BY DEF PlaySource
<1>3. CASE engine.up /\ engine' = [engine EXCEPT !.file = source] /\ watch' = zap /\ view' = said
  <2>1. /\ aim' \in AimRecords /\ aim'.generation = g /\ aim'.source = source
        /\ engine' \in EngineRecords /\ engine' = [up |-> TRUE, file |-> source]
    BY <1>1, <1>2, <1>3 DEF AimRecords, EngineRecords
  <2>2. ViewFields' /\ AimIsOwn' /\ SelectedIsRun'
    BY <1>1, <1>3, <2>1 DEF AimIsOwn, SelectedIsRun
  <2>3. ViewerSeesWhatPlays'
    BY <1>1, <1>3, <2>1 DEF ViewerSeesWhatPlays
  <2> QED BY <2>2, <2>3
<1>4. CASE UNCHANGED engine /\ watch' = Setback(zap) /\ view' = Shown(said, zap, Setback(zap))
  <2> DEFINE w == Setback(zap)
  <2>1. w \in WatchRecords /\ w.generation = g /\ w.name \in {"Recovering", "Failed"}
    BY <1>1, SetbackSound
  <2> HIDE DEF w
  <2>2. /\ view' \in ViewRecords /\ view'.selected = source /\ view'.intent = "Running"
        /\ view'.loading \in {0, g}
        /\ w.name = "Failed" => view'.loading = 0
        /\ view'.status = "Failed" <=> w.name = "Failed"
    <3>1. /\ said.status # "Failed" /\ zap.name # "Failed" /\ said.loading = g
          /\ said.selected = source /\ said.intent = "Running"
      OBVIOUS
    <3>2. view' = Shown(said, zap, w)
      BY <1>4 DEF w
    <3> HIDE DEF zap, said
    <3>3. LET s == Shown(said, zap, w)
          IN  /\ s \in ViewRecords /\ s.selected = said.selected /\ s.intent = said.intent
              /\ s.loading \in {0, said.loading}
              /\ said.loading = w.generation /\ w.name = "Failed" /\ zap.name # "Failed" => s.loading = 0
              /\ s.status = "Failed" <=> w.name = "Failed"
      BY <1>1, <2>1, <3>1, ShownSound
    <3> QED BY <2>1, <3>1, <3>2, <3>3
  <2>3. /\ aim' \in AimRecords /\ aim'.generation <= g
        /\ aim'.generation = g => aim'.source = source
        /\ aim'.generation # g => engine.file = NoChannel
    BY <1>1, <1>2 DEF AimRecords, AimIsOwn
  <2>4. watch' = w
    BY <1>4 DEF w
  <2>5. ViewFields' /\ AimIsOwn' /\ SelectedIsRun'
    BY <1>1, <1>4, <2>1, <2>2, <2>3, <2>4 DEF AimIsOwn, SelectedIsRun
  <2>6. ViewerSeesWhatPlays'
    BY <1>1, <1>4, <2>1, <2>2, <2>4 DEF ViewerSeesWhatPlays
  <2> QED BY <2>5, <2>6
<1> QED BY <1>3, <1>4 DEF PlaySource

\* A stop leaves the player without a target and without a file.
LEMMA StopSound ==
  ASSUME ViewInv, StopPlayer(watch.generation)
  PROVE  /\ aim' \in AimRecords /\ engine' \in EngineRecords /\ engine'.file = NoChannel
         /\ aim'.generation # watch.generation \/ watch.generation = 0
         /\ aim'.generation <= watch.generation
<1> USE DEF ViewInv, ViewFields, AimIsOwn
<1>1. CASE aim.generation = watch.generation /\ watch.generation # 0
  <2>1. aim' = NoAim /\ engine' = [engine EXCEPT !.file = NoChannel]
    BY <1>1 DEF StopPlayer
  <2>2. engine' = [up |-> engine.up, file |-> NoChannel]
    BY <2>1 DEF EngineRecords
  <2> QED BY <1>1, <2>1, <2>2 DEF NoAim, AimRecords, EngineRecords, WatchRecords
<1>2. CASE ~(aim.generation = watch.generation /\ watch.generation # 0)
  <2>1. UNCHANGED <<aim, engine>>
    BY <1>2 DEF StopPlayer
  <2>2. engine.file = NoChannel
    <3>1. CASE aim.generation # watch.generation
      BY <3>1
    <3>2. CASE watch.generation = 0
      BY <3>2 DEF ViewerSeesWhatPlays
    <3> QED BY <1>2, <3>1, <3>2
  <2> QED BY <1>2, <2>1, <2>2
<1> QED BY <1>1, <1>2

\* Stopping leaves what was chosen, and says Stopped of it
\* (App::stop_playback).
LEMMA StopPlaybackSound ==
  ASSUME ViewInv, StopPlayback PROVE ViewInv'
<1> USE DEF ViewInv, ViewFields
<1>1. /\ view.selected # NoChannel
      /\ watch' = Becomes("Idle") /\ UNCHANGED <<listed, direct_media>>
      /\ view' = [view EXCEPT !.intent = "StoppedByUser", !.loading = 0, !.status = "Stopped"]
      /\ StopPlayer(watch.generation)
  BY DEF StopPlayback
<1>2. watch' \in WatchRecords /\ watch'.name = "Idle" /\ watch'.generation = watch.generation
  BY <1>1 DEF Becomes, WatchRecords
<1>3. /\ view' \in ViewRecords /\ view'.selected = view.selected /\ view'.loading = 0
      /\ view'.intent = "StoppedByUser" /\ view'.status = "Stopped"
  BY <1>1 DEF ViewRecords
<1>4. ViewFields' /\ AimIsOwn' /\ SelectedIsRun'
  BY <1>1, <1>2, <1>3, StopSound DEF AimIsOwn, SelectedIsRun, NoChannel, Direct
<1>5. ViewerSeesWhatPlays'
  BY <1>1, <1>2, <1>3, StopSound DEF ViewerSeesWhatPlays
<1> QED BY <1>4, <1>5

\* Signing out leaves nothing chosen and nothing playing (App::sign_out).
LEMMA SignOutSound ==
  ASSUME ViewInv, SignOutViewer PROVE ViewInv'
<1> USE DEF ViewInv, ViewFields
<1>1. /\ watch' = (IF watch.name = "Idle" THEN watch ELSE Becomes("Idle"))
      /\ listed' = {} /\ direct_media' = direct_media
      /\ view' = [selected |-> NoChannel, intent |-> "StoppedByUser", loading |-> 0,
                  status |-> "Quiet"]
      /\ StopPlayer(watch.generation)
  BY DEF SignOutViewer
<1>2. watch' \in WatchRecords /\ watch'.name = "Idle" /\ watch'.generation = watch.generation
  BY <1>1 DEF Becomes, WatchRecords
<1>3. /\ view' \in ViewRecords /\ view'.selected = NoChannel /\ view'.loading = 0
      /\ view'.status = "Quiet"
  BY <1>1 DEF ViewRecords
<1>4. ViewFields' /\ AimIsOwn' /\ SelectedIsRun'
  BY <1>1, <1>2, <1>3, StopSound DEF AimIsOwn, SelectedIsRun, NoChannel, Direct
<1>5. ViewerSeesWhatPlays'
  BY <1>1, <1>2, <1>3, StopSound DEF ViewerSeesWhatPlays
<1> QED BY <1>4, <1>5

\* A sign-in finds nothing chosen, and says nothing of playback.
LEMMA SignInSound ==
  ASSUME ViewInv, SignIn PROVE ViewInv'
<1> USE DEF ViewInv, ViewFields
<1>1. /\ ~direct_media /\ direct_media' = direct_media
      /\ listed = {} /\ listed' \subseteq Channels
      /\ view' = [view EXCEPT !.status = "Quiet"] /\ UNCHANGED <<watch, aim, engine>>
  BY DEF SignIn
<1>2. /\ view' \in ViewRecords /\ view'.selected = view.selected /\ view'.loading = view.loading
      /\ view'.intent = view.intent /\ view'.status = "Quiet"
  BY <1>1 DEF ViewRecords
<1>3. view.selected = NoChannel /\ watch.name = "Idle"
  BY <1>1 DEF ViewerSeesWhatPlays, SelectedIsRun
<1>4. ViewFields' /\ AimIsOwn' /\ SelectedIsRun'
  BY <1>1, <1>2 DEF AimIsOwn, SelectedIsRun
<1>5. ViewerSeesWhatPlays'
  BY <1>1, <1>2, <1>3 DEF ViewerSeesWhatPlays
<1> QED BY <1>4, <1>5

\* A transition of the supervisor on the current channel, with what libmpv was
\* told to play.
LEMMA ShowsSound ==
  ASSUME ViewInv, NEW w \in WatchRecords, Shows(w), w.generation = watch.generation,
         watch.name # "Idle", w.name # "Idle",
         watch.name = "Failed" => w.name = "Playing",
         w.name \in {"Opening", "Playing"} => engine' = [up |-> TRUE, file |-> view.selected],
         engine' \in EngineRecords, engine'.file # NoChannel => engine'.up = TRUE,
         aim.generation # watch.generation => engine'.file = NoChannel,
         UNCHANGED <<aim, listed, direct_media>>
  PROVE  ViewInv'
<1> USE DEF ViewInv, ViewFields
<1>1. watch' = w /\ view' = Shown(view, watch, w)
  BY DEF Shows
<1>2. /\ view.status = "Failed" => watch.name = "Failed"
      /\ watch.name = "Failed" => w.name # "Opening" /\ w.name # "Recovering" /\ w.name # "Idle"
  BY DEF ViewerSeesWhatPlays
<1>3. LET s == Shown(view, watch, w)
      IN  /\ s \in ViewRecords /\ s.selected = view.selected /\ s.intent = view.intent
          /\ s.loading \in {0, view.loading}
          /\ view.loading = w.generation /\ w.name = "Playing" => s.loading = 0
          /\ view.loading = w.generation /\ w.name = "Failed" /\ watch.name # "Failed" => s.loading = 0
          /\ s.status = "Failed" <=> w.name = "Failed"
  BY <1>2, ShownSound
<1>4. ViewFields' /\ AimIsOwn' /\ SelectedIsRun'
  BY <1>1, <1>3 DEF AimIsOwn, SelectedIsRun, ViewerSeesWhatPlays, WatchRecords
<1>5. ViewerSeesWhatPlays'
  BY <1>1, <1>3 DEF ViewerSeesWhatPlays, SelectedIsRun, WatchRecords
<1> QED BY <1>4, <1>5

\* A first frame is of what was chosen, because only the load of the current
\* generation is heard.
LEMMA FirstFrameSound ==
  ASSUME ViewInv, FirstFrameShown PROVE ViewInv'
<1> USE DEF ViewInv, ViewFields
<1>1. /\ watch.name \in {"Opening", "Recovering", "Failed"}
      /\ aim.generation = watch.generation /\ engine.up /\ engine.file = aim.source
      /\ Shows(Becomes("Playing")) /\ UNCHANGED <<aim, engine, listed, direct_media>>
  BY DEF FirstFrameShown, Heard, StreamOnly
<1>2. /\ Becomes("Playing") \in WatchRecords /\ Becomes("Playing").name = "Playing"
      /\ Becomes("Playing").generation = watch.generation
  BY DEF Becomes, WatchRecords
<1>3. engine = [up |-> TRUE, file |-> view.selected]
  <2>1. watch.generation # 0
    BY <1>1 DEF AimIsOwn
  <2>2. engine.file = view.selected /\ engine.up = TRUE
    BY <1>1, <2>1 DEF AimIsOwn
  <2> QED BY <2>2 DEF EngineRecords
<1> HIDE DEF ViewInv, ViewFields
<1>4. engine \in EngineRecords /\ (engine.file # NoChannel => engine.up = TRUE)
  BY DEF ViewInv, ViewFields, AimIsOwn
<1> QED BY <1>1, <1>2, <1>3, <1>4, ShowsSound DEF ViewInv, ViewFields

\* A stream that fails is recovered or given up, and the window is told which.
LEMMA StreamFailsSound ==
  ASSUME ViewInv, StreamFails PROVE ViewInv'
<1>1. /\ watch.name \in {"Opening", "Playing"} /\ aim.generation = watch.generation
      /\ Shows(Setback(watch)) /\ UNCHANGED <<aim, engine, listed, direct_media>>
  BY DEF StreamFails, Heard, StreamOnly
<1>2. /\ watch \in WatchRecords /\ engine \in EngineRecords
      /\ engine.file # NoChannel => engine.up = TRUE
  BY DEF ViewInv, ViewFields, AimIsOwn
<1>3. /\ Setback(watch) \in WatchRecords /\ Setback(watch).generation = watch.generation
      /\ Setback(watch).name \in {"Recovering", "Failed"}
  BY <1>2, SetbackSound, Zenon
<1> DEFINE w == Setback(watch)
<1>4. /\ w \in WatchRecords /\ w.generation = watch.generation
      /\ w.name \in {"Recovering", "Failed"} /\ Shows(w)
  BY <1>1, <1>3
<1> HIDE DEF w
<1>5. /\ engine' \in EngineRecords /\ (engine'.file # NoChannel => engine'.up = TRUE)
      /\ aim.generation # watch.generation => engine'.file = NoChannel
  BY <1>1, <1>2
<1>6. /\ watch.name # "Idle" /\ watch.name # "Failed" /\ w.name # "Idle"
      /\ watch.name = "Failed" => w.name = "Playing"
      /\ w.name \in {"Opening", "Playing"} => engine' = [up |-> TRUE, file |-> view.selected]
  BY <1>1, <1>4
<1>7. UNCHANGED <<aim, listed, direct_media>>
  BY <1>1
<1> QED BY <1>4, <1>5, <1>6, <1>7, ShowsSound

\* A recovery that issued its load, for the target of the generation.
LEMMA IssuedSound ==
  ASSUME ViewInv, watch.name = "Recovering", TargetIsCurrent,
         engine' = [up |-> TRUE, file |-> aim.source],
         Outcome([watch EXCEPT !.left = @ - 1], TRUE),
         UNCHANGED <<aim, listed, direct_media>>
  PROVE  ViewInv'
<1> DEFINE spent == [watch EXCEPT !.left = @ - 1]
           w == [spent EXCEPT !.name = "Opening"]
<1> USE DEF ViewInv, ViewFields
<1>1. Shows(w)
  BY DEF Outcome
<1>2. w \in WatchRecords /\ w.generation = watch.generation /\ w.name = "Opening"
  <2>1. watch = [name |-> watch.name, generation |-> watch.generation, left |-> watch.left]
        /\ watch.generation \in Nat /\ watch.left \in Int
    BY DEF WatchRecords
  <2> HIDE DEF ViewInv, ViewFields
  <2>2. w = [name |-> "Opening", generation |-> watch.generation, left |-> watch.left - 1]
    <3>1. spent = [name |-> watch.name, generation |-> watch.generation, left |-> watch.left - 1]
      BY <2>1
    <3> HIDE DEF spent
    <3> QED BY <3>1
  <2> QED BY <2>1, <2>2 DEF WatchRecords
<1>3. aim.source = view.selected /\ aim.source \in Sources \cup {NoChannel}
      /\ aim.generation = watch.generation
  BY DEF TargetIsCurrent, AimIsOwn, AimRecords
<1>4. engine' \in EngineRecords /\ engine'.up = TRUE /\ engine' = [up |-> TRUE, file |-> view.selected]
  BY <1>3 DEF EngineRecords
<1> HIDE DEF ViewInv, ViewFields, w
<1> QED BY <1>1, <1>2, <1>3, <1>4, ShowsSound

\* A recovery that issued no load.
LEMMA NotIssuedSound ==
  ASSUME ViewInv, watch.name = "Recovering",
         Outcome([watch EXCEPT !.left = @ - 1], FALSE),
         engine' = engine \/ engine' \in [up : BOOLEAN, file : {NoChannel}],
         UNCHANGED <<aim, listed, direct_media>>
  PROVE  ViewInv'
<1> DEFINE spent == [watch EXCEPT !.left = @ - 1]
           w == Setback(spent)
<1> USE DEF ViewInv, ViewFields
<1>1. Shows(w)
  BY DEF Outcome
<1>2. spent \in WatchRecords /\ spent.generation = watch.generation
  BY DEF WatchRecords
<1> HIDE DEF spent
<1>3. w \in WatchRecords /\ w.generation = watch.generation /\ w.name \in {"Recovering", "Failed"}
  BY <1>2, SetbackSound
<1>4. /\ engine' \in EngineRecords /\ (engine'.file # NoChannel => engine'.up = TRUE)
      /\ aim.generation # watch.generation => engine'.file = NoChannel
  BY DEF EngineRecords, AimIsOwn
<1> HIDE DEF ViewInv, ViewFields, w
<1>5. /\ watch.name # "Idle" /\ watch.name # "Failed" /\ w.name # "Idle"
      /\ watch.name = "Failed" => w.name = "Playing"
      /\ w.name \in {"Opening", "Playing"} => engine' = [up |-> TRUE, file |-> view.selected]
  BY <1>3
<1>6. UNCHANGED <<aim, listed, direct_media>>
  OBVIOUS
<1> QED BY <1>1, <1>3, <1>4, <1>5, <1>6, ShowsSound

\* A recovery that issues the load again plays what was chosen; one that cannot
\* leaves the player without a file, or is the end.
LEMMA RecoverySound ==
  ASSUME ViewInv, ReopenCurrent \/ RecreatePlayer PROVE ViewInv'
<1> DEFINE spent == [watch EXCEPT !.left = @ - 1]
<1>1. watch.name = "Recovering" /\ UNCHANGED <<aim, listed, direct_media>>
  BY DEF ReopenCurrent, RecreatePlayer, StreamOnly
<1>2. \/ /\ TargetIsCurrent /\ engine' = [up |-> TRUE, file |-> aim.source] /\ Outcome(spent, TRUE)
      \/ /\ engine' = engine \/ engine' \in [up : BOOLEAN, file : {NoChannel}]
         /\ Outcome(spent, FALSE)
  <2>1. CASE ReopenCurrent
    <3>1. engine.up => [engine EXCEPT !.file = aim.source] = [up |-> TRUE, file |-> aim.source]
      <4>1. engine \in EngineRecords
        BY DEF ViewInv, ViewFields
      <4>2. ASSUME engine.up PROVE engine.up = TRUE
        BY <4>1, <4>2 DEF EngineRecords
      <4>3. [engine EXCEPT !.file = aim.source] = [up |-> engine.up, file |-> aim.source]
        BY <4>1 DEF EngineRecords
      <4> QED BY <4>2, <4>3
    <3> QED BY <2>1, <3>1 DEF ReopenCurrent
  <2>2. CASE RecreatePlayer
    BY <2>2 DEF RecreatePlayer
  <2> QED BY <2>1, <2>2
<1> QED BY <1>1, <1>2, IssuedSound, NotIssuedSound

\* Every step of the viewer, the supervisor and the stream keeps what the
\* window says true.
LEMMA ViewInvStep == ViewInv /\ [ViewNext]_viewVars => ViewInv'
<1> SUFFICES ASSUME ViewInv, [ViewNext]_viewVars PROVE ViewInv'
  OBVIOUS
<1>1. ASSUME NEW c \in Channels, ChooseChannel(c) PROVE ViewInv'
  BY <1>1, PlaySound DEF ChooseChannel, Sources
<1>2. CASE PlayDirect
  BY <1>2, PlaySound DEF PlayDirect, Sources
<1>3. CASE StartPlayback
  <2>1. view.selected \in Sources
    BY <1>3 DEF StartPlayback, ViewInv, ViewFields, ViewRecords
  <2> QED BY <1>3, <2>1, PlaySound DEF StartPlayback
<1>4. CASE UNCHANGED viewVars
  <2> USE <1>4 DEF viewVars, ViewInv
  <2>1. ViewFields' /\ AimIsOwn' /\ SelectedIsRun'
    BY DEF ViewFields, AimIsOwn, SelectedIsRun
  <2>2. ViewerSeesWhatPlays'
    BY DEF ViewerSeesWhatPlays
  <2> QED BY <2>1, <2>2
<1> QED
  BY <1>1, <1>2, <1>3, <1>4, StopPlaybackSound, SignInSound, SignOutSound, FirstFrameSound,
     StreamFailsSound, RecoverySound DEF ViewNext

\* For any channels and any number of attempts: what the window says of
\* playback is what the supervisor knows, what plays is what was chosen, and
\* nothing loads for ever once it is over (app.cpp 604-770,
\* player/playback_control.hpp).
THEOREM ViewerIsToldTheTruth == ViewSpec => []ViewerSeesWhatPlays
<1>1. ViewInv => ViewerSeesWhatPlays
  BY DEF ViewInv
<1> QED BY <1>1, ViewInvInit, ViewInvStep, PTL DEF ViewSpec

\* What is loading has been chosen, and a file needs a backend that is up.
LEMMA ViewIsTyped == ViewSpec => []ViewTypeOK
<1> DEFINE Chosen == watch.generation <= MaxPlays
<1>1. ViewInit => Chosen
  BY ViewingAssumption DEF ViewInit
<1>2. ViewInv /\ Chosen /\ [ViewNext]_viewVars => Chosen'
  <2> SUFFICES ASSUME ViewInv, Chosen, [ViewNext]_viewVars PROVE Chosen'
    OBVIOUS
  <2> USE ViewingAssumption DEF ViewInv, ViewFields, WatchRecords
  <2>1. ASSUME NEW source, PlaySource(source) PROVE Chosen'
    <3>1. watch'.generation = watch.generation + 1 /\ watch.generation + 1 <= MaxPlays
      BY <2>1 DEF PlaySource, Setback
    <3> QED BY <3>1
  <2>2. ASSUME NEW w, NEW name, watch' = w, w.generation = watch.generation PROVE Chosen'
    BY <2>2
  <2>3. \A name : Becomes(name).generation = watch.generation
    BY DEF Becomes
  <2>4. \A w : w \in WatchRecords => Setback(w).generation = w.generation
    BY DEF Setback
  <2>5. CASE UNCHANGED viewVars \/ SignIn
    BY <2>5 DEF viewVars, SignIn
  <2>6. CASE \E c \in Channels : ChooseChannel(c)
    BY <2>1, <2>6 DEF ChooseChannel
  <2>7. CASE PlayDirect \/ StartPlayback
    BY <2>1, <2>7 DEF PlayDirect, StartPlayback
  <2>8. CASE StopPlayback \/ SignOutViewer \/ FirstFrameShown
    BY <2>3, <2>8 DEF StopPlayback, SignOutViewer, FirstFrameShown, Shows
  <2>9. CASE StreamFails
    BY <2>4, <2>9 DEF StreamFails, Shows
  <2>10. CASE ReopenCurrent \/ RecreatePlayer
    <3> DEFINE spent == [watch EXCEPT !.left = @ - 1]
    <3>1. spent \in WatchRecords /\ spent.generation = watch.generation
      OBVIOUS
    <3>2. \E issued \in BOOLEAN : Outcome(spent, issued)
      BY <2>10 DEF ReopenCurrent, RecreatePlayer
    <3> HIDE DEF spent
    <3>3. PICK issued \in BOOLEAN : watch' = IF issued THEN [spent EXCEPT !.name = "Opening"] ELSE Setback(spent)
      BY <3>2 DEF Outcome, Shows
    <3>4. [spent EXCEPT !.name = "Opening"].generation = watch.generation
          /\ Setback(spent).generation = watch.generation
      BY <2>4, <3>1
    <3>5. watch'.generation = watch.generation
      BY <3>3, <3>4
    <3> QED BY <3>5
  <2> QED BY <2>5, <2>6, <2>7, <2>8, <2>9, <2>10 DEF ViewNext
<1>3. ViewInv /\ Chosen => ViewTypeOK
  BY ViewingAssumption DEF ViewInv, ViewFields, AimIsOwn, SelectedIsRun, ViewerSeesWhatPlays, ViewRecords, WatchRecords,
     AimRecords, EngineRecords, ViewTypeOK
<1> QED BY <1>1, <1>2, <1>3, ViewInvInit, ViewInvStep, PTL DEF ViewSpec

-----------------------------------------------------------------------------
(* The numbers of targets (player/session_target_registry.cpp)             *)

\* What the registry numbers under its present name, no two channels alike.
RegistryInv ==
  /\ registry \in [provider : Nat, next : Nat, sessions : [Channels -> Nat]]
  /\ listed \subseteq Channels /\ (listed # {} => registry.provider # 0)
  /\ \A c \in Channels : registry.sessions[c] <= registry.next
  /\ \A c, d \in Channels :
       registry.sessions[c] = registry.sessions[d] /\ registry.sessions[c] # 0 => c = d

\* The correlation of a load, and whether the viewer started it.
NamedRecords ==
  [provider : Nat, session : Nat, source : Sources, load : Nat, started : BOOLEAN]

\* What has been named so far, of direct media or under a name that was given.
NamedInv ==
  /\ named \subseteq NamedRecords
  /\ \A x \in named :
       /\ x.provider <= registry.provider /\ x.load <= watch.generation
       /\ x.provider = 0 => x.source = Direct /\ x.session = x.load /\ x.started
       /\ x.provider = registry.provider /\ x.provider # 0 =>
            /\ x.source \in Channels /\ x.session # 0 /\ x.session <= registry.next
            /\ \A c \in Channels : x.session = registry.sessions[c] => x.source = c

\* What was named last of a channel, under the present name, has the number
\* that the registry keeps.
LatestKept ==
  \A x \in named :
    x.provider = registry.provider /\ x.provider # 0 =>
      /\ registry.sessions[x.source] # 0
      /\ ~StartedSince(x, watch.generation) => x.session = registry.sessions[x.source]

TargetsInv ==
  /\ RegistryInv /\ NamedInv /\ LatestKept /\ CorrelationNamesOneChannel
  /\ watch \in [name : {"Idle", "Opening", "Recovering", "Playing", "Failed"},
                generation : Nat, left : Int]

\* No target has been told at the start.
LEMMA TargetsInvInit == ViewInit => TargetsInv
<1> SUFFICES ASSUME ViewInit PROVE TargetsInv
  OBVIOUS
<1> USE ViewingAssumption DEF ViewInit
<1>1. RegistryInv
  BY DEF RegistryInv
<1>2. NamedInv /\ LatestKept /\ CorrelationNamesOneChannel
  BY DEF NamedInv, LatestKept, CorrelationNamesOneChannel
<1> QED BY <1>1, <1>2 DEF TargetsInv

\* While the loads go on, what is named is in order until more is.
LEMMA NamedStays ==
  ASSUME NamedInv, LatestKept, CorrelationNamesOneChannel, watch.generation \in Nat,
         UNCHANGED <<registry, named>>, watch'.generation = watch.generation
  PROVE  NamedInv' /\ LatestKept' /\ CorrelationNamesOneChannel'
<1>1. NamedInv' /\ LatestKept'
  BY DEF NamedInv, LatestKept, StartedSince
<1>2. CorrelationNamesOneChannel'
  BY DEF CorrelationNamesOneChannel, StartedSince
<1> QED BY <1>1, <1>2

\* A correlation of the load that is issued now, which is the latest: what it
\* needs to be in order is about the earlier ones alone.
LEMMA NamedAnew ==
  ASSUME NamedInv, CorrelationNamesOneChannel, watch.generation \in Nat,
         NEW new \in NamedRecords, named' = named \cup {new},
         new.load = watch.generation + 1,
         ASSUME NEW x \in named, x.provider = new.provider
         PROVE  /\ x.session = new.session => x.source = new.source /\ ~new.started
                /\ x.source = new.source =>
                     new.started \/ x.session = new.session
                     \/ StartedSince(x, watch.generation)
  PROVE  CorrelationNamesOneChannel'
<1>1. ASSUME NEW x \in named' PROVE x \in named \/ x = new
  OBVIOUS
<1>2. ASSUME NEW x \in named PROVE x \in named' /\ x.load \in Nat /\ x.load <= watch.generation
  BY DEF NamedInv, NamedRecords
<1>3. ASSUME NEW x \in named, NEW n \in Nat, StartedSince(x, n) PROVE StartedSince(x, n)'
  BY <1>3 DEF StartedSince
<1>4. ASSUME NEW x \in named, StartedSince(x, watch.generation)
      PROVE  StartedSince(x, new.load)'
  <2>1. PICK z \in named : /\ z.started /\ x.load < z.load /\ z.load <= watch.generation
                           /\ z.provider = x.provider /\ z.source = x.source
    BY <1>4 DEF StartedSince
  <2>2. z.load <= new.load
    BY <1>2, <2>1
  <2> QED BY <2>1, <2>2, <1>2 DEF StartedSince
<1>5. new \in named' /\ new.load \in Nat
  BY DEF NamedRecords
<1> SUFFICES ASSUME NEW x \in named', NEW y \in named', x.provider = y.provider
             PROVE  /\ x.session = y.session => x.source = y.source /\ (y.started => x.load >= y.load)
                    /\ x.source = y.source /\ x.load < y.load /\ ~StartedSince(x, y.load)' =>
                         x.session = y.session
  BY DEF CorrelationNamesOneChannel, StartedSince
<1>6. CASE x \in named /\ y \in named
  <2>1. y.load \in Nat
    BY <1>2, <1>6
  <2>2. StartedSince(x, y.load) => StartedSince(x, y.load)'
    BY <1>3, <1>6, <2>1
  <2> QED BY <1>6, <2>2 DEF CorrelationNamesOneChannel
<1>7. CASE x \in named /\ y = new
  <2>1. /\ x.session = y.session => x.source = y.source /\ ~y.started
        /\ x.source = y.source =>
             y.started \/ x.session = y.session \/ StartedSince(x, watch.generation)
    BY <1>7
  <2>2. x.load < new.load
    BY <1>2, <1>7
  <2>3. y.started /\ x.source = y.source => StartedSince(x, y.load)'
    BY <1>5, <1>7, <2>2 DEF StartedSince
  <2>4. StartedSince(x, watch.generation) => StartedSince(x, y.load)'
    BY <1>4, <1>7
  <2> QED BY <2>1, <2>3, <2>4
<1>8. CASE x = new /\ y \in named
  <2>1. x.load \in Nat /\ y.load \in Nat /\ y.load < x.load
    BY <1>2, <1>5, <1>8
  <2>2. y.session = x.session => y.source = x.source
    BY <1>8
  <2> QED BY <2>1, <2>2
<1>9. CASE x = new /\ y = new
  BY <1>5, <1>9
<1> QED BY <1>1, <1>6, <1>7, <1>8, <1>9

\* A load is named as its channel is in the registry.
LEMMA CorrelateSound ==
  ASSUME RegistryInv, NamedInv, LatestKept, CorrelationNamesOneChannel, RegistryInv',
         watch.generation \in Nat, watch'.generation = watch.generation + 1,
         NEW c \in Channels, NEW r, NEW started \in BOOLEAN,
         Correlates(r, c, started), listed # {},
         \/ r = registry /\ registry.sessions[c] # 0 /\ ~started
         \/ r = Renumbered(registry, c) /\ (started \/ registry.sessions[c] = 0)
  PROVE  NamedInv' /\ LatestKept' /\ CorrelationNamesOneChannel'
<1> DEFINE new == Correlation(r.provider, r.sessions[c], c, started)
<1>1. registry' = r /\ named' = named \cup {new}
  BY DEF Correlates
<1>2. /\ r.provider = registry.provider /\ r.provider # 0 /\ r.provider \in Nat
      /\ r.next \in Nat /\ r.sessions \in [Channels -> Nat]
      /\ r.sessions[c] # 0 /\ r.sessions[c] <= r.next
      /\ registry.next <= r.next
      /\ \A d \in Channels : d # c => r.sessions[d] = registry.sessions[d]
      /\ r = registry \/ r.sessions[c] = registry.next + 1
  <2>1. /\ registry.provider \in Nat /\ registry.provider # 0 /\ registry.next \in Nat
        /\ registry.sessions \in [Channels -> Nat] /\ registry.sessions[c] <= registry.next
    BY DEF RegistryInv
  <2>2. CASE r = Renumbered(registry, c)
    <3>1. r = [provider |-> registry.provider, next |-> registry.next + 1,
               sessions |-> [registry.sessions EXCEPT ![c] = registry.next + 1]]
      BY <2>2 DEF Renumbered, RegistryInv
    <3> QED BY <2>1, <3>1
  <2> QED BY <2>1, <2>2
<1>3. ASSUME NEW x \in named, x.provider = r.provider
      PROVE  /\ x.session = r.sessions[c] => x.source = c /\ ~started
             /\ x.source \in Channels /\ x.session # 0 /\ x.session <= r.next
             /\ \A d \in Channels : x.session = r.sessions[d] => x.source = d
  <2>1. /\ x.session \in Nat /\ x.session # 0 /\ x.session <= registry.next
        /\ x.source \in Channels
        /\ \A d \in Channels : x.session = registry.sessions[d] => x.source = d
    BY <1>2, <1>3 DEF NamedInv, NamedRecords
  <2>2. CASE r = registry /\ ~started
    BY <2>1, <2>2, <1>2
  <2>3. CASE r = Renumbered(registry, c)
    <3>1. /\ r.next = registry.next + 1 /\ r.sessions[c] = registry.next + 1
          /\ registry.next \in Nat
      BY <2>3 DEF Renumbered, RegistryInv
    <3> QED BY <2>1, <3>1, <1>2
  <2>4. r = registry => ~started \/ r = Renumbered(registry, c)
    OBVIOUS
  <2> QED BY <2>2, <2>3, <2>4
<1>4. /\ new \in NamedRecords /\ new.load = watch.generation + 1 /\ new.started = started
      /\ new.provider = r.provider /\ new.session = r.sessions[c] /\ new.source = c
  BY <1>2 DEF Sources, NamedRecords, Correlation
<1> HIDE DEF new
<1>5. ASSUME NEW x \in named, x.provider = r.provider
      PROVE  /\ registry.sessions[x.source] # 0
             /\ ~StartedSince(x, watch.generation) => x.session = registry.sessions[x.source]
  BY <1>2, <1>5 DEF LatestKept
<1>6. NamedInv'
  <2>1. named' \subseteq NamedRecords
    BY <1>1, <1>4 DEF NamedInv
  <2>2. ASSUME NEW x \in named'
        PROVE  /\ x.provider <= registry'.provider /\ x.load <= watch'.generation
               /\ x.provider = 0 => x.source = Direct /\ x.session = x.load /\ x.started
               /\ x.provider = registry'.provider /\ x.provider # 0 =>
                    /\ x.source \in Channels /\ x.session # 0 /\ x.session <= registry'.next
                    /\ \A d \in Channels : x.session = registry'.sessions[d] => x.source = d
    <3>1. CASE x \in named
      <4>1. /\ x.provider <= registry.provider /\ x.load <= watch.generation /\ x.load \in Nat
            /\ x.provider = 0 => x.source = Direct /\ x.session = x.load /\ x.started
        BY <3>1 DEF NamedInv, NamedRecords
      <4>2. x.load <= watch'.generation
        BY <4>1
      <4> QED BY <3>1, <4>1, <4>2, <1>1, <1>2, <1>3
    <3>2. CASE x = new
      <4>1. \A d \in Channels : r.sessions[c] = r.sessions[d] => c = d
        BY <1>1, <1>2 DEF RegistryInv
      <4> QED BY <3>2, <4>1, <1>1, <1>2, <1>4
    <3> QED BY <1>1, <3>1, <3>2
  <2> QED BY <2>1, <2>2 DEF NamedInv
<1>7. LatestKept'
  <2>1. SUFFICES ASSUME NEW x \in named', x.provider = r.provider
                 PROVE  /\ r.sessions[x.source] # 0
                        /\ ~StartedSince(x, watch.generation)' =>
                             x.session = r.sessions[x.source]
    BY <1>1 DEF LatestKept, StartedSince
  <2>2. CASE x = new
    BY <2>2, <1>2, <1>4
  <2>3. CASE x \in named
    <3>1. StartedSince(x, watch.generation) => StartedSince(x, watch.generation)'
      <4>1. \A z \in named : z.load \in Nat /\ z.load <= watch'.generation
        BY DEF NamedInv, NamedRecords
      <4> QED BY <1>1, <4>1 DEF StartedSince
    <3>2. /\ x.source \in Channels /\ registry.sessions[x.source] # 0
          /\ ~StartedSince(x, watch.generation) => x.session = registry.sessions[x.source]
      BY <1>3, <1>5, <2>1, <2>3
    <3>3. CASE x.source # c \/ r = registry
      <4>1. r.sessions[x.source] = registry.sessions[x.source]
        BY <1>2, <3>2, <3>3
      <4> QED BY <3>1, <3>2, <4>1
    <3>4. CASE x.source = c /\ r # registry
      <4>1. started
        BY <3>2, <3>4
      <4>2. new \in named' /\ x.load < new.load /\ new.load <= watch'.generation
        BY <1>1, <1>4, <2>3 DEF NamedInv, NamedRecords
      <4>3. StartedSince(x, watch.generation)'
        BY <1>4, <2>1, <3>4, <4>1, <4>2 DEF StartedSince
      <4> QED BY <1>2, <3>4, <4>3
    <3> QED BY <3>3, <3>4
  <2> QED BY <1>1, <2>2, <2>3
<1>8. ASSUME NEW x \in named, x.provider = new.provider
      PROVE  /\ x.session = new.session => x.source = new.source /\ ~new.started
             /\ x.source = new.source =>
                  new.started \/ x.session = new.session
                  \/ StartedSince(x, watch.generation)
  <2>1. x.provider = r.provider
    BY <1>4, <1>8
  <2>2. x.session = new.session => x.source = new.source /\ ~new.started
    BY <1>3, <1>4, <2>1
  <2>3. x.source = c /\ ~started => r = registry
    BY <1>5, <2>1
  <2>4. x.source = new.source =>
          new.started \/ x.session = new.session \/ StartedSince(x, watch.generation)
    BY <1>4, <1>5, <2>1, <2>3
  <2> QED BY <2>2, <2>4
<1>9. CorrelationNamesOneChannel'
  BY <1>1, <1>4, <1>8, NamedAnew
<1> QED BY <1>6, <1>7, <1>9

\* A channel that is numbered anew gets a number of its own.
LEMMA RenumberedSound ==
  ASSUME RegistryInv, NEW c \in Channels, registry' = Renumbered(registry, c), listed' = listed
  PROVE  RegistryInv'
<1> DEFINE r == registry'
<1>1. /\ registry.provider \in Nat /\ registry.next \in Nat
      /\ registry.sessions \in [Channels -> Nat]
  BY DEF RegistryInv
<1>2. /\ r \in [provider : Nat, next : Nat, sessions : [Channels -> Nat]]
      /\ r.provider = registry.provider /\ r.next = registry.next + 1
      /\ \A d \in Channels :
           r.sessions[d] = IF d = c THEN registry.next + 1 ELSE registry.sessions[d]
  <2>1. r = [provider |-> registry.provider, next |-> registry.next + 1,
             sessions |-> [registry.sessions EXCEPT ![c] = registry.next + 1]]
    BY DEF Renumbered, RegistryInv
  <2> HIDE DEF r
  <2> QED BY <1>1, <2>1
<1> HIDE DEF r
<1>3. \A d \in Channels : registry.sessions[d] <= registry.next /\ registry.sessions[d] \in Nat
  BY <1>1 DEF RegistryInv
<1>4. listed' \subseteq Channels /\ (listed' # {} => r.provider # 0)
  BY <1>2 DEF RegistryInv
<1>5. \A d \in Channels : r.sessions[d] <= r.next
  BY <1>1, <1>2, <1>3
<1>6. \A d, e \in Channels : r.sessions[d] = r.sessions[e] /\ r.sessions[d] # 0 => d = e
  BY <1>1, <1>2, <1>3 DEF RegistryInv
<1> QED BY <1>2, <1>4, <1>5, <1>6 DEF r, RegistryInv

\* What an action makes of the supervisor is a state of it again.
LEMMA WatchKept ==
  ASSUME TargetsInv, ViewNext
  PROVE  watch' \in [name : {"Idle", "Opening", "Recovering", "Playing", "Failed"},
                     generation : Nat, left : Int]
<1> USE ViewingAssumption
<1> DEFINE W == [name : {"Idle", "Opening", "Recovering", "Playing", "Failed"},
                 generation : Nat, left : Int]
<1>1. watch \in W /\ [watch EXCEPT !.left = @ - 1] \in W
  BY DEF TargetsInv
<1>2. \A w \in W : \A n \in {"Idle", "Opening", "Recovering", "Playing", "Failed"} :
        [w EXCEPT !.name = n] \in W
  OBVIOUS
<1>3. ASSUME NEW source, PlaySource(source) PROVE watch' \in W
  <2> DEFINE zap == [name |-> "Opening", generation |-> watch.generation + 1, left |-> Attempts]
  <2>1. zap \in W
    BY <1>1
  <2>2. watch' \in {zap, Setback(zap)}
    BY <1>3 DEF PlaySource
  <2> HIDE DEF zap, W
  <2> QED BY <1>2, <2>1, <2>2 DEF Setback
<1> HIDE DEF W
<1>4. \A issued \in BOOLEAN :
        Outcome([watch EXCEPT !.left = @ - 1], issued) => watch' \in W
  BY <1>1, <1>2 DEF Outcome, Shows, Setback
<1>5. \/ \E source : PlaySource(source)
      \/ watch' \in {watch, Setback(watch)}
      \/ watch' \in {Becomes(n) : n \in {"Idle", "Playing"}}
      \/ \E issued \in BOOLEAN : Outcome([watch EXCEPT !.left = @ - 1], issued)
  BY DEF ViewNext, ChooseChannel, PlayDirect, StartPlayback, StopPlayback, SignIn, SignOutViewer,
     FirstFrameShown, StreamFails, ReopenCurrent, RecreatePlayer, Shows
<1>6. \A n \in {"Idle", "Playing"} : Becomes(n) \in W
  BY <1>1, <1>2 DEF Becomes
<1>7. Setback(watch) \in W
  BY <1>1, <1>2 DEF Setback
<1>8. watch' \in W
  BY <1>1, <1>3, <1>4, <1>5, <1>6, <1>7
<1> QED BY <1>8 DEF W

\* A channel is played under the next generation.
LEMMA Generations ==
  ASSUME NEW source, PlaySource(source)
  PROVE  watch'.generation = watch.generation + 1
<1> DEFINE zap == [name |-> "Opening", generation |-> watch.generation + 1, left |-> Attempts]
<1>1. watch' \in {zap, Setback(zap)}
  BY DEF PlaySource
<1>2. Setback(zap).generation = watch.generation + 1 /\ zap.generation = watch.generation + 1
  BY DEF Setback
<1> QED BY <1>1, <1>2

\* Every step that tells a target tells one that the channel may have.
LEMMA TargetsInvStep == TargetsInv /\ [ViewNext]_viewVars => TargetsInv'
<1> SUFFICES ASSUME TargetsInv, [ViewNext]_viewVars PROVE TargetsInv'
  OBVIOUS
<1> USE DEF TargetsInv
<1>0. watch.generation \in Nat
  OBVIOUS
<1>1. ASSUME NEW c \in Channels, ChooseChannel(c) PROVE TargetsInv'
  <2> DEFINE r == IF registry.sessions[c] = 0 THEN Renumbered(registry, c) ELSE registry
  <2>1. /\ Correlates(r, c, FALSE) /\ listed # {} /\ listed' = listed /\ PlaySource(c)
    BY <1>1 DEF ChooseChannel, IdentifyChannel
  <2>2. RegistryInv'
    <3>1. CASE registry.sessions[c] = 0
      BY <2>1, <3>1, RenumberedSound DEF Correlates
    <3>2. CASE registry.sessions[c] # 0
      BY <2>1, <3>2 DEF Correlates, RegistryInv
    <3> QED BY <3>1, <3>2
  <2>3. \/ r = registry /\ registry.sessions[c] # 0
        \/ r = Renumbered(registry, c) /\ registry.sessions[c] = 0
    OBVIOUS
  <2>4. ViewNext
    BY <1>1 DEF ViewNext
  <2>5. watch'.generation = watch.generation + 1
    BY <2>1, Generations
  <2> HIDE DEF r
  <2>6. NamedInv' /\ LatestKept' /\ CorrelationNamesOneChannel'
    BY <1>0, <2>1, <2>2, <2>3, <2>5, CorrelateSound
  <2> QED BY <2>2, <2>4, <2>6, WatchKept
<1>2. CASE StartPlayback
  <2>1. /\ view.selected \in Channels /\ listed # {} /\ UNCHANGED listed
        /\ Correlates(Renumbered(registry, view.selected), view.selected, TRUE)
        /\ PlaySource(view.selected)
    BY <1>2 DEF StartPlayback, RegistryInv
  <2>2. RegistryInv'
    BY <2>1, RenumberedSound DEF Correlates
  <2>3. ViewNext
    BY <1>2 DEF ViewNext
  <2>4. watch'.generation = watch.generation + 1
    BY <2>1, Generations
  <2>5. NamedInv' /\ LatestKept' /\ CorrelationNamesOneChannel'
    BY <1>0, <2>1, <2>2, <2>4, CorrelateSound
  <2> QED BY <2>2, <2>3, <2>5, WatchKept
<1>3. CASE PlayDirect
  <2> DEFINE new == Correlation(0, watch.generation + 1, Direct, TRUE)
  <2>1. named' = named \cup {new} /\ UNCHANGED <<listed, registry>> /\ PlaySource(Direct)
    BY <1>3 DEF PlayDirect
  <2>2. /\ new \in NamedRecords /\ new.load = watch.generation + 1 /\ new.started
        /\ new.session = watch.generation + 1 /\ new.provider = 0 /\ new.source = Direct
    BY DEF Sources, Correlation, NamedRecords
  <2> HIDE DEF new
  <2>3. ViewNext
    BY <1>3 DEF ViewNext
  <2>4. watch'.generation = watch.generation + 1
    BY <2>1, Generations
  <2>5. RegistryInv' /\ registry.provider \in Nat
    BY <2>1 DEF RegistryInv
  <2>6. NamedInv'
    <3>1. \A x \in named : x.load <= watch'.generation
      BY <1>0, <2>4 DEF NamedInv, NamedRecords
    <3> QED BY <2>1, <2>2, <2>4, <2>5, <3>1, <1>0 DEF NamedInv
  <2>7. LatestKept'
    <3>1. \A x \in named : StartedSince(x, watch.generation) => StartedSince(x, watch.generation)'
      <4>1. \A z \in named : z.load \in Nat /\ z.load <= watch'.generation
        BY <1>0, <2>4 DEF NamedInv, NamedRecords
      <4> QED BY <2>1, <4>1 DEF StartedSince
    <3>2. SUFFICES ASSUME NEW x \in named, x.provider = registry.provider, x.provider # 0
                   PROVE  /\ registry.sessions[x.source] # 0
                          /\ ~StartedSince(x, watch.generation)' =>
                               x.session = registry.sessions[x.source]
      BY <2>1, <2>2 DEF LatestKept, StartedSince
    <3> QED BY <3>1, <3>2 DEF LatestKept
  <2>8. ASSUME NEW x \in named, x.provider = new.provider
        PROVE  /\ x.session = new.session => x.source = new.source /\ ~new.started
               /\ x.source = new.source =>
                    new.started \/ x.session = new.session
                    \/ StartedSince(x, watch.generation)
    <3>1. x.session = x.load /\ x.load <= watch.generation /\ x.load \in Nat
      BY <2>2, <2>8 DEF NamedInv, NamedRecords
    <3> QED BY <1>0, <2>2, <3>1
  <2>9. CorrelationNamesOneChannel'
    BY <1>0, <2>1, <2>2, <2>8, NamedAnew
  <2> QED BY <2>3, <2>5, <2>6, <2>7, <2>9, WatchKept
<1>4. CASE SignIn
  <2>1. /\ named' = named /\ listed' \subseteq Channels /\ watch' = watch
        /\ registry' = [provider |-> registry.provider + 1, next |-> 0,
                        sessions |-> [c \in Channels |-> 0]]
    BY <1>4 DEF SignIn, BeginProviderSession
  <2>2. registry.provider \in Nat
    BY DEF RegistryInv
  <2>3. RegistryInv'
    BY <2>1, <2>2 DEF RegistryInv
  <2>4. registry'.provider = registry.provider + 1
        /\ \A x \in named : x.provider \in Nat /\ x.provider # registry.provider + 1
    BY <2>1, <2>2 DEF NamedInv, NamedRecords
  <2>5. NamedInv' /\ LatestKept'
    BY <2>1, <2>2, <2>4 DEF NamedInv, NamedRecords, LatestKept
  <2>6. CorrelationNamesOneChannel'
    BY <2>1 DEF CorrelationNamesOneChannel, StartedSince
  <2> QED BY <1>4, <2>3, <2>5, <2>6, WatchKept DEF ViewNext
<1>5. CASE UNCHANGED viewVars
  <2>1. RegistryInv'
    BY <1>5 DEF viewVars, RegistryInv
  <2>2. UNCHANGED <<registry, named, watch>>
    BY <1>5 DEF viewVars
  <2>3. NamedInv' /\ LatestKept' /\ CorrelationNamesOneChannel'
    BY <1>0, <2>2, NamedStays
  <2> QED BY <2>1, <2>2, <2>3
<1>6. CASE \/ StopPlayback \/ SignOutViewer \/ FirstFrameShown \/ StreamFails
          \/ ReopenCurrent \/ RecreatePlayer
  <2>1. UNCHANGED <<registry, named>> /\ listed' \in {listed, {}}
    BY <1>6 DEF StopPlayback, SignOutViewer, FirstFrameShown, StreamFails, ReopenCurrent,
       RecreatePlayer, StreamOnly
  <2>2. RegistryInv'
    BY <2>1 DEF RegistryInv
  <2>3. ViewNext
    BY <1>6 DEF ViewNext
  <2>4. watch'.generation = watch.generation
    <3> DEFINE spent == [watch EXCEPT !.left = @ - 1]
    <3>1. /\ Setback(watch).generation = watch.generation
          /\ Setback(spent).generation = watch.generation
          /\ [spent EXCEPT !.name = "Opening"].generation = watch.generation
          /\ \A n : Becomes(n).generation = watch.generation
      BY DEF Setback, Becomes
    <3> HIDE DEF spent
    <3>2. \/ watch' \in {watch, Setback(watch)}
          \/ watch' \in {Becomes(n) : n \in {"Idle", "Playing"}}
          \/ \E issued \in BOOLEAN : Outcome(spent, issued)
      BY <1>6 DEF StopPlayback, SignOutViewer, FirstFrameShown, StreamFails, ReopenCurrent,
         RecreatePlayer, Shows, spent
    <3> QED BY <3>1, <3>2 DEF Outcome, Shows
  <2>5. NamedInv' /\ LatestKept' /\ CorrelationNamesOneChannel'
    BY <1>0, <2>1, <2>4, NamedStays
  <2> QED BY <2>2, <2>3, <2>5, WatchKept
<1> QED
  BY <1>1, <1>2, <1>3, <1>4, <1>5, <1>6 DEF ViewNext

\* For any channels and providers: a correlation that was ever told names one
\* channel, one that the viewer starts is told of no earlier load, and until
\* the next start the loads of a channel share theirs
\* (player/session_target_registry.cpp).
THEOREM TargetsAreTold == ViewSpec => []CorrelationNamesOneChannel
<1>1. TargetsInv => CorrelationNamesOneChannel
  BY DEF TargetsInv
<1> QED BY <1>1, TargetsInvInit, TargetsInvStep, PTL DEF ViewSpec

-----------------------------------------------------------------------------
(* The modes of the window (win/app_window.cpp)                            *)

FrameRecords == [kind : {"Custom", "None", "System"}, zoomed : BOOLEAN]
WindowRecords ==
  [fullscreen : BOOLEAN, minimal : BOOLEAN, popup : BOOLEAN, zoomed : BOOLEAN,
   minimized : BOOLEAN, saved : BOOLEAN, measured : FrameRecords]
CommandNames == {"Fullscreen", "Minimal", "Zoom", "Minimize"}
CallNames    == {"Cover", "Place", "Frame", "Zoom", "Minimize"}

ModeFields ==
  /\ window \in WindowRecords /\ minimal_mode \in BOOLEAN /\ sized \in BOOLEAN
  /\ pending \in [fullscreen : SUBSET BOOLEAN, minimal : SUBSET BOOLEAN,
                  maximize : BOOLEAN, minimize : BOOLEAN]
  /\ commands \in Seq([name : CommandNames, value : BOOLEAN])
  /\ calls \in Seq(CallNames) /\ owed \in Nat

\* A call in progress ends by asking for the frame, unless it minimizes.
FrameIsMeasured ==
  /\ window.popup = window.fullscreen
  /\ \/ window.measured = FrameOf(window)
     \/ calls # << >> /\ calls[Len(calls)] # "Minimize"

\* The commands of a turn are of different kinds, and are all carried out in it.
CommandsOfTurn ==
  /\ at # "Carry" => commands = << >>
  /\ \A i, j \in DOMAIN commands : commands[i].name = commands[j].name => i = j
  /\ owed = (IF pending.maximize THEN 1 ELSE 0)
            + (IF \E i \in DOMAIN commands : commands[i].name = "Zoom" THEN 1 ELSE 0)

\* The settings' mode is the window's, or asked for.
MinimalIsAskedFor ==
  /\ pending.minimal \subseteq {minimal_mode}
  /\ pending.minimal = {} =>
       /\ \A i \in DOMAIN commands :
            commands[i].name = "Minimal" => commands[i].value = minimal_mode
       /\ \/ window.minimal = minimal_mode
          \/ \E i \in DOMAIN commands : commands[i].name = "Minimal"

ModesInv == ModeFields /\ FrameIsMeasured /\ CommandsOfTurn /\ MinimalIsAskedFor

\* The window starts with the frame its settings call for.
LEMMA ModesInvInit == ModesInit => ModesInv
<1> SUFFICES ASSUME ModesInit PROVE ModesInv
  OBVIOUS
<1> DEFINE w == [fullscreen |-> FALSE, minimal |-> minimal_mode, popup |-> FALSE,
                 zoomed |-> FALSE, minimized |-> FALSE, saved |-> FALSE, measured |-> 0]
<1>1. window = WithFrame(w) /\ minimal_mode \in BOOLEAN
  BY DEF ModesInit
<1>2. FrameOf(w) = [kind |-> IF minimal_mode THEN "Custom" ELSE "System", zoomed |-> FALSE]
  BY DEF FrameOf
<1>3. window = [fullscreen |-> FALSE, minimal |-> minimal_mode, popup |-> FALSE,
                zoomed |-> FALSE, minimized |-> FALSE, saved |-> FALSE,
                measured |-> [kind |-> IF minimal_mode THEN "Custom" ELSE "System",
                              zoomed |-> FALSE]]
  BY <1>1, <1>2 DEF WithFrame
<1>4. window \in WindowRecords /\ window.popup = window.fullscreen /\ window.measured = FrameOf(window)
  <2>1. CASE minimal_mode = TRUE
    BY <2>1, <1>3 DEF WindowRecords, FrameRecords, FrameOf
  <2>2. CASE minimal_mode = FALSE
    BY <2>2, <1>3 DEF WindowRecords, FrameRecords, FrameOf
  <2> QED BY <1>1, <2>1, <2>2
<1>5. ModeFields
  <2>1. pending = [fullscreen |-> {}, minimal |-> {}, maximize |-> FALSE, minimize |-> FALSE]
        /\ sized = FALSE /\ commands = << >> /\ calls = << >> /\ owed = 0
    BY DEF ModesInit, NoRequest
  <2>2. pending \in [fullscreen : SUBSET BOOLEAN, minimal : SUBSET BOOLEAN,
                     maximize : BOOLEAN, minimize : BOOLEAN]
    BY <2>1
  <2>3. commands \in Seq([name : CommandNames, value : BOOLEAN]) /\ calls \in Seq(CallNames)
        /\ owed \in Nat
    BY <2>1
  <2>4. sized \in BOOLEAN
    BY <2>1
  <2> QED BY <1>1, <1>4, <2>2, <2>3, <2>4 DEF ModeFields
<1>6. FrameIsMeasured
  BY <1>4 DEF FrameIsMeasured
<1>7. CommandsOfTurn /\ MinimalIsAskedFor
  BY <1>1, <1>3 DEF ModesInit, NoRequest, CommandsOfTurn, MinimalIsAskedFor
<1> QED BY <1>5, <1>6, <1>7 DEF ModesInv

\* The frame is a matter of these modes alone.
LEMMA FrameKept ==
  ASSUME NEW v \in WindowRecords, NEW w \in WindowRecords, w.zoomed = v.zoomed,
         w.minimal = v.minimal, w.fullscreen = v.fullscreen, w.popup = v.popup
  PROVE  FrameOf(w) = FrameOf(v) /\ FrameOf(w) \in FrameRecords
BY DEF FrameOf, FrameRecords, WindowRecords

\* A window whose frame has been asked for.
LEMMA WithFrameSound ==
  ASSUME NEW w \in WindowRecords
  PROVE  /\ WithFrame(w) \in WindowRecords /\ WithFrame(w).measured = FrameOf(WithFrame(w))
         /\ WithFrame(w).popup = w.popup /\ WithFrame(w).fullscreen = w.fullscreen
         /\ WithFrame(w).minimal = w.minimal
<1>1. FrameOf(w) \in FrameRecords
  BY FrameKept
<1>2. /\ WithFrame(w) \in WindowRecords /\ WithFrame(w).measured = FrameOf(w)
      /\ WithFrame(w).popup = w.popup /\ WithFrame(w).fullscreen = w.fullscreen
      /\ WithFrame(w).minimal = w.minimal /\ WithFrame(w).zoomed = w.zoomed
  BY <1>1 DEF WithFrame, WindowRecords
<1> QED BY <1>2, FrameKept

\* A command of the window sets its modes together with the calls they need.
LEMMA FullscreenSound ==
  ASSUME ModeFields, FrameIsMeasured, calls = << >>, NEW fullscreen \in BOOLEAN,
         SetFullscreen(fullscreen, window)
  PROVE  /\ window' \in WindowRecords /\ calls' \in Seq(CallNames) /\ FrameIsMeasured'
         /\ window'.minimal = window.minimal
<1> USE DEF ModeFields
<1>1. window.measured = FrameOf(window) /\ window.popup = window.fullscreen
  BY DEF FrameIsMeasured
<1>2. CASE fullscreen = window.fullscreen
  BY <1>1, <1>2 DEF SetFullscreen, FrameIsMeasured
<1>3. CASE fullscreen # window.fullscreen /\ fullscreen
  <2>1. CASE window' = [window EXCEPT !.fullscreen = TRUE, !.popup = TRUE, !.saved = window.zoomed,
                                     !.zoomed = FALSE] /\ calls' = <<"Cover">>
    <3>1. /\ window' \in WindowRecords /\ window'.popup = window'.fullscreen
          /\ window'.minimal = window.minimal
      BY <2>1 DEF WindowRecords
    <3>2. calls' \in Seq(CallNames) /\ calls' # << >> /\ calls'[Len(calls')] # "Minimize"
      BY <2>1 DEF CallNames
    <3> QED BY <3>1, <3>2 DEF FrameIsMeasured
  <2>2. CASE window' = [window EXCEPT !.saved = window.zoomed] /\ calls' = << >>
    <3>1. /\ window' \in WindowRecords /\ window'.zoomed = window.zoomed
          /\ window'.minimal = window.minimal /\ window'.fullscreen = window.fullscreen
          /\ window'.popup = window.popup /\ window'.measured = window.measured
      BY <2>2 DEF WindowRecords
    <3>2. FrameOf(window') = FrameOf(window)
      BY <3>1, FrameKept
    <3>3. FrameOf(window)' = FrameOf(window')
      BY DEF FrameOf
    <3> QED BY <1>1, <2>2, <3>1, <3>2, <3>3 DEF FrameIsMeasured
  <2> QED BY <1>3, <2>1, <2>2 DEF SetFullscreen
<1>4. CASE fullscreen # window.fullscreen /\ ~fullscreen
  <2>1. window' = [window EXCEPT !.fullscreen = FALSE, !.popup = FALSE]
        /\ calls' = <<"Place", "Frame">>
    BY <1>4 DEF SetFullscreen
  <2>2. /\ window' \in WindowRecords /\ window'.popup = window'.fullscreen
        /\ window'.minimal = window.minimal
    BY <2>1 DEF WindowRecords
  <2>3. calls' \in Seq(CallNames) /\ calls' # << >> /\ calls'[Len(calls')] # "Minimize"
    BY <2>1 DEF CallNames
  <2> QED BY <2>2, <2>3 DEF FrameIsMeasured
<1> QED BY <1>2, <1>3, <1>4

\* set_minimal_frame sets the mode together with the call that asks for the
\* frame, except in fullscreen, where the frame does not depend on it.
LEMMA MinimalSound ==
  ASSUME ModeFields, FrameIsMeasured, calls = << >>, NEW minimal \in BOOLEAN,
         SetMinimalFrame(minimal, window)
  PROVE  /\ window' \in WindowRecords /\ calls' \in Seq(CallNames) /\ FrameIsMeasured'
         /\ window'.minimal = minimal
<1> USE DEF ModeFields
<1>1. window.measured = FrameOf(window) /\ window.popup = window.fullscreen
  BY DEF FrameIsMeasured
<1>2. /\ window' = [window EXCEPT !.minimal = minimal]
      /\ calls' = IF minimal = window.minimal \/ window.fullscreen THEN << >> ELSE <<"Frame">>
  BY DEF SetMinimalFrame
<1>3. /\ window' \in WindowRecords /\ window'.minimal = minimal
      /\ window'.popup = window'.fullscreen /\ window'.fullscreen = window.fullscreen
      /\ window'.zoomed = window.zoomed /\ window'.measured = window.measured
      /\ window'.popup = window.popup
  BY <1>1, <1>2 DEF WindowRecords
<1>4. CASE minimal = window.minimal \/ window.fullscreen
  <2>1. FrameOf(window)' = FrameOf(window)
    BY <1>1, <1>3, <1>4 DEF FrameOf, WindowRecords
  <2> QED BY <1>1, <1>2, <1>3, <1>4, <2>1 DEF FrameIsMeasured
<1>5. CASE ~(minimal = window.minimal \/ window.fullscreen)
  BY <1>2, <1>3, <1>5 DEF FrameIsMeasured, CallNames
<1> QED BY <1>4, <1>5

\* The head of a sequence is one of its elements.
LEMMA HeadElement == ASSUME NEW S, NEW s \in Seq(S), s # << >> PROVE Head(s) \in S
<1>1. Len(s) \in Nat /\ Len(s) # 0
  OBVIOUS
<1> QED BY <1>1

\* What the tail of a sequence is.
LEMMA TailElements ==
  ASSUME NEW S, NEW s \in Seq(S), s # << >>
  PROVE  /\ Len(s) \in Nat /\ Len(s) >= 1 /\ DOMAIN s = 1 .. Len(s)
         /\ DOMAIN Tail(s) = 1 .. Len(s) - 1
         /\ \A i \in 1 .. Len(s) - 1 : Tail(s)[i] = s[i + 1]
<1>1. Len(s) \in Nat /\ Len(s) # 0 /\ DOMAIN s = 1 .. Len(s)
  OBVIOUS
<1>2. Tail(s) \in Seq(S) /\ Len(Tail(s)) = Len(s) - 1
  OBVIOUS
<1>3. DOMAIN Tail(s) = 1 .. Len(s) - 1
  BY <1>2
<1>4. \A i \in 1 .. Len(s) - 1 : Tail(s)[i] = s[i + 1]
  OBVIOUS
<1> QED BY <1>1, <1>3, <1>4

\* The last call is still the last when the first is made.
LEMMA LastOfTail ==
  ASSUME NEW S, NEW s \in Seq(S), s # << >>, Len(s) # 1
  PROVE  Tail(s) # << >> /\ Tail(s)[Len(Tail(s))] = s[Len(s)]
<1>0. Len(s) \in Nat /\ Len(s) # 0
  OBVIOUS
<1> DEFINE n == Len(s)
<1>1. n \in Nat /\ n >= 2
  <2>1. n \in Nat /\ n # 0 /\ n # 1
    BY <1>0
  <2> HIDE DEF n
  <2> QED BY <2>1
<1>2. Len(Tail(s)) = Len(s) - 1 /\ Tail(s) # << >>
  BY <1>1
<1>3. \A i \in 1 .. Len(s) - 1 : Tail(s)[i] = s[i + 1]
  BY <1>1
<1> HIDE DEF n
<1>4. n - 1 \in 1 .. n - 1 /\ (n - 1) + 1 = n
  BY <1>1
<1>5. Tail(s)[n - 1] = s[n]
  BY <1>3, <1>4 DEF n
<1> QED BY <1>2, <1>5 DEF n

\* Each call that is left but minimizing asks for the frame.
LEMMA CallSound ==
  ASSUME ModesInv, WindowCall PROVE ModesInv'
<1> USE DEF ModesInv, ModeFields
<1> DEFINE call == Head(calls)
<1>1. /\ calls # << >> /\ window' = After(call, window) /\ calls' = Tail(calls)
      /\ sized' \in BOOLEAN /\ UNCHANGED <<minimal_mode, pending, at, commands, owed>>
  BY DEF WindowCall
<1>2. calls' \in Seq(CallNames) /\ call \in CallNames /\ Len(calls) >= 1
  BY <1>1
<1>3. /\ window' \in WindowRecords /\ window'.popup = window.popup
      /\ window'.fullscreen = window.fullscreen /\ window'.minimal = window.minimal
      /\ call # "Minimize" => window'.measured = FrameOf(window)'
      /\ call = "Minimize" => window'.measured = window.measured /\ FrameOf(window)' = FrameOf(window)
  <2> HIDE DEF call
  <2>1. CASE call = "Place"
    <3> DEFINE w == [window EXCEPT !.zoomed = window.saved, !.minimized = FALSE]
    <3>1. /\ w \in WindowRecords /\ w.popup = window.popup /\ w.fullscreen = window.fullscreen
          /\ w.minimal = window.minimal
      BY DEF WindowRecords
    <3>2. window' = WithFrame(w)
      BY <1>1, <2>1 DEF After
    <3> HIDE DEF w
    <3>3. FrameOf(window)' = FrameOf(WithFrame(w))
      BY <3>2 DEF FrameOf
    <3> QED BY <2>1, <3>1, <3>2, <3>3, WithFrameSound
  <2>2. CASE call = "Zoom"
    <3> DEFINE w == [window EXCEPT !.zoomed = ~@, !.minimized = FALSE]
    <3>1. /\ w \in WindowRecords /\ w.popup = window.popup /\ w.fullscreen = window.fullscreen
          /\ w.minimal = window.minimal
      BY DEF WindowRecords
    <3>2. window' = WithFrame(w)
      BY <1>1, <2>2 DEF After
    <3> HIDE DEF w
    <3>3. FrameOf(window)' = FrameOf(WithFrame(w))
      BY <3>2 DEF FrameOf
    <3> QED BY <2>2, <3>1, <3>2, <3>3, WithFrameSound
  <2>3. CASE call = "Minimize"
    <3>1. window' = [window EXCEPT !.minimized = TRUE]
      BY <1>1, <2>3 DEF After
    <3> QED BY <2>3, <3>1 DEF WindowRecords, FrameOf
  <2>4. CASE call \notin {"Place", "Zoom", "Minimize"}
    <3>1. window' = WithFrame(window)
      BY <1>1, <2>4 DEF After
    <3>2. FrameOf(window)' = FrameOf(WithFrame(window))
      BY <3>1 DEF FrameOf
    <3> QED BY <2>4, <3>1, <3>2, WithFrameSound
  <2> QED BY <2>1, <2>2, <2>3, <2>4
<1>4. FrameIsMeasured'
  <2>1. CASE call # "Minimize"
    BY <1>3, <2>1 DEF FrameIsMeasured
  <2>2. CASE call = "Minimize" /\ window.measured = FrameOf(window)
    BY <1>3, <2>2 DEF FrameIsMeasured
  <2>3. CASE call = "Minimize" /\ window.measured # FrameOf(window)
    <3>1. calls[Len(calls)] # "Minimize"
      BY <2>3 DEF FrameIsMeasured
    <3>2. Len(calls) # 1 /\ Tail(calls) # << >> /\ Tail(calls)[Len(Tail(calls))] = calls[Len(calls)]
      <4>1. Len(calls) # 1
        BY <1>1, <1>2, <2>3, <3>1
      <4> QED BY <1>1, <4>1, LastOfTail
    <3> QED BY <1>1, <1>3, <3>1, <3>2 DEF FrameIsMeasured
  <2> QED BY <2>1, <2>2, <2>3
<1> QED BY <1>1, <1>2, <1>3, <1>4 DEF CommandsOfTurn, MinimalIsAskedFor

\* What the viewer asks for in a frame.
LEMMA RequestSound ==
  ASSUME ModesInv, Request, UNCHANGED <<window, commands, calls>>,
         at' # "Carry" => commands = << >>, sized' \in BOOLEAN
  PROVE  ModesInv'
<1> USE DEF ModesInv, ModeFields
<1>1. FrameIsMeasured'
  BY DEF FrameIsMeasured, FrameOf
<1>2. CASE UNCHANGED <<pending, minimal_mode, owed>>
  BY <1>1, <1>2 DEF CommandsOfTurn, MinimalIsAskedFor
<1>3. CASE pending' = [pending EXCEPT !.fullscreen = {~window.fullscreen}]
           /\ UNCHANGED <<minimal_mode, owed>>
  <2>1. /\ pending' \in [fullscreen : SUBSET BOOLEAN, minimal : SUBSET BOOLEAN,
                         maximize : BOOLEAN, minimize : BOOLEAN]
        /\ pending'.minimal = pending.minimal /\ pending'.maximize = pending.maximize
    BY <1>3
  <2> QED BY <1>1, <1>3, <2>1 DEF CommandsOfTurn, MinimalIsAskedFor
<1>4. CASE minimal_mode' = ~minimal_mode
           /\ pending' = [pending EXCEPT !.minimal = {minimal_mode'}] /\ UNCHANGED owed
  <2>1. /\ pending' \in [fullscreen : SUBSET BOOLEAN, minimal : SUBSET BOOLEAN,
                         maximize : BOOLEAN, minimize : BOOLEAN]
        /\ pending'.minimal = {minimal_mode'} /\ pending'.maximize = pending.maximize
        /\ minimal_mode' \in BOOLEAN
    BY <1>4
  <2> QED BY <1>1, <1>4, <2>1 DEF CommandsOfTurn, MinimalIsAskedFor
<1>5. CASE ~pending.maximize /\ pending' = [pending EXCEPT !.maximize = TRUE]
           /\ owed' = owed + 1 /\ UNCHANGED minimal_mode
  <2>1. /\ pending' \in [fullscreen : SUBSET BOOLEAN, minimal : SUBSET BOOLEAN,
                         maximize : BOOLEAN, minimize : BOOLEAN]
        /\ pending'.minimal = pending.minimal /\ pending'.maximize = TRUE
    BY <1>5
  <2> QED BY <1>1, <1>5, <2>1 DEF CommandsOfTurn, MinimalIsAskedFor
<1>6. CASE pending' = [pending EXCEPT !.minimize = TRUE] /\ UNCHANGED <<minimal_mode, owed>>
  <2>1. /\ pending' \in [fullscreen : SUBSET BOOLEAN, minimal : SUBSET BOOLEAN,
                         maximize : BOOLEAN, minimize : BOOLEAN]
        /\ pending'.minimal = pending.minimal /\ pending'.maximize = pending.maximize
    BY <1>6
  <2> QED BY <1>1, <1>6, <2>1 DEF CommandsOfTurn, MinimalIsAskedFor
<1> QED BY <1>2, <1>3, <1>4, <1>5, <1>6 DEF Request

\* The keys and the system's own ways change no minimal mode.
LEMMA SystemSound ==
  ASSUME ModesInv, PressKey \/ SystemCommand PROVE ModesInv'
<1> USE DEF ModesInv, ModeFields
<1>1. /\ calls = << >> /\ sized' \in BOOLEAN
      /\ UNCHANGED <<minimal_mode, pending, at, commands, owed>>
  BY DEF PressKey, SystemCommand, WindowIdle
<1>2. /\ window' \in WindowRecords /\ calls' \in Seq(CallNames) /\ FrameIsMeasured'
      /\ window'.minimal = window.minimal
  <2>1. CASE PressKey
    <3>1. SetFullscreen(~window.fullscreen, window)
      BY <2>1 DEF PressKey
    <3>2. CASE window.fullscreen = TRUE
      <4>1. SetFullscreen(FALSE, window)
        BY <3>1, <3>2
      <4> QED BY <1>1, <4>1, FullscreenSound
    <3>3. CASE window.fullscreen = FALSE
      <4>1. SetFullscreen(TRUE, window)
        BY <3>1, <3>3
      <4> QED BY <1>1, <4>1, FullscreenSound
    <3>4. window.fullscreen \in BOOLEAN
      BY DEF WindowRecords
    <3> QED BY <3>2, <3>3, <3>4
  <2>2. CASE calls' = <<"Zoom">> /\ UNCHANGED window
    <3>1. calls' \in Seq(CallNames) /\ calls' # << >> /\ calls'[Len(calls')] # "Minimize"
      BY <2>2 DEF CallNames
    <3> QED BY <2>2, <3>1 DEF FrameIsMeasured
  <2>3. CASE calls' = << >> /\ window' = [window EXCEPT !.minimized = ~@]
    <3>1. /\ window' \in WindowRecords /\ window'.zoomed = window.zoomed
          /\ window'.minimal = window.minimal /\ window'.fullscreen = window.fullscreen
          /\ window'.popup = window.popup /\ window'.measured = window.measured
      BY <2>3 DEF WindowRecords
    <3>2. FrameOf(window)' = FrameOf(window)
      BY <3>1, FrameKept DEF FrameOf
    <3> QED BY <1>1, <2>3, <3>1, <3>2 DEF FrameIsMeasured
  <2> QED BY <2>1, <2>2, <2>3 DEF SystemCommand
<1> QED BY <1>1, <1>2 DEF CommandsOfTurn, MinimalIsAskedFor

CommandRecords == [name : CommandNames, value : BOOLEAN]

\* Commands of these kinds, no two of one kind, and which they are.
OfKinds(s, names, taken) ==
  /\ s \in Seq(CommandRecords)
  /\ \A i \in DOMAIN s : s[i].name \in names /\ s[i] \in taken
  /\ \A i, j \in DOMAIN s : s[i].name = s[j].name => i = j
  /\ \A command \in taken : \E i \in DOMAIN s : s[i] = command

\* Commands of different kinds stay apart when they are put one after the
\* other.
LEMMA KindsJoin ==
  ASSUME NEW a, NEW b, NEW M, NEW N, NEW A, NEW B, OfKinds(a, M, A), OfKinds(b, N, B), M \cap N = {}
  PROVE  OfKinds(a \o b, M \cup N, A \cup B)
<1> DEFINE s == a \o b
<1> USE DEF OfKinds
<1>1. /\ a \in Seq(CommandRecords) /\ b \in Seq(CommandRecords)
      /\ Len(a) \in Nat /\ Len(b) \in Nat /\ DOMAIN a = 1 .. Len(a) /\ DOMAIN b = 1 .. Len(b)
  OBVIOUS
<1>2. /\ s \in Seq(CommandRecords) /\ Len(s) = Len(a) + Len(b) /\ DOMAIN s = 1 .. Len(a) + Len(b)
      /\ \A i \in 1 .. Len(a) + Len(b) : s[i] = IF i <= Len(a) THEN a[i] ELSE b[i - Len(a)]
  BY <1>1
<1> HIDE DEF s
<1>3. \A i \in DOMAIN s : \/ i \in DOMAIN a /\ s[i] = a[i]
                          \/ i > Len(a) /\ i - Len(a) \in DOMAIN b /\ s[i] = b[i - Len(a)]
  BY <1>1, <1>2
<1>4. \A i \in DOMAIN a : i \in DOMAIN s /\ s[i] = a[i]
  BY <1>1, <1>2
<1>5. \A i \in DOMAIN b : i + Len(a) \in DOMAIN s /\ s[i + Len(a)] = b[i]
  BY <1>1, <1>2
<1>6. \A i \in DOMAIN s : s[i].name \in M \cup N /\ s[i] \in A \cup B
  BY <1>3
<1>7. ASSUME NEW i \in DOMAIN s, NEW j \in DOMAIN s, s[i].name = s[j].name PROVE i = j
  <2>1. CASE i \in DOMAIN a /\ s[i] = a[i]
    BY <1>3, <1>7, <2>1
  <2>2. CASE i > Len(a) /\ i - Len(a) \in DOMAIN b /\ s[i] = b[i - Len(a)]
    <3>1. j > Len(a) /\ j - Len(a) \in DOMAIN b /\ s[j] = b[j - Len(a)]
      BY <1>3, <1>7, <2>2
    <3>2. i - Len(a) = j - Len(a)
      BY <1>7, <2>2, <3>1
    <3>3. i \in Int /\ j \in Int
      BY <1>2
    <3> QED BY <1>1, <3>2, <3>3
  <2> QED BY <1>3, <2>1, <2>2
<1>8. \A command \in A \cup B : \E i \in DOMAIN s : s[i] = command
  BY <1>4, <1>5
<1>9. OfKinds(s, M \cup N, A \cup B)
  BY <1>2, <1>6, <1>7, <1>8
<1> QED BY <1>9 DEF s

\* No command is of any kinds.
LEMMA NoneOfKind == ASSUME NEW N PROVE OfKinds(<< >>, N, {})
<1>1. << >> \in Seq(CommandRecords)
  OBVIOUS
<1> QED BY <1>1 DEF OfKinds

\* One command is of its own kind.
LEMMA OneOfKind ==
  ASSUME NEW name \in CommandNames, NEW setting \in BOOLEAN
  PROVE  OfKinds(<<WindowCommand(name, setting)>>, {name}, {WindowCommand(name, setting)})
<1> DEFINE command == WindowCommand(name, setting)
<1>1. command \in CommandRecords /\ command.name = name
  BY DEF WindowCommand, CommandRecords
<1> HIDE DEF command
<1>2. <<command>> \in Seq(CommandRecords) /\ DOMAIN <<command>> = {1} /\ <<command>>[1] = command
  BY <1>1
<1>3. OfKinds(<<command>>, {name}, {command})
  BY <1>1, <1>2 DEF OfKinds
<1> QED BY <1>3 DEF command

\* A request makes one command of its kind, or none.
LEMMA CommandOfKind ==
  ASSUME NEW name \in CommandNames, NEW requested \in SUBSET BOOLEAN
  PROVE  \E A : /\ OfKinds(CommandOf(name, requested), {name}, A)
                /\ A = {} <=> requested = {}
                /\ \A command \in A : command.name = name /\ command.value \in requested
<1>1. CASE requested = {}
  BY <1>1, NoneOfKind DEF CommandOf
<1>2. CASE requested # {}
  <2> DEFINE setting == CHOOSE asked \in requested : TRUE
  <2>1. setting \in requested
    BY <1>2
  <2>2. CommandOf(name, requested) = <<WindowCommand(name, setting)>>
    BY <1>2 DEF CommandOf
  <2> HIDE DEF setting
  <2>3. OfKinds(CommandOf(name, requested), {name}, {WindowCommand(name, setting)})
    BY <2>1, <2>2, OneOfKind
  <2>4. WindowCommand(name, setting).name = name /\ WindowCommand(name, setting).value = setting
    BY DEF WindowCommand
  <2> QED BY <1>2, <2>1, <2>3, <2>4
<1> QED BY <1>1, <1>2

\* The turn takes what is pending, each request once.
LEMMA TakeSound ==
  ASSUME ModesInv, TakePending PROVE ModesInv'
<1> USE DEF ModesInv, ModeFields
<1>1. /\ at = "Apply" /\ at' = "Carry" /\ commands' = RequestsTaken /\ pending' = NoRequest
      /\ UNCHANGED <<window, minimal_mode, calls, sized, owed>>
  BY DEF TakePending
<1>2. commands = << >>
  BY <1>1 DEF CommandsOfTurn
<1>3. /\ pending.fullscreen \in SUBSET BOOLEAN /\ pending.minimal \in SUBSET BOOLEAN
      /\ pending.maximize \in BOOLEAN /\ pending.minimize \in BOOLEAN
  OBVIOUS
<1> DEFINE asked(flag, name) == IF flag THEN <<WindowCommand(name, TRUE)>> ELSE << >>
           Zooming == {command \in {WindowCommand("Zoom", TRUE)} : pending.maximize}
           Minimizing == {command \in {WindowCommand("Minimize", TRUE)} : pending.minimize}
<1>4. PICK F : OfKinds(CommandOf("Fullscreen", pending.fullscreen), {"Fullscreen"}, F)
  BY <1>3, CommandOfKind DEF CommandNames
<1>5. PICK M : /\ OfKinds(CommandOf("Minimal", pending.minimal), {"Minimal"}, M)
               /\ M = {} <=> pending.minimal = {}
               /\ \A command \in M : command.name = "Minimal" /\ command.value \in pending.minimal
  BY <1>3, CommandOfKind DEF CommandNames
<1>6. OfKinds(asked(pending.maximize, "Zoom"), {"Zoom"}, Zooming)
  <2>1. CASE pending.maximize
    <3>1. Zooming = {WindowCommand("Zoom", TRUE)}
      BY <2>1
    <3> QED BY <2>1, <3>1, OneOfKind DEF CommandNames
  <2>2. CASE ~pending.maximize
    <3>1. Zooming = {}
      BY <2>2
    <3> QED BY <2>2, <3>1, NoneOfKind
  <2> QED BY <2>1, <2>2
<1>7. OfKinds(asked(pending.minimize, "Minimize"), {"Minimize"}, Minimizing)
  <2>1. CASE pending.minimize
    <3>1. Minimizing = {WindowCommand("Minimize", TRUE)}
      BY <2>1
    <3> QED BY <2>1, <3>1, OneOfKind DEF CommandNames
  <2>2. CASE ~pending.minimize
    <3>1. Minimizing = {}
      BY <2>2
    <3> QED BY <2>2, <3>1, NoneOfKind
  <2> QED BY <2>1, <2>2
<1>8. /\ WindowCommand("Zoom", TRUE).name = "Zoom"
      /\ WindowCommand("Minimize", TRUE).name = "Minimize"
      /\ \A command \in F : command.name = "Fullscreen"
  BY <1>4 DEF WindowCommand, OfKinds
<1> DEFINE TakenUp == ((F \cup M) \cup Zooming) \cup Minimizing
<1>9. OfKinds(commands', CommandNames, TakenUp)
  <2>1. commands' = ((CommandOf("Fullscreen", pending.fullscreen) \o CommandOf("Minimal", pending.minimal))
                     \o asked(pending.maximize, "Zoom")) \o asked(pending.minimize, "Minimize")
    BY <1>1 DEF RequestsTaken
  <2> HIDE DEF asked, Zooming, Minimizing
  <2>2. OfKinds(CommandOf("Fullscreen", pending.fullscreen) \o CommandOf("Minimal", pending.minimal),
                {"Fullscreen"} \cup {"Minimal"}, F \cup M)
    BY <1>4, <1>5, KindsJoin
  <2>3. OfKinds((CommandOf("Fullscreen", pending.fullscreen) \o CommandOf("Minimal", pending.minimal))
                \o asked(pending.maximize, "Zoom"),
                ({"Fullscreen"} \cup {"Minimal"}) \cup {"Zoom"}, (F \cup M) \cup Zooming)
    BY <1>6, <2>2, KindsJoin
  <2>4. OfKinds(commands', (({"Fullscreen"} \cup {"Minimal"}) \cup {"Zoom"}) \cup {"Minimize"}, TakenUp)
    BY <1>7, <2>1, <2>3, KindsJoin
  <2>5. (({"Fullscreen"} \cup {"Minimal"}) \cup {"Zoom"}) \cup {"Minimize"} = CommandNames
    BY DEF CommandNames
  <2> QED BY <2>4, <2>5
<1>10. /\ commands' \in Seq([name : CommandNames, value : BOOLEAN])
       /\ \A i, j \in DOMAIN commands' : commands'[i].name = commands'[j].name => i = j
       /\ \A i \in DOMAIN commands' : commands'[i] \in TakenUp
       /\ \A command \in TakenUp : \E i \in DOMAIN commands' : commands'[i] = command
  <2> HIDE DEF TakenUp
  <2> QED BY <1>9 DEF OfKinds, CommandRecords
<1>11. (\E i \in DOMAIN commands' : commands'[i].name = "Zoom") <=> pending.maximize
  <2>1. ASSUME NEW i \in DOMAIN commands', commands'[i].name = "Zoom" PROVE pending.maximize
    <3>1. commands'[i] \in Zooming
      <4>1. commands'[i] \in TakenUp
        BY <1>10
      <4>2. commands'[i] \notin F /\ commands'[i] \notin M /\ commands'[i] \notin Minimizing
        BY <1>5, <1>8, <2>1
      <4> QED BY <4>1, <4>2
    <3> QED BY <3>1
  <2>2. ASSUME pending.maximize PROVE \E i \in DOMAIN commands' : commands'[i].name = "Zoom"
    <3>1. WindowCommand("Zoom", TRUE) \in TakenUp
      BY <2>2
    <3> HIDE DEF TakenUp
    <3>2. PICK i \in DOMAIN commands' : commands'[i] = WindowCommand("Zoom", TRUE)
      BY <1>10, <3>1
    <3> QED BY <1>8, <3>2
  <2> QED BY <2>1, <2>2
<1>12. /\ pending' \in [fullscreen : SUBSET BOOLEAN, minimal : SUBSET BOOLEAN,
                        maximize : BOOLEAN, minimize : BOOLEAN]
       /\ pending'.minimal = {} /\ pending'.maximize = FALSE
  BY <1>1 DEF NoRequest
<1>13. CommandsOfTurn'
  <2>1. owed = IF pending.maximize THEN 1 ELSE 0
    BY <1>2 DEF CommandsOfTurn
  <2> HIDE DEF TakenUp
  <2> QED BY <1>1, <1>3, <1>10, <1>11, <1>12, <2>1 DEF CommandsOfTurn
<1>14. MinimalIsAskedFor'
  <2>1. CASE pending.minimal = {}
    <3>1. window.minimal = minimal_mode
      BY <1>2, <2>1 DEF MinimalIsAskedFor
    <3>2. \A i \in DOMAIN commands' : commands'[i].name # "Minimal"
      BY <1>5, <1>8, <1>10, <2>1
    <3> HIDE DEF TakenUp
    <3> QED BY <1>1, <1>12, <3>1, <3>2 DEF MinimalIsAskedFor
  <2>2. CASE pending.minimal # {}
    <3>1. pending.minimal = {minimal_mode}
      BY <2>2 DEF MinimalIsAskedFor
    <3>2. \A i \in DOMAIN commands' : commands'[i].name = "Minimal" => commands'[i].value = minimal_mode
      BY <1>5, <1>8, <1>10, <3>1
    <3>3. \E i \in DOMAIN commands' : commands'[i].name = "Minimal"
      <4>1. PICK command \in M : command.name = "Minimal"
        BY <1>5, <2>2
      <4>2. command \in TakenUp
        BY <4>1
      <4> HIDE DEF TakenUp
      <4> QED BY <1>10, <4>1, <4>2
    <3> HIDE DEF TakenUp
    <3> QED BY <1>1, <1>12, <3>2, <3>3 DEF MinimalIsAskedFor
  <2> QED BY <2>1, <2>2
<1> HIDE DEF TakenUp
<1>15. FrameIsMeasured'
  BY <1>1 DEF FrameIsMeasured, FrameOf
<1>16. ModeFields'
  BY <1>1, <1>10, <1>12
<1> QED BY <1>13, <1>14, <1>15, <1>16

\* Carrying a command out starts the calls it needs, and the settings get the
\* mode they asked for (app.cpp, apply_pending_window_changes).
LEMMA CarrySound ==
  ASSUME ModesInv, CarryOut PROVE ModesInv'
<1> USE DEF ModesInv, ModeFields
<1> DEFINE command == Head(commands)
<1>1. /\ at = "Carry" /\ calls = << >> /\ commands # << >> /\ commands' = Tail(commands)
      /\ CASE command.name = "Fullscreen" -> SetFullscreen(command.value, window)
           [] command.name = "Minimal" -> SetMinimalFrame(command.value, window)
           [] OTHER -> calls' = <<command.name>> /\ UNCHANGED window
      /\ owed' = IF command.name = "Zoom" THEN owed - 1 ELSE owed
      /\ UNCHANGED <<minimal_mode, pending, at, sized>>
  BY DEF CarryOut, WindowIdle
<1>2. /\ command \in [name : CommandNames, value : BOOLEAN] /\ command = commands[1]
      /\ 1 \in DOMAIN commands
      /\ commands' \in Seq([name : CommandNames, value : BOOLEAN])
  <2>1. Len(commands) >= 1 /\ Len(commands) \in Nat /\ DOMAIN commands = 1 .. Len(commands)
    BY <1>1, TailElements
  <2>2. 1 \in DOMAIN commands /\ command = commands[1]
    BY <2>1
  <2>3. commands' \in Seq([name : CommandNames, value : BOOLEAN])
    BY <1>1
  <2>4. command \in [name : CommandNames, value : BOOLEAN]
    BY <1>1, HeadElement
  <2> QED BY <2>2, <2>3, <2>4
<1>3. /\ \A i \in DOMAIN commands' : i + 1 \in DOMAIN commands /\ commands'[i] = commands[i + 1]
      /\ \A i \in DOMAIN commands : i = 1 \/ (i - 1 \in DOMAIN commands' /\ commands'[i - 1] = commands[i])
      /\ DOMAIN commands' \subseteq Nat \ {0} /\ DOMAIN commands \subseteq Nat \ {0}
  <2> DEFINE n == Len(commands)
  <2>1. /\ n \in Nat /\ n >= 1 /\ DOMAIN commands = 1 .. n
        /\ DOMAIN commands' = 1 .. n - 1
        /\ \A i \in 1 .. n - 1 : commands'[i] = commands[i + 1]
    BY <1>1, TailElements
  <2>2. /\ n \in Nat /\ n >= 1 /\ DOMAIN commands = 1 .. n /\ DOMAIN commands' = 1 .. n - 1
        /\ \A i \in 1 .. n - 1 : commands'[i] = commands[i + 1]
    BY <2>1
  <2> HIDE DEF n
  <2>3. ASSUME NEW i \in 1 .. n - 1 PROVE i + 1 \in 1 .. n /\ commands'[i] = commands[i + 1] /\ i \in Nat \ {0}
    BY <2>2
  <2>4. ASSUME NEW i \in 1 .. n, i # 1
        PROVE  i - 1 \in 1 .. n - 1 /\ commands'[i - 1] = commands[i]
    <3>1. i - 1 \in 1 .. n - 1 /\ (i - 1) + 1 = i
      BY <2>2, <2>4
    <3>2. commands'[i - 1] = commands[(i - 1) + 1]
      BY <2>2, <3>1
    <3> QED BY <3>1, <3>2
  <2>5. 1 .. n \subseteq Nat \ {0}
    BY <2>2
  <2> QED BY <2>2, <2>3, <2>4, <2>5
<1> HIDE DEF command
<1>4. /\ command.name \in CommandNames /\ command.value \in BOOLEAN
  BY <1>2
<1>5. \A i \in DOMAIN commands' : commands'[i].name # command.name
  BY <1>2, <1>3 DEF CommandsOfTurn
<1>6. /\ window' \in WindowRecords /\ calls' \in Seq(CallNames) /\ FrameIsMeasured'
      /\ window'.minimal = IF command.name = "Minimal" THEN command.value ELSE window.minimal
  <2>1. CASE command.name = "Fullscreen"
    BY <1>1, <1>4, <2>1, FullscreenSound
  <2>2. CASE command.name = "Minimal"
    BY <1>1, <1>4, <2>2, MinimalSound
  <2>3. CASE command.name \in {"Zoom", "Minimize"}
    <3>1. calls' = <<command.name>> /\ UNCHANGED window
      BY <1>1, <2>3
    <3>2. calls' \in Seq(CallNames)
      BY <2>3, <3>1 DEF CallNames
    <3>3. window'.measured = FrameOf(window)' /\ window'.popup = window'.fullscreen
      BY <1>1, <3>1 DEF FrameIsMeasured, FrameOf
    <3> QED BY <2>3, <3>1, <3>2, <3>3 DEF FrameIsMeasured
  <2> QED BY <1>4, <2>1, <2>2, <2>3 DEF CommandNames
<1>7. CommandsOfTurn' /\ owed' \in Nat
  <2>1. \A i, j \in DOMAIN commands' : commands'[i].name = commands'[j].name => i = j
    <3>1. ASSUME NEW i \in DOMAIN commands', NEW j \in DOMAIN commands', commands'[i].name = commands'[j].name
          PROVE  i = j
      <4>1. i + 1 = j + 1
        BY <1>3, <3>1 DEF CommandsOfTurn
      <4> QED BY <1>3, <4>1
    <3> QED BY <3>1
  <2>2. CASE command.name = "Zoom"
    <3>1. owed' = (IF pending.maximize THEN 1 ELSE 0)
      BY <1>1, <1>2, <2>2 DEF CommandsOfTurn
    <3>2. ~ \E i \in DOMAIN commands' : commands'[i].name = "Zoom"
      BY <1>5, <2>2
    <3> QED BY <1>1, <2>1, <3>1, <3>2 DEF CommandsOfTurn
  <2>3. CASE command.name # "Zoom"
    <3>1. owed' = owed
      BY <1>1, <2>3
    <3>2. (\E i \in DOMAIN commands' : commands'[i].name = "Zoom")
          <=> (\E i \in DOMAIN commands : commands[i].name = "Zoom")
      <4>1. ASSUME NEW i \in DOMAIN commands', commands'[i].name = "Zoom"
            PROVE  \E j \in DOMAIN commands : commands[j].name = "Zoom"
        BY <1>3, <4>1
      <4>2. ASSUME NEW i \in DOMAIN commands, commands[i].name = "Zoom"
            PROVE  \E j \in DOMAIN commands' : commands'[j].name = "Zoom"
        <5>1. i # 1
          BY <1>2, <2>3, <4>2
        <5> QED BY <1>3, <4>2, <5>1
      <4> QED BY <4>1, <4>2
    <3> QED BY <1>1, <2>1, <3>1, <3>2 DEF CommandsOfTurn
  <2> QED BY <2>2, <2>3
<1>8. MinimalIsAskedFor'
  <2>1. ASSUME pending.minimal = {}
        PROVE  /\ \A i \in DOMAIN commands' :
                    commands'[i].name = "Minimal" => commands'[i].value = minimal_mode
               /\ \/ window'.minimal = minimal_mode
                  \/ \E i \in DOMAIN commands' : commands'[i].name = "Minimal"
    <3>1. CASE command.name = "Minimal"
      BY <1>2, <1>3, <1>6, <2>1, <3>1 DEF MinimalIsAskedFor
    <3>2. CASE command.name # "Minimal"
      <4>1. \A i \in DOMAIN commands' :
              commands'[i].name = "Minimal" => commands'[i].value = minimal_mode
        BY <1>3, <2>1 DEF MinimalIsAskedFor
      <4>2. CASE window.minimal = minimal_mode
        BY <1>6, <3>2, <4>1, <4>2
      <4>3. ASSUME NEW i \in DOMAIN commands, commands[i].name = "Minimal"
            PROVE  \E j \in DOMAIN commands' : commands'[j].name = "Minimal"
        <5>1. i # 1
          BY <1>2, <3>2, <4>3
        <5> QED BY <1>3, <4>3, <5>1
      <4> QED BY <2>1, <4>1, <4>2, <4>3 DEF MinimalIsAskedFor
    <3> QED BY <3>1, <3>2
  <2> QED BY <1>1, <2>1 DEF MinimalIsAskedFor
<1> QED BY <1>1, <1>2, <1>6, <1>7, <1>8

\* Every call of the window, every frame, in a turn or in the middle of a
\* WM_SIZE, and every step of the turn keeps the modes and the frame together.
LEMMA ModesInvStep == ASSUME ModesInv, [ModesNext]_modeVars PROVE ModesInv'
<1>1. CASE WindowCall
  BY <1>1, CallSound
<1>2. CASE DrawTurnFrame \/ PaintInSize
  <2>1. Request /\ UNCHANGED <<window, commands, calls>> /\ sized' \in BOOLEAN
    BY <1>2 DEF DrawTurnFrame, PaintInSize, ModesInv, ModeFields
  <2>2. at' # "Carry" => commands = << >>
    BY <1>2 DEF DrawTurnFrame, PaintInSize, ModesInv, CommandsOfTurn
  <2> QED BY <2>1, <2>2, RequestSound
<1>3. CASE PressKey \/ SystemCommand
  BY <1>3, SystemSound
<1>4. CASE TakePending
  BY <1>4, TakeSound
<1>5. CASE CarryOut
  BY <1>5, CarrySound
<1>6. CASE PumpEnds \/ TurnEnds \/ UNCHANGED modeVars
  <2>1. /\ UNCHANGED <<window, minimal_mode, pending, commands, calls, sized, owed>>
        /\ at' # "Carry" => commands = << >>
    BY <1>6 DEF PumpEnds, TurnEnds, modeVars, ModesInv, CommandsOfTurn
  <2> QED BY <2>1 DEF ModesInv, ModeFields, FrameIsMeasured, FrameOf, CommandsOfTurn, MinimalIsAskedFor
<1> QED BY <1>1, <1>2, <1>3, <1>4, <1>5, <1>6 DEF ModesNext

\* Between the calls no call is left that would ask for the frame.
LEMMA ModesInvFrame == ModesInv => FrameFollowsModes
<1> SUFFICES ASSUME ModesInv PROVE FrameFollowsModes
  OBVIOUS
<1>1. WindowIdle => window.measured = FrameOf(window) /\ window.popup = window.fullscreen
  BY DEF ModesInv, FrameIsMeasured, WindowIdle
<1>2. commands = << >> /\ pending.minimal = {} => window.minimal = minimal_mode
  BY DEF ModesInv, MinimalIsAskedFor
<1> QED BY <1>1, <1>2 DEF ModesInv, CommandsOfTurn, FrameFollowsModes

\* Whatever order the modes are changed in and whatever is asked for in a frame
\* drawn in the middle of a call: between the calls the frame is the one the
\* modes call for, and every request is carried out once (win/app_window.cpp,
\* app.cpp).
THEOREM FrameIsOfTheModes == ModesSpec => []FrameFollowsModes
<1>1. ModesInit => ModesInv
  BY ModesInvInit
<1>2. ModesInv /\ [ModesNext]_modeVars => ModesInv'
  BY ModesInvStep
<1>3. ModesInv => FrameFollowsModes
  BY ModesInvFrame
<1> QED BY <1>1, <1>2, <1>3, PTL DEF ModesSpec

\* At most two maximize requests wait: one that was asked for, and one that
\* is being carried out.
LEMMA ModesAreTyped == ModesSpec => []ModesTypeOK
<1> DEFINE Turns == at \in {"Pump", "Draw", "Apply", "Carry"}
<1>1. ModesInit => Turns
  BY DEF ModesInit
<1>2. Turns /\ [ModesNext]_modeVars => Turns'
  BY DEF ModesNext, modeVars, WindowCall, DrawTurnFrame, PaintInSize, PressKey, SystemCommand,
     PumpEnds, TakePending, CarryOut, TurnEnds
<1>3. ModesInv /\ Turns => ModesTypeOK
  BY DEF ModesInv, ModeFields, CommandsOfTurn, WindowRecords, ModesTypeOK
<1> QED BY <1>1, <1>2, <1>3, ModesInvInit, ModesInvStep, PTL DEF ModesSpec

-----------------------------------------------------------------------------
(* Power requests (win/power_request.cpp)                                  *)

PowerFlags ==
  /\ minimized \in BOOLEAN /\ settled \in BOOLEAN /\ handle \in BOOLEAN
  /\ system_active \in BOOLEAN /\ display_active \in BOOLEAN /\ running \in BOOLEAN

PowerInv ==
  /\ session \in {"Idle", "Active", "Failed"}
  /\ grace_in \in 0 .. PowerGrace /\ retry_in \in 0 .. RetryInterval
  /\ requested_mode \in PowerModes
  /\ PowerFlags /\ RequestFollowsPolicy

\* Asking Windows takes for settled what both requests came to hold.
LEMMA AskSound ==
  ASSUME PowerFlags, SettledIsHeld, NEW mode \in PowerModes, AskWindows(mode)
  PROVE  /\ requested_mode' = mode /\ SettledIsHeld' /\ retry_in' \in {0, RetryInterval}
         /\ settled' \in BOOLEAN /\ handle' \in BOOLEAN
         /\ system_active' \in BOOLEAN /\ display_active' \in BOOLEAN
<1> DEFINE system_wanted == WantsSystem(mode)
           display_wanted == WantsDisplay(mode)
<1>1. /\ requested_mode' = mode
      /\ handle' \in (IF system_wanted THEN {TRUE, handle} ELSE {handle})
      /\ retry_in' = IF settled' THEN 0 ELSE RetryInterval
  BY DEF AskWindows
<1>2. handle' \in BOOLEAN
  BY <1>1, Zenon DEF PowerFlags
<1>3. system_wanted \in BOOLEAN /\ display_wanted \in BOOLEAN
  BY DEF WantsSystem, WantsDisplay
<1>4. CASE system_wanted /\ ~handle'
  BY <1>1, <1>2, <1>4 DEF AskWindows, SettledIsHeld, PowerFlags
<1>5. CASE ~(system_wanted /\ ~handle')
  <2>1. PICK system, display \in BOOLEAN :
          /\ system_active' = IF system THEN system_wanted ELSE system_active
          /\ display_active' = IF display THEN display_wanted ELSE display_active
          /\ settled' = AllSucceed(mode, system, display)
    BY <1>5, Zenon DEF AskWindows
  <2>2. /\ system_active' \in BOOLEAN /\ display_active' \in BOOLEAN
    BY <1>3, <2>1 DEF PowerFlags
  <2>3. settled' \in BOOLEAN
    BY <2>1 DEF AllSucceed, Succeeds
  <2>4. settled' <=> system_active' = system_wanted /\ display_active' = display_wanted
    BY <1>3, <2>1 DEF AllSucceed, Succeeds, PowerFlags
  <2>5. system_wanted => handle'
    BY <1>5
  <2>6. SettledIsHeld'
    BY <1>1, <2>4, <2>5 DEF SettledIsHeld
  <2> QED BY <1>1, <1>2, <2>2, <2>3, <2>6
<1> QED BY <1>4, <1>5

\* One evaluation of the policy.
LEMMA UpdateSound ==
  ASSUME PowerInv, UpdatePower
  PROVE  LET mode == PowerPolicy(session', minimized', grace_in')
         IN  /\ requested_mode' = mode /\ mode \in PowerModes
             /\ SettledIsHeld' /\ retry_in' \in 0 .. RetryInterval
             /\ settled' \in BOOLEAN /\ handle' \in BOOLEAN
             /\ system_active' \in BOOLEAN /\ display_active' \in BOOLEAN
<1> DEFINE mode == PowerPolicy(session', minimized', grace_in')
<1>1. mode \in PowerModes
  BY DEF PowerPolicy, PowerModes
<1>2. SettledIsHeld
  BY DEF PowerInv, RequestFollowsPolicy
<1>3. SetMode(mode)
  BY DEF UpdatePower
<1> HIDE DEF mode
<1>4. CASE Due(mode)
  BY <1>1, <1>2, <1>3, <1>4, AskSound, TimesAssumption DEF SetMode, PowerInv, mode
<1>5. CASE ~Due(mode)
  <2>1. UNCHANGED requestVars /\ mode = requested_mode
    BY <1>3, <1>5 DEF SetMode, Due
  <2> QED BY <1>1, <1>2, <2>1 DEF mode, PowerInv, PowerFlags, SettledIsHeld, requestVars
<1> QED BY <1>4, <1>5

\* At the start nothing is asked of Windows.
LEMMA PowerInvInit == PowerInit => PowerInv
<1> SUFFICES ASSUME PowerInit PROVE PowerInv
  OBVIOUS
<1>1. PowerFlags
  BY DEF PowerInit, PowerFlags
<1>2. SettledIsHeld
  BY DEF PowerInit, SettledIsHeld, WantsSystem, WantsDisplay
<1>3. RequestFollowsPolicy
  BY <1>2 DEF PowerInit, RequestFollowsPolicy, PowerPolicy
<1> QED BY <1>1, <1>3, TimesAssumption DEF PowerInit, PowerInv, PowerModes

\* Every change of the supervisor or the window, every turn and the end of the
\* application keep the request in step with the policy.
LEMMA PowerInvStep == PowerInv /\ [PowerNext]_powerVars => PowerInv'
<1> SUFFICES ASSUME PowerInv, [PowerNext]_powerVars PROVE PowerInv'
  OBVIOUS
<1> USE TimesAssumption
<1>1. ASSUME UpdatePower, session' \in {"Idle", "Active", "Failed"}, minimized' \in BOOLEAN,
             grace_in' \in 0 .. PowerGrace, running' \in BOOLEAN
      PROVE  PowerInv'
  <2>1. LET mode == PowerPolicy(session', minimized', grace_in')
        IN  /\ requested_mode' = mode /\ mode \in PowerModes
            /\ SettledIsHeld' /\ retry_in' \in 0 .. RetryInterval
            /\ settled' \in BOOLEAN /\ handle' \in BOOLEAN
            /\ system_active' \in BOOLEAN /\ display_active' \in BOOLEAN
    BY <1>1, UpdateSound
  <2>2. PowerFlags'
    BY <1>1, <2>1 DEF PowerFlags
  <2>3. RequestFollowsPolicy'
    BY <2>1 DEF RequestFollowsPolicy
  <2> QED BY <1>1, <2>1, <2>2, <2>3 DEF PowerInv
<1>2. CASE SupervisorChanges
  <2>1. /\ UpdatePower /\ UNCHANGED <<minimized, running>>
        /\ session' \in {"Idle", "Active", "Failed"} /\ grace_in' = GraceAfter(session')
    BY <1>2 DEF SupervisorChanges
  <2> QED BY <1>1, <2>1 DEF PowerInv, PowerFlags, GraceAfter
<1>3. CASE MinimizedChanges
  <2>1. UpdatePower /\ minimized' = ~minimized /\ UNCHANGED <<session, grace_in, running>>
    BY <1>3 DEF MinimizedChanges
  <2>2. minimized' \in BOOLEAN
    BY <2>1, Zenon DEF PowerInv, PowerFlags
  <2> QED BY <1>1, <2>1, <2>2 DEF PowerInv, PowerFlags
<1>4. CASE PowerTurn
  BY <1>1, <1>4 DEF PowerTurn, contextVars, PowerInv, PowerFlags
<1>5. CASE Shutdown
  <2>1. PowerFlags'
    BY <1>5 DEF Shutdown, ReleasePower, PowerInv, PowerFlags
  <2>2. RequestFollowsPolicy'
    BY <1>5 DEF Shutdown, ReleasePower, RequestFollowsPolicy, SettledIsHeld, WantsSystem, WantsDisplay
  <2> QED BY <1>5, <2>1, <2>2 DEF Shutdown, ReleasePower, PowerInv, PowerModes
<1>6. CASE PowerTick
  <2>1. /\ grace_in' = Earlier(grace_in) /\ retry_in' = Earlier(retry_in)
        /\ UNCHANGED <<session, minimized, running, requested_mode, settled, handle,
                       system_active, display_active>>
    BY <1>6 DEF PowerTick
  <2>2. grace_in' \in 0 .. PowerGrace /\ retry_in' \in 0 .. RetryInterval
    BY <2>1 DEF Earlier, PowerInv
  <2>3. PowerFlags' /\ SettledIsHeld'
    BY <2>1 DEF PowerInv, PowerFlags, RequestFollowsPolicy, SettledIsHeld
  <2>4. ASSUME running
        PROVE  requested_mode \in {PowerPolicy(session, minimized, grace) :
                 grace \in {grace_in'} \cup (IF grace_in' = 0 THEN {PowerGrace} ELSE {})}
    <3>1. /\ PowerGrace # 0 /\ grace_in \in 0 .. PowerGrace
          /\ requested_mode \in {PowerPolicy(session, minimized, grace) :
               grace \in {grace_in} \cup (IF grace_in = 0 THEN {PowerGrace} ELSE {})}
      BY <2>4 DEF PowerInv, RequestFollowsPolicy
    <3>2. CASE grace_in > 1
      <4>1. grace_in # 0 /\ grace_in' # 0
        BY <2>1, <3>1, <3>2 DEF Earlier
      <4>2. PowerPolicy(session, minimized, grace_in) = PowerPolicy(session, minimized, grace_in')
        BY <4>1 DEF PowerPolicy
      <4> QED BY <3>1, <4>1, <4>2
    <3>3. CASE grace_in = 1
      <4>1. grace_in' = 0
        BY <2>1, <3>3 DEF Earlier
      <4>2. PowerPolicy(session, minimized, grace_in) = PowerPolicy(session, minimized, PowerGrace)
        BY <3>1, <3>3 DEF PowerPolicy
      <4> QED BY <3>1, <3>3, <4>1, <4>2
    <3>4. CASE grace_in = 0
      BY <2>1, <3>1, <3>4 DEF Earlier
    <3> QED BY <3>1, <3>2, <3>3, <3>4
  <2>5. RequestFollowsPolicy'
    BY <2>1, <2>3, <2>4 DEF RequestFollowsPolicy
  <2> QED BY <2>1, <2>2, <2>3, <2>5 DEF PowerInv
<1>7. CASE UNCHANGED powerVars
  BY <1>7 DEF powerVars, contextVars, requestVars, PowerInv, PowerFlags, RequestFollowsPolicy,
     SettledIsHeld
<1> QED BY <1>2, <1>3, <1>4, <1>5, <1>6, <1>7 DEF PowerNext

\* For any grace and retry interval, and whichever calls of Windows fail: the
\* mode asked for follows from the session, the window and the grace, and a
\* settled request is held as it was asked for (win/power_request.cpp,
\* core/playback_power.hpp).
THEOREM PowerIsAsAsked == PowerSpec => []RequestFollowsPolicy
<1>1. PowerInv => RequestFollowsPolicy
  BY DEF PowerInv
<1> QED BY <1>1, PowerInvInit, PowerInvStep, PTL DEF PowerSpec

\* Windows holds a request only for a handle that is open, whichever of its
\* calls fail.
LEMMA PowerIsTyped == PowerSpec => []PowerTypeOK
<1> DEFINE Held == system_active \/ display_active => handle
<1>1. PowerInit => Held
  BY DEF PowerInit
<1>2. ASSUME PowerInv, Held, NEW mode, SetMode(mode) PROVE Held'
  <2>1. CASE UNCHANGED requestVars
    BY <2>1, <1>2, Zenon DEF requestVars
  <2>2. CASE AskWindows(mode)
    <3> DEFINE system_wanted == WantsSystem(mode)
               display_wanted == WantsDisplay(mode)
    <3>1. display_wanted => system_wanted
      BY DEF WantsSystem, WantsDisplay
    <3>2. handle' \in (IF system_wanted THEN {TRUE, handle} ELSE {handle})
      BY <2>2, Zenon DEF AskWindows
    <3>3. CASE system_wanted
      <4>1. CASE handle'
        BY <4>1, Zenon
      <4>2. CASE ~handle'
        <5>1. handle' = handle
          BY <3>2, <3>3, <4>2, Zenon
        <5>2. UNCHANGED <<system_active, display_active>>
          BY <2>2, <3>3, <4>2, Zenon DEF AskWindows
        <5> QED BY <1>2, <5>1, <5>2, Zenon
      <4> QED BY <4>1, <4>2
    <3>4. CASE ~system_wanted
      <4>1. handle' = handle
        BY <3>2, <3>4, Zenon
      <4>2. PICK system, display \in BOOLEAN :
              /\ system_active' = IF system THEN system_wanted ELSE system_active
              /\ display_active' = IF display THEN display_wanted ELSE display_active
        BY <2>2, <3>4, Zenon DEF AskWindows
      <4>3. system_active' => system_active
        BY <3>4, <4>2, Zenon
      <4>4. display_active' => display_active
        BY <3>1, <3>4, <4>2, Zenon
      <4> QED BY <1>2, <4>1, <4>3, <4>4, Zenon
    <3> QED BY <3>3, <3>4
  <2> QED BY <1>2, <2>1, <2>2, Zenon DEF SetMode
<1>3. PowerInv /\ Held /\ [PowerNext]_powerVars => Held'
  <2> SUFFICES ASSUME PowerInv, Held, [PowerNext]_powerVars PROVE Held'
    OBVIOUS
  <2>1. CASE UpdatePower
    BY <1>2, <2>1, Zenon DEF UpdatePower
  <2>2. CASE UNCHANGED <<handle, system_active, display_active>>
    BY <2>2, Zenon
  <2>3. CASE Shutdown
    BY <2>3, Zenon DEF Shutdown, ReleasePower
  <2> QED
    BY <2>1, <2>2, <2>3, Zenon DEF PowerNext, powerVars, requestVars, SupervisorChanges, MinimizedChanges,
       PowerTurn, PowerTick
<1>4. PowerInv /\ Held => PowerTypeOK
  BY Zenon DEF PowerInv, PowerFlags, PowerTypeOK
<1> QED BY <1>1, <1>3, <1>4, PowerInvInit, PowerInvStep, PTL DEF PowerSpec

-----------------------------------------------------------------------------
(* Atomic file writes (win/file_write.cpp)                                 *)

(* What a write knows at each of its steps: once its bytes are written the *)
(* temporary holds them, once it is flushed they stay there, and the       *)
(* destination is as it was found, and on the disk, until the rename.      *)
Steps   == {"Idle", "Write", "Flush", "Close", "GiveUp", "Move", "Delete"}
Writing == [at : Steps, version : Contents, before : Contents]

FileInv ==
  /\ writer \in [Writers -> Writing] /\ saved \in Contents /\ temporary \in Contents
  /\ saved_flushed = TRUE
  /\ \A w \in Writers :
       /\ writer[w].at # "Idle" => writer[w].version \in Versions /\ writer[w].before = saved
       /\ writer[w].at \in {"Flush", "Close", "Move"} => temporary = writer[w].version
       /\ writer[w].at \in {"Close", "Move"} => temporary_flushed = TRUE

\* The initial states have nothing under way.
LEMMA FileInvInit == FileInit => FileInv
BY DEF FileInit, FileInv, Writing, Steps, Idle, Contents

(* A step of the only instance keeps what is known of its write, and is a  *)
(* step of AtomicFile or changes neither the file nor the answer.          *)
LEMMA FileStep ==
  ASSUME NEW w, Writers = {w}, FileInv, [FileNext]_writeVars
  PROVE  FileInv' /\ [Promise!AtomicNext]_<<saved, returned>>
<1> USE DEF FileInv, Writing, Steps, Contents
<1> DEFINE Stutter == UNCHANGED <<saved, returned>>
<1>a. w \in Writers /\ writer[w] \in Writing
  OBVIOUS
<1>1. CASE CreateTemporary(w)
  BY <1>1, <1>a DEF CreateTemporary
<1>2. CASE CannotCreate(w)
  <2>1. PICK version \in Versions :
          returned' = [ok |-> FALSE, version |-> version, before |-> saved, after |-> saved]
    BY <1>2 DEF CannotCreate
  <2>2. Promise!LeavesAlone(version)
    BY <1>2, <2>1 DEF CannotCreate, fileVars, Promise!LeavesAlone, Promise!Answer
  <2> QED BY <1>2, <2>2 DEF CannotCreate, fileVars, Promise!AtomicNext
<1>3. CASE WriteAll(w)
  BY <1>3, <1>a DEF WriteAll, Goes
<1>4. CASE WriteCutShort(w)
  BY <1>4, <1>a DEF WriteCutShort, Goes, fileVars
<1>5. CASE Flush(w)
  BY <1>5, <1>a DEF Flush, Goes
<1>6. CASE FlushFails(w)
  BY <1>6, <1>a DEF FlushFails, Goes, fileVars
<1>7. CASE CloseHandle(w)
  BY <1>7, <1>a DEF CloseHandle, Goes
<1>8. CASE MoveTemporary(w)
  <2>1. /\ writer[w].version \in Versions /\ writer[w].before = saved
        /\ temporary = writer[w].version /\ temporary_flushed = TRUE
    BY <1>8, <1>a DEF MoveTemporary
  <2>2. Promise!Replaces(writer[w].version)
    BY <1>8, <2>1 DEF MoveTemporary, Returns, Promise!Replaces, Promise!Answer
  <2>3. FileInv'
    BY <1>8, <1>a, <2>1 DEF MoveTemporary, Returns, Idle
  <2> QED BY <2>1, <2>2, <2>3 DEF Promise!AtomicNext
<1>9. CASE CannotMove(w)
  BY <1>9, <1>a DEF CannotMove, Goes, fileVars
<1>10. CASE DeleteTemporary(w)
  <2>1. writer[w].version \in Versions /\ writer[w].before = saved
    BY <1>10, <1>a DEF DeleteTemporary
  <2>2. Promise!LeavesAlone(writer[w].version)
    BY <1>10, <2>1 DEF DeleteTemporary, Returns, Promise!LeavesAlone, Promise!Answer
  <2>3. FileInv'
    BY <1>10, <1>a DEF DeleteTemporary, Returns, Idle
  <2> QED BY <2>1, <2>2, <2>3 DEF Promise!AtomicNext
<1>11. CASE Kill(w)
  BY <1>11, <1>a DEF Kill, Idle
<1>12. CASE PowerFails
  BY <1>12 DEF PowerFails, Survives, Idle
<1>13. CASE UNCHANGED writeVars
  BY <1>13 DEF writeVars, fileVars
<1> QED
  BY <1>1, <1>2, <1>3, <1>4, <1>5, <1>6, <1>7, <1>8, <1>9, <1>10, <1>11, <1>12, <1>13
     DEF FileNext, Write

(* write_file_atomically keeps what file_write.hpp says of it as long as   *)
(* one instance runs: a replacement of the whole file, or no change.       *)
THEOREM SingleWriterIsAtomic ==
  ASSUME NEW w, Writers = {w}
  PROVE  FileSpec => ImplementsAtomicFile
<1>1. FileInit => Promise!AtomicInit
  BY DEF FileInit, Nothing, Promise!AtomicInit, Promise!Absent, Absent
<1>2. FileInv /\ [FileNext]_writeVars => FileInv' /\ [Promise!AtomicNext]_<<saved, returned>>
  BY FileStep
<1> QED
  BY FileInvInit, <1>1, <1>2, PTL DEF FileSpec, ImplementsAtomicFile, Promise!AtomicSpec

(* As long as one instance runs the destination is never a truncated file  *)
(* (file_write.hpp 8-9), unless a version is one.                          *)
THEOREM SingleWriterNeverTruncates ==
  ASSUME NEW w, Writers = {w}, Cut \notin Versions
  PROVE  FileSpec => []NoTruncatedFile
<1> DEFINE Whole == saved \in {Absent} \cup Versions
<1>1. FileInit => Whole
  BY DEF FileInit
<1>2. FileInv /\ Whole /\ [FileNext]_writeVars => Whole'
  <2>1. SUFFICES ASSUME FileInv, Whole, [FileNext]_writeVars PROVE Whole'
    OBVIOUS
  <2>2. [Promise!AtomicNext]_<<saved, returned>>
    BY <2>1, FileStep
  <2> QED BY <2>1, <2>2 DEF Promise!AtomicNext, Promise!Replaces, Promise!LeavesAlone
<1>3. FileInv /\ [FileNext]_writeVars => FileInv'
  BY FileStep
<1>4. Whole => NoTruncatedFile
  BY DEF NoTruncatedFile, Cut, Absent
<1> QED
  BY FileInvInit, <1>1, <1>2, <1>3, <1>4, PTL DEF FileSpec

\* What a writer remembers, and FileTypeOK.
FileTypes == writer \in [Writers -> Writing] /\ FileTypeOK

\* For any number of instances the handle of the temporary is open exactly
\* while its writer works on it: whatever fails or is killed, none leaks.
LEMMA FilesAreTyped == FileSpec => []FileTypeOK
<1> USE WritersAssumption DEF FileTypes, FileTypeOK, Writing, Steps, Contents
<1>1. FileInit => FileTypes
  BY DEF FileInit, Idle
<1>2. FileTypes /\ [FileNext]_writeVars => FileTypes'
  <2> SUFFICES ASSUME FileTypes, [FileNext]_writeVars PROVE FileTypes'
    OBVIOUS
  <2>1. CASE UNCHANGED writeVars
    BY <2>1 DEF writeVars, fileVars
  <2>2. CASE PowerFails
    BY <2>2 DEF PowerFails, Survives, Idle
  <2>3. ASSUME NEW w \in Writers, Write(w) \/ Kill(w) PROVE FileTypes'
    <3>1. CASE CreateTemporary(w)
      <4>1. PICK version \in Versions :
              writer' = [writer EXCEPT ![w] = [at |-> "Write", version |-> version, before |-> saved]]
        BY <3>1 DEF CreateTemporary
      <4>2. writer' \in [Writers -> Writing]
        BY <4>1
      <4>3. opened_by = NoWriter /\ opened_by' = w /\ temporary' = Cut /\ temporary_flushed' = FALSE
            /\ UNCHANGED <<saved, saved_flushed>> /\ writer[w].at = "Idle"
        BY <3>1 DEF CreateTemporary
      <4>4. \A v \in Writers : opened_by' = v <=> writer'[v].at \in {"Write", "Flush", "Close", "GiveUp"}
        BY <4>1, <4>3
      <4> QED BY <4>2, <4>3, <4>4
    <3>2. CASE CannotCreate(w)
      BY <3>2 DEF CannotCreate, fileVars
    <3>3. CASE WriteAll(w)
      BY <3>3 DEF WriteAll, Goes
    <3>4. CASE WriteCutShort(w) \/ FlushFails(w) \/ CannotMove(w)
      BY <3>4 DEF WriteCutShort, FlushFails, CannotMove, Goes, fileVars
    <3>5. CASE Flush(w)
      BY <3>5 DEF Flush, Goes
    <3>6. CASE CloseHandle(w)
      BY <3>6 DEF CloseHandle, Goes
    <3>7. CASE MoveTemporary(w)
      BY <3>7 DEF MoveTemporary, Returns, Idle
    <3>8. CASE DeleteTemporary(w)
      BY <3>8 DEF DeleteTemporary, Returns, Idle
    <3>9. CASE Kill(w)
      BY <3>9 DEF Kill, Idle
    <3> QED BY <2>3, <3>1, <3>2, <3>3, <3>4, <3>5, <3>6, <3>7, <3>8, <3>9 DEF Write
  <2> QED BY <2>1, <2>2, <2>3 DEF FileNext
<1> QED BY <1>1, <1>2, PTL DEF FileSpec

-----------------------------------------------------------------------------
(* The log ring (util/log_ring.cpp)                                        *)

\* Where each retained line is: the wrapped front holds the latest ones.
LineAt(slot) == IF slot <= head THEN lines - head + slot
                ELSE lines - head - Len(entries) + slot

RingInv ==
  /\ capacity \in Nat /\ lines \in Nat /\ head \in Nat
  /\ entries \in Seq(Nat) /\ Len(entries) = Retained
  /\ head = 0 \/ (head < capacity /\ Len(entries) = capacity)
  /\ \A slot \in 1 .. Len(entries) : entries[slot] = LineAt(slot)

\* An empty ring keeps no line.
LEMMA RingInitially == RingInit => RingInv
  BY CapacityAssumption DEF RingInit, RingInv, Retained

\* push keeps each line in its place, whether the ring grows or wraps
\* (util/log_ring.cpp 11-25).
LEMMA RingStep == RingInv /\ [RingNext]_ringVars => RingInv'
<1> SUFFICES ASSUME RingInv, [RingNext]_ringVars PROVE RingInv'
  OBVIOUS
<1> USE DEF RingInv
<1>1. CASE UNCHANGED ringVars
  BY <1>1 DEF ringVars, Retained, LineAt
<1>2. CASE Push
  <2> USE <1>2 DEF Push
  <2>1. CASE capacity = 0
    BY <2>1 DEF Retained, LineAt
  <2>2. CASE capacity # 0 /\ Len(entries) < capacity
    <3>1. head = 0 /\ Len(entries) = lines
      BY <2>2 DEF Retained
    <3>2. entries' = Append(entries, lines + 1) /\ head' = 0
      BY <2>2, <3>1
    <3>3. entries' \in Seq(Nat) /\ Len(entries') = lines + 1
      BY <3>1, <3>2
    <3>4. \A slot \in 1 .. lines + 1 : entries'[slot] = slot
      BY <3>1, <3>2 DEF LineAt
    <3> QED
      BY <2>2, <3>1, <3>2, <3>3, <3>4 DEF Retained, LineAt
  <2>3. CASE capacity # 0 /\ ~(Len(entries) < capacity)
    <3>1. Len(entries) = capacity /\ head < capacity /\ capacity <= lines
      BY <2>3 DEF Retained
    <3>2. /\ entries' = [entries EXCEPT ![head + 1] = lines + 1]
          /\ head' = Following(head)
      BY <2>3
    <3>3. /\ entries' \in Seq(Nat) /\ Len(entries') = capacity
          /\ \A slot \in 1 .. capacity :
               entries'[slot] = IF slot = head + 1 THEN lines + 1 ELSE entries[slot]
      BY <3>1, <3>2
    <3>4. head' \in Nat /\ head' < capacity
      BY <2>3, <3>1, <3>2 DEF Following
    <3>5. \A slot \in 1 .. capacity : entries'[slot] = LineAt(slot)'
      <4> SUFFICES ASSUME NEW slot \in 1 .. capacity
                   PROVE  entries'[slot] = LineAt(slot)'
        OBVIOUS
      <4> HIDE DEF RingInv
      <4>1. entries[slot] = IF slot <= head THEN lines - head + slot
                            ELSE lines - head - capacity + slot
        BY <3>1 DEF RingInv, LineAt
      <4>2. lines' = lines + 1
        BY <1>2 DEF Push
      <4>3. capacity \in Nat /\ lines \in Nat /\ head \in Nat
        BY DEF RingInv
      <4>4. LineAt(slot)' = IF slot <= head' THEN lines + 1 - head' + slot
                            ELSE lines + 1 - head' - capacity + slot
        BY <3>3, <3>4, <4>2, <4>3 DEF LineAt
      <4>5. entries'[slot] = IF slot = head + 1 THEN lines + 1 ELSE entries[slot]
        BY <3>3
      <4>6. CASE head + 1 = capacity
        <5>1. head' = 0
          BY <3>2, <4>6 DEF Following
        <5> QED
          BY <4>1, <4>3, <4>4, <4>5, <4>6, <5>1
      <4>7. CASE head + 1 # capacity
        <5>1. head' = head + 1
          BY <3>2, <4>7 DEF Following
        <5> QED
          BY <4>1, <4>3, <4>4, <4>5, <4>7, <5>1
      <4> QED
        BY <4>6, <4>7
    <3> QED
      BY <2>3, <3>1, <3>3, <3>4, <3>5 DEF Retained
  <2> QED
    BY <2>1, <2>2, <2>3
<1> QED
  BY <1>1, <1>2 DEF RingNext

\* RingTypeOK of every capacity (util/log_ring.cpp).
LEMMA RingIsTyped == RingSpec => []RingTypeOK
<1>1. RingInv => RingTypeOK
  BY DEF RingInv, RingTypeOK
<1> QED BY <1>1, RingInitially, RingStep, PTL DEF RingSpec

\* What snapshot_into copies is the latest lines, oldest first, because of
\* where each line is (util/log_ring.cpp 33-41).
LEMMA RingInvSnapshot == RingInv => SnapshotIsLatest
<1> SUFFICES ASSUME RingInv PROVE SnapshotIsLatest
  OBVIOUS
<1> USE DEF RingInv
<1> DEFINE older == SubSeq(entries, head + 1, Len(entries))
           newer == SubSeq(entries, 1, head)
<1>1. head <= Len(entries) /\ Len(entries) \in Nat
      /\ \A i \in 1 .. Len(entries) : entries[i] \in Nat
  <2>1. Len(entries) \in Nat /\ head \in Nat
    OBVIOUS
  <2>2. head <= Len(entries)
    BY <2>1
  <2>3. \A i \in 1 .. Len(entries) : entries[i] \in Nat
    <3>1. entries \in Seq(Nat)
      OBVIOUS
    <3> HIDE DEF RingInv
    <3> QED BY <3>1
  <2> QED BY <2>1, <2>2, <2>3
<1> HIDE DEF RingInv
<1>2. /\ older \in Seq(Nat) /\ Len(older) = Len(entries) - head
      /\ \A i \in 1 .. Len(older) : older[i] = entries[head + i]
  <2>1. /\ head \in Nat /\ head + 1 \in Int /\ Len(entries) \in Int
        /\ \A i \in head + 1 .. Len(entries) : entries[i] \in Nat
    BY <1>1 DEF RingInv
  <2>2. /\ older \in Seq(Nat)
        /\ Len(older) = IF head + 1 <= Len(entries) THEN Len(entries) - (head + 1) + 1 ELSE 0
        /\ \A i \in 1 .. Len(entries) - (head + 1) + 1 : older[i] = entries[head + 1 + i - 1]
    BY <2>1, SubSeqProperties
  <2> HIDE DEF older
  <2>3. Len(older) = Len(entries) - head
    BY <1>1, <2>1, <2>2
  <2>4. ASSUME NEW i \in 1 .. Len(older) PROVE older[i] = entries[head + i]
    <3>1. i \in 1 .. Len(entries) - (head + 1) + 1 /\ head + 1 + i - 1 = head + i
      BY <1>1, <2>1, <2>3
    <3> QED BY <2>2, <3>1
  <2> QED BY <2>2, <2>3, <2>4
<1>3. /\ newer \in Seq(Nat) /\ Len(newer) = head
      /\ \A i \in 1 .. Len(newer) : newer[i] = entries[i]
  <2>1. head \in Nat /\ \A i \in 1 .. head : entries[i] \in Nat
    BY <1>1 DEF RingInv
  <2>2. /\ newer \in Seq(Nat)
        /\ Len(newer) = IF 1 <= head THEN head - 1 + 1 ELSE 0
        /\ \A i \in 1 .. head - 1 + 1 : newer[i] = entries[1 + i - 1]
    BY <2>1, SubSeqProperties
  <2> HIDE DEF newer
  <2>3. Len(newer) = head
    BY <2>1, <2>2
  <2>4. ASSUME NEW i \in 1 .. Len(newer) PROVE newer[i] = entries[i]
    <3>1. i \in 1 .. head - 1 + 1 /\ 1 + i - 1 = i
      BY <2>1, <2>3
    <3> QED BY <2>2, <3>1
  <2> QED BY <2>2, <2>3, <2>4
<1> USE DEF RingInv
<1> HIDE DEF older, newer
<1>4. /\ older \o newer \in Seq(Nat) /\ Len(older \o newer) = Len(entries)
      /\ \A i \in 1 .. Len(entries) :
           (older \o newer)[i] = IF i <= Len(older) THEN older[i]
                                 ELSE newer[i - Len(older)]
  <2>1. Len(older) + Len(newer) = Len(entries)
    BY <1>1, <1>2, <1>3
  <2> HIDE DEF RingInv
  <2>2. /\ older \o newer \in Seq(Nat) /\ Len(older \o newer) = Len(older) + Len(newer)
        /\ \A i \in 1 .. Len(older) + Len(newer) :
             (older \o newer)[i] = IF i <= Len(older) THEN older[i]
                                   ELSE newer[i - Len(older)]
    BY <1>2, <1>3, ConcatProperties
  <2> QED
    BY <2>1, <2>2
<1>5. \A i \in 1 .. Len(entries) : (older \o newer)[i] = lines - Len(entries) + i
  <2> SUFFICES ASSUME NEW i \in 1 .. Len(entries)
               PROVE  (older \o newer)[i] = lines - Len(entries) + i
    OBVIOUS
  <2> DEFINE n == Len(entries)
  <2>1. /\ n \in Nat /\ head \in 0 .. n /\ Len(older) = n - head /\ lines \in Nat
        /\ i \in 1 .. n
    BY <1>1, <1>2
  <2>2. \A slot \in 1 .. n : entries[slot] = IF slot <= head THEN lines - head + slot
                                            ELSE lines - head - n + slot
    BY DEF LineAt
  <2>3. (older \o newer)[i] = IF i <= Len(older) THEN older[i] ELSE newer[i - Len(older)]
    BY <1>4
  <2> HIDE DEF RingInv, n
  <2>4. CASE i <= n - head
    <3>1. (older \o newer)[i] = entries[head + i] /\ head + i \in 1 .. n
      BY <1>2, <2>1, <2>3, <2>4
    <3>2. ~(head + i <= head)
      BY <2>1
    <3> QED
      BY <2>1, <2>2, <3>1, <3>2 DEF n
  <2>5. CASE ~(i <= n - head)
    <3>1. i - (n - head) \in 1 .. head /\ i - (n - head) \in 1 .. n
      BY <2>1, <2>5
    <3>2. (older \o newer)[i] = entries[i - (n - head)]
      BY <1>3, <2>1, <2>3, <2>5, <3>1
    <3> QED
      BY <2>1, <2>2, <3>1, <3>2 DEF n
  <2> QED
    BY <2>4, <2>5
<1>6. Snapshot = older \o newer
  BY DEF Snapshot, older, newer
<1>7. Retained = Len(entries) /\ Len(entries) \in Nat
  OBVIOUS
<1>8. Snapshot \in Seq(Nat) /\ Len(Snapshot) = Retained
  BY <1>4, <1>6, <1>7
<1>9. Snapshot = [i \in 1 .. Len(Snapshot) |-> Snapshot[i]]
  BY <1>8
<1> QED
  BY <1>5, <1>6, <1>7, <1>8, <1>9 DEF SnapshotIsLatest

(* The panel is given the latest lines, oldest first, for every capacity.  *)
THEOREM RingKeepsLatest == RingSpec => []SnapshotIsLatest
<1>1. RingInv /\ [RingNext]_ringVars => RingInv'
  BY RingStep
<1> QED
  BY RingInitially, <1>1, RingInvSnapshot, PTL DEF RingSpec

-----------------------------------------------------------------------------
(* Session logs (util/log.cpp)                                             *)

\* Of numbers that have a bound there is a greatest.
LEMMA Greatest ==
  ASSUME NEW bound \in Nat, NEW S \in SUBSET (0 .. bound), S # {}
  PROVE  Max(S) \in S
<1> DEFINE T == {n \in Nat : \A s \in S : s <= n}
<1>1. T \in SUBSET Nat /\ bound \in T
  OBVIOUS
<1>2. PICK m \in T : \A n \in T : m <= n
  BY <1>1, Least
<1>3. m \in Nat /\ \A s \in S : s <= m /\ s \in Nat
  OBVIOUS
<1>4. m \in S
  <2> SUFFICES ASSUME m \notin S PROVE FALSE
    OBVIOUS
  <2>1. \A s \in S : s <= m - 1
    BY <1>3
  <2>2. PICK s \in S : s \in Nat /\ s <= m - 1
    BY <1>3, <2>1
  <2>3. m - 1 \in Nat
    BY <1>3, <2>2
  <2> QED BY <1>2, <2>1, <2>3, <1>3
<1>5. \E x \in S : \A y \in S : x >= y
  BY <1>3, <1>4
<1> QED BY <1>5 DEF Max

InstanceRecords ==
  [running : BOOLEAN, number : 0 .. MaxSession, log : {NoLog, Primary} \cup Instances, lines : Nat]
SaveRecords ==
  [at : {"Idle", "Copy", "Move"}, length : Nat, second : Seconds, copy : 0 .. Copies]
FileRecords ==
  [pid : Instances \cup {NoOne}, number : Nat, lines : Nat, whole : BOOLEAN]
LogFiles == {Primary} \cup Instances

LogTypes ==
  /\ claim \in Instances \cup {NoOne}
  /\ instance \in [Instances -> InstanceRecords] /\ saving \in [Instances -> SaveRecords]
  /\ live \in [LogFiles -> FileRecords]
  /\ partial \in [Names -> FileRecords] /\ finished \in [Names -> FileRecords]

\* Each writes to a file of its own, or to coax.log under the claim, and the
\* file it writes to holds its lines and no others.
OwnLogs ==
  \A i \in Instances :
    /\ instance[i].log \in {NoLog, Primary, i}
    /\ instance[i].log = Primary => claim = i
    /\ instance[i].log # NoLog =>
         instance[i].running = TRUE /\ live[instance[i].log] = Log(i, instance[i].lines)

\* A save is of an instance with a log, and what is complete but has not yet
\* its name is that log as it was, unless it has been removed.
SavesUnderWay ==
  \A i \in Instances :
    saving[i].at # "Idle" =>
      /\ instance[i].log # NoLog /\ saving[i].copy # 0
      /\ saving[i].at = "Move" => partial[Name(i)] \in {NoFile, Log(i, saving[i].length)}

SavesDone ==
  /\ \A name \in Names :
       finished[name] # NoFile => finished[name].whole /\ finished[name].pid = name[1]
  /\ \A save \in answered :
       save.name \in Names /\ finished[save.name] = save.log /\ save.log # NoFile

EvidenceInv == LogTypes /\ OwnLogs /\ SavesUnderWay /\ SavesDone

\* What starts is numbered within the bound.
LEMMA NumberSound ==
  ASSUME LogTypes, NEW i \in Instances, NextNumber <= MaxSession
  PROVE  NextNumber \in 0 .. MaxSession
<1> DEFINE S == {instance[j].number : j \in Instances}
<1>1. MaxSession \in Nat
  BY SessionLogAssumption
<1>2. S \in SUBSET (0 .. MaxSession) /\ S # {}
  BY DEF LogTypes, InstanceRecords
<1>3. Max(S) \in 0 .. MaxSession
  <2> HIDE DEF S
  <2> QED BY <1>1, <1>2, Greatest
<1> QED BY <1>1, <1>3 DEF NextNumber

\* At the start no log is open and no save is under way.
LEMMA EvidenceInit == SessionLogInit => EvidenceInv
<1> SUFFICES ASSUME SessionLogInit PROVE EvidenceInv
  OBVIOUS
<1> USE SessionLogAssumption DEF SessionLogInit
<1>1. NoFile \in FileRecords /\ NoSave \in SaveRecords /\ NotRunning(0) \in InstanceRecords
  BY DEF NoFile, FileRecords, NoSave, SaveRecords, NotRunning, InstanceRecords
<1>2. LogTypes
  BY <1>1 DEF LogTypes, LogFiles
<1>3. OwnLogs
  BY DEF OwnLogs, NotRunning, NoLog, Primary
<1>4. SavesUnderWay /\ SavesDone
  BY DEF SavesUnderWay, NoSave, SavesDone
<1> QED BY <1>2, <1>3, <1>4 DEF EvidenceInv

\* An instance that starts with a log starts it, and saves nothing yet.
LEMMA StartSound ==
  ASSUME EvidenceInv, NEW i \in Instances, NEW log \in {NoLog, Primary, i}, StartsWith(i, log),
         \/ log = NoLog /\ live' = live
         \/ log # NoLog /\ live' = [live EXCEPT ![log] = Truncated(i)],
         \/ log = Primary /\ claim = NoOne /\ claim' = i
         \/ log # Primary /\ claim' = claim,
         UNCHANGED <<saving, partial, finished, answered>>
  PROVE  EvidenceInv'
<1> DEFINE n == NextNumber
           started == [running |-> TRUE, number |-> n, log |-> log, lines |-> 0]
<1> USE SessionLogAssumption DEF EvidenceInv, LogTypes
<1>1. n \in 0 .. MaxSession /\ n \in Nat /\ MaxSession \in Nat
  BY NumberSound DEF StartsWith
<1>2. /\ instance' = [instance EXCEPT ![i] = started] /\ instance[i].running = FALSE
      /\ started \in InstanceRecords
  BY <1>1 DEF StartsWith, InstanceRecords
<1>3. Truncated(i) = [pid |-> i, number |-> n, lines |-> 0, whole |-> TRUE]
      /\ Truncated(i) \in FileRecords
  BY <1>1 DEF Truncated, FileRecords
<1>4. instance[i].log = NoLog /\ saving[i].at = "Idle"
  BY <1>2 DEF OwnLogs, SavesUnderWay
<1>5. LogTypes'
  BY <1>2, <1>3 DEF LogFiles
<1>6. ASSUME NEW j \in Instances, j # i
      PROVE  /\ instance'[j] = instance[j]
             /\ instance[j].log # NoLog => live'[instance[j].log] = live[instance[j].log]
             /\ instance[j].log = Primary => claim' = claim
             /\ \A count : Log(j, count)' = Log(j, count)
  <2>1. instance'[j] = instance[j]
    BY <1>2, <1>6
  <2>2. ASSUME instance[j].log # NoLog PROVE live'[instance[j].log] = live[instance[j].log]
    <3>1. instance[j].log \in {Primary, j} /\ (instance[j].log = Primary => claim = j)
      BY <2>2 DEF OwnLogs
    <3>2. instance[j].log # log \/ log = NoLog
      BY <1>6, <3>1
    <3> QED BY <3>1, <3>2, <2>2 DEF LogFiles
  <2>3. instance[j].log = Primary => claim' = claim
    BY DEF OwnLogs
  <2> QED BY <2>1, <2>2, <2>3 DEF Log
<1>7. instance'[i] = started /\ (log # NoLog => live'[log] = Truncated(i))
  BY <1>2 DEF LogFiles
<1>8. log # NoLog => Truncated(i) = Log(i, 0)'
  BY <1>3, <1>7 DEF Log
<1>9. OwnLogs'
  <2> SUFFICES ASSUME NEW j \in Instances
               PROVE  /\ instance'[j].log \in {NoLog, Primary, j}
                      /\ instance'[j].log = Primary => claim' = j
                      /\ instance'[j].log # NoLog =>
                           /\ instance'[j].running = TRUE
                           /\ live'[instance'[j].log] = Log(j, instance[j].lines)'
    BY DEF OwnLogs
  <2>1. CASE j = i
    BY <2>1, <1>7, <1>8
  <2>2. CASE j # i
    BY <2>2, <1>6 DEF OwnLogs
  <2> QED BY <2>1, <2>2
<1>10. SavesUnderWay'
  <2> SUFFICES ASSUME NEW j \in Instances, saving[j].at # "Idle"
               PROVE  /\ instance'[j].log # NoLog /\ saving[j].copy # 0
                      /\ saving[j].at = "Move" => partial[Name(j)] \in {NoFile, Log(j, saving[j].length)'}
    BY DEF SavesUnderWay, Name, Log
  <2> QED BY <1>4, <1>6 DEF SavesUnderWay
<1>11. SavesDone'
  BY DEF SavesDone
<1> QED BY <1>5, <1>9, <1>10, <1>11

\* A line more in the log of its instance.
LEMMA WriteSound ==
  ASSUME EvidenceInv, NEW i \in Instances, WriteLine(i) PROVE EvidenceInv'
<1> USE SessionLogAssumption DEF EvidenceInv, LogTypes
<1> DEFINE log == instance[i].log
<1>1. /\ log # NoLog /\ UNCHANGED <<claim, saving, partial, finished, answered>>
      /\ instance' = [instance EXCEPT ![i].lines = @ + 1]
      /\ live' = [live EXCEPT ![log] = Appended(i)]
  BY DEF WriteLine
<1>2. /\ instance'[i] = [running |-> instance[i].running, number |-> instance[i].number,
                         log |-> log, lines |-> instance[i].lines + 1]
      /\ instance' \in [Instances -> InstanceRecords]
  BY <1>1 DEF InstanceRecords
<1>3. log \in {Primary, i} /\ log \in LogFiles /\ live[log] = Log(i, instance[i].lines)
  BY <1>1 DEF OwnLogs, LogFiles
<1>4. Appended(i) = Log(i, instance[i].lines + 1) /\ Appended(i) \in FileRecords
  <2>1. live[log].lines = instance[i].lines /\ instance[i].lines \in Nat /\ instance[i].number \in Nat
    BY <1>3, SessionLogAssumption DEF Log, InstanceRecords
  <2> QED BY <1>3, <2>1 DEF Appended, Log, FileRecords
<1>5. LogTypes'
  BY <1>1, <1>2, <1>3, <1>4
<1>6. ASSUME NEW j \in Instances, j # i
      PROVE  /\ instance'[j] = instance[j]
             /\ instance[j].log # NoLog => live'[instance[j].log] = live[instance[j].log]
             /\ \A count : Log(j, count)' = Log(j, count)
  <2>1. instance'[j] = instance[j]
    BY <1>1, <1>6
  <2>2. ASSUME instance[j].log # NoLog PROVE live'[instance[j].log] = live[instance[j].log]
    <3>1. instance[j].log \in {Primary, j} /\ (instance[j].log = Primary => claim = j)
      BY <2>2 DEF OwnLogs
    <3>2. log = Primary => claim = i
      BY DEF OwnLogs
    <3>3. instance[j].log # log
      BY <1>3, <1>6, <3>1, <3>2
    <3> QED BY <1>1, <3>1, <3>3 DEF LogFiles
  <2> QED BY <2>1, <2>2 DEF Log
<1>7. live'[log] = [pid |-> i, number |-> instance'[i].number,
                    lines |-> instance'[i].lines, whole |-> TRUE]
  <2>1. live'[log] = Appended(i)
    BY <1>1, <1>3
  <2> QED BY <1>2, <1>4, <2>1 DEF Log
<1>8. OwnLogs'
  <2> SUFFICES ASSUME NEW j \in Instances
               PROVE  /\ instance'[j].log \in {NoLog, Primary, j}
                      /\ instance'[j].log = Primary => claim' = j
                      /\ instance'[j].log # NoLog =>
                           /\ instance'[j].running = TRUE
                           /\ live'[instance'[j].log] = Log(j, instance[j].lines)'
    BY DEF OwnLogs
  <2>1. CASE j = i
    <3>1. live'[log] = Log(i, instance[i].lines)'
      BY <1>7 DEF Log
    <3>2. /\ instance'[i].log = log /\ instance'[i].running = instance[i].running
          /\ claim' = claim
      BY <1>1, <1>2
    <3>3. /\ log \in {NoLog, Primary, i} /\ (log = Primary => claim = i)
          /\ instance[i].running = TRUE
      BY <1>1 DEF OwnLogs
    <3> HIDE DEF log
    <3> QED BY <2>1, <3>1, <3>2, <3>3
  <2>2. CASE j # i
    BY <2>2, <1>1, <1>6 DEF OwnLogs, Log
  <2> QED BY <2>1, <2>2
<1>9. SavesUnderWay'
  <2> SUFFICES ASSUME NEW j \in Instances, saving[j].at # "Idle"
               PROVE  /\ instance'[j].log # NoLog /\ saving[j].copy # 0
                      /\ saving[j].at = "Move" => partial[Name(j)] \in {NoFile, Log(j, saving[j].length)'}
    BY <1>1 DEF SavesUnderWay, Name, Log
  <2>1. instance'[j].number = instance[j].number /\ instance'[j].log = instance[j].log
    BY <1>2, <1>6
  <2>2. Log(j, saving[j].length)' = Log(j, saving[j].length)
    BY <1>1, <2>1 DEF Log
  <2> QED BY <2>1, <2>2 DEF SavesUnderWay
<1>10. SavesDone'
  BY <1>1 DEF SavesDone
<1> QED BY <1>5, <1>8, <1>9, <1>10

\* However a process ends, the files are left as they are.
LEMMA EndSound ==
  ASSUME EvidenceInv, NEW i \in Instances, End(i) PROVE EvidenceInv'
<1> USE SessionLogAssumption DEF EvidenceInv, LogTypes
<1>1. /\ instance' = [instance EXCEPT ![i] = NotRunning(instance[i].number)]
      /\ claim' = (IF claim = i THEN NoOne ELSE claim)
      /\ saving' = [saving EXCEPT ![i] = NoSave]
      /\ UNCHANGED <<live, partial, finished, answered>>
  BY DEF End
<1>2. NotRunning(instance[i].number) \in InstanceRecords /\ NoSave \in SaveRecords
      /\ NotRunning(instance[i].number).log = NoLog /\ NoSave.at = "Idle"
  BY DEF NotRunning, InstanceRecords, NoSave, SaveRecords
<1>3. LogTypes'
  BY <1>1, <1>2
<1>4. \A j \in Instances :
        j # i => /\ instance'[j] = instance[j] /\ saving'[j] = saving[j] /\ Name(j)' = Name(j)
                 /\ \A count : Log(j, count)' = Log(j, count)
  BY <1>1 DEF Log, Name
<1>5. instance'[i].log = NoLog /\ saving'[i].at = "Idle"
  BY <1>1, <1>2
<1>6. OwnLogs'
  <2> SUFFICES ASSUME NEW j \in Instances
               PROVE  /\ instance'[j].log \in {NoLog, Primary, j}
                      /\ instance'[j].log = Primary => claim' = j
                      /\ instance'[j].log # NoLog =>
                           /\ instance'[j].running = TRUE
                           /\ live[instance'[j].log] = Log(j, instance[j].lines)'
    BY <1>1 DEF OwnLogs
  <2>1. CASE j = i
    BY <2>1, <1>5 DEF NoLog, Primary
  <2>2. CASE j # i
    <3>1. instance'[j] = instance[j] /\ Log(j, instance[j].lines)' = Log(j, instance[j].lines)
      BY <2>2, <1>4 DEF Log
    <3>2. claim = j => claim' = j
      BY <1>1, <2>2
    <3> QED BY <3>1, <3>2 DEF OwnLogs
  <2> QED BY <2>1, <2>2
<1>7. SavesUnderWay'
  <2> SUFFICES ASSUME NEW j \in Instances, saving'[j].at # "Idle"
               PROVE  /\ instance'[j].log # NoLog /\ saving'[j].copy # 0
                      /\ saving'[j].at = "Move" =>
                           partial[Name(j)'] \in {NoFile, Log(j, saving[j].length)'}
    BY <1>1 DEF SavesUnderWay
  <2>1. j # i
    BY <1>5
  <2>2. Log(j, saving[j].length)' = Log(j, saving[j].length)
    BY <1>4, <2>1 DEF Log
  <2> QED BY <1>4, <2>1, <2>2 DEF SavesUnderWay
<1>8. SavesDone'
  BY <1>1 DEF SavesDone
<1> QED BY <1>3, <1>6, <1>7, <1>8

\* A save that begins gets a name nobody has, and removes at most what is stale.
LEMMA BeginSaveSound ==
  ASSUME EvidenceInv, NEW i \in Instances, BeginSave(i) PROVE EvidenceInv'
<1> USE SessionLogAssumption DEF EvidenceInv, LogTypes
<1>1. PICK second \in Seconds, copy \in 1 .. Copies, removed \in SUBSET {n \in Names : Stale(n)} :
        /\ saving' = [saving EXCEPT ![i] = [at |-> "Copy", length |-> instance[i].lines,
                                            second |-> second, copy |-> copy]]
        /\ partial' = [n \in Names |->
             IF n = <<i, second, copy>> THEN [Log(i, 0) EXCEPT !.whole = FALSE]
             ELSE IF n \in removed THEN NoFile ELSE partial[n]]
  <2>1. \E second \in Seconds, copy \in 1 .. Copies, removed \in SUBSET {n \in Names : Stale(n)} :
          Reserves(i, second, copy, removed)
    BY DEF BeginSave
  <2>2. PICK second \in Seconds, copy \in 1 .. Copies, removed \in SUBSET {n \in Names : Stale(n)} :
          Reserves(i, second, copy, removed)
    BY <2>1
  <2> QED BY <2>2, Zenon DEF Reserves
<1>2. /\ saving[i].at = "Idle" /\ instance[i].log # NoLog
      /\ UNCHANGED <<claim, instance, live, finished, answered>>
  BY DEF BeginSave
<1>3. LogTypes'
  <2>1. [at |-> "Copy", length |-> instance[i].lines, second |-> second, copy |-> copy] \in SaveRecords
    BY DEF InstanceRecords, SaveRecords
  <2>2. [Log(i, 0) EXCEPT !.whole = FALSE] \in FileRecords /\ NoFile \in FileRecords
    <3>1. instance[i].number \in Nat /\ NoFile \in FileRecords
      BY DEF InstanceRecords, NoFile, FileRecords
    <3> DEFINE begun == Log(i, 0)
    <3>2. begun \in FileRecords
      BY <3>1 DEF Log, FileRecords
    <3> HIDE DEF begun
    <3>3. [begun EXCEPT !.whole = FALSE] \in FileRecords
      BY <3>2 DEF FileRecords
    <3> QED BY <3>1, <3>3 DEF begun
  <2> QED BY <1>1, <1>2, <2>1, <2>2
<1>4. OwnLogs'
  BY <1>2 DEF OwnLogs, Log
<1>5. SavesUnderWay'
  <2> SUFFICES ASSUME NEW j \in Instances, saving'[j].at # "Idle"
               PROVE  /\ instance[j].log # NoLog /\ saving'[j].copy # 0
                      /\ saving'[j].at = "Move" =>
                           partial'[Name(j)'] \in {NoFile, Log(j, saving[j].length)'}
    BY <1>2 DEF SavesUnderWay
  <2>1. CASE j = i
    BY <1>1, <1>2, <2>1
  <2>2. CASE j # i
    <3>1. saving'[j] = saving[j] /\ Name(j)' = Name(j)
      BY <1>1, <2>2 DEF Name
    <3>2. Log(j, saving[j].length)' = Log(j, saving[j].length)
      BY <1>2, <3>1 DEF Log
    <3>3. Name(j) \in Names /\ Name(j) # <<i, second, copy>>
      BY <2>2, <3>1 DEF Name, Names, SavesUnderWay, SaveRecords
    <3>4. partial'[Name(j)] \in {NoFile, partial[Name(j)]}
      BY <1>1, <3>3
    <3> QED BY <3>1, <3>2, <3>4 DEF SavesUnderWay
  <2> QED BY <2>1, <2>2
<1>6. SavesDone'
  BY <1>2 DEF SavesDone
<1> QED BY <1>3, <1>4, <1>5, <1>6

\* The name of a save that is under way.
LEMMA NameSound ==
  ASSUME LogTypes, SavesUnderWay, NEW i \in Instances, saving[i].at # "Idle"
  PROVE  /\ Name(i) \in Names /\ Name(i)[1] = i
         /\ \A j \in Instances : saving[j].at # "Idle" /\ Name(j) = Name(i) => j = i
BY DEF Name, Names, SavesUnderWay, SaveRecords, LogTypes

\* What is copied is the log as it was when the save began.
LEMMA CopySound ==
  ASSUME EvidenceInv, NEW i \in Instances, CopyLog(i) PROVE EvidenceInv'
<1> USE SessionLogAssumption DEF EvidenceInv, LogTypes
<1> DEFINE copied == [live[instance[i].log] EXCEPT !.lines = saving[i].length]
<1>1. /\ saving[i].at = "Copy" /\ UNCHANGED <<claim, instance, live, finished, answered>>
      /\ partial' = [partial EXCEPT ![Name(i)] = copied]
      /\ saving' = [saving EXCEPT ![i].at = "Move"]
  BY DEF CopyLog
<1>2. copied = Log(i, saving[i].length) /\ copied \in FileRecords
  <2>1. instance[i].log # NoLog /\ instance[i].number \in Nat /\ saving[i].length \in Nat
    BY <1>1 DEF SavesUnderWay, InstanceRecords, SaveRecords
  <2>2. live[instance[i].log] = Log(i, instance[i].lines)
    BY <2>1 DEF OwnLogs
  <2>3. copied = [pid |-> i, number |-> instance[i].number, lines |-> saving[i].length,
                  whole |-> TRUE]
    <3> DEFINE kept == live[instance[i].log]
    <3>1. /\ kept \in FileRecords /\ kept.pid = i /\ kept.number = instance[i].number
          /\ kept.whole = TRUE
      BY <2>1, <2>2 DEF Log, OwnLogs, LogFiles
    <3> HIDE DEF kept
    <3>2. [kept EXCEPT !.lines = saving[i].length]
            = [pid |-> kept.pid, number |-> kept.number, lines |-> saving[i].length,
               whole |-> kept.whole]
      BY <3>1 DEF FileRecords
    <3> QED BY <3>1, <3>2 DEF kept
  <2> HIDE DEF copied
  <2> QED BY <2>1, <2>3 DEF Log, FileRecords
<1> HIDE DEF copied
<1>3. /\ saving' \in [Instances -> SaveRecords] /\ saving'[i].at = "Move"
      /\ saving'[i].length = saving[i].length /\ saving'[i].copy = saving[i].copy
      /\ saving'[i].second = saving[i].second
      /\ \A j \in Instances : j # i => saving'[j] = saving[j]
  BY <1>1 DEF SaveRecords
<1>4. Name(i) \in Names /\ \A j \in Instances : Name(j)' = Name(j)
  BY <1>1, <1>3, NameSound DEF Name
<1>5. LogTypes'
  BY <1>1, <1>2, <1>3, <1>4
<1>6. OwnLogs' /\ SavesDone'
  BY <1>1 DEF OwnLogs, Log, SavesDone
<1>7. SavesUnderWay'
  <2> SUFFICES ASSUME NEW j \in Instances, saving'[j].at # "Idle"
               PROVE  /\ instance[j].log # NoLog /\ saving'[j].copy # 0
                      /\ saving'[j].at = "Move" =>
                           partial'[Name(j)'] \in {NoFile, Log(j, saving[j].length)'}
    BY <1>1 DEF SavesUnderWay
  <2>1. Log(j, saving[j].length)' = Log(j, saving[j].length)
    BY <1>1, <1>3 DEF Log
  <2>2. CASE j = i
    <3>1. partial'[Name(i)] = copied
      BY <1>1, <1>4
    <3> QED BY <1>1, <1>2, <1>3, <1>4, <2>1, <2>2, <3>1 DEF SavesUnderWay
  <2>3. CASE j # i
    <3>1. saving'[j] = saving[j] /\ Name(j) # Name(i)
      BY <1>1, <1>3, <2>3, NameSound
    <3>2. Name(j) \in Names
      BY <3>1, NameSound
    <3>3. partial'[Name(j)] = partial[Name(j)]
      BY <1>1, <3>1, <3>2
    <3> QED BY <1>4, <2>1, <3>1, <3>3 DEF SavesUnderWay
  <2> QED BY <2>2, <2>3
<1> QED BY <1>5, <1>6, <1>7

\* What gets its name is complete, and takes it from no earlier save.
LEMMA MoveSound ==
  ASSUME EvidenceInv, NEW i \in Instances, Move(i) PROVE EvidenceInv'
<1> USE SessionLogAssumption DEF EvidenceInv, LogTypes
<1> DEFINE logged == Log(i, saving[i].length)
           given == [name |-> Name(i), log |-> logged]
<1>1. /\ saving[i].at = "Move" /\ UNCHANGED <<claim, instance, live>>
      /\ partial[Name(i)] # NoFile /\ finished[Name(i)] = NoFile
      /\ finished' = [finished EXCEPT ![Name(i)] = partial[Name(i)]]
      /\ partial' = [partial EXCEPT ![Name(i)] = NoFile]
      /\ saving' = [saving EXCEPT ![i] = NoSave]
      /\ answered' = answered \cup {given}
  BY DEF Move
<1>2. Name(i) \in Names /\ Name(i)[1] = i
  BY <1>1, NameSound
<1>3. partial[Name(i)] = logged
  BY <1>1 DEF SavesUnderWay
<1>4. logged.whole = TRUE /\ logged.pid = i /\ logged # NoFile
  BY DEF Log, NoFile
<1>5. given.name = Name(i) /\ given.log = logged
  OBVIOUS
<1> HIDE DEF given, logged
<1>6. NoSave \in SaveRecords /\ NoSave.at = "Idle" /\ NoFile \in FileRecords
  BY DEF NoSave, SaveRecords, NoFile, FileRecords
<1>7. LogTypes'
  BY <1>1, <1>2, <1>6
<1>8. OwnLogs'
  BY <1>1 DEF OwnLogs, Log
<1>9. SavesUnderWay'
  <2> SUFFICES ASSUME NEW j \in Instances, saving'[j].at # "Idle"
               PROVE  /\ instance[j].log # NoLog /\ saving'[j].copy # 0
                      /\ saving'[j].at = "Move" =>
                           partial'[Name(j)'] \in {NoFile, Log(j, saving[j].length)'}
    BY <1>1 DEF SavesUnderWay
  <2>1. j # i /\ saving'[j] = saving[j]
    BY <1>1, <1>6
  <2>2. Log(j, saving[j].length)' = Log(j, saving[j].length) /\ Name(j)' = Name(j)
    BY <1>1, <2>1 DEF Log, Name
  <2>3. Name(j) \in Names /\ Name(j) # Name(i)
    BY <1>1, <2>1, NameSound
  <2>4. partial'[Name(j)] = partial[Name(j)]
    BY <1>1, <2>3
  <2> QED BY <2>1, <2>2, <2>4 DEF SavesUnderWay
<1>10. SavesDone'
  <2>1. finished'[Name(i)] = logged
    BY <1>1, <1>2, <1>3
  <2>2. \A name \in Names : name # Name(i) => finished'[name] = finished[name]
    BY <1>1
  <2>3. \A name \in Names :
          finished'[name] # NoFile => finished'[name].whole /\ finished'[name].pid = name[1]
    BY <1>2, <1>4, <2>1, <2>2 DEF SavesDone
  <2>4. \A save \in answered :
          save.name \in Names /\ finished'[save.name] = save.log /\ save.log # NoFile
    BY <1>1, <2>2 DEF SavesDone
  <2> QED BY <1>1, <1>2, <1>4, <1>5, <2>1, <2>3, <2>4 DEF SavesDone
<1> QED BY <1>7, <1>8, <1>9, <1>10

\* A save that fails leaves no more than a partial file.
LEMMA FailSound ==
  ASSUME EvidenceInv, NEW i \in Instances, Fail(i) PROVE EvidenceInv'
<1> USE SessionLogAssumption DEF EvidenceInv, LogTypes
<1>1. /\ saving[i].at # "Idle" /\ UNCHANGED <<claim, instance, live, finished, answered>>
      /\ saving' = [saving EXCEPT ![i] = NoSave]
      /\ partial' = [partial EXCEPT ![Name(i)] = NoFile] \/ partial' = partial
  BY DEF Fail
<1>2. NoSave \in SaveRecords /\ NoSave.at = "Idle" /\ NoFile \in FileRecords
  BY DEF NoSave, SaveRecords, NoFile, FileRecords
<1>3. LogTypes'
  BY <1>1, <1>2, NameSound
<1>4. OwnLogs' /\ SavesDone'
  BY <1>1 DEF OwnLogs, Log, SavesDone
<1>5. SavesUnderWay'
  <2> SUFFICES ASSUME NEW j \in Instances, saving'[j].at # "Idle"
               PROVE  /\ instance[j].log # NoLog /\ saving'[j].copy # 0
                      /\ saving'[j].at = "Move" =>
                           partial'[Name(j)'] \in {NoFile, Log(j, saving[j].length)'}
    BY <1>1 DEF SavesUnderWay
  <2>1. j # i /\ saving'[j] = saving[j]
    BY <1>1, <1>2
  <2>2. Log(j, saving[j].length)' = Log(j, saving[j].length) /\ Name(j)' = Name(j)
    BY <1>1, <2>1 DEF Log, Name
  <2>3. Name(j) \in Names /\ Name(j) # Name(i)
    BY <1>1, <2>1, NameSound
  <2>4. partial'[Name(j)] = partial[Name(j)]
    BY <1>1, <2>3
  <2> QED BY <2>1, <2>2, <2>4 DEF SavesUnderWay
<1> QED BY <1>3, <1>4, <1>5

\* Every step of an instance, the end of its process included, keeps the
\* evidence of all of them.
LEMMA EvidenceStep == EvidenceInv /\ [SessionLogNext]_sessionLogVars => EvidenceInv'
<1> SUFFICES ASSUME EvidenceInv, [SessionLogNext]_sessionLogVars PROVE EvidenceInv'
  OBVIOUS
<1>1. ASSUME NEW i \in Instances, StartPrimary(i) PROVE EvidenceInv'
  <2>1. Primary # NoLog
    BY DEF Primary, NoLog
  <2> QED BY <1>1, <2>1, StartSound DEF StartPrimary
<1>2. ASSUME NEW i \in Instances, StartOwn(i) PROVE EvidenceInv'
  <2>1. i # NoLog /\ i # Primary
    BY SessionLogAssumption
  <2> QED BY <1>2, <2>1, StartSound DEF StartOwn
<1>3. ASSUME NEW i \in Instances, StartWithout(i) PROVE EvidenceInv'
  <2>1. Primary # NoLog
    BY DEF Primary, NoLog
  <2> QED BY <1>3, <2>1, StartSound DEF StartWithout
<1>4. CASE UNCHANGED sessionLogVars
  BY <1>4 DEF sessionLogVars, EvidenceInv, LogTypes, OwnLogs, SavesUnderWay, SavesDone, Log, Name
<1> QED
  BY <1>1, <1>2, <1>3, <1>4, WriteSound, EndSound, BeginSaveSound, CopySound, MoveSound, FailSound
     DEF SessionLogNext, SaveCopy

\* For any instances, copies, seconds and lengths of logs: the log an instance
\* writes to holds its own lines and no others, and a saved log that was
\* answered for is whole and stays as it was (util/log.cpp).
THEOREM EvidenceStays == SessionLogSpec => []EvidenceIsKept
<1>1. EvidenceInv => EvidenceIsKept
  BY DEF EvidenceInv, OwnLogs, SavesDone, EvidenceIsKept
<1> QED BY <1>1, EvidenceInit, EvidenceStep, PTL DEF SessionLogSpec

\* SessionLogTypeOK, of what LogTypes leaves open.
LogBounds ==
  /\ instance \in [Instances -> [running : BOOLEAN, number : 0 .. MaxSession,
                                 log : {NoLog, Primary} \cup Instances, lines : 0 .. MaxLogLines]]
  /\ live \in [LogFiles -> LogContents]
  /\ \A i \in Instances : saving[i].length \in 0 .. MaxLogLines
  /\ partial \in [Names -> LogContents] /\ finished \in [Names -> LogContents]

\* For any number of instances: a log and every copy of one stay within what
\* their instance wrote.
LEMMA SessionLogIsTyped == SessionLogSpec => []SessionLogTypeOK
<1> USE SessionLogAssumption
<1> DEFINE Session == [running : BOOLEAN, number : 0 .. MaxSession,
                       log : {NoLog, Primary} \cup Instances, lines : 0 .. MaxLogLines]
<1>0. 0 \in 0 .. MaxSession /\ 0 \in 0 .. MaxLogLines /\ NoFile \in LogContents
  BY DEF NoFile, LogContents
<1>1. SessionLogInit => LogBounds
  <2> SUFFICES ASSUME SessionLogInit PROVE LogBounds
    OBVIOUS
  <2>1. NotRunning(0) \in Session /\ NoSave.length = 0
    BY <1>0 DEF NotRunning, NoSave
  <2>2. instance \in [Instances -> Session] /\ \A i \in Instances : saving[i].length \in 0 .. MaxLogLines
    BY <1>0, <2>1 DEF SessionLogInit
  <2>3. live \in [LogFiles -> LogContents] /\ partial \in [Names -> LogContents]
        /\ finished \in [Names -> LogContents]
    BY <1>0 DEF SessionLogInit, LogFiles
  <2> QED BY <2>2, <2>3 DEF LogBounds
<1>2. EvidenceInv /\ LogBounds /\ [SessionLogNext]_sessionLogVars => LogBounds'
  <2> SUFFICES ASSUME EvidenceInv, LogBounds, [SessionLogNext]_sessionLogVars PROVE LogBounds'
    OBVIOUS
  <2>0. \A i \in Instances : \A n \in 0 .. MaxLogLines : Log(i, n) \in LogContents
    BY DEF Log, LogContents, LogBounds
  <2> DEFINE Lengths == \A i \in Instances : saving'[i].length \in 0 .. MaxLogLines
  <2>a. saving \in [Instances -> SaveRecords]
    BY DEF EvidenceInv, LogTypes
  <2>1. CASE UNCHANGED sessionLogVars
    BY <2>1 DEF sessionLogVars, LogBounds
  <2>2. ASSUME NEW i \in Instances, NEW log \in {NoLog, Primary, i}, StartsWith(i, log),
               live' \in {live, [live EXCEPT ![log] = Truncated(i)]},
               UNCHANGED <<saving, partial, finished>>
        PROVE  LogBounds'
    <3>1. NextNumber \in 0 .. MaxSession
      BY <2>2, NumberSound DEF StartsWith, EvidenceInv
    <3>2. instance' \in [Instances -> Session]
      <4>1. [running |-> TRUE, number |-> NextNumber, log |-> log, lines |-> 0] \in Session
        BY <1>0, <3>1
      <4> QED BY <2>2, <4>1 DEF StartsWith, LogBounds
    <3>3. live' \in [LogFiles -> LogContents]
      <4>1. Truncated(i) \in LogContents
        BY <1>0, <3>1 DEF Truncated, LogContents
      <4> QED BY <2>2, <4>1 DEF LogBounds
    <3> QED BY <2>2, <3>2, <3>3 DEF LogBounds
  <2>3. ASSUME NEW i \in Instances, StartPrimary(i) \/ StartOwn(i) \/ StartWithout(i) PROVE LogBounds'
    <3>1. CASE StartPrimary(i)
      BY <2>2, <3>1 DEF StartPrimary
    <3>2. CASE StartOwn(i)
      BY <2>2, <3>2 DEF StartOwn
    <3>3. CASE StartWithout(i)
      BY <2>2, <3>3 DEF StartWithout
    <3> QED BY <2>3, <3>1, <3>2, <3>3
  <2>4. ASSUME NEW i \in Instances, WriteLine(i) PROVE LogBounds'
    <3>1. instance[i] \in Session /\ instance[i].lines + 1 \in 0 .. MaxLogLines
      BY <2>4 DEF WriteLine, LogBounds
    <3>2. instance' = [instance EXCEPT ![i].lines = @ + 1]
      BY <2>4 DEF WriteLine
    <3>3. instance' \in [Instances -> Session]
      BY <3>1, <3>2 DEF LogBounds
    <3>4. live[instance[i].log] = Log(i, instance[i].lines) /\ instance[i].log \in LogFiles
      BY <2>4 DEF WriteLine, EvidenceInv, OwnLogs, LogFiles
    <3>5. Appended(i) = Log(i, instance[i].lines + 1)
      BY <3>4 DEF Appended, Log
    <3>6. Appended(i) \in LogContents
      BY <2>0, <3>1, <3>5
    <3>7. live' \in [LogFiles -> LogContents]
      BY <2>4, <3>4, <3>6 DEF WriteLine, LogBounds
    <3> QED BY <2>4, <3>3, <3>7 DEF WriteLine, LogBounds
  <2>5. ASSUME NEW i \in Instances, End(i) PROVE LogBounds'
    <3>1. NotRunning(instance[i].number) \in Session
      BY <1>0 DEF NotRunning, LogBounds
    <3>2. instance' \in [Instances -> Session]
      BY <2>5, <3>1 DEF End, LogBounds
    <3>3. Lengths
      BY <1>0, <2>5, <2>a DEF End, NoSave, LogBounds
    <3> QED BY <2>5, <3>2, <3>3 DEF End, LogBounds
  <2>6. ASSUME NEW i \in Instances, BeginSave(i) PROVE LogBounds'
    <3>1. PICK second \in Seconds, copy \in 1 .. Copies, removed \in SUBSET {n \in Names : Stale(n)} :
            Reserves(i, second, copy, removed)
      BY <2>6 DEF BeginSave
    <3>2. Lengths
      BY <3>1, <2>a DEF Reserves, LogBounds
    <3>3. [Log(i, 0) EXCEPT !.whole = FALSE] \in LogContents
      BY <1>0, <2>0 DEF LogContents
    <3>4. partial' \in [Names -> LogContents]
      BY <1>0, <3>1, <3>3 DEF Reserves, LogBounds
    <3> QED BY <2>6, <3>2, <3>4 DEF BeginSave, LogBounds
  <2>7. ASSUME NEW i \in Instances, CopyLog(i) PROVE LogBounds'
    <3>1. Lengths
      BY <2>7, <2>a DEF CopyLog, LogBounds
    <3>2. instance[i].log \in LogFiles
      BY <2>7 DEF CopyLog, EvidenceInv, OwnLogs, SavesUnderWay, LogFiles
    <3>3. [live[instance[i].log] EXCEPT !.lines = saving[i].length] \in LogContents
      BY <3>2 DEF LogBounds, LogContents
    <3>4. partial' \in [Names -> LogContents]
      BY <2>7, <3>3 DEF CopyLog, LogBounds
    <3> QED BY <2>7, <3>1, <3>4 DEF CopyLog, LogBounds
  <2>8. ASSUME NEW i \in Instances, Move(i) PROVE LogBounds'
    <3>1. Lengths
      BY <1>0, <2>8, <2>a DEF Move, NoSave, LogBounds
    <3>2. Name(i) \in Names
      BY <2>8, NameSound DEF Move, EvidenceInv
    <3>3. partial' \in [Names -> LogContents] /\ finished' \in [Names -> LogContents]
      BY <1>0, <2>8, <3>2 DEF Move, LogBounds
    <3> QED BY <2>8, <3>1, <3>3 DEF Move, LogBounds
  <2>9. ASSUME NEW i \in Instances, Fail(i) PROVE LogBounds'
    <3>1. Lengths
      BY <1>0, <2>9, <2>a DEF Fail, NoSave, LogBounds
    <3>2. partial' \in [Names -> LogContents]
      BY <1>0, <2>9 DEF Fail, LogBounds
    <3> QED BY <2>9, <3>1, <3>2 DEF Fail, LogBounds
  <2> QED
    BY <2>1, <2>3, <2>4, <2>5, <2>6, <2>7, <2>8, <2>9 DEF SessionLogNext, SaveCopy
<1>3. EvidenceInv /\ LogBounds => SessionLogTypeOK
  <2> SUFFICES ASSUME EvidenceInv, LogBounds PROVE SessionLogTypeOK
    OBVIOUS
  <2>1. claim \in Instances \cup {NoOne} /\ \A i \in Instances : saving[i].at \in {"Idle", "Copy", "Move"}
    BY DEF EvidenceInv, LogTypes, SaveRecords
  <2> QED BY <2>1 DEF LogBounds, LogFiles, SessionLogTypeOK
<1> QED BY <1>1, <1>2, <1>3, EvidenceInit, EvidenceStep, PTL DEF SessionLogSpec

-----------------------------------------------------------------------------
(* The settings (core/settings.cpp, win/settings_store.cpp, app/app.cpp)   *)

Settings == [minimal : BOOLEAN, volume : 0 .. MaxVolume]

\* What has been read of a text of any length is settings in range.
LEMMA ReadingSound ==
  ASSUME NEW text, Legible(text)
  PROVE  /\ Reading(text) = [n \in 0 .. Len(text) |->
              IF n = 0 THEN Defaults ELSE ReadLine(Reading(text)[n - 1], text[n])]
         /\ \A n \in 0 .. Len(text) : Reading(text)[n] \in Settings
<1> USE VolumeAssumption
<1>1. /\ Len(text) \in Nat
      /\ \A n \in 1 .. Len(text) : text[n].value.word = "digits" => text[n].value.n \in Nat
  BY DEF Legible
<1>2. Defaults \in Settings
  BY DEF Defaults, Settings
<1>3. ASSUME NEW s \in Settings, NEW line, line.value.word = "digits" => line.value.n \in Nat
      PROVE  ReadLine(s, line) \in Settings
  <2>1. ReadInt(line.value, s.volume) \in 0 .. MaxVolume
    BY <1>3 DEF ReadInt, Settings
  <2>2. ReadBool(line.value, s.minimal) \in BOOLEAN
    BY Zenon DEF ReadBool, Settings
  <2> HIDE DEF ReadInt, ReadBool
  <2>3. [s EXCEPT !.volume = ReadInt(line.value, @)] \in Settings
    BY <2>1 DEF Settings
  <2>4. [s EXCEPT !.minimal = ReadBool(line.value, @)] \in Settings
    BY <2>2 DEF Settings
  <2> QED BY <2>3, <2>4 DEF ReadLine
<1> DEFINE Read(f) == [n \in 0 .. Len(text) |->
                         IF n = 0 THEN Defaults ELSE ReadLine(f[n - 1], text[n])]
           Advance == [p \in (1 .. Len(text)) \X Settings |-> ReadLine(p[2], text[p[1]])]
<1>4. PICK f \in [0 .. Len(text) -> Settings] :
        f[0] = Defaults /\ \A n \in 1 .. Len(text) : f[n] = Advance[<<n, f[n - 1]>>]
  <2>1. Advance \in [(1 .. Len(text)) \X Settings -> Settings]
    BY <1>1, <1>3
  <2> DEFINE N == Len(text)
  <2>2. N \in Nat /\ Advance \in [(1 .. N) \X Settings -> Settings]
    BY <1>1, <2>1
  <2> HIDE DEF Advance, N
  <2>3. \E f : StepsOf(N, Settings, Defaults, Advance, f)
    BY <1>2, <2>2, StepByStep
  <2> QED BY <2>3 DEF N, StepsOf
<1>5. f = Read(f)
  <2>1. ASSUME NEW n \in 1 .. Len(text) PROVE f[n] = ReadLine(f[n - 1], text[n])
    <3>1. <<n, f[n - 1]>> \in (1 .. Len(text)) \X Settings
      BY <1>1, <1>4
    <3> QED BY <1>4, <3>1
  <2>2. \A n \in 0 .. Len(text) : f[n] = IF n = 0 THEN Defaults ELSE ReadLine(f[n - 1], text[n])
    BY <1>1, <1>4, <2>1
  <2> QED BY <2>2
<1>6. Reading(text) = Read(Reading(text))
  BY <1>5 DEF Reading
<1>7. ASSUME NEW n \in 0 .. Len(text) PROVE Reading(text)[n] \in Settings
  <2> DEFINE r == Reading(text)
             T == {k \in 0 .. Len(text) : r[k] \in Settings}
  <2>1. 0 \in T
    BY <1>1, <1>2, <1>6
  <2>2. ASSUME NEW k \in 0 .. Len(text) - 1, k \in T PROVE k + 1 \in T
    <3>1. k + 1 \in 1 .. Len(text) /\ (k + 1) - 1 = k /\ k + 1 \in 0 .. Len(text) /\ k + 1 # 0
      BY <1>1
    <3>2. r[k + 1] = ReadLine(r[k], text[k + 1])
      BY <1>6, <3>1
    <3> QED BY <1>1, <1>3, <2>2, <3>1, <3>2
  <2> HIDE DEF T
  <2>3. \A k \in 0 .. Len(text) : k \in T
    BY <1>1, <2>1, <2>2, Climb
  <2> QED BY <2>3 DEF T
<1> QED BY <1>6, <1>7

\* Settings are read as they were written, and are a text that can be read.
LEMMA ReadAsWritten ==
  ASSUME NEW s \in Settings
  PROVE  Legible(Serialize(s)) /\ Parse(Serialize(s)) = s
<1> USE VolumeAssumption
<1> DEFINE word == IF s.minimal THEN "true" ELSE "false"
           text == Serialize(s)
           r == Reading(text)
<1>1. /\ text = <<Line("minimal_mode", Word(word)), Line("volume", Number(s.volume))>>
      /\ Legible(text) /\ Len(text) = 2
  <2>1. s.volume \in Nat /\ word # "digits"
    BY DEF Settings
  <2>2. text = <<Line("minimal_mode", Word(word)), Line("volume", Number(s.volume))>>
    BY DEF Serialize
  <2> HIDE DEF word, text
  <2>3. Len(text) = 2 /\ text[1].value.word = word /\ text[2].value.n = s.volume
    BY <2>2 DEF Line, Word, Number
  <2> QED BY <2>1, <2>2, <2>3 DEF Legible
<1> HIDE DEF text
<1>2. r = [n \in 0 .. 2 |-> IF n = 0 THEN Defaults ELSE ReadLine(r[n - 1], text[n])]
  BY <1>1, ReadingSound
<1> HIDE DEF r
<1>3. r[0] = Defaults /\ r[1] = ReadLine(r[0], text[1]) /\ r[2] = ReadLine(r[1], text[2])
  BY <1>2
<1>4. r[1] = [minimal |-> s.minimal, volume |-> UnityVolume]
  <2>1. ReadBool(Word(word), TRUE) = s.minimal
    <3>1. CASE s.minimal
      BY <3>1 DEF ReadBool, Word, Number, Settings
    <3>2. CASE ~ s.minimal
      BY <3>2 DEF ReadBool, Word, Number, Settings
    <3>3. s.minimal \in BOOLEAN
      BY DEF Settings
    <3> QED BY <3>1, <3>2, <3>3
  <2>2. text[1] = [key |-> "minimal_mode", value |-> Word(word)]
    BY <1>1 DEF Line
  <2>3. text[1].key = "minimal_mode" /\ text[1].value = Word(word)
    BY <2>2
  <2> HIDE DEF word
  <2>4. r[1] = [r[0] EXCEPT !.minimal = ReadBool(text[1].value, r[0].minimal)]
    BY <1>3, <2>3 DEF ReadLine
  <2>5. r[0] = [minimal |-> TRUE, volume |-> UnityVolume]
    BY <1>3 DEF Defaults
  <2>6. ReadBool(text[1].value, r[0].minimal) = s.minimal
    <3>1. text[1].value = Word(word) /\ r[0].minimal = TRUE
      BY <2>3, <2>5
    <3> QED BY <2>1, <3>1, Zenon
  <2>7. r[1] = [r[0] EXCEPT !.minimal = s.minimal]
    BY <2>4, <2>6
  <2> QED BY <2>5, <2>7
<1>5. r[2] = [r[1] EXCEPT !.volume = s.volume]
  <2>1. ReadInt(Number(s.volume), UnityVolume) = s.volume
    BY DEF ReadInt, Number, Settings
  <2>2. text[2] = [key |-> "volume", value |-> Number(s.volume)]
    BY <1>1 DEF Line
  <2> QED BY <1>3, <1>4, <2>1, <2>2 DEF ReadLine
<1>6. r[2] = s
  BY <1>4, <1>5 DEF Settings
<1> QED BY <1>1, <1>6 DEF Parse, r, text

SoundRecords == [volume : 0 .. MaxVolume, before_mute : 1 .. MaxVolume, last_frame : 0 .. MaxVolume]

(* Settings and file part when a save fails, window and settings while the *)
(* slider moves, and engine and window when a new engine's load was not    *)
(* issued; each of the three is remembered.                                *)
PrefsInv ==
  /\ sound \in SoundRecords /\ prefs \in Settings /\ speaker \in 0 .. MaxVolume
  /\ Legible(file) /\ launched \in BOOLEAN
  /\ recorded \in [still : BOOLEAN, saved : BOOLEAN, restored : BOOLEAN]
  /\ launched => /\ recorded.saved => Parse(file) = prefs
                 /\ recorded.still => sound.volume = prefs.volume
                 /\ recorded.restored => speaker = sound.volume

\* A saved text is what was to be saved; a failure is remembered.
LEMMA SaveSound ==
  ASSUME NEW s \in Settings, Legible(file),
         NEW history \in [still : BOOLEAN, saved : BOOLEAN, restored : BOOLEAN],
         SavePrefs(s, history)
  PROVE  /\ prefs' = s /\ Legible(file')
         /\ recorded' \in [still : BOOLEAN, saved : BOOLEAN, restored : BOOLEAN]
         /\ recorded'.still = history.still /\ recorded'.restored = history.restored
         /\ recorded'.saved => Parse(file') = s
<1>1. Legible(Serialize(s)) /\ Parse(Serialize(s)) = s
  BY ReadAsWritten
<1> QED BY <1>1 DEF SavePrefs

\* Nothing runs yet, whatever the file holds.
LEMMA PrefsInvInit == PrefsInit => PrefsInv
<1> SUFFICES ASSUME PrefsInit PROVE PrefsInv
  OBVIOUS
<1>1. UnityVolume \in 0 .. MaxVolume /\ UnityVolume \in 1 .. MaxVolume
  BY VolumeAssumption
<1>2. sound \in SoundRecords /\ prefs \in Settings /\ speaker \in 0 .. MaxVolume
  BY <1>1 DEF PrefsInit, SoundRecords, Settings, Defaults
<1>3. Legible(file) /\ launched = FALSE
  BY FileAssumption DEF PrefsInit
<1>4. recorded \in [still : BOOLEAN, saved : BOOLEAN, restored : BOOLEAN]
  BY DEF PrefsInit
<1> QED BY <1>2, <1>3, <1>4 DEF PrefsInv

\* Every step remembers what it set apart.
LEMMA PrefsInvStep == PrefsInv /\ [PrefsNext]_prefVars => PrefsInv'
<1> SUFFICES ASSUME PrefsInv, [PrefsNext]_prefVars PROVE PrefsInv'
  OBVIOUS
<1> USE VolumeAssumption DEF PrefsInv
<1>1. CASE Launch
  <2>1. Defaults \in Settings
    BY DEF Defaults, Settings
  <2>2. Parse(file) \in Settings
    <3>1. Len(file) \in 0 .. Len(file)
      BY DEF Legible
    <3> QED BY <3>1, ReadingSound DEF Parse
  <2>3. PICK read \in {Parse(file), Defaults} :
          /\ prefs' = read /\ speaker' = read.volume
          /\ sound' = [volume |-> read.volume, before_mute |-> AudibleAgain(read.volume),
                       last_frame |-> read.volume]
          /\ recorded' = [still |-> FALSE, saved |-> read = Parse(file), restored |-> TRUE]
    BY <1>1 DEF Launch
  <2>4. read \in Settings /\ read.volume \in 0 .. MaxVolume
    BY <2>1, <2>2, <2>3 DEF Settings
  <2>5. AudibleAgain(read.volume) \in 1 .. MaxVolume
    BY <2>4 DEF AudibleAgain
  <2>6. launched' = TRUE /\ file' = file
    BY <1>1 DEF Launch
  <2>7. sound' \in SoundRecords
    BY <2>3, <2>4, <2>5 DEF SoundRecords
  <2> QED BY <2>3, <2>4, <2>6, <2>7
<1>2. ASSUME NEW v \in SoundRecords, launched, SetVolume(v) PROVE PrefsInv'
  <2>1. v.volume \in 0 .. MaxVolume
    BY DEF SoundRecords
  <2> QED BY <1>2, <2>1 DEF SetVolume
<1>3. CASE SlideVolume
  BY <1>2, <1>3 DEF SlideVolume, SoundRecords
<1>4. CASE ClickSpeaker
  <2>1. CASE sound.volume > 0
    <3> DEFINE v == [sound EXCEPT !.before_mute = sound.volume, !.volume = 0]
    <3>1. sound.volume \in 1 .. MaxVolume
      BY <2>1 DEF SoundRecords
    <3>2. v = [[sound EXCEPT !.before_mute = sound.volume] EXCEPT !.volume = 0]
      OBVIOUS
    <3>3. [sound EXCEPT !.before_mute = sound.volume] \in SoundRecords
      BY <3>1 DEF SoundRecords
    <3>4. v \in SoundRecords
      <4> DEFINE w == [sound EXCEPT !.before_mute = sound.volume]
      <4>1. w \in SoundRecords /\ v = [w EXCEPT !.volume = 0]
        BY <3>2, <3>3
      <4> HIDE DEF w, v
      <4> QED BY <4>1 DEF SoundRecords
    <3> QED BY <1>2, <1>4, <2>1, <3>4 DEF ClickSpeaker
  <2>2. CASE ~ (sound.volume > 0)
    <3>1. [sound EXCEPT !.volume = sound.before_mute] \in SoundRecords
      BY DEF SoundRecords
    <3> QED BY <1>2, <1>4, <2>2, <3>1 DEF ClickSpeaker
  <2> QED BY <2>1, <2>2
<1>5. CASE ChooseMinimal
  <2>1. [prefs EXCEPT !.minimal = ~@] \in Settings
        /\ [prefs EXCEPT !.minimal = ~@].volume = prefs.volume
    BY DEF Settings
  <2> QED BY <1>5, <2>1, SaveSound DEF ChooseMinimal
<1>6. CASE EndFrame
  <2>1. sound' \in SoundRecords /\ sound'.volume = sound.volume
        /\ speaker' = speaker /\ launched' = launched /\ launched
    BY <1>6 DEF EndFrame, SoundRecords
  <2> DEFINE moved == sound.volume # sound.last_frame
  <2>2. PICK sliding \in BOOLEAN :
          IF Early(moved) \/ sliding
          THEN /\ recorded' = [recorded EXCEPT !.still = ~moved /\ ~sliding]
               /\ UNCHANGED <<prefs, file>>
          ELSE SavePrefs([prefs EXCEPT !.volume = sound.volume],
                         [recorded EXCEPT !.still = TRUE])
    BY <1>6 DEF EndFrame
  <2>3. CASE Early(moved) \/ sliding
    <3>1. ~moved /\ ~sliding => sound.volume = prefs.volume
      BY <2>3 DEF Early
    <3> QED BY <2>1, <2>2, <2>3, <3>1
  <2>4. CASE ~ (Early(moved) \/ sliding)
    <3> DEFINE s == [prefs EXCEPT !.volume = sound.volume]
               history == [recorded EXCEPT !.still = TRUE]
    <3>1. s \in Settings /\ s.volume = sound.volume
      BY DEF Settings, SoundRecords
    <3>2. history \in [still : BOOLEAN, saved : BOOLEAN, restored : BOOLEAN]
          /\ history.restored = recorded.restored
      OBVIOUS
    <3>3. SavePrefs(s, history)
      BY <2>2, <2>4
    <3> HIDE DEF s, history
    <3> QED BY <2>1, <3>1, <3>2, <3>3, SaveSound
  <2> QED BY <2>3, <2>4
<1>7. CASE RebuildEngine
  <2>1. sound.volume \in 0 .. MaxVolume
    BY DEF SoundRecords
  <2>2. UnityVolume \in 0 .. MaxVolume /\ UNCHANGED <<sound, prefs, file, launched>>
    BY <1>7 DEF RebuildEngine
  <2>3. CASE speaker' = sound.volume /\ recorded' = [recorded EXCEPT !.restored = TRUE]
    BY <2>1, <2>2, <2>3
  <2>4. CASE speaker' = UnityVolume /\ recorded' = [recorded EXCEPT !.restored = FALSE]
    BY <2>2, <2>4
  <2> QED BY <1>7, <2>3, <2>4 DEF RebuildEngine
<1>8. CASE Quit
  BY <1>8, FileAssumption DEF Quit
<1>9. CASE UNCHANGED prefVars
  BY <1>9 DEF prefVars
<1> QED
  BY <1>1, <1>3, <1>4, <1>5, <1>6, <1>7, <1>8, <1>9 DEF PrefsNext

\* For any file found, any range of volumes and any failures of saving: what the
\* window shows is what the engine plays and what the next launch restores, as
\* far as the load was issued and the save came about (app/app.cpp,
\* core/settings.cpp).
THEOREM PreferencesStay == PrefsSpec => []PreferencesKept
<1>1. PrefsInv => PreferencesKept
  <2> SUFFICES ASSUME PrefsInv, launched PROVE PreferencesKept
    BY DEF PreferencesKept
  <2>1. sound.before_mute > 0
    BY VolumeAssumption DEF PrefsInv, SoundRecords
  <2>2. prefs = [minimal |-> prefs.minimal, volume |-> prefs.volume]
    BY DEF PrefsInv, Settings
  <2> QED BY <2>1, <2>2 DEF PrefsInv, PreferencesKept
<1> QED BY <1>1, PrefsInvInit, PrefsInvStep, PTL DEF PrefsSpec

\* A volume is one, wherever it was read from, clamped or muted.
LEMMA PrefsAreTyped == PrefsSpec => []PrefsTypeOK
<1>1. PrefsInv => PrefsTypeOK
  BY DEF PrefsInv, SoundRecords, Settings, PrefsTypeOK
<1> QED BY <1>1, PrefsInvInit, PrefsInvStep, PTL DEF PrefsSpec

-----------------------------------------------------------------------------
(* The catalogue (xtream/xtream_client.cpp, core/channel_index.cpp)        *)

\* At most one slot is that of a category.
LEMMA OneSlot ==
  ASSUME NEW id, channels_.categories \in Seq(Entries)
  PROVE  /\ \/ Slot(id) = {} /\ Into(Slot(id)) = Len(channels_.categories) + 1
            \/ \E s \in DOMAIN channels_.categories : Slot(id) = {s} /\ Into(Slot(id)) = s
         /\ Into(Slot(id)) \in 1 .. Len(channels_.categories) + 1
<1> DEFINE C == channels_.categories
           slots == Slot(id)
<1>1. DOMAIN C = 1 .. Len(C) /\ Len(C) \in Nat
  OBVIOUS
<1>2. slots \subseteq DOMAIN C
  BY DEF Slot
<1>3. ASSUME NEW s \in slots, NEW t \in slots PROVE s = t
  <2>1. s \in Nat /\ t \in Nat /\ s >= 1 /\ t >= 1
    BY <1>1, <1>2
  <2>2. C[s].id = id /\ C[t].id = id
    BY DEF Slot
  <2>3. ~ (s \in 1 .. t - 1) /\ ~ (t \in 1 .. s - 1)
    BY <2>2 DEF Slot
  <2> QED BY <2>1, <2>3
<1> HIDE DEF slots, C
<1>4. CASE slots = {}
  BY <1>1, <1>4 DEF Into, slots, C
<1>5. CASE slots # {}
  <2>1. PICK s \in slots : TRUE
    BY <1>5
  <2>2. slots = {s} /\ s \in DOMAIN C
    BY <1>2, <1>3
  <2>3. Into(slots) = s
    BY <2>2, <1>5 DEF Into
  <2>4. \E t \in DOMAIN C : slots = {t} /\ Into(slots) = t
    BY <2>2, <2>3
  <2>5. Into(slots) \in 1 .. Len(C) + 1
    BY <1>1, <2>2, <2>3
  <2> QED BY <2>4, <2>5 DEF slots, C
<1> QED BY <1>4, <1>5

\* The channels that the first n leave in the k-th group, and the groups.
Placed(k, n) ==
  {i \in 1 .. n : LET slots == Slot(channels_.channels[i].category)
                  IN  Matches(i, slots) /\ Into(slots) = k}

GroupsAt(n) ==
  [k \in 1 .. Len(channels_.categories) + 1 |->
     Group(NoGroups[k].category, MembersAt(channels_.channels, Placed(k, n)))]

\* One pass puts each channel that matches into the group of its category.
LEMMA OnePass ==
  ASSUME channels_.categories \in Seq(Entries), channels_.channels \in Seq(Entries)
  PROVE  Filtered = Nonempty(GroupsAt(Len(channels_.channels)))
<1> DEFINE C == channels_.categories
           H == channels_.channels
           N == Len(H)
           last == Len(C) + 1
<1>1. N \in Nat /\ DOMAIN H = 1 .. N /\ Len(C) \in Nat /\ DOMAIN C = 1 .. Len(C)
  OBVIOUS
<1>2. GroupsAt(0) = NoGroups
  <2>1. \A k : Placed(k, 0) = {}
    BY DEF Placed
  <2>2. \A k : MembersAt(H, Placed(k, 0)) = << >>
    BY <2>1, NoneLeft
  <2> DEFINE label(k) == IF k \in DOMAIN C THEN C[k].id ELSE NoId
  <2>3. NoGroups = [k \in 1 .. last |-> Group(label(k), << >>)]
    BY DEF NoGroups
  <2> HIDE DEF label
  <2>4. \A k \in 1 .. last : NoGroups[k].category = label(k)
    BY <2>3 DEF Group
  <2> QED BY <2>2, <2>3, <2>4 DEF GroupsAt
<1>3. ASSUME NEW n \in 1 .. N PROVE GroupsAt(n) = Place(GroupsAt(n - 1), n)
  <2> DEFINE slots == Slot(H[n].category)
             before == GroupsAt(n - 1)
             label(k) == NoGroups[k].category
  <2>1. Into(slots) \in 1 .. last
    BY OneSlot
  <2>2. n \in DOMAIN H /\ n \in Nat /\ n - 1 \in Nat /\ n - 1 <= N
    BY <1>1
  <2>3. \A k : Placed(k, n - 1) \in SUBSET DOMAIN H /\ \A i \in Placed(k, n - 1) : i < n
    BY <1>1, <2>2 DEF Placed
  <2>4. 1 .. n = (1 .. n - 1) \cup {n}
    BY <2>2
  <2>5. \A k : Placed(k, n) = IF Matches(n, slots) /\ Into(slots) = k
                              THEN Placed(k, n - 1) \cup {n} ELSE Placed(k, n - 1)
    BY <2>4 DEF Placed
  <2>6. \A k : /\ MembersAt(H, Placed(k, n - 1)) \in Seq(Entries)
               /\ MembersAt(H, Placed(k, n - 1) \cup {n})
                    = Append(MembersAt(H, Placed(k, n - 1)), H[n])
    BY <2>2, <2>3, OneMore
  <2>7. /\ DOMAIN before = 1 .. last
        /\ \A k \in 1 .. last : before[k].category = label(k)
                               /\ before[k].channels = MembersAt(H, Placed(k, n - 1))
                               /\ before[k] = Group(label(k), MembersAt(H, Placed(k, n - 1)))
    BY DEF GroupsAt, Group
  <2>8. GroupsAt(n) = [k \in 1 .. last |-> Group(label(k), MembersAt(H, Placed(k, n)))]
    BY DEF GroupsAt
  <2>9. Place(before, n) =
          IF Matches(n, slots)
          THEN [before EXCEPT ![Into(slots)] =
                  Group(before[Into(slots)].category, Append(before[Into(slots)].channels, H[n]))]
          ELSE before
    BY DEF Place
  <2> DEFINE here(k) == MembersAt(H, Placed(k, n - 1))
             put == Into(slots)
             match == Matches(n, slots)
  <2>10. \A k : MembersAt(H, Placed(k, n)) = IF match /\ put = k THEN Append(here(k), H[n]) ELSE here(k)
    BY <2>5, <2>6
  <2>11. before = [k \in 1 .. last |-> Group(label(k), here(k))]
    BY DEF GroupsAt
  <2>12. \A k \in 1 .. last : before[k].category = label(k) /\ before[k].channels = here(k)
    BY <2>7
  <2> HIDE DEF slots, before, here, put, match, label
  <2>13. CASE match
    <3> DEFINE more == Group(label(put), Append(here(put), H[n]))
    <3>1. Place(before, n) = [before EXCEPT ![put] = more]
      <4>1. before[put].category = label(put) /\ before[put].channels = here(put)
        BY <2>1, <2>12 DEF put
      <4>2. Place(before, n) =
              [before EXCEPT ![put] = Group(before[put].category, Append(before[put].channels, H[n]))]
        BY <2>9, <2>13 DEF put, match
      <4> QED BY <4>1, <4>2
    <3>2. \A k \in 1 .. last : Group(label(k), MembersAt(H, Placed(k, n)))
                                = IF k = put THEN more ELSE before[k]
      BY <2>10, <2>11, <2>13
    <3> HIDE DEF more
    <3>3. [before EXCEPT ![put] = more] = [k \in 1 .. last |-> IF k = put THEN more ELSE before[k]]
      BY <2>7
    <3> QED BY <3>1, <3>2, <3>3, <2>8 DEF before
  <2>14. CASE ~match
    BY <2>14, <2>8, <2>9, <2>10, <2>11 DEF match, before
  <2> QED BY <2>13, <2>14
<1> DEFINE OneByOne(g) == [n \in 0 .. N |-> IF n = 0 THEN NoGroups ELSE Place(g[n - 1], n)]
           f == [n \in 0 .. N |-> GroupsAt(n)]
<1>4. f = OneByOne(f)
  <2>1. ASSUME NEW n \in 0 .. N PROVE f[n] = IF n = 0 THEN NoGroups ELSE Place(f[n - 1], n)
    <3>1. CASE n = 0
      BY <1>2, <3>1
    <3>2. CASE n # 0
      <4>1. n \in 1 .. N /\ n - 1 \in 0 .. N
        BY <1>1, <3>2
      <4>2. f[n] = GroupsAt(n) /\ f[n - 1] = GroupsAt(n - 1)
        BY <4>1
      <4> QED BY <3>2, <4>1, <4>2, <1>3
    <3> QED BY <3>1, <3>2
  <2> QED BY <2>1
<1>5. Groups = OneByOne(Groups)
  <2> HIDE DEF f
  <2> QED BY <1>4 DEF Groups
<1> DEFINE T == {n \in 0 .. N : Groups[n] = GroupsAt(n)}
<1>6. 0 \in T
  BY <1>1, <1>2, <1>5
<1>7. ASSUME NEW n \in 0 .. N - 1, n \in T PROVE n + 1 \in T
  <2>1. n + 1 \in 1 .. N /\ (n + 1) - 1 = n /\ n + 1 \in 0 .. N /\ n + 1 # 0
    BY <1>1
  <2>2. Groups[n + 1] = Place(Groups[n], n + 1)
    BY <1>5, <2>1
  <2>3. GroupsAt(n + 1) = Place(GroupsAt(n), n + 1)
    BY <1>3, <2>1
  <2> QED BY <1>7, <2>1, <2>2, <2>3
<1>8. Groups[N] = GroupsAt(N)
  <2> HIDE DEF T
  <2>1. \A n \in 0 .. N : n \in T
    BY <1>1, <1>6, <1>7, Climb
  <2> QED BY <1>1, <2>1 DEF T
<1> QED BY <1>8 DEF Filtered

Catalogs == [categories : Seq(Entries), channels : Seq(Entries)]
Answers  == [list : Seq(Entries), array : BOOLEAN]

(* The worker holds what the provider sent, without what has no id, and    *)
(* the index is of both lists of one fetch.                                *)
CatalogueInv ==
  /\ sending \in Answers /\ out \in Catalogs /\ offered \in Catalogs /\ indexed \in Catalogs
  /\ request = "Streams" => out.categories = Identified(offered.categories)
  /\ channels_ = Index([categories |-> Identified(indexed.categories),
                        channels   |-> Identified(indexed.channels)])

LEMMA IdentifiedStay ==
  /\ \A list \in Seq(Entries) : Identified(list) \in Seq(Entries)
  /\ Identified(<< >>) = << >>
<1>1. ASSUME NEW list \in Seq(Entries) PROVE Identified(list) \in Seq(Entries)
  <2> DEFINE places == {i \in DOMAIN list : list[i].id # NoId}
  <2>1. places \in SUBSET DOMAIN list
    OBVIOUS
  <2> HIDE DEF places
  <2>2. MembersAt(list, places) \in Seq(Entries)
    BY <2>1, MembersStay
  <2> QED BY <2>2 DEF Identified, places
<1>2. Identified(<< >>) = << >>
  <2>1. {i \in DOMAIN << >> : << >>[i].id # NoId} = {}
    OBVIOUS
  <2> QED BY <2>1, NoneLeft DEF Identified
<1> QED BY <1>1, <1>2

LEMMA CatalogueInvInit == CatalogueInit => CatalogueInv
<1> SUFFICES ASSUME CatalogueInit PROVE CatalogueInv
  OBVIOUS
<1>1. << >> \in Seq(Entries)
  OBVIOUS
<1>2. NoCatalog \in Catalogs /\ NotAList \in Answers
  BY <1>1 DEF NoCatalog, Catalogs, NotAList, Answers
<1>3. NoCatalog = [categories |-> Identified(NoCatalog.categories),
                   channels   |-> Identified(NoCatalog.channels)]
  BY IdentifiedStay DEF NoCatalog
<1> QED BY <1>2, <1>3 DEF CatalogueInit, CatalogueInv

LEMMA CatalogueInvStep == CatalogueInv /\ [CatalogueNext]_catalogueVars => CatalogueInv'
<1> SUFFICES ASSUME CatalogueInv, [CatalogueNext]_catalogueVars PROVE CatalogueInv'
  OBVIOUS
<1>0. << >> \in Seq(Entries)
  OBVIOUS
<1>1. NoCatalog \in Catalogs /\ NotAList \in Answers
  BY <1>0 DEF NoCatalog, Catalogs, NotAList, Answers
<1>2. ASSUME NEW lists \in SUBSET Lists, Receives(lists) PROVE sending' \in Answers
  <2>1. \A list \in lists : AList(list) \in Answers
    BY CatalogueAssumption DEF AList, Answers
  <2> QED BY <1>1, <1>2, <2>1 DEF Receives
<1>3. ASSUME Parses(sending, received) PROVE Parsed = sending.list /\ sending.list \in Seq(Entries)
  <2>1. sending.list \in Seq(Entries) /\ received = Len(sending.list) + 1
    BY <1>3 DEF CatalogueInv, Answers, Parses, Pieces
  <2> DEFINE list == sending.list
  <2> HIDE DEF list
  <2>2. list \in Seq(Entries) /\ received = Len(list) + 1
    BY <2>1 DEF list
  <2>3. {k \in DOMAIN list : k <= received} = DOMAIN list
    <3>1. \A k \in DOMAIN list : k <= received
      BY <2>2
    <3> QED BY <3>1
  <2>4. list = [i \in DOMAIN list |-> list[i]]
    BY <2>2
  <2> QED BY <2>2, <2>3, <2>4 DEF Parsed, list
<1>4. CASE BeginFetch
  <2>1. sending' \in Answers
    BY <1>4, <1>2 DEF BeginFetch, Lists
  <2> QED BY <1>1, <1>4, <2>1 DEF BeginFetch, CatalogueInv
<1>5. CASE ReadPiece
  BY <1>5 DEF ReadPiece, CatalogueInv
<1>6. CASE GetFails \/ CannotParse
  BY <1>1, <1>6 DEF GetFails, CannotParse, Abandon, CatalogueInv
<1>7. CASE TakeCategories
  <2>1. sending' \in Answers
    BY <1>7, <1>2 DEF TakeCategories, Lists
  <2>2. Parsed = sending.list /\ sending.list \in Seq(Entries)
    BY <1>3, <1>7 DEF TakeCategories
  <2>3. Identified(sending.list) \in Seq(Entries)
    BY <2>2, IdentifiedStay
  <2>4. /\ out' = [out EXCEPT !.categories = Identified(sending.list)]
        /\ offered' = [offered EXCEPT !.categories = sending.list]
        /\ UNCHANGED <<channels_, indexed>>
    BY <1>7, <2>2 DEF TakeCategories
  <2> DEFINE real == Identified(sending.list)
             list == sending.list
  <2> HIDE DEF real, list
  <2>5. real \in Seq(Entries) /\ list \in Seq(Entries) /\ real = Identified(list)
    BY <2>2, <2>3 DEF real, list
  <2>6. out' = [out EXCEPT !.categories = real] /\ offered' = [offered EXCEPT !.categories = list]
    BY <2>4 DEF real, list
  <2>7. out \in Catalogs /\ offered \in Catalogs
    BY DEF CatalogueInv
  <2>8. out' \in Catalogs /\ out'.categories = real
        /\ offered' \in Catalogs /\ offered'.categories = list
    BY <2>5, <2>6, <2>7 DEF Catalogs
  <2> QED BY <2>1, <2>4, <2>5, <2>8 DEF CatalogueInv
<1>8. CASE TakeChannels
  <2>1. Parsed = sending.list /\ sending.list \in Seq(Entries)
    BY <1>3, <1>8 DEF TakeChannels
  <2> DEFINE list == sending.list
             real == Identified(list)
  <2>2. real \in Seq(Entries) /\ list \in Seq(Entries)
    BY <2>1, IdentifiedStay
  <2>3. /\ out' = [out EXCEPT !.channels = real] /\ channels_' = Index(out')
        /\ offered' = [offered EXCEPT !.channels = list]
        /\ indexed' = offered' /\ request' = "None" /\ sending' = NotAList
    BY <1>8, <2>1 DEF TakeChannels, Reset
  <2>4. out \in Catalogs /\ offered \in Catalogs /\ out.categories = Identified(offered.categories)
    BY <1>8 DEF CatalogueInv, TakeChannels
  <2> HIDE DEF real, list
  <2>5. /\ out' \in Catalogs /\ offered' \in Catalogs
        /\ out' = [categories |-> out.categories, channels |-> real]
        /\ offered'.categories = offered.categories /\ offered'.channels = list
    BY <2>2, <2>3, <2>4 DEF Catalogs
  <2>6. out' = [categories |-> Identified(indexed'.categories),
                channels   |-> Identified(indexed'.channels)]
    BY <2>3, <2>4, <2>5 DEF real
  <2>7. channels_' = Index([categories |-> Identified(indexed'.categories),
                            channels   |-> Identified(indexed'.channels)])
    BY <2>3, <2>6
  <2> QED BY <1>1, <2>3, <2>5, <2>7 DEF CatalogueInv
<1>9. CASE TypeSearch
  BY <1>9 DEF TypeSearch, fetchVars, CatalogueInv
<1>10. CASE ForgetCatalogue
  <2>1. NoCatalog = [categories |-> Identified(NoCatalog.categories),
                     channels   |-> Identified(NoCatalog.channels)]
    BY IdentifiedStay DEF NoCatalog
  <2> QED BY <1>1, <1>10, <2>1 DEF ForgetCatalogue, Reset, fetchVars, CatalogueInv
<1>11. CASE UNCHANGED catalogueVars
  BY <1>11 DEF catalogueVars, fetchVars, CatalogueInv
<1> QED
  BY <1>4, <1>5, <1>6, <1>7, <1>8, <1>9, <1>10, <1>11 DEF CatalogueNext

\* No more of a list arrives than is sent, and none that was not asked for.
FetchInOrder ==
  /\ request \in {"None", "Categories", "Streams"} /\ received \in 0 .. Pieces(sending)
  /\ request = "None" => sending = NotAList /\ received = 0
  /\ search \in Searches

\* CatalogueTypeOK for lists of any length (xtream/xtream_client.cpp).
LEMMA CatalogueIsTyped == CatalogueSpec => []CatalogueTypeOK
<1>1. CatalogueInit => FetchInOrder
  <2>1. NotAList.list = << >>
    BY DEF NotAList
  <2>2. Pieces(NotAList) = Len(NotAList.list) + 1
    BY DEF Pieces
  <2>3. Pieces(NotAList) = 1
    BY <2>1, <2>2
  <2>4. SUFFICES ASSUME CatalogueInit PROVE FetchInOrder
    OBVIOUS
  <2>5. request = "None" /\ received = 0 /\ sending = NotAList
    BY <2>4, Zenon DEF CatalogueInit
  <2>6. Pieces(sending) = 1
    BY <2>3, <2>5, Zenon
  <2>7. received \in 0 .. Pieces(sending)
    BY <2>5, <2>6
  <2>8. search \in Searches
    BY <2>4, Zenon DEF CatalogueInit, Searches
  <2> QED BY <2>5, <2>7, <2>8, Zenon DEF FetchInOrder
<1>2. ASSUME CatalogueInv, CatalogueInv', FetchInOrder, [CatalogueNext]_catalogueVars
      PROVE  FetchInOrder'
  <2>1. Pieces(sending) \in Nat /\ Pieces(sending)' \in Nat
    BY <1>2 DEF CatalogueInv, Answers, Pieces
  <2>2. CASE BeginFetch \/ TakeCategories
    BY <1>2, <2>1, <2>2 DEF BeginFetch, TakeCategories, Receives, FetchInOrder
  <2>3. CASE ReadPiece
    BY <1>2, <2>1, <2>3 DEF ReadPiece, FetchInOrder, Pieces
  <2>4. CASE GetFails \/ CannotParse \/ TakeChannels
    BY <1>2, <2>1, <2>4 DEF GetFails, CannotParse, TakeChannels, Abandon, FetchInOrder
  <2>5. CASE TypeSearch \/ ForgetCatalogue \/ UNCHANGED catalogueVars
    BY <1>2, <2>5 DEF TypeSearch, ForgetCatalogue, catalogueVars, fetchVars, FetchInOrder,
       Pieces, Searches
  <2> QED BY <1>2, <2>2, <2>3, <2>4, <2>5 DEF CatalogueNext
<1>3. CatalogueInv /\ FetchInOrder => CatalogueTypeOK
  <2>1. \A entries_ : DOMAIN Hits(entries_) = DOMAIN entries_
    BY DEF Hits
  <2> QED BY <2>1 DEF CatalogueInv, FetchInOrder, CatalogueTypeOK, Index
<1> QED
  BY <1>1, <1>2, <1>3, CatalogueInvInit, CatalogueInvStep, PTL DEF CatalogueSpec

(* BrowserShowsTheCatalogue for lists of any length: whatever breaks off,  *)
(* the groups that one pass of ChannelIndex::filtered makes of the index   *)
(* are those of the last catalogue that was received whole, each channel   *)
(* under the first category of its id (core/channel_index.cpp).            *)
THEOREM BrowserIsOfTheCatalogue == CatalogueSpec => []BrowserShowsTheCatalogue
<1>1. ASSUME CatalogueInv PROVE BrowserShowsTheCatalogue
  <2> DEFINE Real(list)   == MembersAt(list, {i \in DOMAIN list : list[i].id # NoId})
             categories   == Real(indexed.categories)
             offers       == Real(indexed.channels)
             Home(ch)     == {c \in DOMAIN categories :
                                /\ categories[c].id = ch.category
                                /\ \A b \in 1 .. c - 1 : categories[b].id # ch.category}
             Found(ch)    == search = "" \/ ch.hit \/ \E c \in Home(ch) : categories[c].hit
             Under(homes) == MembersAt(offers, {i \in DOMAIN offers :
                                                  Found(offers[i]) /\ Home(offers[i]) = homes})
             declared     == [c \in DOMAIN categories |-> Group(categories[c].id, Under({c}))]
             shown        == Append(declared, Group(NoId, Under({})))
             C == channels_.categories
             H == channels_.channels
             last == Len(C) + 1
  <2>1. categories = Identified(indexed.categories) /\ offers = Identified(indexed.channels)
    BY DEF Identified
  <2>2. categories \in Seq(Entries) /\ offers \in Seq(Entries)
    BY <1>1, <2>1, IdentifiedStay DEF CatalogueInv, Catalogs
  <2>3. /\ C = categories /\ H = offers
        /\ channels_.category_keys = Hits(categories) /\ channels_.channel_keys = Hits(offers)
    BY <1>1, <2>1 DEF CatalogueInv, Index
  <2> HIDE DEF categories, offers
  <2>4. /\ C \in Seq(Entries) /\ H \in Seq(Entries)
        /\ Len(C) \in Nat /\ DOMAIN C = 1 .. Len(C) /\ Len(H) \in Nat /\ DOMAIN H = 1 .. Len(H)
    BY <2>2, <2>3
  <2>5. \A ch : Home(ch) = Slot(ch.category)
    BY <2>3 DEF Slot
  <2>6. \A i \in DOMAIN H : Found(H[i]) <=> Matches(i, Slot(H[i].category))
    <3>1. \A i \in DOMAIN H : channels_.channel_keys[i] = H[i].hit
      BY <2>3 DEF Hits
    <3>2. \A i : \A s \in Slot(H[i].category) : channels_.category_keys[s] = categories[s].hit
      BY <2>3 DEF Hits, Slot
    <3> TAKE i \in DOMAIN H
    <3> DEFINE homes == Home(H[i])
    <3>3. homes = Slot(H[i].category)
      BY <2>5
    <3>4. /\ channels_.channel_keys[i] = H[i].hit
          /\ \A s \in homes : channels_.category_keys[s] = categories[s].hit
      BY <3>1, <3>2, <3>3
    <3>5. Matches(i, homes) <=> \/ search = "" \/ channels_.channel_keys[i]
                                \/ \E s \in homes : channels_.category_keys[s]
      BY Zenon DEF Matches
    <3>6. Found(H[i]) <=> search = "" \/ H[i].hit \/ \E c \in homes : categories[c].hit
      BY Zenon
    <3> HIDE DEF homes, Found
    <3>7. Matches(i, homes) <=> Found(H[i])
      BY <3>4, <3>5, <3>6, Zenon
    <3> QED BY <3>3, <3>7, Zenon
  <2> HIDE DEF Home, Found
  <2>7. ASSUME NEW k \in 1 .. last
        PROVE  Placed(k, Len(H)) = {i \in DOMAIN H : /\ Found(H[i])
                                     /\ Home(H[i]) = IF k = last THEN {} ELSE {k}}
    <3>1. \A id : Into(Slot(id)) = k <=> Slot(id) = IF k = last THEN {} ELSE {k}
      <4> TAKE id
      <4> DEFINE slots == Slot(id)
      <4>1. \/ slots = {} /\ Into(slots) = last
            \/ \E s \in DOMAIN C : slots = {s} /\ Into(slots) = s
        BY <2>4, OneSlot
      <4>2. \A s \in DOMAIN C : s # last
        BY <2>4
      <4> HIDE DEF slots
      <4> QED BY <4>1, <4>2 DEF slots
    <3> QED BY <2>4, <2>5, <2>6, <3>1 DEF Placed
  <2>8. \A k \in 1 .. last : MembersAt(H, Placed(k, Len(H))) = Under(IF k = last THEN {} ELSE {k})
    BY <2>3, <2>7
  <2> HIDE DEF Under
  <2>9. \A k \in 1 .. last : NoGroups[k].category = IF k = last THEN NoId ELSE categories[k].id
    <3>1. \A k \in 1 .. last : k \in DOMAIN C <=> k # last
      BY <2>4
    <3> QED BY <2>3, <3>1 DEF NoGroups, Group
  <2> DEFINE group(k) == IF k = last THEN Group(NoId, Under({}))
                                     ELSE Group(categories[k].id, Under({k}))
  <2>10. GroupsAt(Len(H)) = [k \in 1 .. last |-> group(k)]
    BY <2>8, <2>9 DEF GroupsAt
  <2>11. shown = [k \in 1 .. last |-> group(k)]
    <3> DEFINE homeless == Group(NoId, Under({}))
               kinds == {declared[c] : c \in DOMAIN categories} \cup {homeless}
    <3> DEFINE size == Len(C)
    <3>0. /\ DOMAIN declared = 1 .. size /\ size \in Nat /\ DOMAIN categories = 1 .. size
          /\ declared = [c \in 1 .. size |-> declared[c]]
      BY <2>3, <2>4
    <3>1. declared \in Seq(kinds) /\ Len(declared) = Len(C) /\ homeless \in kinds
      <4> HIDE DEF declared, homeless, size
      <4>1. homeless \in kinds /\ \A c \in 1 .. size : declared[c] \in kinds
        BY <3>0
      <4> HIDE DEF kinds
      <4>2. declared \in Seq(kinds) /\ Len(declared) = size
        BY <3>0, <4>1
      <4> QED BY <4>1, <4>2 DEF size
    <3>2. \A k \in 1 .. last : k # last => declared[k] = group(k)
      BY <2>3, <2>4
    <3>3. group(last) = homeless
      OBVIOUS
    <3> HIDE DEF declared, kinds, group, homeless
    <3>4. Append(declared, homeless) =
            [k \in 1 .. last |-> IF k = last THEN homeless ELSE declared[k]]
      BY <3>1, PutBehind
    <3>5. \A k \in 1 .. last : group(k) = IF k = last THEN homeless ELSE declared[k]
      BY <3>2, <3>3
    <3> QED BY <3>4, <3>5 DEF homeless
  <2>12. Filtered = Nonempty(GroupsAt(Len(H)))
    BY <2>4, OnePass
  <2>13. Filtered = Nonempty(shown)
    BY <2>10, <2>11, <2>12
  <2> QED BY <2>13 DEF BrowserShowsTheCatalogue, categories, offers, Home, Found, Under
<1> QED BY <1>1, CatalogueInvInit, CatalogueInvStep, PTL DEF CatalogueSpec

-----------------------------------------------------------------------------
(* What a tag says (core/version.cpp)                                      *)

Symbols == Digits \cup {Vee, Dot, Other}

\* Digits are read to where they end, at once or later.
LEMMA DigitsEnd ==
  ASSUME NEW text \in Seq(Symbols), NEW pos \in 1 .. Len(text) + 1
  PROVE  /\ EndOfDigits(text, pos) \in pos .. Len(text) + 1
         /\ \A i \in pos .. EndOfDigits(text, pos) - 1 : text[i] \in Digits
         /\ EndOfDigits(text, pos) \in DOMAIN text => text[EndOfDigits(text, pos)] \notin Digits
<1> DEFINE N == Len(text)
           ends == {e \in pos .. N + 1 : e \in DOMAIN text => text[e] \notin Digits}
<1>1. N \in Nat /\ DOMAIN text = 1 .. N /\ pos \in Nat /\ pos >= 1
  OBVIOUS
<1>2. N + 1 \in ends /\ ends \in SUBSET Nat
  BY <1>1
<1>3. PICK least \in ends : \A e \in ends : least <= e
  <2> HIDE DEF ends
  <2> QED BY <1>2, Least
<1>4. least \in pos .. N + 1 /\ (least \in DOMAIN text => text[least] \notin Digits)
  OBVIOUS
<1>5. ASSUME NEW i \in pos .. least - 1 PROVE text[i] \in Digits
  <2>1. i \in pos .. N + 1 /\ ~ (least <= i) /\ i \in DOMAIN text
    BY <1>1, <1>4
  <2>2. i \notin ends
    BY <1>3, <2>1
  <2> QED BY <2>1, <2>2
<1> HIDE DEF ends
<1> DEFINE Ends(e) == /\ \A i \in pos .. e - 1 : text[i] \in Digits
                      /\ e \in DOMAIN text => text[e] \notin Digits
<1>6. \E e \in pos .. Len(text) + 1 : Ends(e)
  BY <1>4, <1>5
<1>7. EndOfDigits(text, pos) = CHOOSE e \in pos .. Len(text) + 1 : Ends(e)
  BY DEF EndOfDigits
<1> HIDE DEF Ends
<1>8. EndOfDigits(text, pos) \in pos .. Len(text) + 1 /\ Ends(EndOfDigits(text, pos))
  BY <1>6, <1>7
<1> QED BY <1>8 DEF Ends

\* The value of digits is that of one less, and the next digit.
LEMMA ValuesStep ==
  ASSUME NEW text, NEW pos \in Nat, NEW end \in Nat, pos <= end,
         \A i \in pos .. end - 1 : text[i] \in Digits
  PROVE  /\ Values(text, pos, end) \in [0 .. end - pos -> Nat]
         /\ Values(text, pos, end)[0] = 0
         /\ \A n \in 1 .. end - pos : Values(text, pos, end)[n]
              = Values(text, pos, end)[n - 1] * 10 + text[pos + n - 1]
<1> DEFINE N == end - pos
           Advance == [p \in (1 .. N) \X Nat |-> p[2] * 10 + text[pos + p[1] - 1]]
           Reads(f) == [n \in 0 .. N |-> IF n = 0 THEN 0 ELSE f[n - 1] * 10 + text[pos + n - 1]]
<1>1. N \in Nat /\ 0 \in Nat
  OBVIOUS
<1>2. \A n \in 1 .. N : text[pos + n - 1] \in Nat
  <2> TAKE n \in 1 .. N
  <2>1. pos + n - 1 \in pos .. end - 1
    OBVIOUS
  <2> QED BY <2>1 DEF Digits
<1>3. Advance \in [(1 .. N) \X Nat -> Nat]
  <2> DEFINE digit(n) == text[pos + n - 1]
  <2>1. \A n \in 1 .. N : digit(n) \in Nat
    BY <1>2
  <2> HIDE DEF digit, N
  <2>2. \A p \in (1 .. N) \X Nat : p[2] * 10 + digit(p[1]) \in Nat
    BY <2>1
  <2>3. Advance = [p \in (1 .. N) \X Nat |-> p[2] * 10 + digit(p[1])]
    BY DEF digit
  <2> QED BY <2>2, <2>3
<1>4. PICK f : StepsOf(N, Nat, 0, Advance, f)
  <2> HIDE DEF N, Advance
  <2> QED BY <1>1, <1>3, StepByStep
<1>5. f \in [0 .. N -> Nat] /\ f[0] = 0
  BY <1>4 DEF StepsOf
<1>6. ASSUME NEW n \in 1 .. N PROVE f[n] = f[n - 1] * 10 + text[pos + n - 1]
  <2>1. n - 1 \in 0 .. N /\ f[n - 1] \in Nat
    BY <1>1, <1>5
  <2>2. f[n] = Advance[<<n, f[n - 1]>>]
    BY <1>4 DEF StepsOf
  <2>3. <<n, f[n - 1]>> \in (1 .. N) \X Nat
    BY <2>1
  <2> HIDE DEF N
  <2> QED BY <2>2, <2>3
<1>7. f = Reads(f)
  <2>1. \A n \in 0 .. N : f[n] = IF n = 0 THEN 0 ELSE f[n - 1] * 10 + text[pos + n - 1]
    BY <1>1, <1>5, <1>6
  <2> HIDE DEF N
  <2> QED BY <1>5, <2>1
<1> DEFINE v == Values(text, pos, end)
<1>8. v = Reads(v)
  BY <1>7 DEF Values
<1> HIDE DEF v
<1> DEFINE T == {n \in 0 .. N : v[n] \in Nat}
<1>9. v[0] = 0 /\ \A n \in 1 .. N : v[n] = v[n - 1] * 10 + text[pos + n - 1]
  <2> HIDE DEF N
  <2> QED BY <1>1, <1>8
<1>10. 0 \in T
  BY <1>1, <1>9
<1>11. ASSUME NEW n \in 0 .. N - 1, n \in T PROVE n + 1 \in T
  <2>1. n + 1 \in 1 .. N /\ (n + 1) - 1 = n /\ n + 1 \in 0 .. N
    BY <1>1
  <2>2. v[n + 1] = v[n] * 10 + text[pos + (n + 1) - 1] /\ v[n] \in Nat
    BY <1>9, <1>11, <2>1
  <2>3. text[pos + (n + 1) - 1] \in Nat
    BY <1>2, <2>1
  <2> QED BY <2>1, <2>2, <2>3
<1>12. \A n \in 0 .. N : v[n] \in Nat
  <2> HIDE DEF T
  <2>1. \A n \in 0 .. N : n \in T
    <3> HIDE DEF N
    <3> QED BY <1>1, <1>10, <1>11, Climb
  <2> QED BY <2>1 DEF T
<1>13. v = [n \in 0 .. N |-> v[n]]
  <2> HIDE DEF N
  <2> QED BY <1>8
<1>14. v \in [0 .. N -> Nat]
  BY <1>12, <1>13
<1> QED BY <1>9, <1>14 DEF v

\* A part's number changes at its digits.
LEMMA NumbersStep ==
  ASSUME NEW text \in Seq(Symbols), NEW n
  PROVE  /\ Numbers(text, n) \in [0 .. Len(text) -> Nat]
         /\ Numbers(text, n)[0] = 0
         /\ \A i \in 1 .. Len(text) : Numbers(text, n)[i]
              = IF i \in PartAt(text, n) THEN Numbers(text, n)[i - 1] * 10 + text[i]
                                         ELSE Numbers(text, n)[i - 1]
<1> DEFINE N == Len(text)
           places == PartAt(text, n)
           Onward(i, number) == IF i \in places THEN number * 10 + text[i] ELSE number
           Advance == [p \in (1 .. N) \X Nat |-> Onward(p[1], p[2])]
           Reads(f) == [i \in 0 .. N |-> IF i = 0 THEN 0
                                         ELSE IF i \in places THEN f[i - 1] * 10 + text[i]
                                         ELSE f[i - 1]]
<1>1. N \in Nat /\ 0 \in Nat
  OBVIOUS
<1>2. \A i \in places : text[i] \in Nat
  BY DEF PartAt, Digits
<1> HIDE DEF places
<1>3. ASSUME NEW i, NEW number \in Nat PROVE Onward(i, number) \in Nat
  BY <1>2
<1>4. PICK f : StepsOf(N, Nat, 0, Advance, f)
  <2>1. Advance \in [(1 .. N) \X Nat -> Nat]
    <3> HIDE DEF Onward, N
    <3> QED BY <1>3
  <2> HIDE DEF N, Advance
  <2> QED BY <1>1, <2>1, StepByStep
<1>5. f \in [0 .. N -> Nat] /\ f[0] = 0
  BY <1>4 DEF StepsOf
<1>6. ASSUME NEW i \in 1 .. N PROVE f[i] = Onward(i, f[i - 1])
  <2>1. i - 1 \in 0 .. N /\ f[i - 1] \in Nat
    BY <1>1, <1>5
  <2>2. f[i] = Advance[<<i, f[i - 1]>>]
    BY <1>4 DEF StepsOf
  <2>3. <<i, f[i - 1]>> \in (1 .. N) \X Nat
    BY <2>1
  <2> HIDE DEF N, Onward
  <2> QED BY <2>2, <2>3
<1>7. f = Reads(f)
  <2>1. \A i \in 0 .. N : f[i] = IF i = 0 THEN 0 ELSE IF i \in places THEN f[i - 1] * 10 + text[i]
                                                 ELSE f[i - 1]
    BY <1>1, <1>5, <1>6
  <2> HIDE DEF N
  <2> QED BY <1>5, <2>1
<1> DEFINE v == Numbers(text, n)
<1>8. v = Reads(v)
  BY <1>7 DEF Numbers, places
<1> HIDE DEF v
<1>9. v[0] = 0 /\ \A i \in 1 .. N : v[i] = Onward(i, v[i - 1])
  <2> HIDE DEF N
  <2> QED BY <1>1, <1>8
<1> DEFINE T == {i \in 0 .. N : v[i] \in Nat}
<1>10. 0 \in T
  BY <1>1, <1>9
<1>11. ASSUME NEW i \in 0 .. N - 1, i \in T PROVE i + 1 \in T
  <2>1. i + 1 \in 1 .. N /\ (i + 1) - 1 = i /\ i + 1 \in 0 .. N
    BY <1>1
  <2>2. v[i + 1] = Onward(i + 1, v[i]) /\ v[i] \in Nat
    <3> HIDE DEF Onward
    <3> QED BY <1>9, <1>11, <2>1
  <2> HIDE DEF Onward
  <2> QED BY <1>3, <2>1, <2>2
<1>12. \A i \in 0 .. N : v[i] \in Nat
  <2> HIDE DEF T
  <2>1. \A i \in 0 .. N : i \in T
    <3> HIDE DEF N
    <3> QED BY <1>1, <1>10, <1>11, Climb
  <2> QED BY <2>1 DEF T
<1>13. v = [i \in 0 .. N |-> v[i]]
  <2> HIDE DEF N
  <2> QED BY <1>8
<1>14. v \in [0 .. N -> Nat]
  BY <1>12, <1>13
<1> QED BY <1>9, <1>14 DEF v, places

\* The dots before the body are none, and a symbol more is a dot more or not.
LEMMA DotsStep ==
  ASSUME NEW text \in Seq(Symbols)
  PROVE  /\ BodyAt(text) \in 1 .. Len(text) + 1
         /\ Dots(text, BodyAt(text) - 1) = 0
         /\ \A i \in BodyAt(text) - 1 .. Len(text) : Dots(text, i) \in Nat
         /\ \A i \in BodyAt(text) .. Len(text) :
              Dots(text, i) = IF text[i] = Dot THEN Dots(text, i - 1) + 1 ELSE Dots(text, i - 1)
<1> DEFINE N == Len(text)
           first == BodyAt(text)
           At(i) == {j \in first .. i : text[j] = Dot}
<1>1. N \in Nat /\ first \in 1 .. N + 1 /\ first \in Nat
  BY DEF BodyAt
<1> HIDE DEF N, first
<1>2. \A i \in Nat : IsFiniteSet(At(i)) /\ Cardinality(At(i)) \in Nat
  <2> TAKE i \in Nat
  <2>1. IsFiniteSet(first .. i)
    BY <1>1, FS_Interval
  <2> QED BY <2>1, FS_Subset, FS_CardinalityType
<1>3. At(first - 1) = {}
  BY <1>1
<1>4. ASSUME NEW i \in first .. N
      PROVE  Cardinality(At(i)) = IF text[i] = Dot THEN Cardinality(At(i - 1)) + 1
                                                  ELSE Cardinality(At(i - 1))
  <2>1. i \in Nat /\ i - 1 \in Nat /\ i \notin At(i - 1)
    BY <1>1
  <2>2. first .. i = (first .. i - 1) \cup {i}
    BY <1>1
  <2>3. At(i) = IF text[i] = Dot THEN At(i - 1) \cup {i} ELSE At(i - 1)
    BY <2>2
  <2>4. IsFiniteSet(At(i - 1))
    BY <1>2, <2>1
  <2> HIDE DEF At
  <2> QED BY <2>1, <2>3, <2>4, FS_AddElement
<1>5. \A i : Dots(text, i) = Cardinality(At(i))
  BY DEF Dots, first
<1>6. \A i \in first - 1 .. N : i \in Nat
  BY <1>1
<1> QED BY <1>1, <1>2, <1>3, <1>4, <1>5, <1>6, FS_EmptySet DEF N, first

\* There are never fewer dots further on.
LEMMA DotsGrow ==
  ASSUME NEW text \in Seq(Symbols), NEW b \in BodyAt(text) - 1 .. Len(text),
         NEW a \in BodyAt(text) - 1 .. b
  PROVE  Dots(text, a) <= Dots(text, b)
<1> DEFINE first == BodyAt(text)
           At(i) == {j \in first .. i : text[j] = Dot}
<1>1. first \in Nat /\ a \in Nat /\ b \in Nat /\ a <= b
  BY DotsStep
<1> HIDE DEF first
<1>2. At(a) \subseteq At(b)
  <2>1. \A j \in first .. a : j \in first .. b
    BY <1>1
  <2> QED BY <2>1
<1>3. IsFiniteSet(At(b))
  <2>1. IsFiniteSet(first .. b)
    BY <1>1, FS_Interval
  <2> QED BY <2>1, FS_Subset
<1>4. Cardinality(At(a)) <= Cardinality(At(b))
  <2> HIDE DEF At
  <2> QED BY <1>2, <1>3, FS_Subset
<1> QED BY <1>4 DEF Dots, first

\* A number stays where its part has no digits.
LEMMA NumberStays ==
  ASSUME NEW text \in Seq(Symbols), NEW n, NEW b \in 0 .. Len(text), NEW a \in 0 .. b,
         \A i \in a + 1 .. b : i \notin PartAt(text, n)
  PROVE  Numbers(text, n)[b] = Numbers(text, n)[a]
<1> DEFINE v == Numbers(text, n)
           places == PartAt(text, n)
           N == b - a
           T == {m \in 0 .. N : v[a + m] = v[a]}
<1>1. N \in Nat /\ a \in Nat /\ b \in Nat /\ Len(text) \in Nat
  OBVIOUS
<1>2. \A i \in 1 .. Len(text) : i \notin places => v[i] = v[i - 1]
  BY NumbersStep
<1> HIDE DEF v, places
<1>3. 0 \in T
  BY <1>1
<1>4. ASSUME NEW m \in 0 .. N - 1, m \in T PROVE m + 1 \in T
  <2>1. a + (m + 1) \in a + 1 .. b /\ a + (m + 1) \in 1 .. Len(text) /\ (a + (m + 1)) - 1 = a + m
    BY <1>1
  <2>2. a + (m + 1) \notin places
    BY <2>1 DEF places
  <2>3. v[a + (m + 1)] = v[a + m]
    BY <1>2, <2>1, <2>2
  <2> QED BY <1>1, <1>4, <2>3
<1>5. N \in T
  <2> HIDE DEF T
  <2>1. \A m \in 0 .. N : m \in T
    <3> HIDE DEF N
    <3> QED BY <1>1, <1>3, <1>4, Climb
  <2> QED BY <1>1, <2>1
<1>6. a + N = b
  BY <1>1
<1> QED BY <1>5, <1>6 DEF v

PartUpTo(text, n, p) == {i \in PartAt(text, n) : i < p}

\* What the reading knows of the first k parts.
PartsRead(text, k, p, parts) ==
  /\ p \in BodyAt(text) .. Len(text) + 1
  /\ \A i \in BodyAt(text) .. p - 1 : text[i] \in Digits \cup {Dot}
  /\ parts \in Seq(Nat) /\ Len(parts) = k
  /\ \A n \in 1 .. k : /\ Cardinality(PartUpTo(text, n, p)) \in 1 .. MaxComponentDigits
                       /\ Numbers(text, n)[p - 1] = parts[n]

\* Behind a dot, or at the first symbol of the body, a part begins.
PartBegins(text, k, p, parts) ==
  /\ PartsRead(text, k, p, parts) /\ Dots(text, p - 1) = k
  /\ \A i \in BodyAt(text) .. p - 1 :
       Dots(text, i) <= k /\ (text[i] \in Digits => Dots(text, i) < k)

\* Where the digits end, a part is at its end.
PartEnds(text, k, p, parts) ==
  /\ PartsRead(text, k, p, parts) /\ Dots(text, p - 1) = k - 1
  /\ \A i \in BodyAt(text) .. p - 1 : Dots(text, i) <= k - 1
  /\ p \in DOMAIN text => text[p] \notin Digits

\* The reading begins with the first part.
LEMMA FirstPart ==
  ASSUME NEW text \in Seq(Symbols)
  PROVE  PartBegins(text, 0, BodyAt(text), << >>)
<1>1. BodyAt(text) \in 1 .. Len(text) + 1 /\ Dots(text, BodyAt(text) - 1) = 0
  BY DotsStep
<1> DEFINE first == BodyAt(text)
<1> HIDE DEF first
<1>2. first \in Nat /\ first .. first - 1 = {} /\ first \in first .. Len(text) + 1
  BY <1>1 DEF first
<1>3. << >> \in Seq(Nat) /\ Len(<< >>) = 0 /\ 1 .. 0 = {}
  OBVIOUS
<1> QED BY <1>1, <1>2, <1>3 DEF PartBegins, PartsRead, first

\* A dot ends a part and begins the next.
LEMMA NextPart ==
  ASSUME NEW text \in Seq(Symbols), NEW k \in 1 .. 3, NEW p \in DOMAIN text, NEW parts,
         PartEnds(text, k, p, parts), text[p] = Dot
  PROVE  PartBegins(text, k, p + 1, parts)
<1> DEFINE first == BodyAt(text)
<1>1. /\ Len(text) \in Nat /\ p \in 1 .. Len(text) /\ p \in first .. Len(text) /\ first \in Nat /\ first >= 1
      /\ p + 1 \in first .. Len(text) + 1 /\ (p + 1) - 1 = p
  BY DotsStep DEF PartEnds, PartsRead
<1>2. Dot \notin Digits
  BY UpdateAssumption DEF Digits
<1>3. Dots(text, p) = k
  BY <1>1, DotsStep DEF PartEnds
<1>4. \A n : p \notin PartAt(text, n)
  BY <1>2 DEF PartAt
<1>5. ASSUME NEW n \in 1 .. k
      PROVE  /\ PartUpTo(text, n, p + 1) = PartUpTo(text, n, p)
             /\ Numbers(text, n)[p] = Numbers(text, n)[p - 1]
  <2>1. \A i \in PartAt(text, n) : i \in Nat
    BY <1>1 DEF PartAt
  <2>2. \A i \in PartAt(text, n) : i < p + 1 <=> i < p
    BY <1>1, <1>4, <2>1
  <2>3. Numbers(text, n)[p] = Numbers(text, n)[p - 1]
    BY <1>1, <1>4, NumbersStep
  <2> QED BY <2>2, <2>3 DEF PartUpTo
<1> HIDE DEF first
<1>6. first .. p = (first .. p - 1) \cup {p}
  BY <1>1
<1>7. \A i \in first .. p : text[i] \in Digits \cup {Dot}
  BY <1>6 DEF PartEnds, PartsRead, first
<1>8. \A i \in first .. p - 1 : Dots(text, i) <= k /\ Dots(text, i) < k
  <2>0. \A i \in first .. p - 1 : i \in first - 1 .. Len(text)
    BY <1>1
  <2>1. \A i \in first .. p - 1 : Dots(text, i) \in Nat
    BY <2>0, DotsStep DEF first
  <2> QED BY <2>1 DEF PartEnds, first
<1>9. \A i \in first .. p : Dots(text, i) <= k /\ (text[i] \in Digits => Dots(text, i) < k)
  BY <1>2, <1>3, <1>6, <1>8
<1>10. PartsRead(text, k, p + 1, parts)
  BY <1>1, <1>5, <1>7 DEF PartEnds, PartsRead, first
<1> QED BY <1>1, <1>3, <1>9, <1>10 DEF PartBegins, first

\* A reading is at the end of the k-th part, or there is nothing to be read.
ReadTo(text, k, read) ==
  \/ /\ read = [ok |-> TRUE, pos |-> read.pos, parts |-> read.parts]
     /\ PartEnds(text, k, read.pos, read.parts)
  \/ read = Malformed /\ ~IsRelease(text)

\* A component is a part that ends, or the text is no release.
LEMMA OnePart ==
  ASSUME NEW text \in Seq(Symbols), NEW k \in 0 .. 2, NEW q, NEW parts,
         PartBegins(text, k, q, parts),
         NEW read, read = [ok |-> TRUE, pos |-> q, parts |-> parts]
  PROVE  LET after == ReadComponent(text, read)
         IN  ReadTo(text, k + 1, after)
<1> DEFINE first == BodyAt(text)
           end == EndOfDigits(text, q)
           count == end - q
           N == Len(text)
           values == Values(text, q, end)
           after == ReadComponent(text, read)
<1> HIDE DEF first, end, N, values
<1>1. /\ N \in Nat /\ DOMAIN text = 1 .. N /\ first \in 1 .. N + 1 /\ q \in first .. N + 1
      /\ first \in Nat /\ q \in Nat /\ q >= 1
  BY DotsStep DEF PartBegins, PartsRead, N, first
<1>2. /\ end \in q .. N + 1 /\ end \in Nat /\ count \in Nat
      /\ \A i \in q .. end - 1 : text[i] \in Digits
      /\ end \in DOMAIN text => text[end] \notin Digits
  <2>1. q \in 1 .. N + 1
    BY <1>1
  <2>2. /\ end \in q .. N + 1
        /\ \A i \in q .. end - 1 : text[i] \in Digits
        /\ end \in DOMAIN text => text[end] \notin Digits
    BY <2>1, DigitsEnd DEF end, N
  <2>3. end \in Nat /\ count \in Nat
    BY <1>1, <2>2
  <2> QED BY <2>2, <2>3
<1>3. Dot \notin Digits
  BY UpdateAssumption DEF Digits
<1>4. \A i \in first - 1 .. N : Dots(text, i) \in Nat
  BY DotsStep DEF first, N
<1>5. \A i \in q - 1 .. end - 1 : Dots(text, i) = k
  <2> DEFINE T == {m \in 0 .. count : Dots(text, q - 1 + m) = k}
  <2>1. 0 \in T
    <3>1. q - 1 + 0 = q - 1
      BY <1>1
    <3> QED BY <1>2, <3>1 DEF PartBegins
  <2>2. ASSUME NEW m \in 0 .. count - 1, m \in T PROVE m + 1 \in T
    <3> DEFINE i == q - 1 + (m + 1)
    <3>1. i \in q .. end - 1 /\ i \in first .. N /\ i - 1 = q - 1 + m /\ m + 1 \in 0 .. count
      BY <1>1, <1>2
    <3>2. text[i] # Dot
      BY <1>2, <1>3, <3>1
    <3>3. Dots(text, i) = Dots(text, i - 1)
      BY <3>1, <3>2, DotsStep DEF first, N
    <3> QED BY <2>2, <3>1, <3>3
  <2>3. \A m \in 0 .. count : m \in T
    <3> HIDE DEF T, count
    <3> QED BY <1>2, <2>1, <2>2, Climb
  <2> TAKE i \in q - 1 .. end - 1
  <2>4. i - (q - 1) \in 0 .. count /\ q - 1 + (i - (q - 1)) = i
    BY <1>1, <1>2
  <2> QED BY <2>3, <2>4
<1>6. \A n : \A i \in PartAt(text, n) : i \in Nat /\ i >= first /\ i <= N
  BY <1>1 DEF PartAt, N, first
<1>7. \A n : \A i \in q .. end - 1 : i \in PartAt(text, n) <=> n - 1 = k
  <2> TAKE n
  <2> TAKE i \in q .. end - 1
  <2>1. Dots(text, i) = k /\ i \in first .. N /\ text[i] \in Digits
    BY <1>1, <1>2, <1>5
  <2> QED BY <2>1 DEF PartAt, first, N
<1>8. \A i \in PartAt(text, k + 1) : ~ (i < q)
  <2>a. SUFFICES ASSUME NEW i \in PartAt(text, k + 1), i < q PROVE FALSE
    OBVIOUS
  <2>1. i \in first .. q - 1 /\ text[i] \in Digits /\ Dots(text, i) = k
    <3>1. i \in first .. q - 1
      BY <1>1, <1>6, <2>a
    <3>2. (k + 1) - 1 = k
      OBVIOUS
    <3> QED BY <3>1, <3>2 DEF PartAt
  <2>2. Dots(text, i) < k
    BY <2>1 DEF PartBegins, first
  <2> QED BY <2>1, <2>2
<1>9. q .. end - 1 = PartUpTo(text, k + 1, end)
  <2>1. \A i \in q .. end - 1 : i \in PartAt(text, k + 1) /\ i < end
    BY <1>1, <1>2, <1>7
  <2>2. \A i \in PartAt(text, k + 1) : i < end => i \in q .. end - 1
    BY <1>1, <1>2, <1>6, <1>8
  <2> QED BY <2>1, <2>2 DEF PartUpTo
<1>10. Cardinality(q .. end - 1) = count
  <2>1. Cardinality(q .. end - 1) = IF q > end - 1 THEN 0 ELSE (end - 1) - q + 1
    BY <1>1, <1>2, FS_Interval
  <2> QED BY <1>1, <1>2, <2>1
<1>11. after = IF IsComponent(count)
               THEN [ok |-> TRUE, pos |-> end, parts |-> Append(parts, values[count])]
               ELSE Malformed
  BY DEF ReadComponent, end, values
<1>12. CASE count \notin 1 .. MaxComponentDigits
  <2>1. after = Malformed
    BY <1>11, <1>12 DEF IsComponent
  <2>2. SUFFICES ASSUME IsRelease(text) PROVE FALSE
    BY <2>1 DEF ReadTo
  <2>3. \A i \in first .. N : text[i] \in Digits \cup {Dot}
    BY <2>2 DEF IsRelease, first, N
  <2>4. k + 1 \in 1 .. Dots(text, N) + 1
    <3>1. Dots(text, q - 1) = k /\ q - 1 \in first - 1 .. N
      BY <1>1 DEF PartBegins
    <3>2. Dots(text, q - 1) <= Dots(text, N)
      BY <1>1, <3>1, DotsGrow DEF first, N
    <3>3. N \in first - 1 .. N
      BY <1>1
    <3> QED BY <1>4, <3>1, <3>2, <3>3
  <2>5. Cardinality(PartAt(text, k + 1)) \in 1 .. MaxComponentDigits
    BY <2>2, <2>4 DEF IsRelease, N
  <2>6. ASSUME NEW i \in PartAt(text, k + 1) PROVE i < end
    <3> SUFFICES ASSUME ~ (i < end) PROVE FALSE
      OBVIOUS
    <3>1. i \in first .. N /\ end \in first .. N /\ end \in first - 1 .. i /\ i \in first - 1 .. N
          /\ end \in DOMAIN text
      BY <1>1, <1>2, <1>6
    <3>2. text[end] = Dot
      BY <1>2, <2>3, <3>1
    <3>3. Dots(text, end) = k + 1
      <4>1. end - 1 \in q - 1 .. end - 1
        BY <1>1, <1>2
      <4> QED BY <1>5, <3>1, <3>2, <4>1, DotsStep DEF first, N
    <3>4. Dots(text, end) <= Dots(text, i)
      BY <3>1, DotsGrow DEF first, N
    <3>5. Dots(text, i) = k
      BY DEF PartAt
    <3> QED BY <3>3, <3>4, <3>5
  <2>7. PartAt(text, k + 1) = q .. end - 1
    BY <1>9, <2>6 DEF PartUpTo
  <2> QED BY <1>10, <1>12, <2>5, <2>7
<1>13. CASE count \in 1 .. MaxComponentDigits
  <2> DEFINE all == Append(parts, values[count])
  <2>1. after = [ok |-> TRUE, pos |-> after.pos, parts |-> after.parts]
        /\ after.pos = end /\ after.parts = all
    <3>1. after = [ok |-> TRUE, pos |-> end, parts |-> all]
      BY <1>11, <1>13 DEF IsComponent
    <3> HIDE DEF all, after
    <3> QED BY <3>1
  <2>2. /\ values \in [0 .. count -> Nat] /\ values[0] = 0
        /\ \A n \in 1 .. count : values[n] = values[n - 1] * 10 + text[q + n - 1]
    <3>1. q \in Nat /\ end \in Nat /\ q <= end /\ \A i \in q .. end - 1 : text[i] \in Digits
      BY <1>1, <1>2
    <3>2. /\ Values(text, q, end) \in [0 .. end - q -> Nat] /\ Values(text, q, end)[0] = 0
          /\ \A n \in 1 .. end - q : Values(text, q, end)[n]
               = Values(text, q, end)[n - 1] * 10 + text[q + n - 1]
      BY <3>1, ValuesStep, Zenon
    <3> QED BY <3>2 DEF values
  <2>3. ASSUME NEW n \in 1 .. k
        PROVE  /\ PartUpTo(text, n, end) = PartUpTo(text, n, q)
               /\ Numbers(text, n)[end - 1] = Numbers(text, n)[q - 1]
    <3>1. \A i \in q .. end - 1 : i \notin PartAt(text, n)
      BY <1>7
    <3>2. \A i \in PartAt(text, n) : i < end <=> i < q
      BY <1>1, <1>2, <1>6, <3>1
    <3>3. q - 1 \in 0 .. end - 1 /\ end - 1 \in 0 .. N /\ (q - 1) + 1 = q
      BY <1>1, <1>2
    <3>4. Numbers(text, n)[end - 1] = Numbers(text, n)[q - 1]
      BY <3>1, <3>3, NumberStays DEF N
    <3> QED BY <3>2, <3>4 DEF PartUpTo
  <2>4. Numbers(text, k + 1)[end - 1] = values[count]
    <3> DEFINE v == Numbers(text, k + 1)
               T == {m \in 0 .. count : v[q - 1 + m] = values[m]}
    <3>1. 0 \in T
      <4>1. \A i \in 0 + 1 .. q - 1 : i \notin PartAt(text, k + 1)
        BY <1>1, <1>8
      <4>2. q - 1 \in 0 .. N /\ 0 \in 0 .. q - 1 /\ q - 1 + 0 = q - 1
        BY <1>1
      <4>3. v[q - 1] = v[0]
        BY <4>1, <4>2, NumberStays DEF N
      <4>4. v[0] = 0
        BY NumbersStep
      <4> QED BY <1>2, <2>2, <4>2, <4>3, <4>4
    <3>2. ASSUME NEW m \in 0 .. count - 1, m \in T PROVE m + 1 \in T
      <4> DEFINE i == q - 1 + (m + 1)
      <4>1. /\ i \in q .. end - 1 /\ i \in 1 .. N /\ i - 1 = q - 1 + m
            /\ m + 1 \in 1 .. count /\ (m + 1) - 1 = m /\ q + (m + 1) - 1 = i
        BY <1>1, <1>2
      <4>2. i \in PartAt(text, k + 1)
        BY <1>7, <4>1
      <4>3. v[i] = v[i - 1] * 10 + text[i]
        BY <4>1, <4>2, NumbersStep DEF N
      <4>4. values[m + 1] = values[m] * 10 + text[i]
        BY <2>2, <4>1
      <4>5. v[q - 1 + m] = values[m]
        BY <3>2
      <4> HIDE DEF v, i
      <4>6. v[i] = values[m + 1]
        BY <4>1, <4>3, <4>4, <4>5
      <4> QED BY <4>1, <4>6 DEF i
    <3>3. \A m \in 0 .. count : m \in T
      <4> HIDE DEF T, count
      <4> QED BY <1>2, <3>1, <3>2, Climb
    <3>4. q - 1 + count = end - 1 /\ count \in 0 .. count
      BY <1>1, <1>2
    <3> QED BY <3>3, <3>4
  <2>5. /\ all \in Seq(Nat) /\ Len(all) = k + 1 /\ all[k + 1] = values[count]
        /\ \A n \in 1 .. k : all[n] = parts[n]
    <3>1. parts \in Seq(Nat) /\ Len(parts) = k
      BY DEF PartBegins, PartsRead
    <3>2. values[count] \in Nat
      BY <1>2, <2>2
    <3> DEFINE number == values[count]
    <3> HIDE DEF number
    <3> QED BY <3>1, <3>2 DEF number
  <2> HIDE DEF all
  <2>6. ASSUME NEW n \in 1 .. k + 1
        PROVE  /\ Cardinality(PartUpTo(text, n, end)) \in 1 .. MaxComponentDigits
               /\ Numbers(text, n)[end - 1] = all[n]
    <3>1. CASE n = k + 1
      BY <1>9, <1>10, <1>13, <2>4, <2>5, <3>1
    <3>2. CASE n # k + 1
      <4>1. n \in 1 .. k
        BY <3>2
      <4> QED BY <2>3, <2>5, <4>1 DEF PartBegins, PartsRead
    <3> QED BY <3>1, <3>2
  <2>7. first .. end - 1 = (first .. q - 1) \cup (q .. end - 1)
    BY <1>1, <1>2
  <2>8. PartsRead(text, k + 1, end, all)
    <3>1. \A i \in first .. end - 1 : text[i] \in Digits \cup {Dot}
      BY <1>2, <2>7 DEF PartBegins, PartsRead, first
    <3>2. end \in first .. N + 1
      BY <1>1, <1>2
    <3> QED BY <2>5, <2>6, <3>1, <3>2 DEF PartsRead, first, N
  <2>9. \A i \in first .. end - 1 : Dots(text, i) <= k
    <3>1. \A i \in q .. end - 1 : i \in q - 1 .. end - 1
      BY <1>1
    <3> QED BY <1>5, <2>7, <3>1 DEF PartBegins, first
  <2>10. Dots(text, end - 1) = k
    <3>1. end - 1 \in q - 1 .. end - 1
      BY <1>1, <1>2
    <3> QED BY <1>5, <3>1
  <2>11. (k + 1) - 1 = k
    OBVIOUS
  <2>12. PartEnds(text, k + 1, end, all)
    BY <1>2, <2>8, <2>9, <2>10, <2>11 DEF PartEnds, first
  <2> HIDE DEF after
  <2>13. ReadTo(text, k + 1, after)
    BY <2>1, <2>12 DEF ReadTo
  <2> QED BY <2>13 DEF after
<1> QED BY <1>12, <1>13

\* A reading that moves on keeps its parts.
LEMMA MovedOn ==
  ASSUME NEW here, NEW next, NEW all
  PROVE  [[ok |-> TRUE, pos |-> here, parts |-> all] EXCEPT !.pos = next]
           = [ok |-> TRUE, pos |-> next, parts |-> all]
<1> DEFINE before == [ok |-> TRUE, pos |-> here, parts |-> all]
           after == [before EXCEPT !.pos = next]
<1>1. before \in [ok : BOOLEAN, pos : {here, next}, parts : {all}]
  OBVIOUS
<1>2. before.ok = TRUE
  OBVIOUS
<1> HIDE DEF before
<1>3. /\ after \in [ok : BOOLEAN, pos : {here, next}, parts : {all}]
      /\ after.pos = next /\ after.ok = before.ok
  BY <1>1
<1> HIDE DEF after
<1>4. after = [ok |-> after.ok, pos |-> after.pos, parts |-> after.parts] /\ after.parts = all
  BY <1>3
<1>5. after = [ok |-> TRUE, pos |-> next, parts |-> all]
  BY <1>2, <1>3, <1>4, Zenon
<1> QED BY <1>5 DEF after, before

\* The next component is read, or the reading has come to its end.
LEMMA NextRead ==
  ASSUME NEW text \in Seq(Symbols), NEW k \in 1 .. 2, NEW read, ReadTo(text, k, read)
  PROVE  LET after == ReadNext(text, read)
         IN  \/ ReadTo(text, k + 1, after)
             \/ after = read /\ ~ (read.ok /\ IsAt(text, read.pos, Dot))
<1>1. CASE read.ok /\ IsAt(text, read.pos, Dot)
  <2> DEFINE p == read.pos
             parts == read.parts
             ahead == [read EXCEPT !.pos = @ + 1]
  <2>1. read = [ok |-> TRUE, pos |-> p, parts |-> parts] /\ PartEnds(text, k, p, parts)
    BY <1>1 DEF ReadTo, Malformed
  <2>2. p \in DOMAIN text /\ text[p] = Dot
    BY <1>1 DEF IsAt
  <2>3. ReadNext(text, read) = ReadComponent(text, ahead)
    BY <1>1 DEF ReadNext
  <2> HIDE DEF p, parts, ahead
  <2>4. PartBegins(text, k, p + 1, parts)
    BY <2>1, <2>2, NextPart
  <2>5. ahead = [ok |-> TRUE, pos |-> p + 1, parts |-> parts]
    <3>1. ahead = [[ok |-> TRUE, pos |-> p, parts |-> parts] EXCEPT !.pos = p + 1]
      BY <2>1, Zenon DEF ahead, p
    <3> QED BY <3>1, MovedOn, Zenon
  <2>6. ReadTo(text, k + 1, ReadComponent(text, ahead))
    BY <2>4, <2>5, OnePart
  <2> QED BY <2>3, <2>6
<1>2. CASE ~ (read.ok /\ IsAt(text, read.pos, Dot))
  BY <1>2 DEF ReadNext
<1> QED BY <1>1, <1>2

\* Parts that end with the text are a release; what trails them is none.
LEMMA WholeText ==
  ASSUME NEW text \in Seq(Symbols), NEW k \in 1 .. 3, NEW p, NEW parts,
         PartEnds(text, k, p, parts)
  PROVE  /\ p = Len(text) + 1 =>
              /\ IsRelease(text)
              /\ \A n \in 1 .. 3 : NumberAt(text, n) = IF n \in DOMAIN parts THEN parts[n] ELSE 0
         /\ p # Len(text) + 1 /\ (k = 3 \/ ~IsAt(text, p, Dot)) => ~IsRelease(text)
<1> DEFINE first == BodyAt(text)
           N == Len(text)
<1> HIDE DEF first, N
<1>1. /\ N \in Nat /\ DOMAIN text = 1 .. N /\ first \in 1 .. N + 1 /\ p \in first .. N + 1
      /\ first \in Nat /\ p \in Nat
  BY DotsStep DEF PartEnds, PartsRead, N, first
<1>2. DOMAIN parts = 1 .. k
  BY DEF PartEnds, PartsRead
<1>3. ASSUME p = N + 1
      PROVE  /\ IsRelease(text)
             /\ \A n \in 1 .. 3 : NumberAt(text, n) = IF n \in 1 .. k THEN parts[n] ELSE 0
  <2>1. p - 1 = N /\ Dots(text, N) + 1 = k
    <3>1. p - 1 = N
      BY <1>1, <1>3
    <3> QED BY <3>1 DEF PartEnds
  <2>2. \A n : PartUpTo(text, n, p) = PartAt(text, n)
    <3>1. \A n : \A i \in PartAt(text, n) : i < p
      BY <1>1, <1>3 DEF PartAt, first, N
    <3> QED BY <3>1 DEF PartUpTo
  <2>3. \A n \in 1 .. k : /\ Cardinality(PartAt(text, n)) \in 1 .. MaxComponentDigits
                         /\ NumberAt(text, n) = parts[n]
    BY <2>1, <2>2 DEF PartEnds, PartsRead, NumberAt, N
  <2>4. \A i \in first .. N : text[i] \in Digits \cup {Dot}
    BY <2>1 DEF PartEnds, PartsRead, first
  <2>5. IsRelease(text)
    BY <2>1, <2>3, <2>4 DEF IsRelease, first, N
  <2>6. ASSUME NEW n \in 1 .. 3, n \notin 1 .. k PROVE NumberAt(text, n) = 0
    <3>1. \A i \in 0 + 1 .. N : i \notin PartAt(text, n)
      <4> SUFFICES ASSUME NEW i \in PartAt(text, n) PROVE FALSE
        OBVIOUS
      <4>1. i \in first .. N /\ Dots(text, i) = n - 1
        BY DEF PartAt, first, N
      <4>2. Dots(text, i) <= k - 1
        BY <2>1, <4>1 DEF PartEnds, first
      <4> QED BY <2>6, <4>1, <4>2
    <3>2. Numbers(text, n)[N] = Numbers(text, n)[0]
      <4>1. N \in 0 .. N /\ 0 \in 0 .. N
        BY <1>1
      <4> QED BY <3>1, <4>1, NumberStays DEF N
    <3> QED BY <3>2, NumbersStep DEF NumberAt, N
  <2> QED BY <2>3, <2>5, <2>6
<1>4. ASSUME p # N + 1, k = 3 \/ ~IsAt(text, p, Dot), IsRelease(text) PROVE FALSE
  <2>1. p \in first .. N /\ p \in DOMAIN text
    BY <1>1, <1>4
  <2>2. text[p] = Dot
    <3>1. text[p] \in Digits \cup {Dot}
      BY <1>4, <2>1 DEF IsRelease, first, N
    <3> QED BY <2>1, <3>1 DEF PartEnds
  <2>3. k = 3
    BY <1>4, <2>1, <2>2 DEF IsAt
  <2>4. Dots(text, p) = 3
    BY <2>1, <2>2, <2>3, DotsStep DEF PartEnds, first, N
  <2>5. Dots(text, p) <= Dots(text, N) /\ Dots(text, N) \in Nat
    <3>1. N \in first - 1 .. N /\ p \in first - 1 .. N
      BY <1>1, <2>1
    <3> QED BY <3>1, DotsGrow, DotsStep DEF first, N
  <2>6. Dots(text, N) + 1 <= 3
    BY <1>4 DEF IsRelease, N
  <2> QED BY <2>4, <2>5, <2>6
<1> QED BY <1>2, <1>3, <1>4 DEF N

\* Exactly releases are read, as the numbers that they are.
LEMMA ReadsReleases ==
  ASSUME NEW text \in Seq(Symbols)
  PROVE  ParseVersion(text) = IF IsRelease(text) THEN {[n \in 1 .. 3 |-> NumberAt(text, n)]} ELSE {}
<1> DEFINE start == [ok |-> TRUE, pos |-> IF IsAt(text, 1, Vee) THEN 2 ELSE 1, parts |-> << >>]
           major == ReadComponent(text, start)
           minor == ReadNext(text, major)
           read == ReadNext(text, minor)
           version == [n \in 1 .. 3 |-> IF n \in DOMAIN read.parts THEN read.parts[n] ELSE 0]
           Over(r) == ~ (r.ok /\ IsAt(text, r.pos, Dot))
<1>1. start = [ok |-> TRUE, pos |-> BodyAt(text), parts |-> << >>]
  BY DEF IsAt, BodyAt
<1>2. ReadTo(text, 1, major)
  <2>1. PartBegins(text, 0, BodyAt(text), << >>)
    BY FirstPart
  <2> HIDE DEF start
  <2>2. ReadTo(text, 0 + 1, ReadComponent(text, start))
    BY <1>1, <2>1, OnePart
  <2> QED BY <2>2
<1> HIDE DEF start, major
<1>3. ReadTo(text, 2, minor) \/ (minor = major /\ Over(major))
  <2>1. 1 \in 1 .. 2 /\ 1 + 1 = 2
    OBVIOUS
  <2>2. ReadTo(text, 1 + 1, minor) \/ (minor = major /\ Over(major))
    BY <1>2, <2>1, NextRead, Zenon
  <2> QED BY <2>1, <2>2
<1>4. \/ ReadTo(text, 3, read)
      \/ ReadTo(text, 2, read) /\ Over(read)
      \/ ReadTo(text, 1, read) /\ Over(read)
  <2>1. CASE ReadTo(text, 2, minor)
    <3>1. 2 \in 1 .. 2 /\ 2 + 1 = 3
      OBVIOUS
    <3>2. ReadTo(text, 2 + 1, read) \/ (read = minor /\ Over(minor))
      <4> HIDE DEF minor
      <4> QED BY <2>1, <3>1, NextRead, Zenon
    <3> HIDE DEF minor, read
    <3>3. CASE ReadTo(text, 2 + 1, read)
      BY <3>1, <3>3
    <3>4. CASE read = minor /\ Over(minor)
      BY <2>1, <3>4
    <3> QED BY <3>2, <3>3, <3>4
  <2>2. CASE minor = major /\ Over(major)
    <3>1. read = major
      BY <2>2 DEF ReadNext
    <3> QED BY <1>2, <2>2, <3>1
  <2> QED BY <1>3, <2>1, <2>2
<1> HIDE DEF minor
<1>5. PICK k \in 1 .. 3 : ReadTo(text, k, read) /\ (k = 3 \/ Over(read))
  BY <1>4
<1>6. ParseVersion(text) = IF read.ok /\ EndsText(text, read) THEN {version} ELSE {}
  BY DEF ParseVersion, start, major, minor
<1> HIDE DEF read
<1>7. CASE read = Malformed /\ ~IsRelease(text)
  BY <1>6, <1>7 DEF Malformed
<1>8. CASE /\ read = [ok |-> TRUE, pos |-> read.pos, parts |-> read.parts]
           /\ PartEnds(text, k, read.pos, read.parts)
  <2>1. read.ok /\ (k = 3 \/ ~IsAt(text, read.pos, Dot))
    BY <1>5, <1>8
  <2>2. CASE read.pos = Len(text) + 1
    <3>1. /\ IsRelease(text)
          /\ \A n \in 1 .. 3 : NumberAt(text, n)
               = IF n \in DOMAIN read.parts THEN read.parts[n] ELSE 0
      BY <1>8, <2>2, WholeText
    <3>2. version = [n \in 1 .. 3 |-> NumberAt(text, n)]
      BY <3>1
    <3> HIDE DEF version
    <3> QED BY <1>6, <2>1, <2>2, <3>1, <3>2 DEF EndsText
  <2>3. CASE read.pos # Len(text) + 1
    <3>1. ~IsRelease(text)
      BY <1>8, <2>1, <2>3, WholeText
    <3> QED BY <1>6, <2>3, <3>1 DEF EndsText
  <2> QED BY <2>2, <2>3
<1> QED BY <1>5, <1>7, <1>8 DEF ReadTo

\* What is taken for newer is a release that is newer.
LEMMA NewerIsNew ==
  ASSUME NEW text \in Seq(Symbols) PROVE IsUpdateAvailable(text) <=> IsNewRelease(text)
<1> DEFINE version == [n \in 1 .. 3 |-> NumberAt(text, n)]
<1>1. \A n \in 1 .. 3 : version[n] = NumberAt(text, n)
  OBVIOUS
<1>2. ParseVersion(text) = IF IsRelease(text) THEN {version} ELSE {}
  BY ReadsReleases
<1> HIDE DEF version
<1>3. IsUpdateAvailable(text) <=> IsRelease(text) /\ NewerVersion(version, Current)
  BY <1>2 DEF IsUpdateAvailable
<1>4. \A i \in 1 .. 3 : \A j \in 1 .. i - 1 : j \in 1 .. 3
  OBVIOUS
<1>5. NewerVersion(version, Current)
        <=> \E n \in 1 .. 3 : /\ NumberAt(text, n) > Current[n]
                             /\ \A m \in 1 .. n - 1 : NumberAt(text, m) = Current[m]
  BY <1>1, <1>4 DEF NewerVersion
<1> QED BY <1>3, <1>5, Zenon DEF IsNewRelease

-----------------------------------------------------------------------------
(* The update check (app/app.cpp, app/update_check.cpp)                    *)

\* What the thread has to say once it has asked.
ReleaseAnswer == IF told /\ IsUpdateAvailable(tag) THEN {tag} ELSE {}

(* The answer is in one place at a time: unwritten, in the result, or in   *)
(* the notice; the flag is up only over a result that is written, and      *)
(* stays up only when the application closed before a frame could look.    *)
UpdateInv ==
  \/ update_thread \in {"Asking", "Writing"}
     /\ update_result = {} /\ update_available = {} /\ ~update_done
  \/ update_thread = "Written" /\ update_result = ReleaseAnswer /\ update_available = {} /\ ~update_done
  \/ update_thread = "Ended" /\ update_result = ReleaseAnswer /\ update_available = {} /\ update_done
  \/ update_thread = "Joined" /\ update_available = ReleaseAnswer /\ update_result = {} /\ ~update_done
  \/ update_thread = "Joined" /\ update_available = {} /\ update_done /\ closed
     /\ update_result = ReleaseAnswer

\* The answer moves from the thread to the notice in one step of a frame.
LEMMA UpdateInvStep == UpdateInv /\ [UpdateNext]_updateVars => UpdateInv'
<1> SUFFICES ASSUME UpdateInv, [UpdateNext]_updateVars PROVE UpdateInv'
  OBVIOUS
<1>1. CASE UNCHANGED updateVars
  <2>1. ReleaseAnswer' = ReleaseAnswer
    BY <1>1 DEF updateVars, ReleaseAnswer
  <2> QED BY <1>1, <2>1 DEF updateVars, UpdateInv
<1>2. CASE Ask
  BY <1>2 DEF Ask, UpdateInv
<1>3. CASE WriteResult
  <2>1. update_result' = ReleaseAnswer'
    BY <1>3 DEF WriteResult, ReleaseAnswer
  <2> QED BY <1>3, <2>1 DEF WriteResult, UpdateInv
<1>4. ASSUME UNCHANGED <<tag, told>>, RaiseFlag \/ FinishUpdateCheck \/ DismissBanner \/ CloseUpdate
      PROVE  UpdateInv'
  <2>1. ReleaseAnswer' = ReleaseAnswer
    BY <1>4 DEF ReleaseAnswer
  <2>2. CASE RaiseFlag
    BY <2>1, <2>2 DEF RaiseFlag, UpdateInv
  <2>3. CASE FinishUpdateCheck
    BY <2>1, <2>3 DEF FinishUpdateCheck, UpdateInv
  <2>4. CASE DismissBanner
    BY <2>1, <2>4 DEF DismissBanner, UpdateInv
  <2>5. CASE CloseUpdate
    BY <2>1, <2>5 DEF CloseUpdate, UpdateInv
  <2> QED BY <1>4, <2>2, <2>3, <2>4, <2>5
<1> QED
  BY <1>1, <1>2, <1>3, <1>4
     DEF UpdateNext, RaiseFlag, FinishUpdateCheck, DismissBanner, CloseUpdate

\* The tag is the one the feed has from the start.
LEMMA TagStays ==
  /\ UpdateInit => tag \in Tags /\ UpdateInv
  /\ tag \in Tags /\ [UpdateNext]_updateVars => (tag \in Tags)'
<1>1. UpdateInit => tag \in Tags /\ UpdateInv
  BY DEF UpdateInit, UpdateInv
<1>2. tag \in Tags /\ [UpdateNext]_updateVars => (tag \in Tags)'
  BY DEF UpdateNext, Ask, WriteResult, RaiseFlag, FinishUpdateCheck, DismissBanner, CloseUpdate,
         updateVars
<1> QED BY <1>1, <1>2

\* UpdateTypeOK for any tags (app/app.cpp, app/update_check.cpp).
LEMMA UpdateIsTyped == UpdateSpec => []UpdateTypeOK
<1>1. UpdateInv => UpdateTypeOK
  BY DEF UpdateInv, UpdateTypeOK, ReleaseAnswer
<1> QED BY <1>1, TagStays, UpdateInvStep, PTL DEF UpdateSpec

(* For any tag and any version that runs: the notice is never of anything  *)
(* but the release the feed told of and the reading takes for newer; and   *)
(* once the thread has been joined while the application runs, the notice  *)
(* is there for such a release and no later frame takes it away            *)
(* (finish_update_check, app/app.cpp).                                     *)
THEOREM NoticeIsTheAnswer ==
  UpdateSpec => []( /\ update_available \subseteq ReleaseAnswer
                    /\ update_thread = "Joined" /\ ~closed => update_available = ReleaseAnswer )
<1>1. UpdateInv => /\ update_available \subseteq ReleaseAnswer
                   /\ update_thread = "Joined" /\ ~closed => update_available = ReleaseAnswer
  BY DEF UpdateInv
<1> QED BY <1>1, TagStays, UpdateInvStep, PTL DEF UpdateSpec

(* OffersTheNewRelease for any tags and any version that runs: what        *)
(* parse_version takes for newer, symbol by symbol (core/version.cpp), is  *)
(* a release by its definition and newer by its numbers; and the notice is *)
(* of exactly that from the frame that joins the thread on (app/app.cpp).  *)
THEOREM NoticeIsOfANewRelease == UpdateSpec => []OffersTheNewRelease
<1>1. UpdateInit => tag \in Tags
  BY TagStays
<1>2. tag \in Tags /\ [UpdateNext]_updateVars => (tag \in Tags)'
  BY TagStays
<1>3. ASSUME tag \in Tags,
             update_available \subseteq ReleaseAnswer,
             update_thread = "Joined" /\ ~closed => update_available = ReleaseAnswer
      PROVE  OffersTheNewRelease
  <2>1. tag \in Seq(Symbols)
    BY <1>3, UpdateAssumption DEF Symbols, Digits
  <2>2. IsUpdateAvailable(tag) <=> IsNewRelease(tag)
    BY <2>1, NewerIsNew
  <2>3. ReleaseAnswer = {t \in {tag} : told /\ IsNewRelease(t)}
    BY <2>2, Zenon DEF ReleaseAnswer
  <2>4. told /\ IsNewRelease(tag) => ReleaseAnswer = {tag}
    BY <2>2, Zenon DEF ReleaseAnswer
  <2> QED BY <1>3, <2>3, <2>4, Zenon DEF OffersTheNewRelease
<1> QED BY <1>1, <1>2, <1>3, NoticeIsTheAnswer, PTL DEF UpdateSpec

-----------------------------------------------------------------------------
(* The parts side by side (MCParts)                                        *)

\* A step of MCParts is of one part, and every other part stutters.
LEMMA StepsOfParts ==
  ASSUME [Next]_<<allVars, part>>
  PROVE  /\ [BufferNext]_bufferVars /\ [HealthNext]_healthVars /\ [TimelineNext]_timelineVars
         /\ [SyncNext]_syncVars /\ [DeliveryNext]_deliveryVars /\ [EdgeNext]_edgeVars
         /\ [HostNext]_hostVars /\ [ViewNext]_viewVars /\ [SrNext]_srVars
         /\ [ModesNext]_modeVars /\ [PowerNext]_powerVars
         /\ [ConnectNext]_connectVars /\ [CatalogueNext]_catalogueVars /\ [UpdateNext]_updateVars
         /\ [FileNext]_writeVars /\ [PrefsNext]_prefVars /\ [RingNext]_ringVars
         /\ [SessionLogNext]_sessionLogVars
BY Zenon
DEF Next, InPower, Playback, Shell, Network, Files, NotBuffer, NotHealth, NotTimeline, NotLiveSync,
   NotDelivery, NotEdge, NotHost, NotViewing, NotSr, NotModes, NotPower, NotConnection,
   NotCatalogue, NotUpdate, NotFile, NotPrefs, NotRing, NotSessionLog, allVars,
   playbackPartVars, shellPartVars, networkPartVars, filePartVars

(* In whatever order the parts are run, each does what its own             *)
(* specification lets it do: what is proved of a part holds in MCParts.    *)
LEMMA PartsStandAlone ==
  Spec => /\ BufferSpec /\ HealthSpec /\ TimelineSpec /\ SyncSpec /\ DeliverySpec /\ EdgeSpec
          /\ HostSpec /\ ViewSpec /\ SrSpec /\ ModesSpec /\ PowerSpec
          /\ ConnectSpec /\ CatalogueSpec /\ UpdateSpec
          /\ FileSpec /\ PrefsSpec /\ RingSpec /\ SessionLogSpec
<1>1. Init => /\ BufferInit /\ HealthInit /\ TimelineInit /\ SyncInit /\ DeliveryInit /\ EdgeInit
              /\ HostInit /\ ViewInit /\ SrInit /\ ModesInit /\ PowerInit
              /\ ConnectInit /\ CatalogueInit /\ UpdateInit
              /\ FileInit /\ PrefsInit /\ RingInit /\ SessionLogInit
  BY Zenon DEF Init
<1> QED
  BY <1>1, StepsOfParts, PTL
     DEF Spec, BufferSpec, HealthSpec, TimelineSpec, SyncSpec, DeliverySpec, EdgeSpec, HostSpec,
         ViewSpec, SrSpec, ModesSpec, PowerSpec, ConnectSpec, CatalogueSpec, UpdateSpec, FileSpec,
         PrefsSpec, RingSpec, SessionLogSpec

(* PartsTypeOK for every policy, account, number of loads and of           *)
(* instances: whatever the parts that watch and surround playback do, in   *)
(* whatever order, each keeps what its source declares: no clock runs past *)
(* its limit or beside another, no handle of a temporary is left open, no  *)
(* log reaches further than its instance wrote.                            *)
THEOREM PartsAreTyped == Spec => []PartsTypeOK
BY PartsStandAlone,
   GateIsSound, HealthIsTyped, TimelineIsTyped, SyncIsTyped, DeliverySound, EdgeIsTyped,
   HostDrains, ViewIsTyped, SrIsTyped, ModesAreTyped, PowerIsTyped,
   ConnectIsTyped, CatalogueIsTyped, UpdateIsTyped,
   FilesAreTyped, PrefsAreTyped, RingIsTyped, SessionLogIsTyped, PTL
   DEF PartsTypeOK
=============================================================================
