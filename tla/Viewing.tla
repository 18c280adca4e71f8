------------------------------ MODULE Viewing ------------------------------
(***************************************************************************)
(* What the viewer chose, what the window says and what libmpv was told to *)
(* play: the application's control of playback (app/app.cpp), the targets  *)
(* that name a channel in the log (player/session_target_registry.cpp) and *)
(* the player's target (player/mpv_player.cpp), through recoveries that    *)
(* reopen the stream or recreate the backend and may be refused.           *)
(*                                                                         *)
(* The supervisor is abstract here (module Supervisor is the detailed      *)
(* one): a load without its first frame is "Opening", one with it is       *)
(* "Playing", a retry that waits is "Recovering", and the session fails    *)
(* when its attempts are used up.                                          *)
(* Every call below is synchronous on the UI thread; the catalogue and     *)
(* the sign-in are those of module Connection.                             *)
(***************************************************************************)
EXTENDS Integers, FiniteSets

CONSTANTS
  Channels,
  MaxPlays,           \* bound: generations
  MaxProviders,       \* bound: sign-ins
  Attempts            \* recoveries of one channel

Direct    == "Direct media"
NoChannel == "No channel"

ASSUME ViewingAssumption ==
  /\ MaxPlays \in Nat /\ MaxProviders \in Nat /\ Attempts \in Nat
  /\ {Direct, NoChannel} \cap Channels = {}

Sources   == Channels \cup {Direct}

VARIABLES
  direct_media,       \* the command line names a source
  listed,             \* channels_, empty while signed out
  view,               \* selected (playing_channel_name_), intent, loading
                      \* (loading_channel_generation_, 0: none), status
  watch,              \* the supervisor: name, generation, attempts left
  aim,                \* MpvPlayer::target_: generation (0: none), source
  engine,             \* the backend: up, file (what it was told to play)
  registry,           \* provider_session_, next_channel_session_, sessions
  named               \* history: the correlations of all loads, and whether
                      \* the viewer started them, rather than chose a row

viewVars == <<direct_media, listed, view, watch, aim, engine, registry, named>>

NoAim == [generation |-> 0, source |-> NoChannel]

ViewInit ==
  /\ direct_media \in BOOLEAN /\ listed = {}
  /\ view = [selected |-> NoChannel, intent |-> "Running", loading |-> 0, status |-> "Quiet"]
  /\ watch = [name |-> "Idle", generation |-> 0, left |-> 0]
  /\ aim = NoAim /\ engine = [up |-> TRUE, file |-> NoChannel]
  /\ registry = [provider |-> 0, next |-> 0, sessions |-> [c \in Channels |-> 0]]
  /\ named = {}

-----------------------------------------------------------------------------
(* The supervisor and what the application makes of its transitions.       *)

Becomes(name) == [watch EXCEPT !.name = name]

\* A load or a recovery that did not come about: another attempt, or the end.
Setback(w) ==
  [w EXCEPT !.name = IF w.left > 0 THEN "Recovering" ELSE "Failed"]

\* on_supervisor_state_changed, from the state before.
Shown(v, before, w) ==
  LET arrived == v.loading = w.generation /\ w.name = "Playing"
      failed  == w.name = "Failed" /\ before.name # "Failed"
  IN  [v EXCEPT
        !.loading = IF arrived \/ (failed /\ @ = w.generation) THEN 0 ELSE @,
        !.status = CASE w.name = "Failed" -> "Failed"
                     [] w.name = "Playing" /\ before.name = "Failed" -> "Resumed"
                     [] OTHER -> IF arrived THEN "Playing" ELSE @]

Shows(w) == watch' = w /\ view' = Shown(view, watch, w)

-----------------------------------------------------------------------------
(* What the viewer does.                                                   *)

\* begin_channel, then MpvPlayer::play, which may refuse at once; without a
\* backend it does so before it takes the new target.
PlaySource(source) ==
  LET g    == watch.generation + 1
      zap  == [name |-> "Opening", generation |-> g, left |-> Attempts]
      said == [selected |-> source, intent |-> "Running", loading |-> g,
               status |-> "Loading"]
  IN  /\ g <= MaxPlays
      /\ aim' = IF engine.up THEN [generation |-> g, source |-> source] ELSE aim
      /\ \/ /\ engine.up /\ engine' = [engine EXCEPT !.file = source]
            /\ watch' = zap /\ view' = said
         \/ /\ UNCHANGED engine
            /\ watch' = Setback(zap) /\ view' = Shown(said, zap, Setback(zap))

\* Mutant: a target the channel has is used again.
NumberKept(r, c) ==
  IF r.sessions[c] # 0 THEN r
  ELSE [r EXCEPT !.next = @ + 1, !.sessions[c] = r.next + 1]

\* identify_fresh_channel.
Renumbered(r, c) == [r EXCEPT !.next = @ + 1, !.sessions[c] = r.next + 1]

\* Mutant: a new provider session numbers its channels anew under the old name.
ProviderKept(r) ==
  [provider |-> 1, next |-> 0, sessions |-> [c \in Channels |-> 0]]

BeginProviderSession(r) ==
  [provider |-> r.provider + 1, next |-> 0, sessions |-> [c \in Channels |-> 0]]

\* The correlation of the load that is issued now.
Correlation(provider, session, source, started) ==
  [provider |-> provider, session |-> session, source |-> source,
   load |-> watch.generation + 1, started |-> started]

Correlates(r, c, started) ==
  /\ registry' = r
  /\ named' = named \cup {Correlation(r.provider, r.sessions[c], c, started)}

\* Mutant: every load has a target of its own.
NeverIdentified(r, c) == Renumbered(r, c)

\* identify_channel.
IdentifyChannel(r, c) == IF r.sessions[c] = 0 THEN Renumbered(r, c) ELSE r

\* A row of the browser: an earlier target of the channel is used again.
ChooseChannel(c) ==
  /\ c \in listed
  /\ PlaySource(c)
  /\ Correlates(IdentifyChannel(registry, c), c, FALSE)
  /\ UNCHANGED <<direct_media, listed>>

\* Direct media plays from the start, and again after a stop.
PlayDirect ==
  /\ direct_media /\ (watch.generation = 0 \/ view.intent = "StoppedByUser")
  /\ PlaySource(Direct)
  /\ named' = named \cup {Correlation(0, watch.generation + 1, Direct, TRUE)}
  /\ UNCHANGED <<direct_media, listed, registry>>

\* start_playback: the retained channel, if the catalogue still has it.
StartPlayback ==
  /\ ~direct_media /\ view.selected # NoChannel /\ view.intent = "StoppedByUser"
  /\ view.selected \in listed
  /\ PlaySource(view.selected)
  /\ Correlates(Renumbered(registry, view.selected), view.selected, TRUE)
  /\ UNCHANGED <<direct_media, listed>>

\* Mutant: the player keeps the target of what was stopped.
TargetKept(g) ==
  IF aim.generation = g /\ engine.up
  THEN engine' = [engine EXCEPT !.file = aim.source] /\ UNCHANGED aim
  ELSE UNCHANGED <<aim, engine>>

\* PlaybackSession::stop and MpvPlayer::stop of a generation.
StopPlayer(g) ==
  IF aim.generation = g /\ g # 0
  THEN aim' = NoAim /\ engine' = [engine EXCEPT !.file = NoChannel]
  ELSE UNCHANGED <<aim, engine>>

\* The supervisor has a state of the generation to stop.
StopPlayback ==
  /\ view.selected # NoChannel /\ watch.name # "Idle"
  /\ view.intent # "StoppedByUser"
  /\ watch' = Becomes("Idle")
  /\ view' = [view EXCEPT !.intent = "StoppedByUser", !.loading = 0, !.status = "Stopped"]
  /\ StopPlayer(watch.generation)
  /\ UNCHANGED <<direct_media, listed, registry, named>>

SignIn ==
  /\ ~direct_media /\ listed = {} /\ registry.provider < MaxProviders
  /\ listed' \in SUBSET Channels \ {{}}
  /\ registry' = BeginProviderSession(registry)
  /\ view' = [view EXCEPT !.status = "Quiet"]
  /\ UNCHANGED <<direct_media, watch, aim, engine, named>>

SignOutViewer ==
  /\ listed # {} /\ listed' = {}
  /\ watch' = IF watch.name = "Idle" THEN watch ELSE Becomes("Idle")
  /\ view' = [selected |-> NoChannel, intent |-> "StoppedByUser", loading |-> 0,
              status |-> "Quiet"]
  /\ StopPlayer(watch.generation)
  /\ UNCHANGED <<direct_media, registry, named>>

-----------------------------------------------------------------------------
(* What happens to the stream.                                             *)

StreamOnly == UNCHANGED <<direct_media, listed, registry, named>>

\* Events are about the player's target; the supervisor takes its own.
Heard == aim.generation = watch.generation /\ engine.up

\* Also while a retry waits, which it cancels, and after the session has
\* failed, which brings it back into probation.
FirstFrameShown ==
  /\ watch.name \in {"Opening", "Recovering", "Failed"}
  /\ Heard /\ engine.file = aim.source
  /\ Shows(Becomes("Playing"))
  /\ StreamOnly /\ UNCHANGED <<aim, engine>>

StreamFails ==
  /\ watch.name \in {"Opening", "Playing"} /\ Heard
  /\ Shows(Setback(watch))
  /\ StreamOnly /\ UNCHANGED <<aim, engine>>

\* Mutant: a recovery is not fenced by the generation.
AnyTarget == aim # NoAim

TargetIsCurrent == aim # NoAim /\ aim.generation = watch.generation

\* The outcome of a recovery: its load is issued, or another setback.
Outcome(w, issued) == Shows(IF issued THEN [w EXCEPT !.name = "Opening"] ELSE Setback(w))

ReopenCurrent ==
  /\ watch.name = "Recovering"
  /\ LET spent == [watch EXCEPT !.left = @ - 1]
     IN  \/ /\ TargetIsCurrent /\ engine.up
            /\ engine' = [engine EXCEPT !.file = aim.source]
            /\ Outcome(spent, TRUE)
         \/ UNCHANGED engine /\ Outcome(spent, FALSE)
  /\ StreamOnly /\ UNCHANGED aim

\* A new backend may fail to initialize, or refuse the load.
RecreatePlayer ==
  /\ watch.name = "Recovering"
  /\ LET spent == [watch EXCEPT !.left = @ - 1]
     IN  \/ /\ TargetIsCurrent
            /\ engine' = [up |-> TRUE, file |-> aim.source]
            /\ Outcome(spent, TRUE)
         \/ /\ TargetIsCurrent
            /\ engine' \in [up : BOOLEAN, file : {NoChannel}]
            /\ Outcome(spent, FALSE)
         \/ ~TargetIsCurrent /\ UNCHANGED engine /\ Outcome(spent, FALSE)
  /\ StreamOnly /\ UNCHANGED aim

ViewNext ==
  \/ \E c \in Channels : ChooseChannel(c)
  \/ PlayDirect \/ StartPlayback \/ StopPlayback \/ SignIn \/ SignOutViewer
  \/ FirstFrameShown \/ StreamFails
  \/ ReopenCurrent \/ RecreatePlayer

ViewSpec == ViewInit /\ [][ViewNext]_viewVars

-----------------------------------------------------------------------------
(* Properties.                                                             *)

ViewTypeOK ==
  /\ view.selected \in Sources \cup {NoChannel} /\ view.loading \in 0 .. MaxPlays
  /\ watch.name \in {"Idle", "Opening", "Recovering", "Playing", "Failed"}
  /\ aim.source \in Sources \cup {NoChannel} /\ listed \subseteq Channels
  /\ engine.up \in BOOLEAN /\ (engine.file # NoChannel => engine.up)

(* The channel the window names is the one libmpv was told to play, from   *)
(* its load to its stop, though a backend was lost in between and a later  *)
(* channel was refused; after a stop nothing plays.  The viewer's intent   *)
(* agrees with the supervisor, the loading indicator is about the current  *)
(* channel before its first frame, an error is shown exactly while the     *)
(* supervisor has given up, and Start can find what was stopped.           *)
ViewerSeesWhatPlays ==
  /\ watch.name \in {"Opening", "Playing"} => engine = [up |-> TRUE, file |-> view.selected]
  /\ watch.name = "Idle" => engine.file = NoChannel
  /\ view.selected # NoChannel =>
       (watch.name = "Idle" <=> view.intent = "StoppedByUser")
  /\ view.loading # 0 =>
       view.loading = watch.generation /\ watch.name \in {"Opening", "Recovering"}
  /\ view.status = "Failed" <=> watch.name = "Failed"
  /\ view.selected \in listed \cup {NoChannel, Direct}

\* The source of a correlation has been started anew since, by load n.
StartedSince(x, n) ==
  \E z \in named : /\ z.started /\ x.load < z.load /\ z.load <= n
                   /\ z.provider = x.provider /\ z.source = x.source

(* No two channels share a target in the log, of whichever portal they     *)
(* are, and none shares one with direct media.  What the viewer starts     *)
(* after a stop has a target no earlier load was given; a channel that is  *)
(* only chosen again keeps the one it was started or chosen with last, so  *)
(* that its loads can be grouped (session_target_registry.hpp 11-15).      *)
CorrelationNamesOneChannel ==
  \A x, y \in named : x.provider = y.provider =>
    /\ x.session = y.session => x.source = y.source /\ (y.started => x.load >= y.load)
    /\ x.source = y.source /\ x.load < y.load /\ ~StartedSince(x, y.load) =>
         x.session = y.session
=============================================================================
