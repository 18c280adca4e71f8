------------------------ MODULE PlaybackSessionProofs ------------------------
(***************************************************************************)
(* Every step of the session is a step of SupervisorEpisode or leaves the  *)
(* supervisor alone, so that every theorem of SupervisorProofs holds of    *)
(* the session: nothing is assumed of the reporter any more.  IInv and     *)
(* SessionInv carry each other: a session step is a supervisor step only   *)
(* in the states SessionInv allows.                                        *)
(***************************************************************************)
EXTENDS PlaybackSession, SupervisorProofs, SubsequenceProofs

USE DEF Unset, NoLoad

InTurn == turn \notin {"Playing", "Settle"}

(* What reducing one event leaves of the load that plays, when it is not a *)
(* first frame and commands no load.                                       *)
Reduced ==
  /\ UNCHANGED <<generation, load_attempt, load_commanded, transport, shown>>
  /\ effects' = <<>> /\ pending_load_attempt' = NoLoad
  /\ name' # "Loading"
  /\ name' = "Recovering" => load_attempt <= MaxLoad /\ plan'.status # "Issued"
  /\ Supervised' => Supervised /\ load_commanded
  /\ name' = "Failed" /\ late_available' => load_commanded

(* In the turn no load is pending, and whatever plays was commanded.       *)
LEMMA InTurnFacts ==
  ASSUME IInv, SessionInv, InTurn
  PROVE  /\ pending_load_attempt = NoLoad /\ effects = <<>>
         /\ name # "Loading"
         /\ name = "Recovering" => plan.status # "Issued" /\ load_attempt <= MaxLoad
         /\ name \in {"Zap", "Steady", "Recovering"} => load_commanded
         /\ OwesLateFrame => load_commanded
         /\ load_commanded => load_attempt \in LoadAttempts
         /\ generation \in Generations
         /\ load_attempt \in Nat /\ name \in Names
         /\ Supervised => target = Load(generation, load_attempt) /\ health = target
<1>1. load_attempt \in Nat /\ generation \in Generations /\ name \in Names
  BY DEF IInv, TypeOK, StateTyped, LoadsTyped
<1>2. /\ name # "Loading" /\ pending_load_attempt = NoLoad /\ effects = <<>>
      /\ name = "Recovering" => plan.status # "Issued"
  BY DEF InTurn, SessionInv, TurnShape, CommandsSettledInTurn
<1>3. /\ name = "Recovering" => load_attempt <= MaxLoad
      /\ name \in {"Zap", "Steady", "Recovering"} => load_commanded
      /\ OwesLateFrame => load_commanded
  BY DEF SessionInv, LoadShape
<1>4. load_commanded => load_attempt \in LoadAttempts
  BY <1>1, PolicyAssumption DEF SessionInv, LoadShape, LoadAttempts
<1>5. Supervised => target = Load(generation, load_attempt) /\ health = target
  BY DEF InTurn, SessionInv, WatchesWhatPlays
<1>6. QED
  BY <1>1, <1>2, <1>3, <1>4, <1>5

LEMMA ReducedKeepsHistory ==
  ASSUME ReduceEvent, name' # "Idle", shown \in BOOLEAN,
         UNCHANGED <<generation, load_attempt>>
  PROVE  shown' = shown
  BY DEF ReduceEvent, NewSession, NewLoad

LEMMA TerminalReduced ==
  ASSUME IInv, SessionInv, InTurn, ReduceEvent, Supervised,
         NEW d, NEW f, NEW age, Terminal(d, f, age)
  PROVE  Reduced
<1>1. shown \in BOOLEAN
  BY DEF IInv, TypeOK, FlagsTyped
<1>2. QED
  BY <1>1, InTurnFacts, ReducedKeepsHistory
     DEF Terminal, Reduced, Supervised, loadVars, LateCompletion

LEMMA RetireReduced ==
  ASSUME IInv, SessionInv, InTurn, ReduceEvent, RetireLateCompletion
  PROVE  Reduced
<1>1. shown \in BOOLEAN
  BY DEF IInv, TypeOK, FlagsTyped
<1>2. QED
  BY <1>1, InTurnFacts, ReducedKeepsHistory
     DEF RetireLateCompletion, Reduced, Supervised, OwesLateFrame, loadVars,
         pendingVars

LEMMA RecoverReduced ==
  ASSUME IInv, SessionInv, InTurn, ReduceEvent, WithinLoadBound,
         NEW d \in Detections, NEW p, SuitablePlan(d, p), Recover(d, p)
  PROVE  Reduced
<1>1. shown \in BOOLEAN /\ plan \in Plans
  BY DEF IInv, TypeOK, FlagsTyped, LoadsTyped
<1>2. CASE UpgradesAuthority(p) /\ UpgradeAuthority(d)
  <2>1. plan'.status = plan.status
    BY <1>1, <1>2 DEF UpgradeAuthority, Plans
  <2>2. QED
    BY <1>1, <1>2, <2>1, InTurnFacts, ReducedKeepsHistory
       DEF UpgradesAuthority, UpgradeAuthority, Reduced, loadVars, pendingVars,
           lateVars, Supervised
<1>3. ASSUME AdmitsRecovery(p), NEW f, NEW age, Terminal(d, f, age)
      PROVE  Reduced
  <2>1. Supervised
    BY <1>3 DEF AdmitsRecovery, UpgradesPending, Supervised
  <2>2. QED
    BY <1>3, <2>1, TerminalReduced
<1>4. CASE AdmitsRecovery(p) /\ ScheduleRecovery(d, p)
  <2>1. Supervised /\ load_commanded
    BY <1>4, InTurnFacts DEF AdmitsRecovery, UpgradesPending, Supervised
  <2>2. plan'.status = "Scheduled"
    BY <1>4, PlanFacts DEF ScheduleRecovery, RecreationPlan
  <2>3. pending_load_attempt' = NoLoad
    BY <1>4, InTurnFacts DEF ScheduleRecovery, FencePending, pendingVars
  <2>4. QED
    BY <1>1, <1>4, <2>1, <2>2, <2>3, InTurnFacts, ReducedKeepsHistory
       DEF ScheduleRecovery, Reduced, loadVars, WithinLoadBound
<1>5. QED
  BY <1>2, <1>3, <1>4 DEF Recover

LEMMA BackendLostReduced ==
  ASSUME IInv, SessionInv, InTurn, ReduceEvent, WithinLoadBound, BackendLost
  PROVE  Reduced
<1>1. SuitablePlan("BackendLost", RecreationPlan("Mandatory"))
  BY DEF SuitablePlan
<1>2. QED
  BY <1>1, RetireReduced, RecoverReduced DEF BackendLost, Detections

LEMMA ReportReduced ==
  ASSUME IInv, SessionInv, InTurn, ReduceEvent, NEW g, NEW l,
         \/ AuthRejected(g, l) \/ SourceFailed(g, l)
         \/ /\ WithinLoadBound
            /\ \/ OpenStalled(g, l) \/ PlaybackStalled(g, l)
               \/ TimelineRegressed(g, l)
               \/ BackendUnresponsive(g, l) \/ PresentationLost(g)
               \/ \E kind \in EndKinds : StreamEnded(g, l, kind)
  PROVE  Reduced
<1>1. CASE AuthRejected(g, l) \/ SourceFailed(g, l)
  BY <1>1, TerminalReduced, RetireReduced
     DEF AuthRejected, SourceFailed, Supervised
<1>2. CASE WithinLoadBound /\ OpenStalled(g, l)
  BY <1>2, SourcePlanSuitable, RecoverReduced DEF OpenStalled, Detections
<1>3. CASE WithinLoadBound /\ PlaybackStalled(g, l)
  BY <1>3, SourcePlanSuitable, RecoverReduced DEF PlaybackStalled, Detections
<1>4. CASE WithinLoadBound /\ TimelineRegressed(g, l)
  BY <1>4, SourcePlanSuitable, RecoverReduced DEF TimelineRegressed, Detections
<1>5. CASE WithinLoadBound /\ (BackendUnresponsive(g, l) \/ PresentationLost(g))
  BY <1>5, BackendLostReduced DEF BackendUnresponsive, PresentationLost
<1>6. ASSUME WithinLoadBound, NEW kind, StreamEnded(g, l, kind) PROVE Reduced
  <2> DEFINE d == IF kind = "Unclassified" THEN "StreamEnd"
                  ELSE "TransportFailure"
             p == SourcePlan(IF kind = "FormatProbeRequired"
                             THEN "ReopenProbed" ELSE ReopenAction)
  <2>1. d \in Detections /\ SuitablePlan(d, p)
    BY SourcePlanSuitable DEF Detections
  <2>2. RetireLateCompletion \/ Recover(d, p)
    BY <1>6 DEF StreamEnded
  <2> HIDE DEF d, p
  <2>3. QED
    BY <1>6, <2>1, <2>2, RetireReduced, RecoverReduced
<1>7. QED
  BY <1>1, <1>2, <1>3, <1>4, <1>5, <1>6

(* Levels, and deadlines that emit nothing.                                *)
LEMMA LevelReduced ==
  ASSUME IInv, SessionInv, InTurn, Supervised, ReduceEvent,
         NEW g, NEW l, NEW b,
         CacheState(g, l, b) \/ PlaybackHealthObserved(g, l, b)
  PROVE  Reduced
<1>1. shown \in BOOLEAN
  BY DEF IInv, TypeOK, FlagsTyped
<1>2. QED
  BY <1>1, InTurnFacts, ReducedKeepsHistory
     DEF CacheState, PlaybackHealthObserved, Reduced, loadVars, pendingVars,
         lateVars, Supervised, OwesLateFrame, Names

LEMMA DeadlineReduced ==
  ASSUME IInv, SessionInv, InTurn, ReduceEvent,
         HoldSteadyWindow \/ ConfirmSteady \/ ExpireRecovery
  PROVE  Reduced
<1>1. shown \in BOOLEAN
  BY DEF IInv, TypeOK, FlagsTyped
<1>2. CASE HoldSteadyWindow
  BY <1>1, <1>2, InTurnFacts, ReducedKeepsHistory
     DEF HoldSteadyWindow, SteadyDue, Reduced, loadVars, pendingVars,
         lateVars, Supervised
<1>3. CASE ConfirmSteady
  BY <1>1, <1>3, InTurnFacts, ReducedKeepsHistory
     DEF ConfirmSteady, SteadyDue, Reduced, loadVars, pendingVars, Supervised
<1>4. CASE ExpireRecovery
  BY <1>4, TerminalReduced DEF ExpireRecovery, RetryDue, Supervised
<1>5. QED
  BY <1>2, <1>3, <1>4

LEMMA IgnoredReduced ==
  ASSUME IInv, SessionInv, InTurn, UNCHANGED vars
  PROVE  Reduced
  BY InTurnFacts
     DEF vars, histVars, supVars, stateVars, Reduced, loadVars, pendingVars,
         lateVars, Supervised, OwesLateFrame, Names

(* The session keeps its shape over an event that commands nothing.        *)
LEMMA ReducedKeepsShape ==
  ASSUME IInv, SessionInv, InTurn, Reduced,
         turn' \in Turns \ {"Playing", "Settle"}, paused' \in BOOLEAN,
         UNCHANGED <<target, health, framed, frame_seen>>,
         turn' = "Verdict" /\ fold' \in OpeningFolds => ~frame_seen
  PROVE  SessionInv'
<1>1. TurnShape'
  BY DEF Reduced, TurnShape, CommandsSettledInTurn
<1>2. LoadShape'
  BY InTurnFacts
     DEF Reduced, LoadShape, SessionInv, OwesLateFrame, Supervised
<1>3. FrameShape'
  BY DEF Reduced, FrameShape, SessionInv
<1>4. WatchesWhatPlays'
  BY InTurnFacts DEF Reduced, WatchesWhatPlays, Supervised, Names, Load
<1>5. QED
  BY <1>1, <1>2, <1>3, <1>4 DEF SessionInv

-----------------------------------------------------------------------------
(* The steps that leave the supervisor alone, and those of the viewer.       *)

LEMMA SessionInitShape == SessionInit => SessionInv
<1> SUFFICES ASSUME SessionInit PROVE SessionInv
  OBVIOUS
<1>1. TurnShape
  BY DEF SessionInit, EpisodeInit, Init, TurnShape, CommandsSettledInTurn, Turns
<1>2. LoadShape
  BY PolicyAssumption DEF SessionInit, EpisodeInit, Init, LoadShape, OwesLateFrame
<1>3. FrameShape /\ WatchesWhatPlays
  BY DEF SessionInit, EpisodeInit, Init, FrameShape, WatchesWhatPlays, Supervised
<1>4. QED
  BY <1>1, <1>2, <1>3 DEF SessionInv

LEMMA QuietStep ==
  ASSUME IInv, SessionInv,
         \/ BeginTurn \/ EndEvents \/ EndFlush \/ SkipSample
         \/ \E load \in Loads : OnEndFile(load)
  PROVE  UNCHANGED vars /\ SessionInv'
<1>1. /\ InTurn /\ UNCHANGED vars
      /\ UNCHANGED <<target, health, framed, frame_seen>>
      /\ turn' \in Turns \ {"Playing", "Settle", "Verdict"}
      /\ paused' \in BOOLEAN
  BY DEF BeginTurn, EndEvents, EndFlush, SkipSample, OnEndFile, Handling,
         InTurn, Goto, playerVars, foldVars, Turns, SessionInv, TurnShape
<1>2. QED
  BY <1>1, IgnoredReduced, ReducedKeepsShape

LEMMA ElapseStep ==
  ASSUME IInv, SessionInv, Elapse
  PROVE  Next /\ SessionInv'
<1>1. PassTime /\ turn = "Ready" /\ turn' = turn /\ InTurn
      /\ UNCHANGED <<target, health, framed, frame_seen, paused>>
  BY DEF Elapse, playerVars, foldVars, InTurn
<1>2. Reduced
  BY <1>1, InTurnFacts
     DEF PassTime, Tick, Reduced, loadVars, pendingVars, lateVars, Supervised,
         OwesLateFrame, Names
<1>3. turn' \in Turns \ {"Playing", "Settle", "Verdict"} /\ paused' \in BOOLEAN
  BY <1>1 DEF Turns, SessionInv, TurnShape
<1>4. QED
  BY <1>1, <1>2, <1>3, ReducedKeepsShape DEF Next

LEMMA BeginChannelStep ==
  ASSUME IInv, SessionInv, BeginChannel
  PROVE  Next /\ SessionInv'
<1>1. generation + 1 \in Generations
  BY PolicyAssumption
     DEF BeginChannel, Generations, IInv, TypeOK, StateTyped
<1>2. Request
  BY <1>1 DEF BeginChannel, Request
<1>3. InitialState(generation + 1, "Loading") /\ turn' = "Playing"
      /\ paused' = paused /\ shown' = FALSE
  <2>1. generation' # generation
    BY <1>1 DEF BeginChannel, ChannelRequested, InitialState, Generations,
                IInv, TypeOK, StateTyped
  <2>2. QED
    BY <2>1 DEF BeginChannel, ChannelRequested, Goto, ReduceEvent, NewSession
<1>4. TurnShape' /\ LoadShape'
  BY <1>3, PolicyAssumption
     DEF InitialState, TurnShape, LoadShape, CommandsSettledInTurn, Turns,
         OwesLateFrame, SessionInv
<1>5. FrameShape' /\ WatchesWhatPlays'
  BY <1>3 DEF FrameShape, WatchesWhatPlays
<1>6. QED
  BY <1>2, <1>4, <1>5 DEF Next, SessionInv

LEMMA StopStep ==
  ASSUME IInv, SessionInv, StopPlayback
  PROVE  Next /\ SessionInv'
<1>1. Stop
  BY DEF StopPlayback, Stop, Generations, IInv, TypeOK, StateTyped
<1>2. InitialState(generation, "Idle") /\ turn' = "Ready" /\ paused' = paused
      /\ shown' = FALSE
  <2>1. name' = "Idle"
    BY DEF StopPlayback, PlaybackStopped, InitialState
  <2>2. QED
    BY <2>1 DEF StopPlayback, PlaybackStopped, ReduceEvent, NewSession
<1>3. TurnShape' /\ LoadShape'
  BY <1>2, PolicyAssumption
     DEF InitialState, TurnShape, LoadShape, CommandsSettledInTurn, Turns,
         OwesLateFrame, SessionInv
<1>4. FrameShape' /\ WatchesWhatPlays'
  BY <1>2 DEF FrameShape, WatchesWhatPlays, Supervised, InitialState
<1>5. QED
  BY <1>1, <1>3, <1>4 DEF Next, SessionInv

(* Where a load is reported failed, the episode ends.                      *)
LEMMA SourceFailedStep ==
  ASSUME IInv, SessionInv, ReduceEvent, Supervised,
         NEW l \in LoadAttempts, SourceFailed(generation, l)
  PROVE  /\ Next
         /\ UNCHANGED <<generation, load_attempt, load_commanded, transport,
                        shown>>
         /\ effects' = <<>> /\ pending_load_attempt' = NoLoad
         /\ name' = "Failed" /\ ~late_available'
<1>1. Reject
  BY DEF Reject, Generations, IInv, TypeOK, StateTyped
<1>2. Terminal(detection, "SourceUnavailable", recovery_age)
  BY DEF SourceFailed, RetireLateCompletion, Supervised
<1>3. shown' = shown
  BY <1>2, ReducedKeepsHistory
     DEF Terminal, loadVars, IInv, TypeOK, FlagsTyped
<1>4. QED
  BY <1>1, <1>2, <1>3 DEF Next, Terminal, loadVars, LateCompletion

LEMMA PlayStep ==
  ASSUME IInv, SessionInv, Play
  PROVE  Next /\ SessionInv'
<1> DEFINE load == Load(generation, 1)
<1>1. /\ name = "Loading" /\ ~shown /\ turn' = "Ready" /\ paused' = paused
      /\ shown \in BOOLEAN /\ generation \in Generations
      /\ load.generation = generation /\ load.load = 1 /\ 1 \in LoadAttempts
      /\ load_attempt = NoLoad
  BY PolicyAssumption
     DEF Play, Goto, SessionInv, TurnShape, FrameShape, IInv, TypeOK,
         FlagsTyped, StateTyped, Load, LoadAttempts, CommandsKnown
<1>2. CASE LoadFailed(load)
  <2>1. TakesSourceFailure(generation, 1)
    BY <1>1 DEF TakesSourceFailure, Supervised
  <2>2. SourceFailed(generation, 1) /\ ReduceEvent
    BY <1>1, <1>2, <2>1 DEF LoadFailed, ReportSourceFailed, Dispatch
  <2>3. /\ Next /\ shown' = shown /\ name' = "Failed" /\ ~late_available'
        /\ effects' = <<>> /\ pending_load_attempt' = NoLoad
        /\ UNCHANGED <<load_attempt, load_commanded, transport>>
    BY <1>1, <2>2, SourceFailedStep DEF Supervised
  <2>4. TurnShape' /\ LoadShape'
    BY <1>1, <2>3
       DEF SessionInv, TurnShape, LoadShape, CommandsSettledInTurn, Turns,
           OwesLateFrame
  <2>5. FrameShape' /\ WatchesWhatPlays'
    BY <1>1, <2>3 DEF FrameShape, WatchesWhatPlays, Supervised
  <2>6. QED
    BY <2>3, <2>4, <2>5 DEF SessionInv
<1>3. CASE Targets(load) /\ LoadStarted(load)
  <2>1. TakesLoad(generation, 1, "FreshSelection")
    BY <1>1 DEF TakesLoad, FreshLoad
  <2>2. PICK t \in Transports :
          StreamLoadIssued(generation, 1, "FreshSelection", t) /\ ReduceEvent
    BY <1>1, <1>3, <2>1 DEF LoadStarted, Dispatch
  <2>3. LoadIssued
    BY <1>1, <2>2 DEF LoadIssued, Intents
  <2>4. /\ name' = "Zap" /\ load_attempt' = 1 /\ load_commanded'
        /\ transport' = t /\ pending_load_attempt' = NoLoad
        /\ effects' = <<>> /\ generation' = generation /\ ~late_available'
        /\ ~shown'
    BY <1>1, <2>2 DEF StreamLoadIssued, ReduceEvent
  <2>5. target' = Load(generation, 1) /\ health' = target'
    BY <1>3 DEF Targets, LoadStarted, RestartSupervision
  <2>6. TurnShape' /\ LoadShape'
    BY <1>1, <2>4, PolicyAssumption
       DEF SessionInv, TurnShape, LoadShape, CommandsSettledInTurn, Turns,
           OwesLateFrame
  <2>7. FrameShape' /\ WatchesWhatPlays'
    BY <1>1, <2>4, <2>5 DEF FrameShape, WatchesWhatPlays, Supervised, Load
  <2>8. QED
    BY <2>3, <2>6, <2>7 DEF Next, SessionInv
<1>4. QED
  BY <1>2, <1>3 DEF Play

-----------------------------------------------------------------------------
(* The steps that hand an event to the supervisor.                         *)

(* What the session reports of a load that the supervisor takes it to be   *)
(* about is about the load that plays, and that was commanded.             *)
LEMMA CurrentLoad ==
  ASSUME IInv, SessionInv, InTurn, NEW g, NEW l, Current(g, l),
         Supervised \/ OwesLateFrame
  PROVE  g \in Generations /\ l \in LoadAttempts
  BY InTurnFacts DEF Current, Supervised, Names

(* Steps that pass on one event or none, and touch nothing else that the   *)
(* shape of the session depends on.                                        *)
PassesOn ==
  /\ InTurn /\ turn' \in Turns \ {"Playing", "Settle"}
  /\ paused' \in BOOLEAN
  /\ UNCHANGED <<target, health, framed, frame_seen>>
  /\ turn' = "Verdict" /\ fold' \in OpeningFolds => ~frame_seen

LEMMA PassedOn ==
  ASSUME IInv, SessionInv, PassesOn, UNCHANGED vars \/ (Next /\ Reduced)
  PROVE  [Next]_vars /\ SessionInv'
  BY IgnoredReduced, ReducedKeepsShape DEF PassesOn

LEMMA OnLoadRejectedStep ==
  ASSUME IInv, SessionInv, NEW load \in Loads, OnLoadRejected(load)
  PROVE  [Next]_vars /\ SessionInv'
<1>1. PassesOn
  BY DEF OnLoadRejected, Handling, PassesOn, InTurn, playerVars, foldVars,
         Turns, SessionInv, TurnShape
<1>2. load.load \in LoadAttempts
  BY DEF Loads, Load
<1>3. CASE TakesSourceFailure(load.generation, load.load)
  <2>1. SourceFailed(load.generation, load.load) /\ ReduceEvent
    BY <1>3 DEF OnLoadRejected, ReportSourceFailed, Dispatch
  <2>2. Reject
    BY <1>2, <2>1 DEF Reject, SourceFailed, IInv, TypeOK, StateTyped
  <2>3. QED
    BY <1>1, <2>1, <2>2, ReportReduced, PassedOn DEF PassesOn, Next
<1>4. CASE ~TakesSourceFailure(load.generation, load.load)
  BY <1>1, <1>4, PassedOn DEF OnLoadRejected, ReportSourceFailed, Dispatch
<1>5. QED
  BY <1>3, <1>4

LEMMA OnBackendFailedStep ==
  ASSUME IInv, SessionInv, OnBackendFailed
  PROVE  [Next]_vars /\ SessionInv'
<1> DEFINE g == target.generation
           l == target.load
           Taken == Current(g, l) /\ TakesBackendLoss
<1>1. PassesOn /\ WithinLoadBound
  BY DEF OnBackendFailed, PassesOn, InTurn, playerVars, foldVars,
         Turns, SessionInv, TurnShape
<1>2. CASE Taken
  <2>1. BackendUnresponsive(g, l) /\ ReduceEvent
    BY <1>2 DEF OnBackendFailed, Dispatch
  <2>2. g \in Generations /\ l \in LoadAttempts
    BY <1>1, <1>2, CurrentLoad
       DEF PassesOn, TakesBackendLoss, UpgradesAuthority, AdmitsRecovery,
           UpgradesPending, Supervised
  <2>3. Fault
    BY <1>1, <2>1, <2>2 DEF Fault
  <2>4. QED
    BY <1>1, <2>1, <2>3, ReportReduced, PassedOn DEF PassesOn, Next
<1>3. CASE ~Taken
  BY <1>1, <1>3, PassedOn DEF OnBackendFailed, Dispatch
<1>4. QED
  BY <1>2, <1>3

LEMMA OnAuthenticationRejectedStep ==
  ASSUME IInv, SessionInv, NEW load \in Loads, OnAuthenticationRejected(load)
  PROVE  [Next]_vars /\ SessionInv'
<1>1. PassesOn
  BY DEF OnAuthenticationRejected, Diagnose, Handling, PassesOn, InTurn,
         Turns, SessionInv, TurnShape
<1>2. load.load \in LoadAttempts
  BY DEF Loads, Load
<1>3. CASE TakesAuthRejection(load.generation, load.load)
  <2>1. AuthRejected(load.generation, load.load) /\ ReduceEvent
    BY <1>3 DEF OnAuthenticationRejected, Dispatch
  <2>2. Reject
    BY <1>2, <2>1 DEF Reject, AuthRejected, Current, IInv, TypeOK, StateTyped
  <2>3. QED
    BY <1>1, <2>1, <2>2, ReportReduced, PassedOn DEF PassesOn, Next
<1>4. CASE ~TakesAuthRejection(load.generation, load.load)
  BY <1>1, <1>4, PassedOn DEF OnAuthenticationRejected, Dispatch
<1>5. QED
  BY <1>3, <1>4

(* A stream end, diagnosed or not, of any load.                            *)
LEMMA StreamEndStep ==
  ASSUME IInv, SessionInv, PassesOn, WithinLoadBound,
         NEW g, NEW l, NEW kind \in EndKinds,
         Dispatch(TakesStreamEnd(g, l), StreamEnded(g, l, kind))
  PROVE  [Next]_vars /\ SessionInv'
<1>1. CASE TakesStreamEnd(g, l)
  <2>1. StreamEnded(g, l, kind) /\ ReduceEvent
    BY <1>1 DEF Dispatch
  <2>2. g \in Generations /\ l \in LoadAttempts
    BY <1>1, CurrentLoad DEF PassesOn, TakesStreamEnd, Plays, Supervised
  <2>3. Fault
    BY <2>1, <2>2 DEF Fault
  <2>4. QED
    BY <2>1, <2>3, ReportReduced, PassedOn DEF PassesOn, Next
<1>2. CASE ~TakesStreamEnd(g, l)
  BY <1>2, PassedOn DEF Dispatch
<1>3. QED
  BY <1>1, <1>2

LEMMA OnTransportFailureStep ==
  ASSUME IInv, SessionInv, NEW load \in Loads, OnTransportFailure(load)
  PROVE  [Next]_vars /\ SessionInv'
<1>1. PassesOn /\ WithinLoadBound
  BY DEF OnTransportFailure, Diagnose, Handling, PassesOn, InTurn,
         Turns, SessionInv, TurnShape
<1>2. PICK kind \in EndKinds \ {"Unclassified"} :
        Dispatch(TakesStreamEnd(load.generation, load.load),
                 StreamEnded(load.generation, load.load, kind))
  BY DEF OnTransportFailure
<1>3. QED
  BY <1>1, <1>2, StreamEndStep

LEMMA FlushStreamEndStep ==
  ASSUME IInv, SessionInv, FlushStreamEnd
  PROVE  [Next]_vars /\ SessionInv'
<1>1. PassesOn /\ WithinLoadBound
  BY DEF FlushStreamEnd, PassesOn, InTurn, playerVars, foldVars,
         Turns, SessionInv, TurnShape
<1>2. PICK load \in {Head(stream_ends).load} :
        Dispatch(TakesStreamEnd(load.generation, load.load),
                 StreamEnded(load.generation, load.load, "Unclassified"))
  BY DEF FlushStreamEnd
<1>3. "Unclassified" \in EndKinds
  BY DEF EndKinds
<1>4. QED
  BY <1>1, <1>2, <1>3, StreamEndStep

LEMMA ServicePresentationStep ==
  ASSUME IInv, SessionInv, ServicePresentation
  PROVE  [Next]_vars /\ SessionInv'
<1>1. PassesOn
  BY DEF ServicePresentation, Goto, PassesOn, InTurn, playerVars, foldVars,
         Turns, SessionInv, TurnShape
<1>2. CASE WithinLoadBound /\ PresentationLost(generation) /\ ReduceEvent
  <2>1. LoseDevice
    BY <1>2 DEF LoseDevice, IInv, TypeOK, StateTyped
  <2>2. QED
    BY <1>1, <1>2, <2>1, ReportReduced, PassedOn DEF PassesOn, Next
<1>3. QED
  BY <1>1, <1>2, PassedOn DEF ServicePresentation, Dispatch

LEMMA DispatchCacheStateStep ==
  ASSUME IInv, SessionInv, DispatchCacheState
  PROVE  [Next]_vars /\ SessionInv'
<1>1. PassesOn
  BY DEF DispatchCacheState, Goto, PassesOn, InTurn, playerVars,
         Turns, SessionInv, TurnShape
<1>2. CASE /\ Watching
           /\ CacheState(target.generation, target.load, paused) /\ ReduceEvent
  <2>1. Supervised /\ paused \in BOOLEAN
    BY <1>2 DEF Watching, SessionInv, TurnShape
  <2>2. target.generation \in Generations /\ target.load \in LoadAttempts
    BY <1>1, <1>2, <2>1, CurrentLoad DEF PassesOn, CacheState
  <2>3. Observe
    BY <1>2, <2>1, <2>2 DEF Observe
  <2>4. QED
    BY <1>1, <1>2, <2>1, <2>3, LevelReduced, PassedOn DEF PassesOn, Next
<1>3. QED
  BY <1>1, <1>2, PassedOn DEF DispatchCacheState, Dispatch

LEMMA SampleHealthStep ==
  ASSUME IInv, SessionInv, SampleHealth
  PROVE  [Next]_vars /\ SessionInv'
<1>1. fold' \in OpeningFolds => ~frame_seen
  BY DEF SampleHealth, OpeningFolds, PlayingFolds
<1>2. PassesOn
  BY <1>1 DEF SampleHealth, Goto, PassesOn, InTurn, playerVars, foldVars,
              Turns, SessionInv, TurnShape
<1> DEFINE unhealthy == fold' # "Healthy"
<1>3. CASE /\ Supervised
           /\ PlaybackHealthObserved(health.generation, health.load, unhealthy)
           /\ ReduceEvent
  <2>1. health.generation \in Generations /\ health.load \in LoadAttempts
    BY <1>2, <1>3, CurrentLoad DEF PassesOn, PlaybackHealthObserved
  <2>2. unhealthy \in BOOLEAN
    OBVIOUS
  <2> HIDE DEF unhealthy
  <2>3. Observe
    BY <1>3, <2>1, <2>2 DEF Observe
  <2>4. QED
    BY <1>2, <1>3, <2>3, LevelReduced, PassedOn DEF PassesOn, Next
<1>4. QED
  BY <1>2, <1>3, PassedOn DEF SampleHealth, Watching, Dispatch

LEMMA EndSamplePassesOn ==
  ASSUME SessionInv, turn = "Verdict", EndSample
  PROVE  PassesOn
  BY DEF EndSample, Goto, PassesOn, InTurn, Turns, SessionInv, TurnShape

(* A stall of the load under watch; an open one before its first frame.    *)
LEMMA StallStep ==
  ASSUME IInv, SessionInv, PassesOn, WithinLoadBound, NEW g, NEW l,
         \/ Dispatch(TakesStall(g, l), PlaybackStalled(g, l))
         \/ ~shown /\ Dispatch(TakesStall(g, l), OpenStalled(g, l))
  PROVE  [Next]_vars /\ SessionInv'
<1>1. CASE TakesStall(g, l)
  <2>1. g \in Generations /\ l \in LoadAttempts
    BY <1>1, CurrentLoad DEF PassesOn, TakesStall, Plays, Supervised
  <2>2. CASE PlaybackStalled(g, l) /\ ReduceEvent
    <3>1. Fault
      BY <2>1, <2>2 DEF Fault
    <3>2. QED
      BY <2>2, <3>1, ReportReduced, PassedOn DEF PassesOn, Next
  <2>3. CASE ~shown /\ OpenStalled(g, l) /\ ReduceEvent
    <3>1. OpenStall
      BY <2>1, <2>3 DEF OpenStall
    <3>2. QED
      BY <2>3, <3>1, ReportReduced, PassedOn DEF PassesOn, Next
  <2>4. QED
    BY <1>1, <2>2, <2>3 DEF Dispatch
<1>2. CASE ~TakesStall(g, l)
  BY <1>2, PassedOn DEF Dispatch
<1>3. QED
  BY <1>1, <1>2

LEMMA ReportStallStep ==
  ASSUME IInv, SessionInv, ReportStall
  PROVE  [Next]_vars /\ SessionInv'
<1>1. PassesOn /\ WithinLoadBound
  BY EndSamplePassesOn DEF ReportStall
<1> DEFINE g == health.generation
           l == health.load
<1>2. CASE fold = "OpenStalled"
  <2>1. ~shown
    BY <1>2 DEF ReportStall, SessionInv, FrameShape, OpeningFolds
  <2>2. Dispatch(TakesStall(g, l), OpenStalled(g, l))
    BY <1>2 DEF ReportStall, Dispatch
  <2>3. QED
    BY <1>1, <2>1, <2>2, StallStep
<1>3. CASE fold # "OpenStalled"
  <2>1. Dispatch(TakesStall(g, l), PlaybackStalled(g, l))
    BY <1>3 DEF ReportStall, Dispatch
  <2>2. QED
    BY <1>1, <2>1, StallStep
<1>4. QED
  BY <1>2, <1>3

LEMMA ReportDecodeStallStep ==
  ASSUME IInv, SessionInv, ReportDecodeStall
  PROVE  [Next]_vars /\ SessionInv'
<1>1. PassesOn /\ WithinLoadBound
  BY EndSamplePassesOn DEF ReportDecodeStall
<1>2. PICK g \in {health.generation}, l \in {health.load} :
        Dispatch(TakesStall(g, l), PlaybackStalled(g, l))
  BY DEF ReportDecodeStall
<1>3. QED
  BY <1>1, <1>2, StallStep

LEMMA ReportTimelineStep ==
  ASSUME IInv, SessionInv, ReportTimeline
  PROVE  [Next]_vars /\ SessionInv'
<1> DEFINE g == health.generation
           l == health.load
<1>1. PassesOn
  BY EndSamplePassesOn DEF ReportTimeline
<1>2. CASE WithinLoadBound /\ TimelineRegressed(g, l) /\ ReduceEvent
  <2>1. g \in Generations /\ l \in LoadAttempts
    BY <1>1, <1>2, CurrentLoad
       DEF PassesOn, TimelineRegressed, Supervised
  <2>2. Fault
    BY <1>2, <2>1 DEF Fault
  <2>3. QED
    BY <1>1, <1>2, <2>2, ReportReduced, PassedOn DEF PassesOn, Next
<1>3. CASE UNCHANGED vars
  BY <1>1, <1>3, PassedOn
<1>4. QED
  BY <1>2, <1>3 DEF ReportTimeline, Dispatch

-----------------------------------------------------------------------------
(* The deadline, and the settlement of the command it may emit.            *)

LEMMA PollDeadlineStep ==
  ASSUME IInv, SessionInv, PollDeadline
  PROVE  [Next]_vars /\ SessionInv'
<1>1. /\ InTurn /\ turn = "Poll" /\ paused' \in BOOLEAN
      /\ turn' = IF effects' # << >> THEN "Settle" ELSE "Ready"
      /\ UNCHANGED <<target, health, framed, frame_seen>>
  BY DEF PollDeadline, InTurn, Goto, playerVars, foldVars
<1>2. CASE UNCHANGED vars \/ (Next /\ Reduced)
  <2>1. effects' = <<>>
    BY <1>1, <1>2, InTurnFacts
       DEF Reduced, vars, supVars
  <2>2. PassesOn
    BY <1>1, <2>1 DEF PassesOn, Turns
  <2>3. QED
    BY <1>2, <2>2, PassedOn
<1>3. CASE (HoldSteadyWindow \/ ConfirmSteady \/ ExpireRecovery) /\ ReduceEvent
  <2>1. Next
    BY <1>3 DEF DeadlineReached, Poll, Next
  <2>2. QED
    BY <1>1, <1>2, <1>3, <2>1, DeadlineReduced
<1>4. CASE IssueRecovery /\ ReduceEvent
  <2>1. Next
    BY <1>4 DEF DeadlineReached, Poll, Next
  <2>2. RetryLoad = load_attempt + 1 /\ RetryLoad \in 1 .. MaxLoad + 1
        /\ name = "Recovering"
    BY <1>1, <1>4, InTurnFacts, PolicyAssumption
       DEF RetryLoad, IssueRecovery, RetryDue
  <2>3. effects' = <<[generation |-> generation, load_attempt |-> RetryLoad,
                      mechanism |-> plan.mechanism]>>
    BY <1>4 DEF IssueRecovery
  <2>4. effects'[1].mechanism = plan.mechanism /\ effects' # <<>>
    BY <2>3
  <2>5. turn' = "Settle"
    BY <1>1, <2>4
  <2>6. plan'.status = "Issued" /\ plan'.mechanism = plan.mechanism
    BY <1>4 DEF IssueRecovery, ServeRetry, IInv, TypeOK, LoadsTyped, Plans
  <2>7. /\ name' = "Recovering" /\ generation' = generation
        /\ UNCHANGED <<load_attempt, load_commanded, transport, late_available>>
        /\ pending_load_attempt' = RetryLoad
        /\ pending_load_intent' = IF plan.mechanism = "RecreatePlayer"
                                  THEN "PlayerRecreation" ELSE "RecoveryReopen"
    BY <1>4, <2>2 DEF IssueRecovery, loadVars, lateVars
  <2>8. shown' = shown
    BY <1>4, <2>7, ReducedKeepsHistory DEF IInv, TypeOK, FlagsTyped
  <2>9. TurnShape'
    <3>1. pending_load_intent' = SettledIntent'
      BY <2>4, <2>7 DEF SettledIntent, Recreates, Effect
    <3>2. QED
      BY <1>1, <2>2, <2>3, <2>5, <2>6, <2>7, <3>1
         DEF TurnShape, Turns, CommandsSettledInTurn
  <2>10. LoadShape'
    BY <2>2, <2>7, InTurnFacts DEF LoadShape, SessionInv, OwesLateFrame
  <2>11. FrameShape' /\ WatchesWhatPlays'
    BY <1>1, <2>5, <2>7, <2>8
       DEF FrameShape, WatchesWhatPlays, SessionInv
  <2>12. QED
    BY <2>1, <2>9, <2>10, <2>11 DEF SessionInv
<1>5. QED
  BY <1>2, <1>3, <1>4 DEF PollDeadline, Dispatch, DeadlineReached

LEMMA SettleFacts ==
  ASSUME IInv, SessionInv, turn = "Settle"
  PROVE  /\ name = "Recovering" /\ load_commanded
         /\ pending_load_attempt \in LoadAttempts
         /\ pending_load_attempt \in 1 .. MaxLoad + 1
         /\ pending_load_attempt > load_attempt /\ load_attempt \in Nat
         /\ pending_load_attempt = commanded
         /\ pending_load_intent = SettledIntent
         /\ Effect.generation = generation
         /\ Effect.load_attempt = pending_load_attempt
         /\ Commanded = Load(generation, pending_load_attempt)
         /\ generation \in Generations /\ transport \in Transports
<1>1. /\ name = "Recovering" /\ plan.status = "Issued"
      /\ pending_load_attempt \in 1 .. MaxLoad + 1
      /\ pending_load_intent = SettledIntent
      /\ effects = <<[generation |-> generation,
                      load_attempt |-> pending_load_attempt,
                      mechanism |-> plan.mechanism]>>
  BY DEF SessionInv, TurnShape
<1>2. load_commanded /\ transport \in Transports
  BY <1>1 DEF SessionInv, LoadShape
<1>3. pending_load_attempt > load_attempt /\ pending_load_attempt = commanded
  BY <1>1 DEF IInv, PendingShape, CommandsKnown
<1>4. /\ Effect.generation = generation
      /\ Effect.load_attempt = pending_load_attempt
  BY <1>1 DEF Effect
<1>5. pending_load_attempt \in LoadAttempts
  BY <1>1, PolicyAssumption DEF LoadAttempts
<1>6. QED
  BY <1>1, <1>2, <1>3, <1>4, <1>5
     DEF Commanded, IInv, TypeOK, StateTyped, LoadsTyped

LEMMA ExecuteRecoveryStep ==
  ASSUME IInv, SessionInv, ExecuteRecovery
  PROVE  Next /\ SessionInv'
<1> DEFINE l == pending_load_attempt
<1>1. turn = "Settle" /\ turn' = "Ready" /\ paused' = paused
  BY DEF ExecuteRecovery, Goto
<1>2. SettledIntent \in Intents
  BY DEF SettledIntent, Intents
<1>3. TakesLoad(generation, l, SettledIntent)
  BY <1>1, SettleFacts DEF TakesLoad, RecoveryLoad, LoadAttempts
<1>4. StreamLoadIssued(generation, l, SettledIntent, transport) /\ ReduceEvent
  BY <1>1, <1>3, SettleFacts DEF ExecuteRecovery, Dispatch
<1>5. LoadIssued
  BY <1>1, <1>2, <1>4, SettleFacts DEF LoadIssued
<1>6. /\ name' = "Zap" /\ load_attempt' = l /\ load_commanded'
      /\ transport' = transport /\ pending_load_attempt' = NoLoad
      /\ effects' = <<>> /\ generation' = generation /\ ~late_available'
  BY <1>4 DEF StreamLoadIssued
<1>7. ~shown'
  <2>1. NewLoad
    BY <1>1, <1>6, SettleFacts DEF NewLoad
  <2>2. QED
    BY <1>4, <2>1 DEF ReduceEvent
<1>8. target' = Load(generation, l) /\ health' = target'
  BY <1>1, SettleFacts DEF ExecuteRecovery, Targets, RestartSupervision
<1>9. TurnShape' /\ LoadShape'
  BY <1>1, <1>6, SettleFacts
     DEF SessionInv, TurnShape, LoadShape, CommandsSettledInTurn, Turns,
         OwesLateFrame
<1>10. FrameShape' /\ WatchesWhatPlays'
  BY <1>1, <1>6, <1>7, <1>8 DEF FrameShape, WatchesWhatPlays, Load
<1>11. QED
  BY <1>5, <1>9, <1>10 DEF Next, SessionInv

LEMMA RecoveryFailsStep ==
  ASSUME IInv, SessionInv, RecoveryFails
  PROVE  Next /\ SessionInv'
<1> DEFINE l == pending_load_attempt
<1>1. turn = "Settle" /\ turn' = "Ready" /\ paused' = paused
      /\ frame_seen' = frame_seen
  BY DEF RecoveryFails, Goto
<1>2. Commanded.generation = generation /\ Commanded.load = l
  BY <1>1, SettleFacts DEF Load
<1>3. TakesSourceFailure(generation, l)
  BY <1>1, SettleFacts DEF TakesSourceFailure, Supervised, LoadAttempts
<1>4. SourceFailed(generation, l) /\ ReduceEvent
  BY <1>2, <1>3 DEF RecoveryFails, SettleFailure, ReportSourceFailed, Dispatch
<1>5. /\ Next /\ shown' = shown /\ name' = "Failed" /\ ~late_available'
      /\ effects' = <<>> /\ pending_load_attempt' = NoLoad
      /\ UNCHANGED <<generation, load_attempt, load_commanded, transport>>
  BY <1>1, <1>4, SourceFailedStep, SettleFacts DEF Supervised
<1>6. TurnShape' /\ LoadShape'
  BY <1>1, <1>5, SettleFacts
     DEF SessionInv, TurnShape, LoadShape, CommandsSettledInTurn, Turns,
         OwesLateFrame
<1>7. (target' = target /\ framed' = framed) \/ target' = Commanded
  BY DEF RecoveryFails, KeepsTarget, Targets
<1>8. Commanded # Load(generation, load_attempt)
  BY <1>1, SettleFacts DEF Load
<1>9. FrameShape' /\ WatchesWhatPlays'
  BY <1>1, <1>5, <1>7, <1>8
     DEF FrameShape, WatchesWhatPlays, Supervised, SessionInv
<1>10. QED
  BY <1>5, <1>6, <1>9 DEF SessionInv

(* A first frame of the target is the first the supervisor is told of, so  *)
(* ReportFrame is FrameReported.                                           *)
LEMMA OnFirstStartStep ==
  ASSUME IInv, SessionInv, NEW load \in Loads, OnFirstStart(load)
  PROVE  [Next]_vars /\ SessionInv'
<1> DEFINE Counts == IsCurrent(load) /\ Current(load.generation, load.load)
<1>1. /\ InTurn /\ turn = "Events" /\ turn' = turn /\ paused' = paused
      /\ target' = target
      /\ framed' = (framed \/ load = target)
      /\ frame_seen' = (frame_seen \/ IsCurrent(load))
      /\ turn' \in Turns \ {"Playing", "Settle", "Verdict"}
  BY DEF OnFirstStart, Handling, InTurn, Turns, ObservesFrame
<1>2. CASE ~Counts
  <2>1. UNCHANGED vars
    BY <1>2 DEF OnFirstStart
  <2>2. UNCHANGED <<shown, name>>
    BY <2>1 DEF vars, histVars, supVars, stateVars
  <2>3. health' = health
    BY <2>2 DEF OnFirstStart, foldVars
  <2>4. Reduced
    BY <1>1, <2>1, IgnoredReduced
  <2>5. TurnShape' /\ LoadShape'
    BY <1>1, <2>4, InTurnFacts
       DEF Reduced, TurnShape, LoadShape, CommandsSettledInTurn, SessionInv,
           OwesLateFrame, Supervised
  <2>6. FrameShape'
    BY <1>1, <2>4 DEF Reduced, FrameShape, SessionInv
  <2>7. WatchesWhatPlays'
    BY <1>1, <2>3, <2>4, InTurnFacts DEF Reduced, WatchesWhatPlays, Load
  <2>8. QED
    BY <2>1, <2>5, <2>6, <2>7 DEF SessionInv
<1>3. CASE Counts
  <2>1. /\ load = target /\ load.generation = generation
        /\ load.load = load_attempt /\ ~framed
        /\ load.load \in LoadAttempts /\ load = Load(generation, load_attempt)
    BY <1>3 DEF OnFirstStart, IsCurrent, Current, Loads, Load
  <2>2. load_commanded /\ ~shown
    BY <2>1, InTurnFacts, PolicyAssumption
       DEF SessionInv, LoadShape, FrameShape, LoadAttempts
  <2>3. ReportFrame(load)
    BY <1>3 DEF OnFirstStart
  <2>4. FrameReported
    BY <2>1, <2>2, <2>3 DEF ReportFrame, FrameReported
  <2>5. shown' /\ frame_seen' /\ framed'
    BY <1>1, <1>3, <2>1, <2>3 DEF ReportFrame
  <2>6. /\ UNCHANGED <<generation, load_attempt, load_commanded, transport>>
        /\ effects' = <<>> /\ pending_load_attempt' = NoLoad
        /\ \/ UNCHANGED <<name, plan, late_available>>
           \/ name # "Idle" /\ name' = "Zap" /\ ~late_available'
    <3>1. CASE ~AcceptsFrame /\ Ignored
      BY <1>1, <3>1, InTurnFacts
         DEF Ignored, stateVars, loadVars, pendingVars, lateVars
    <3>2. CASE FirstFrame(generation, load_attempt)
      BY <1>1, <3>2, InTurnFacts
         DEF FirstFrame, AcceptsFrame, NormalFirstFrame, CancelsOpeningRetry,
             CancelsHeuristicRecreation, RevivesFailedLoad, loadVars,
             pendingVars
    <3>3. QED
      BY <2>3, <2>1, <3>1, <3>2 DEF ReportFrame
  <2>7. TurnShape'
    BY <1>1, <2>6, InTurnFacts
       DEF TurnShape, CommandsSettledInTurn, SessionInv
  <2>8. LoadShape'
    BY <1>1, <2>2, <2>6, InTurnFacts
       DEF LoadShape, SessionInv, OwesLateFrame
  <2>9. FrameShape'
    BY <1>1, <2>5, <2>6, InTurnFacts DEF FrameShape
  <2>10. WatchesWhatPlays'
    <3>1. health' = IF name = "Failed" /\ name' = "Zap" THEN load ELSE health
      BY DEF OnFirstStart, RestartSupervision, foldVars
    <3>2. Supervised' => health' = target
      BY <1>1, <2>1, <2>6, <3>1, InTurnFacts DEF Supervised
    <3>3. QED
      BY <1>1, <2>1, <2>6, <3>2 DEF WatchesWhatPlays
  <2>11. QED
    BY <2>4, <2>7, <2>8, <2>9, <2>10 DEF Next, SessionInv
<1>4. QED
  BY <1>2, <1>3

-----------------------------------------------------------------------------
LEMMA SessionStutters ==
  ASSUME IInv, SessionInv, UNCHANGED sessionVars
  PROVE  UNCHANGED vars /\ SessionInv'
<1>1. UNCHANGED vars
  BY DEF sessionVars
<1>2. UNCHANGED <<target, health, framed, frame_seen, turn, fold, paused>>
  BY DEF sessionVars, playerVars, foldVars
<1>3. /\ UNCHANGED <<name, generation, load_attempt, load_commanded, transport>>
      /\ UNCHANGED <<plan, late_available, effects, shown>>
      /\ UNCHANGED <<pending_load_attempt, pending_load_intent>>
  BY <1>1 DEF vars, histVars, supVars, stateVars, loadVars, pendingVars,
              lateVars
<1>4. TurnShape'
  <2>1. SettledIntent' = SettledIntent
    BY <1>3 DEF SettledIntent, Recreates, Effect
  <2>2. QED
    BY <1>2, <1>3, <2>1 DEF SessionInv, TurnShape, CommandsSettledInTurn
<1>5. LoadShape' /\ FrameShape' /\ WatchesWhatPlays'
  BY <1>2, <1>3
     DEF SessionInv, LoadShape, FrameShape, WatchesWhatPlays, OwesLateFrame,
         Supervised, Load
<1>6. QED
  BY <1>1, <1>4, <1>5 DEF SessionInv

THEOREM SessionStepRefines ==
  ASSUME IInv, SessionInv, [SessionNext]_sessionVars
  PROVE  [Next]_vars /\ SessionInv'
<1>1. CASE UNCHANGED sessionVars
  BY <1>1, SessionStutters
<1>2. CASE HandleEvent
  BY <1>2, OnLoadRejectedStep, OnFirstStartStep, OnBackendFailedStep,
     OnAuthenticationRejectedStep, OnTransportFailureStep, QuietStep
     DEF HandleEvent
<1>3. CASE BeginChannel \/ Play \/ StopPlayback \/ Elapse \/ BeginTurn
  BY <1>3, BeginChannelStep, PlayStep, StopStep, ElapseStep, QuietStep
<1>4. CASE FlushStreamEnd \/ EndFlush \/ ServicePresentation
           \/ DispatchCacheState
  BY <1>4, FlushStreamEndStep, QuietStep, ServicePresentationStep,
     DispatchCacheStateStep
<1>5. CASE SkipSample \/ SampleHealth \/ ReportStall \/ ReportDecodeStall
           \/ ReportTimeline
  BY <1>5, QuietStep, SampleHealthStep, ReportStallStep,
     ReportDecodeStallStep, ReportTimelineStep
<1>6. CASE PollDeadline \/ ExecuteRecovery \/ RecoveryFails
  BY <1>6, PollDeadlineStep, ExecuteRecoveryStep, RecoveryFailsStep
<1>7. QED
  BY <1>1, <1>2, <1>3, <1>4, <1>5, <1>6 DEF SessionNext

THEOREM SessionInductive == SessionSpec => [](IInv /\ SessionInv)
<1>1. SessionInit => IInv /\ SessionInv
  BY InitIInv, SessionInitShape DEF SessionInit
<1>2. IInv /\ SessionInv /\ [SessionNext]_sessionVars => IInv' /\ SessionInv'
  BY SessionStepRefines, InductiveStep
<1>3. QED
  BY <1>1, <1>2, PTL DEF SessionSpec

(* The session is a reporter of the kind SupervisorEpisode assumes, so its *)
(* supervisor keeps every promise proved there.                            *)
THEOREM SessionImplementsEpisode == SessionSpec => ImplementsEpisode
<1>1. SessionInit => EpisodeInit
  BY DEF SessionInit
<1>2. IInv /\ SessionInv /\ [SessionNext]_sessionVars => [Next]_vars
  BY SessionStepRefines
<1>3. QED
  BY <1>1, <1>2, SessionInductive, PTL
     DEF SessionSpec, ImplementsEpisode, Safety

(* No recovery command outlives the turn that emitted it.                  *)
THEOREM CommandsAlwaysSettled == SessionSpec => []CommandsSettledInTurn
<1>1. SessionInv => CommandsSettledInTurn
  BY DEF SessionInv, TurnShape
<1>2. QED
  BY <1>1, SessionInductive, PTL

(* What is watched, what plays and what is recovered are the same load.    *)
THEOREM AlwaysWatchesWhatPlays == SessionSpec => []WatchesWhatPlays
<1>1. SessionInv => WatchesWhatPlays
  BY DEF SessionInv
<1>2. QED
  BY <1>1, SessionInductive, PTL

(* A promise of the supervisor, for the whole of the session: an episode   *)
(* never emits more commands than the policy has attempts.                 *)
THEOREM SessionAttemptsBounded == SessionSpec => []AttemptsBounded
  BY SessionImplementsEpisode, AttemptsAlwaysBounded, PTL DEF ImplementsEpisode

-----------------------------------------------------------------------------
(* What the session knows of the load that plays is current.               *)

Ends == [load : Loads, in : 0 .. StreamEndDelay]

SessionTyped ==
  /\ turn \in Turns /\ fold \in OpeningFolds \cup PlayingFolds
  /\ target \in Loads \cup {NoTarget} /\ health \in Loads \cup {NoTarget}
  /\ backend \in BOOLEAN /\ framed \in BOOLEAN /\ frame_seen \in BOOLEAN
  /\ stall_reported \in BOOLEAN /\ decode_stall_reported \in BOOLEAN
  /\ exact_failure_reported \in BOOLEAN /\ paused \in BOOLEAN
  /\ diagnosed \in BOOLEAN /\ late_open \in BOOLEAN
  /\ last_cache_state \in {{}, {TRUE}, {FALSE}}
  /\ stream_ends \in Seq(Ends)

\* The types of the session, one by one.
LEMMA SessionTypes == SessionTypeOK <=> TypeOK /\ SessionTyped
<1>1. {target, health} \subseteq Loads \cup {NoTarget} <=>
        target \in Loads \cup {NoTarget} /\ health \in Loads \cup {NoTarget}
  OBVIOUS
<1>2. {backend, framed, frame_seen, stall_reported, decode_stall_reported,
       exact_failure_reported, paused, diagnosed, late_open} \subseteq BOOLEAN <=>
        /\ backend \in BOOLEAN /\ framed \in BOOLEAN /\ frame_seen \in BOOLEAN
        /\ stall_reported \in BOOLEAN /\ decode_stall_reported \in BOOLEAN
        /\ exact_failure_reported \in BOOLEAN /\ paused \in BOOLEAN
        /\ diagnosed \in BOOLEAN /\ late_open \in BOOLEAN
  BY SMT
<1> QED BY <1>1, <1>2 DEF SessionTypeOK, SessionTyped, Ends

(* What an event leaves alone that is neither a level of the cache nor a   *)
(* load nor a frame.                                                       *)
Unmoved ==
  /\ UNCHANGED <<generation, load_attempt, cache_paused>>
  /\ Supervised' => Supervised

\* Nothing but a load or a first frame makes a load play that did not.
NotResumed == name' \in {"Zap", "Steady"} => name \in {"Zap", "Steady"}

\* Neither a recovery nor the end of a late chance moves the level of the
\* cache, and none of them starts supervision.
LEMMA RecoverUnmoved ==
  ASSUME NEW d, NEW p, Recover(d, p) \/ RetireLateCompletion
  PROVE  Unmoved /\ NotResumed
  BY DEF Recover, RetireLateCompletion, UpgradesAuthority, UpgradeAuthority,
         AdmitsRecovery, UpgradesPending, Terminal, ScheduleRecovery, Unmoved, NotResumed,
         Supervised, healthVars, loadVars

\* Nor does any event but a load, a first frame or the level itself.
LEMMA EventUnmoved ==
  ASSUME NEW g, NEW l,
         \/ AuthRejected(g, l) \/ SourceFailed(g, l)
         \/ OpenStalled(g, l) \/ PlaybackStalled(g, l)
         \/ TimelineRegressed(g, l) \/ BackendUnresponsive(g, l)
         \/ PresentationLost(g)
         \/ \E kind \in EndKinds : StreamEnded(g, l, kind)
         \/ \E b \in BOOLEAN : PlaybackHealthObserved(g, l, b)
         \/ DeadlineReached \/ UNCHANGED vars
  PROVE  Unmoved /\ NotResumed
<1>1. CASE AuthRejected(g, l) \/ SourceFailed(g, l)
  BY <1>1, RecoverUnmoved
     DEF AuthRejected, SourceFailed, Terminal, Unmoved, NotResumed, Supervised, healthVars, loadVars
<1>2. CASE OpenStalled(g, l) \/ PlaybackStalled(g, l) \/ TimelineRegressed(g, l)
  BY <1>2, RecoverUnmoved DEF OpenStalled, PlaybackStalled, TimelineRegressed
<1>3. CASE BackendUnresponsive(g, l) \/ PresentationLost(g)
  BY <1>3, RecoverUnmoved DEF BackendUnresponsive, PresentationLost, BackendLost
<1>4. CASE \E kind \in EndKinds : StreamEnded(g, l, kind)
  BY <1>4, RecoverUnmoved DEF StreamEnded
<1>5. CASE \E b \in BOOLEAN : PlaybackHealthObserved(g, l, b)
  BY <1>5 DEF PlaybackHealthObserved, Unmoved, NotResumed, Supervised, loadVars
<1>6. CASE DeadlineReached
  BY <1>6
     DEF DeadlineReached, HoldSteadyWindow, ConfirmSteady, IssueRecovery,
         ExpireRecovery, Terminal, SteadyDue, RetryDue, Unmoved, NotResumed, Supervised,
         healthVars, loadVars
<1>7. CASE UNCHANGED vars
  BY <1>7 DEF vars, supVars, stateVars, healthVars, loadVars, Unmoved, NotResumed, Supervised
<1> QED BY <1>1, <1>2, <1>3, <1>4, <1>5, <1>6, <1>7

\* So do the steps of the turn that hand over an event or none, and time.
LEMMA TurnUnmoved ==
  ASSUME \/ \E load \in Loads : \/ OnLoadRejected(load) \/ OnEndFile(load)
                               \/ OnAuthenticationRejected(load)
                               \/ OnTransportFailure(load)
         \/ OnBackendFailed \/ BeginTurn \/ EndEvents \/ FlushStreamEnd
         \/ EndFlush \/ ServicePresentation \/ SkipSample \/ SampleHealth
         \/ ReportStall \/ ReportDecodeStall \/ ReportTimeline
         \/ PollDeadline \/ Elapse
  PROVE  Unmoved /\ NotResumed
<1>1. CASE \E load \in Loads : OnLoadRejected(load)
  BY <1>1, EventUnmoved DEF OnLoadRejected, ReportSourceFailed, Dispatch
<1>2. CASE \E load \in Loads : OnAuthenticationRejected(load)
  BY <1>2, EventUnmoved DEF OnAuthenticationRejected, Dispatch
<1>3. CASE \E load \in Loads : OnTransportFailure(load)
  <2>1. PICK g \in Nat, l \in Nat, kind \in EndKinds :
          StreamEnded(g, l, kind) \/ UNCHANGED vars
    BY <1>3 DEF OnTransportFailure, Dispatch, Loads, Load, LoadAttempts
  <2> QED BY <2>1, EventUnmoved
<1>4. CASE OnBackendFailed
  BY <1>4, EventUnmoved DEF OnBackendFailed, Dispatch
<1>5. CASE FlushStreamEnd
  <2>1. "Unclassified" \in EndKinds
    BY DEF EndKinds
  <2>2. PICK g \in {Head(stream_ends).load.generation}, l \in {Head(stream_ends).load.load} :
          StreamEnded(g, l, "Unclassified") \/ UNCHANGED vars
    BY <1>5 DEF FlushStreamEnd, Dispatch
  <2> QED BY <2>1, <2>2, EventUnmoved
<1>6. CASE ServicePresentation
  BY <1>6, EventUnmoved DEF ServicePresentation, Dispatch
<1>7. CASE SampleHealth
  <2>1. (fold' # "Healthy") \in BOOLEAN
    OBVIOUS
  <2>2. PICK unhealthy \in BOOLEAN :
          PlaybackHealthObserved(health.generation, health.load, unhealthy)
            \/ UNCHANGED vars
    BY <1>7, <2>1 DEF SampleHealth, Dispatch
  <2> QED BY <2>2, EventUnmoved
<1>8. CASE ReportStall \/ ReportDecodeStall \/ ReportTimeline
  BY <1>8, EventUnmoved DEF ReportStall, ReportDecodeStall, ReportTimeline, Dispatch
<1>9. CASE PollDeadline
  BY <1>9, EventUnmoved DEF PollDeadline, Dispatch
<1>10. CASE Elapse
  BY <1>10
     DEF Elapse, PassTime, Tick, Unmoved, NotResumed, Supervised, healthVars, loadVars
<1>11. CASE BeginTurn \/ EndEvents \/ EndFlush \/ SkipSample
            \/ \E load \in Loads : OnEndFile(load)
  BY <1>11, EventUnmoved DEF BeginTurn, EndEvents, EndFlush, SkipSample, OnEndFile
<1> QED BY <1>1, <1>2, <1>3, <1>4, <1>5, <1>6, <1>7, <1>8, <1>9, <1>10, <1>11

\* The places of a turn that act on the level of the cache.
Levels == {"Sample", "Verdict", "Poll"}

CachePart     == CacheViewCurrent /\ CacheAsTold /\ ChannelBegun
DiagnosisPart == DiagnosisWins /\ DiagnosisLatched

\* What is known of the cache stays so while its level and the target do.
LEMMA CacheStays ==
  ASSUME CachePart, Unmoved, turn # "Playing",
         UNCHANGED <<target, last_cache_state>>,
         turn' \in Levels => turn \in Levels /\ paused' = paused
  PROVE  CachePart'
  BY DEF CachePart, Unmoved, Levels, CacheViewCurrent, CacheAsTold,
         ChannelBegun, Watching

\* What is known of the diagnosis stays so while the target and the latch do
\* and no end is queued.
LEMMA DiagnosisStays ==
  ASSUME DiagnosisPart, Unmoved,
         UNCHANGED <<target, diagnosed, exact_failure_reported>>,
         \A i \in DOMAIN stream_ends' : \E j \in DOMAIN stream_ends :
           stream_ends'[i].load = stream_ends[j].load
  PROVE  DiagnosisPart'
  BY DEF DiagnosisPart, Unmoved, DiagnosisWins, DiagnosisLatched

\* A step of the turn alone, or of the queue, keeps the types.
LEMMA TypesStay ==
  ASSUME SessionTyped, turn' \in Turns, paused' \in BOOLEAN, fold' = fold,
         stream_ends' \in Seq(Ends),
         UNCHANGED <<target, health, backend, framed, frame_seen, stall_reported,
                     decode_stall_reported, exact_failure_reported, diagnosed,
                     late_open, last_cache_state>>
  PROVE  SessionTyped'
  BY DEF SessionTyped

(* What is known of the cache and of the diagnosis support each other with  *)
(* the types, over IInv and SessionInv.                                    *)
UpToDateInv == SessionTyped /\ CachePart /\ DiagnosisPart

(* Steps that pass on one event or none and know nothing more after it.    *)
LEMMA QuietKeeps ==
  ASSUME IInv, SessionInv, UpToDateInv,
         \/ \E load \in Loads : OnLoadRejected(load)
         \/ OnBackendFailed \/ BeginTurn \/ EndEvents \/ EndFlush
         \/ ServicePresentation \/ SkipSample \/ SampleHealth \/ PollDeadline
  PROVE  UpToDateInv'
<1>1. Unmoved
  BY TurnUnmoved
<1>2. /\ UNCHANGED <<target, health, backend, framed, frame_seen, stall_reported,
                      decode_stall_reported, exact_failure_reported, diagnosed,
                      late_open, last_cache_state, stream_ends>>
      /\ turn # "Playing" /\ turn' \in Turns /\ paused' \in BOOLEAN
      /\ turn' \in Levels => turn \in Levels /\ paused' = paused
      /\ fold' \in OpeningFolds \cup PlayingFolds
  BY DEF OnLoadRejected, OnBackendFailed, BeginTurn, EndEvents, EndFlush,
         ServicePresentation, SkipSample, SampleHealth, PollDeadline, Handling,
         Goto, Turns, Levels, playerVars, foldVars, UpToDateInv, SessionTyped
<1>3. SessionTyped'
  BY <1>2 DEF UpToDateInv, SessionTyped
<1>4. CachePart' /\ DiagnosisPart'
  BY <1>1, <1>2, CacheStays, DiagnosisStays DEF UpToDateInv
<1> QED BY <1>3, <1>4 DEF UpToDateInv

(* A verdict is reported, or nothing is.                                   *)
LEMMA VerdictKeeps ==
  ASSUME IInv, SessionInv, UpToDateInv,
         ReportStall \/ ReportDecodeStall \/ ReportTimeline
  PROVE  UpToDateInv'
<1>1. Unmoved
  BY TurnUnmoved
<1>2. /\ UNCHANGED <<target, health, backend, framed, frame_seen,
                      exact_failure_reported, diagnosed, last_cache_state,
                      stream_ends, paused>>
      /\ turn = "Verdict" /\ turn' = "Poll" /\ fold' = "Unknown"
  BY DEF ReportStall, ReportDecodeStall, ReportTimeline, EndSample, Goto
<1>3. /\ stall_reported' \in BOOLEAN /\ decode_stall_reported' \in BOOLEAN
      /\ late_open' \in BOOLEAN
  BY DEF ReportStall, ReportDecodeStall, ReportTimeline, UpToDateInv, SessionTyped
<1>4. SessionTyped'
  BY <1>2, <1>3 DEF UpToDateInv, SessionTyped, Turns, OpeningFolds, PlayingFolds
<1>5. CachePart' /\ DiagnosisPart'
  BY <1>1, <1>2, CacheStays, DiagnosisStays DEF UpToDateInv, Levels
<1> QED BY <1>4, <1>5 DEF UpToDateInv

(* The steps that queue, withdraw, report or let run the generic ends.     *)
LEMMA EndFileKeeps ==
  ASSUME IInv, SessionInv, UpToDateInv, NEW load \in Loads, OnEndFile(load)
  PROVE  UpToDateInv'
<1> DEFINE entry == [load |-> load, in |-> StreamEndDelay]
<1>1. Unmoved
  BY TurnUnmoved
<1>2. /\ UNCHANGED <<target, health, backend, framed, frame_seen, stall_reported,
                      decode_stall_reported, exact_failure_reported, diagnosed,
                      late_open, last_cache_state, fold, paused, turn>>
      /\ turn = "Events"
  BY DEF OnEndFile, Handling, playerVars, foldVars
<1>3. CASE stream_ends' = stream_ends
  <2>1. turn' \in Turns /\ paused' \in BOOLEAN /\ stream_ends' \in Seq(Ends)
    BY <1>2, <1>3 DEF UpToDateInv, SessionTyped
  <2>2. SessionTyped'
    BY <1>2, <2>1, TypesStay DEF UpToDateInv
  <2> QED BY <1>1, <1>2, <1>3, <2>2, CacheStays, DiagnosisStays DEF UpToDateInv, Levels
<1>4. CASE AcceptsGenericEnd(load) /\ stream_ends' = Append(stream_ends, entry)
  <2>1. entry \in Ends /\ entry.load = load
    BY SessionAssumption DEF Ends
  <2> HIDE DEF entry
  <2>2. /\ stream_ends' \in Seq(Ends)
        /\ \A i \in DOMAIN stream_ends' :
             (i \in DOMAIN stream_ends /\ stream_ends'[i] = stream_ends[i])
               \/ stream_ends'[i] = entry
    BY <1>4, <2>1 DEF UpToDateInv, SessionTyped
  <2>3. ~diagnosed
    BY <1>4 DEF AcceptsGenericEnd, IsCurrent, UpToDateInv, DiagnosisPart, DiagnosisLatched
  <2>4. SessionTyped'
    BY <1>2, <2>2 DEF UpToDateInv, SessionTyped
  <2>5. DiagnosisPart'
    BY <1>1, <1>2, <2>3 DEF UpToDateInv, DiagnosisPart, DiagnosisWins, DiagnosisLatched, Unmoved
  <2> QED BY <1>1, <1>2, <2>4, <2>5, CacheStays DEF UpToDateInv, Levels
<1> QED BY <1>3, <1>4 DEF OnEndFile

\* A diagnosis withdraws every end of its load and sets the latch.
LEMMA DiagnoseKeeps ==
  ASSUME IInv, SessionInv, UpToDateInv, NEW load \in Loads,
         OnAuthenticationRejected(load) \/ OnTransportFailure(load)
  PROVE  UpToDateInv'
<1>1. Unmoved
  BY TurnUnmoved
<1>2. Diagnose(load)
  BY DEF OnAuthenticationRejected, OnTransportFailure
<1>3. UNCHANGED <<fold, paused>>
  BY <1>2 DEF Diagnose
<1>4. /\ UNCHANGED <<target, health, backend, framed, frame_seen, stall_reported,
                      decode_stall_reported, late_open, last_cache_state, turn>>
      /\ turn = "Events"
      /\ exact_failure_reported' = (exact_failure_reported \/ IsCurrent(load))
      /\ diagnosed' = (diagnosed \/ load = target)
      /\ stream_ends' = EndsOfOthers(load)
  BY <1>2 DEF Diagnose, Handling
<1> DEFINE places == {i \in DOMAIN stream_ends : stream_ends[i].load # load}
<1>5. /\ stream_ends' \in Seq(Ends)
      /\ \A i \in DOMAIN stream_ends' : \E j \in places :
           stream_ends'[i] = stream_ends[j]
  <2>1. stream_ends \in Seq(Ends) /\ places \in SUBSET DOMAIN stream_ends
    BY DEF UpToDateInv, SessionTyped
  <2>2. stream_ends' = MembersAt(stream_ends, places)
    BY <1>4 DEF EndsOfOthers
  <2> HIDE DEF places
  <2> QED BY <2>1, <2>2, MembersStay
<1>6. exact_failure_reported' \in BOOLEAN /\ diagnosed' \in BOOLEAN
  BY <1>4 DEF IsCurrent
<1>7. SessionTyped'
  BY <1>3, <1>4, <1>5, <1>6 DEF UpToDateInv, SessionTyped
<1>8. DiagnosisWins'
  BY <1>4, <1>5 DEF UpToDateInv, DiagnosisPart, DiagnosisWins
<1>9. DiagnosisLatched'
  BY <1>1, <1>4 DEF UpToDateInv, DiagnosisPart, DiagnosisLatched, Unmoved, IsCurrent
<1> QED
  BY <1>1, <1>3, <1>4, <1>7, <1>8, <1>9, CacheStays DEF UpToDateInv, DiagnosisPart, Levels

\* An end that is reported is gone from the queue.
LEMMA FlushKeeps ==
  ASSUME IInv, SessionInv, UpToDateInv, FlushStreamEnd
  PROVE  UpToDateInv'
<1>1. Unmoved
  BY TurnUnmoved
<1>2. /\ UNCHANGED <<target, health, backend, framed, frame_seen, stall_reported,
                      decode_stall_reported, exact_failure_reported, diagnosed,
                      late_open, last_cache_state, fold, paused, turn>>
      /\ turn = "Flush" /\ stream_ends # << >>
      /\ stream_ends' = Tail(stream_ends)
  BY DEF FlushStreamEnd, EndIsDue, playerVars, foldVars
<1>3. /\ stream_ends' \in Seq(Ends)
      /\ \A i \in DOMAIN stream_ends' :
           i + 1 \in DOMAIN stream_ends /\ stream_ends'[i] = stream_ends[i + 1]
  BY <1>2 DEF UpToDateInv, SessionTyped
<1>4. SessionTyped'
  <2>1. turn' \in Turns /\ paused' \in BOOLEAN
    BY <1>2 DEF UpToDateInv, SessionTyped
  <2> QED BY <1>2, <1>3, <2>1, TypesStay DEF UpToDateInv
<1> QED
  BY <1>1, <1>2, <1>3, <1>4, CacheStays, DiagnosisStays DEF UpToDateInv, Levels

\* Time changes no load of an end.
LEMMA ElapseKeeps ==
  ASSUME IInv, SessionInv, UpToDateInv, Elapse
  PROVE  UpToDateInv'
<1>1. Unmoved
  BY TurnUnmoved
<1>2. /\ UNCHANGED <<target, health, backend, framed, frame_seen, stall_reported,
                      decode_stall_reported, exact_failure_reported, diagnosed,
                      late_open, last_cache_state, fold, paused, turn>>
      /\ turn = "Ready"
      /\ stream_ends' = [i \in DOMAIN stream_ends |->
                           [stream_ends[i] EXCEPT !.in = Countdown(@)]]
  BY DEF Elapse, playerVars, foldVars
<1>3. /\ DOMAIN stream_ends' = DOMAIN stream_ends
      /\ \A i \in DOMAIN stream_ends :
           stream_ends'[i] \in Ends /\ stream_ends'[i].load = stream_ends[i].load
  <2>1. \A t \in 0 .. StreamEndDelay : Countdown(t) \in 0 .. StreamEndDelay
    BY SessionAssumption DEF Countdown
  <2>2. \A i \in DOMAIN stream_ends : stream_ends[i] \in Ends
    BY DEF UpToDateInv, SessionTyped
  <2> QED BY <1>2, <2>1, <2>2 DEF Ends
<1>4. stream_ends' \in Seq(Ends)
  <2>1. /\ DOMAIN stream_ends = 1 .. Len(stream_ends) /\ Len(stream_ends) \in Nat
    BY DEF UpToDateInv, SessionTyped
  <2>2. stream_ends' = [i \in 1 .. Len(stream_ends) |-> stream_ends'[i]]
    BY <1>2, <2>1
  <2> QED BY <1>3, <2>1, <2>2
<1>5. SessionTyped'
  <2>1. turn' \in Turns /\ paused' \in BOOLEAN
    BY <1>2 DEF UpToDateInv, SessionTyped
  <2> QED BY <1>2, <1>4, <2>1, TypesStay DEF UpToDateInv
<1> QED
  BY <1>1, <1>2, <1>3, <1>5, CacheStays, DiagnosisStays DEF UpToDateInv, Levels

(* The level of the cache is passed on when it is another than was said.   *)
LEMMA DispatchKeeps ==
  ASSUME IInv, SessionInv, UpToDateInv, DispatchCacheState
  PROVE  UpToDateInv'
<1>1. /\ UNCHANGED <<target, health, backend, framed, frame_seen, stall_reported,
                      decode_stall_reported, exact_failure_reported, diagnosed,
                      late_open, stream_ends, fold, paused>>
      /\ turn = "Cache" /\ turn' = "Sample" /\ paused \in BOOLEAN
  BY DEF DispatchCacheState, Goto, playerVars, UpToDateInv, SessionTyped
<1>2. /\ UNCHANGED <<generation, name>>
      /\ last_cache_state' \in {{}, {TRUE}, {FALSE}}
  <2>1. CASE UNCHANGED vars
    BY <2>1, <1>1 DEF DispatchCacheState, vars, supVars, stateVars, UpToDateInv, SessionTyped
  <2>2. CASE /\ CacheState(target.generation, target.load, paused)
             /\ last_cache_state' = {paused}
    BY <2>2, <1>1 DEF CacheState
  <2> QED BY <2>1, <2>2 DEF DispatchCacheState, Dispatch
<1>3. Watching => cache_paused' = paused /\ \A said \in last_cache_state' : said = paused
  <2> SUFFICES ASSUME Watching
               PROVE  cache_paused' = paused /\ \A said \in last_cache_state' : said = paused
    OBVIOUS
  <2>1. CASE paused \in last_cache_state
    <3>1. UNCHANGED vars /\ last_cache_state' = last_cache_state
      BY <2>1 DEF DispatchCacheState
    <3>2. cache_paused' = cache_paused
      BY <3>1 DEF vars, supVars, stateVars, healthVars
    <3>3. cache_paused = paused
      BY <1>1, <2>1 DEF UpToDateInv, CachePart, CacheAsTold
    <3>4. last_cache_state = {paused}
      BY <1>1, <2>1 DEF UpToDateInv, SessionTyped
    <3> QED BY <3>1, <3>2, <3>3, <3>4
  <2>2. CASE paused \notin last_cache_state
    <3>1. last_cache_state' = {paused}
      BY <2>2 DEF DispatchCacheState
    <3>2. InTurn /\ Supervised
      BY <1>1 DEF InTurn, Watching
    <3>3. Current(target.generation, target.load)
      BY <3>2, InTurnFacts DEF Current, Load
    <3>4. cache_paused' = paused
      BY <2>2, <3>3 DEF DispatchCacheState, Dispatch, CacheState
    <3> QED BY <3>1, <3>4
  <2> QED BY <2>1, <2>2
<1>4. SessionTyped'
  BY <1>1, <1>2 DEF UpToDateInv, SessionTyped, Turns
<1>5. CachePart'
  BY <1>1, <1>2, <1>3
     DEF UpToDateInv, CachePart, CacheViewCurrent, CacheAsTold, ChannelBegun, Watching,
         Supervised
<1>6. DiagnosisPart'
  BY <1>1, <1>2 DEF UpToDateInv, DiagnosisPart, DiagnosisWins, DiagnosisLatched
<1> QED BY <1>4, <1>5, <1>6 DEF UpToDateInv

(* A load that is started, or that comes back, is watched afresh.          *)
LEMMA AfreshKeeps ==
  ASSUME UpToDateInv, NEW load \in Loads, target' = load, RestartSupervision(load),
         diagnosed' = FALSE, load.generation = generation, UNCHANGED generation,
         turn' \in Turns \ Levels
  PROVE  CachePart' /\ DiagnosisPart'
<1>1. generation >= 1
  BY DEF Loads, Load
<1> QED
  BY <1>1, PolicyAssumption
     DEF CachePart, DiagnosisPart, RestartSupervision, CacheViewCurrent,
         CacheAsTold, ChannelBegun, DiagnosisWins, DiagnosisLatched, Levels,
         Loads, Load

(* The load that failed is the end of the episode.                         *)
LEMMA UnsupervisedKeeps ==
  ASSUME IInv, UpToDateInv, ~Supervised', UNCHANGED <<generation, foldVars>>,
         UNCHANGED stream_ends,
         \/ UNCHANGED <<target, diagnosed>>
         \/ target'.generation = generation /\ diagnosed' = FALSE
  PROVE  CachePart' /\ DiagnosisPart'
<1>1. CachePart'
  BY DEF CachePart, CacheViewCurrent, CacheAsTold, ChannelBegun, Watching
<1>2. generation <= generation
  BY PolicyAssumption DEF IInv, TypeOK, StateTyped, Generations
<1> QED
  BY <1>1, <1>2
     DEF UpToDateInv, DiagnosisPart, DiagnosisWins, DiagnosisLatched, foldVars

\* A new channel is of a generation that no target is of yet.
LEMMA BeginKeeps ==
  ASSUME IInv, SessionInv, UpToDateInv, BeginChannel
  PROVE  UpToDateInv'
<1>1. /\ UNCHANGED <<target, health, backend, framed, frame_seen, stall_reported,
                      decode_stall_reported, exact_failure_reported, diagnosed,
                      late_open, last_cache_state, stream_ends, fold, paused>>
      /\ turn' = "Playing"
      /\ generation' = generation + 1 /\ generation \in Nat
  BY PolicyAssumption
     DEF BeginChannel, ChannelRequested, InitialState, Goto, playerVars, foldVars,
         IInv, TypeOK, StateTyped, Generations
<1>2. target.generation \in Nat
  BY DEF UpToDateInv, SessionTyped, Loads, Load, NoTarget
<1>3. SessionTyped'
  <2>1. turn' \in Turns /\ paused' \in BOOLEAN /\ stream_ends' \in Seq(Ends)
    BY <1>1 DEF Turns, UpToDateInv, SessionTyped
  <2> QED BY <1>1, <2>1, TypesStay DEF UpToDateInv
<1>4. CachePart'
  BY <1>1 DEF CachePart, CacheViewCurrent, CacheAsTold, ChannelBegun
<1>5. DiagnosisPart'
  BY <1>1, <1>2 DEF UpToDateInv, DiagnosisPart, DiagnosisWins, DiagnosisLatched
<1> QED BY <1>3, <1>4, <1>5 DEF UpToDateInv

\* Stopping leaves no end waiting and no target of this generation.
LEMMA StopKeeps ==
  ASSUME IInv, SessionInv, UpToDateInv, StopPlayback
  PROVE  UpToDateInv'
<1>1. /\ RestartSupervision(NoTarget) /\ stream_ends' = << >>
      /\ UNCHANGED <<turn, backend, fold, frame_seen, paused, generation>>
      /\ name' = "Idle"
      /\ IF target.generation = generation THEN Targets(NoTarget) ELSE KeepsTarget
  BY DEF StopPlayback, PlaybackStopped, InitialState
<1>2. NoTarget.generation = 0 /\ generation \in Nat
  BY DEF NoTarget, Load, IInv, TypeOK, StateTyped, Generations
<1>3. SessionTyped'
  <2>1. << >> \in Seq(Ends)
    OBVIOUS
  <2>2. /\ target' \in {target, NoTarget} /\ framed' \in BOOLEAN
        /\ diagnosed' \in BOOLEAN /\ late_open' \in BOOLEAN
    BY <1>1 DEF UpToDateInv, SessionTyped, Targets, KeepsTarget
  <2>3. /\ health' = NoTarget /\ stall_reported' = FALSE
        /\ decode_stall_reported' = FALSE /\ exact_failure_reported' = FALSE
        /\ last_cache_state' = {}
    BY <1>1 DEF RestartSupervision
  <2> QED BY <1>1, <2>1, <2>2, <2>3 DEF UpToDateInv, SessionTyped
<1>4. CachePart'
  BY <1>1 DEF CachePart, CacheViewCurrent, CacheAsTold, ChannelBegun, Watching, Supervised
<1>5. DiagnosisPart'
  BY <1>1, <1>2
     DEF UpToDateInv, DiagnosisPart, DiagnosisWins, DiagnosisLatched, Targets, KeepsTarget
<1> QED BY <1>3, <1>4, <1>5 DEF UpToDateInv

\* The load of a channel is watched from its start, or the episode is over.
LEMMA PlayKeeps ==
  ASSUME IInv, SessionInv, UpToDateInv, Play
  PROVE  UpToDateInv'
<1> DEFINE load == Load(generation, 1)
<1>1. /\ name = "Loading" /\ generation \in Generations /\ turn' = "Ready"
      /\ UNCHANGED <<backend, fold, paused, stream_ends>>
  BY DEF Play, Goto, SessionInv, TurnShape, IInv, TypeOK, StateTyped
<1>2. /\ load \in Loads /\ load.generation = generation /\ load.load = 1
  <2>1. generation \in 1 .. MaxGeneration
    BY <1>1, PolicyAssumption
       DEF UpToDateInv, CachePart, ChannelBegun, Supervised, Generations
  <2>2. 1 \in LoadAttempts
    BY PolicyAssumption DEF LoadAttempts
  <2> QED BY <2>1, <2>2 DEF Loads, Load
<1> HIDE DEF load
<1>3. CASE LoadFailed(load) /\ (Targets(load) \/ KeepsTarget)
  <2>1. TakesSourceFailure(generation, 1)
    BY <1>1 DEF TakesSourceFailure, Supervised
  <2>2. SourceFailed(generation, 1) /\ UNCHANGED <<foldVars, frame_seen>>
    BY <1>2, <1>3, <2>1 DEF LoadFailed, ReportSourceFailed, Dispatch
  <2>3. name' = "Failed" /\ generation' = generation
    BY <1>1, <2>2 DEF SourceFailed, RetireLateCompletion, Terminal
  <2>4. SessionTyped'
    <3>1. /\ target' \in {target, load} /\ framed' \in BOOLEAN
          /\ diagnosed' \in BOOLEAN /\ late_open' \in BOOLEAN
      BY <1>3 DEF UpToDateInv, SessionTyped, Targets, KeepsTarget
    <3>2. UNCHANGED <<health, stall_reported, decode_stall_reported,
                      exact_failure_reported, last_cache_state, frame_seen>>
      BY <2>2 DEF foldVars
    <3>3. turn' \in Turns
      BY <1>1 DEF Turns
    <3> QED BY <1>1, <1>2, <3>1, <3>2, <3>3 DEF UpToDateInv, SessionTyped
  <2>5. CachePart' /\ DiagnosisPart'
    BY <1>1, <1>2, <1>3, <2>2, <2>3, UnsupervisedKeeps
       DEF Targets, KeepsTarget, Supervised
  <2> QED BY <2>4, <2>5 DEF UpToDateInv
<1>4. CASE Targets(load) /\ LoadStarted(load)
  <2>1. generation' = generation
    <3>1. TakesLoad(generation, 1, "FreshSelection")
      BY <1>1 DEF TakesLoad, FreshLoad
    <3> QED BY <1>2, <1>4, <3>1 DEF LoadStarted, Dispatch, StreamLoadIssued
  <2>2. /\ RestartSupervision(load) /\ frame_seen' = FALSE
        /\ target' = load /\ framed' = FALSE /\ diagnosed' = FALSE
        /\ late_open' = FALSE
    BY <1>4 DEF Targets, LoadStarted
  <2>3. SessionTyped'
    BY <1>1, <1>2, <2>2 DEF UpToDateInv, SessionTyped, RestartSupervision, Turns
  <2>4. turn' \in Turns \ Levels
    BY <1>1 DEF Turns, Levels
  <2> QED BY <1>2, <2>1, <2>2, <2>3, <2>4, AfreshKeeps DEF UpToDateInv
<1> QED BY <1>3, <1>4 DEF Play, load

\* A recovery that issues its load watches it from its start.
LEMMA ExecuteKeeps ==
  ASSUME IInv, SessionInv, UpToDateInv, ExecuteRecovery
  PROVE  UpToDateInv'
<1> DEFINE l == pending_load_attempt
<1>1. /\ turn = "Settle" /\ turn' = "Ready" /\ backend' = TRUE
      /\ UNCHANGED <<fold, paused, stream_ends>>
      /\ Targets(Commanded) /\ RestartSupervision(Commanded) /\ frame_seen' = FALSE
  BY DEF ExecuteRecovery, Goto
<1>2. Commanded \in Loads /\ Commanded.generation = generation
  <2>1. generation \in 1 .. MaxGeneration
    BY <1>1, SettleFacts, PolicyAssumption
       DEF UpToDateInv, CachePart, ChannelBegun, Supervised, Generations
  <2> QED BY <1>1, <2>1, SettleFacts DEF Loads, Load
<1>3. generation' = generation
  <2>a. turn = "Settle"
    BY <1>1
  <2>1. TakesLoad(generation, l, SettledIntent)
    BY <2>a, SettleFacts DEF TakesLoad, RecoveryLoad, LoadAttempts
  <2>2. StreamLoadIssued(generation, l, SettledIntent, transport)
    BY <1>1, <2>1, SettleFacts DEF ExecuteRecovery, Dispatch
  <2> QED BY <2>2 DEF StreamLoadIssued
<1>4. SessionTyped'
  BY <1>1, <1>2 DEF UpToDateInv, SessionTyped, RestartSupervision, Targets, Turns
<1>5. turn' \in Turns \ Levels
  BY <1>1 DEF Turns, Levels
<1>6. CachePart' /\ DiagnosisPart'
  <2>1. PICK load \in Loads : load = Commanded
    BY <1>2
  <2>2. target' = load /\ diagnosed' = FALSE /\ RestartSupervision(load)
    BY <1>1, <2>1 DEF Targets
  <2> QED BY <1>2, <1>3, <1>5, <2>1, <2>2, AfreshKeeps
<1> QED BY <1>4, <1>6 DEF UpToDateInv

\* A recovery that fails ends the episode.
LEMMA RecoveryFailsKeeps ==
  ASSUME IInv, SessionInv, UpToDateInv, RecoveryFails
  PROVE  UpToDateInv'
<1> DEFINE l == pending_load_attempt
<1>1. /\ turn = "Settle" /\ turn' = "Ready" /\ backend' \in BOOLEAN
      /\ UNCHANGED <<foldVars, fold, frame_seen, paused, stream_ends>>
      /\ KeepsTarget \/ Targets(Commanded)
  BY DEF RecoveryFails, Goto, UpToDateInv, SessionTyped
<1>2. /\ Commanded.generation = generation /\ Commanded.load = l
      /\ Commanded \in Loads
  <2>1. generation \in 1 .. MaxGeneration
    BY <1>1, SettleFacts, PolicyAssumption
       DEF UpToDateInv, CachePart, ChannelBegun, Supervised, Generations
  <2> QED BY <1>1, <2>1, SettleFacts DEF Loads, Load
<1>3. name' = "Failed" /\ generation' = generation
  <2>a. turn = "Settle"
    BY <1>1
  <2>1. TakesSourceFailure(generation, l)
    BY <2>a, SettleFacts DEF TakesSourceFailure, Supervised, LoadAttempts
  <2>2. SourceFailed(generation, l)
    BY <1>2, <2>1 DEF RecoveryFails, SettleFailure, ReportSourceFailed, Dispatch
  <2> QED BY <1>1, <2>2, SettleFacts DEF SourceFailed, RetireLateCompletion, Terminal
<1>4. SessionTyped'
  BY <1>1, <1>2 DEF UpToDateInv, SessionTyped, foldVars, Targets, KeepsTarget, Turns
<1>5. CachePart' /\ DiagnosisPart'
  BY <1>1, <1>2, <1>3, UnsupervisedKeeps DEF Targets, KeepsTarget, Supervised
<1> QED BY <1>4, <1>5 DEF UpToDateInv

(* A late first frame that is accepted revives the load, which is watched  *)
(* afresh; any other leaves what is known of it.                           *)
LEMMA FirstStartKeeps ==
  ASSUME IInv, SessionInv, UpToDateInv, NEW load \in Loads, OnFirstStart(load)
  PROVE  UpToDateInv'
<1>1. /\ UNCHANGED <<target, backend, late_open, fold, paused, stream_ends, turn>>
      /\ turn = "Events"
      /\ framed' = (framed \/ load = target)
      /\ frame_seen' = (frame_seen \/ IsCurrent(load))
  BY DEF OnFirstStart, Handling, ObservesFrame
<1>2. framed' \in BOOLEAN /\ frame_seen' \in BOOLEAN
  BY <1>1 DEF IsCurrent
<1>3. CASE name = "Failed" /\ name' = "Zap"
  <2>1. RestartSupervision(load) /\ diagnosed' = FALSE
    BY <1>3 DEF OnFirstStart
  <2>2. IsCurrent(load) /\ ReportFrame(load)
    <3>1. ~ UNCHANGED name
      BY <1>3
    <3>2. ~ UNCHANGED vars
      BY <3>1 DEF vars, supVars, stateVars
    <3> QED BY <3>2 DEF OnFirstStart
  <2>3. generation' = generation
    BY <2>2 DEF ReportFrame, FirstFrame, Ignored, stateVars
  <2>4. load.generation = generation /\ target' = load
    BY <1>1, <2>2 DEF IsCurrent
  <2>5. turn' \in Turns \ Levels
    BY <1>1 DEF Turns, Levels
  <2>6. SessionTyped'
    BY <1>1, <1>2, <2>1, <2>4 DEF UpToDateInv, SessionTyped, RestartSupervision
  <2> QED BY <2>1, <2>3, <2>4, <2>5, <2>6, AfreshKeeps DEF UpToDateInv
<1>4. CASE ~ (name = "Failed" /\ name' = "Zap")
  <2>1. UNCHANGED <<foldVars, diagnosed>>
    BY <1>4 DEF OnFirstStart
  <2>2. Unmoved
    <3>1. CASE UNCHANGED vars
      BY <3>1 DEF vars, supVars, stateVars, healthVars, loadVars, Unmoved, Supervised
    <3>2. CASE ReportFrame(load)
      BY <1>4, <3>2
         DEF ReportFrame, FirstFrame, AcceptsFrame, NormalFirstFrame,
             CancelsOpeningRetry, CancelsHeuristicRecreation, RevivesFailedLoad,
             Ignored, stateVars, healthVars, loadVars, Unmoved, Supervised
    <3> QED BY <3>1, <3>2 DEF OnFirstStart
  <2>3. SessionTyped'
    BY <1>1, <1>2, <2>1 DEF UpToDateInv, SessionTyped, foldVars
  <2>4. CachePart'
    BY <1>1, <2>1, <2>2, CacheStays DEF UpToDateInv, foldVars, Levels
  <2>5. DiagnosisPart'
    BY <1>1, <2>1, <2>2, DiagnosisStays DEF UpToDateInv, foldVars
  <2> QED BY <2>3, <2>4, <2>5 DEF UpToDateInv
<1> QED BY <1>3, <1>4

\* Every step of the session keeps what it knows up to date.
LEMMA UpToDateStep ==
  ASSUME IInv, SessionInv, UpToDateInv, [SessionNext]_sessionVars
  PROVE  UpToDateInv'
<1>1. CASE UNCHANGED sessionVars
  <2>1. Unmoved
    BY <1>1, EventUnmoved DEF sessionVars
  <2>2. UNCHANGED <<turn, target, health, backend, framed, frame_seen, stall_reported,
                    decode_stall_reported, exact_failure_reported, diagnosed,
                    late_open, last_cache_state, stream_ends, fold, paused>>
    BY <1>1 DEF sessionVars, playerVars, foldVars
  <2>3. SessionTyped'
    BY <2>2 DEF UpToDateInv, SessionTyped
  <2>4. CachePart'
    BY <1>1, <2>2
       DEF sessionVars, vars, supVars, stateVars, healthVars, UpToDateInv, CachePart,
           CacheViewCurrent, CacheAsTold, ChannelBegun, Watching, Supervised
  <2>5. DiagnosisPart'
    BY <2>1, <2>2, DiagnosisStays DEF UpToDateInv
  <2> QED BY <2>3, <2>4, <2>5 DEF UpToDateInv
<1>2. CASE HandleEvent
  BY <1>2, QuietKeeps, FirstStartKeeps, EndFileKeeps, DiagnoseKeeps DEF HandleEvent
<1>3. CASE BeginChannel \/ Play \/ StopPlayback \/ Elapse \/ BeginTurn
  BY <1>3, BeginKeeps, PlayKeeps, StopKeeps, ElapseKeeps, QuietKeeps
<1>4. CASE FlushStreamEnd \/ EndFlush \/ ServicePresentation
           \/ DispatchCacheState \/ SkipSample \/ SampleHealth
  BY <1>4, FlushKeeps, DispatchKeeps, QuietKeeps
<1>5. CASE ReportStall \/ ReportDecodeStall \/ ReportTimeline
  BY <1>5, VerdictKeeps
<1>6. CASE PollDeadline \/ ExecuteRecovery \/ RecoveryFails
  BY <1>6, QuietKeeps, ExecuteKeeps, RecoveryFailsKeeps
<1> QED BY <1>1, <1>2, <1>3, <1>4, <1>5, <1>6 DEF SessionNext

\* At the start nothing is known, and nothing plays.
LEMMA UpToDateInit == SessionInit => UpToDateInv
<1> SUFFICES ASSUME SessionInit PROVE UpToDateInv
  OBVIOUS
<1>1. SessionTyped
  <2>1. << >> \in Seq(Ends)
    OBVIOUS
  <2>2. "Ready" \in Turns /\ "Unknown" \in PlayingFolds
    BY DEF Turns, PlayingFolds
  <2> QED BY <2>1, <2>2 DEF SessionInit, SessionTyped
<1>2. CachePart
  BY DEF SessionInit, EpisodeInit, Init, CachePart, CacheViewCurrent, CacheAsTold,
         ChannelBegun, Watching, Supervised
<1>3. DiagnosisPart
  BY DEF SessionInit, EpisodeInit, Init, DiagnosisPart, DiagnosisWins,
         DiagnosisLatched, NoTarget, Load
<1> QED BY <1>1, <1>2, <1>3 DEF UpToDateInv

\* For every policy and every number of waiting ends: when the deadline is
\* polled the supervisor knows the level of the cache pumped in the same turn,
\* and no generic end of a diagnosed load waits to be reported
\* (player/playback_session.cpp, dispatch_cache_state and process_events).
THEOREM SessionAlwaysUpToDate == SessionSpec => []SessionIsUpToDate
<1>1. IInv /\ UpToDateInv => SessionIsUpToDate
  BY SessionTypes DEF IInv, UpToDateInv, CachePart, DiagnosisPart, SessionIsUpToDate
<1>2. IInv /\ SessionInv /\ UpToDateInv /\ [SessionNext]_sessionVars => UpToDateInv'
  BY UpToDateStep
<1> QED BY <1>1, <1>2, SessionInductive, UpToDateInit, PTL DEF SessionSpec

-----------------------------------------------------------------------------
(* A confirmed stall is acted on, once per load.                            *)

\* The latches stay right while nothing resumes playback.
LEMMA StallsStay ==
  ASSUME StallsLatched, Supervised' => Supervised, NotResumed, turn # "Playing",
         UNCHANGED <<framed, frame_seen, stall_reported, decode_stall_reported,
                     late_open>>,
         turn' = "Verdict" /\ fold' \in {"Stalled", "DecodeStalled"} => frame_seen
  PROVE  StallsLatched'
  BY DEF NotResumed, StallsLatched

\* They are right when they are reset, or when nothing is supervised.
LEMMA StallsForgotten ==
  ASSUME turn' # "Verdict",
         \/ ~Supervised' \/ turn' = "Playing"
         \/ /\ stall_reported' = FALSE /\ decode_stall_reported' = FALSE
            /\ frame_seen' = FALSE \/ framed' = TRUE
  PROVE  StallsLatched'
  BY DEF StallsLatched

\* A stall of a load that plays is taken: it is retried, or it is the end.
LEMMA VerdictActsOn ==
  ASSUME IInv, SessionInv, ReportStall \/ ReportDecodeStall,
         name \in {"Zap", "Steady"}
  PROVE  name' \in {"Recovering", "Failed"}
<1>1. turn = "Verdict" /\ InTurn
  BY DEF ReportStall, ReportDecodeStall, InTurn
<1>2. TakesStall(health.generation, health.load)
  BY <1>1, InTurnFacts DEF TakesStall, Current, Plays, Supervised, Load
<1>3. PICK d \in {"OpenStall", "Stall"} : Recover(d, SourcePlan(ReopenAction))
  <2>1. \/ OpenStalled(health.generation, health.load)
        \/ PlaybackStalled(health.generation, health.load)
    BY <1>2 DEF ReportStall, ReportDecodeStall, Dispatch
  <2> QED BY <2>1 DEF OpenStalled, PlaybackStalled
<1> QED BY <1>3 DEF Recover, UpgradesAuthority, Terminal, ScheduleRecovery

\* So the latch that a verdict sets finds no playback left.
LEMMA VerdictStalls ==
  ASSUME IInv, SessionInv, StallsLatched, ReportStall \/ ReportDecodeStall
  PROVE  StallsLatched'
<1>1. /\ turn = "Verdict" /\ turn' = "Poll"
      /\ UNCHANGED <<framed, frame_seen>>
  BY DEF ReportStall, ReportDecodeStall, EndSample, Goto
<1>2. /\ stall_reported' => stall_reported \/ late_open' \/ frame_seen
      /\ decode_stall_reported' => decode_stall_reported \/ frame_seen
      /\ late_open => late_open'
  <2>1. fold \in {"Stalled", "DecodeStalled"} => frame_seen
    BY <1>1 DEF StallsLatched
  <2>2. CASE ReportStall
    <3>1. /\ fold \in {"OpenStalled", "Stalled"}
          /\ late_open' = (late_open \/ fold = "OpenStalled")
          /\ decode_stall_reported' = decode_stall_reported
      BY <2>2 DEF ReportStall, StallConfirmed
    <3> QED BY <2>1, <3>1
  <2>3. CASE ReportDecodeStall
    <3>1. fold = "DecodeStalled" /\ UNCHANGED <<stall_reported, late_open>>
      BY <2>3 DEF ReportDecodeStall, DecodeConfirmed
    <3> QED BY <2>1, <3>1
  <2> QED BY <2>2, <2>3
<1>3. name' \notin {"Zap", "Steady"} /\ (Supervised' => Supervised)
  BY TurnUnmoved, VerdictActsOn DEF Unmoved, NotResumed
<1> QED BY <1>1, <1>2, <1>3 DEF StallsLatched

\* The other steps of the turn resume nothing.
LEMMA QuietStalls ==
  ASSUME IInv, SessionInv, StallsLatched,
         \/ \E load \in Loads : \/ OnLoadRejected(load) \/ OnEndFile(load)
                               \/ OnAuthenticationRejected(load)
                               \/ OnTransportFailure(load)
         \/ OnBackendFailed \/ BeginTurn \/ EndEvents \/ FlushStreamEnd
         \/ EndFlush \/ ServicePresentation \/ SkipSample \/ SampleHealth
         \/ ReportTimeline \/ PollDeadline \/ Elapse
  PROVE  StallsLatched'
<1>1. Unmoved /\ NotResumed
  BY TurnUnmoved
<1>2. /\ turn # "Playing"
      /\ UNCHANGED <<target, framed, frame_seen, stall_reported,
                      decode_stall_reported, late_open>>
      /\ turn' = "Verdict" /\ fold' \in {"Stalled", "DecodeStalled"} => frame_seen
  BY DEF OnLoadRejected, OnEndFile, OnAuthenticationRejected, OnTransportFailure,
         Diagnose, OnBackendFailed, BeginTurn, EndEvents, FlushStreamEnd, EndFlush,
         ServicePresentation, SkipSample, SampleHealth, ReportTimeline, EndSample,
         PollDeadline, Elapse, Handling, Goto, playerVars, foldVars, OpeningFolds
<1> QED BY <1>1, <1>2, StallsStay DEF Unmoved

\* Nor does the level of the cache.
LEMMA DispatchStalls ==
  ASSUME IInv, SessionInv, StallsLatched, DispatchCacheState
  PROVE  StallsLatched'
<1>1. UNCHANGED <<name, generation, load_attempt>>
  BY DEF DispatchCacheState, Dispatch, CacheState, loadVars, vars, supVars, stateVars
<1>2. /\ turn # "Playing" /\ turn' # "Verdict"
      /\ UNCHANGED <<target, framed, frame_seen, stall_reported,
                      decode_stall_reported, late_open>>
  BY DEF DispatchCacheState, Goto, playerVars
<1> QED BY <1>1, <1>2, StallsStay DEF Supervised, NotResumed


\* A new load is watched with the latches reset.
LEMMA ViewerStalls ==
  ASSUME IInv, SessionInv, StallsLatched, BeginChannel \/ Play \/ StopPlayback
  PROVE  StallsLatched'
<1>1. CASE BeginChannel
  BY <1>1, StallsForgotten DEF BeginChannel, Goto
<1>2. CASE StopPlayback
  BY <1>2, StallsForgotten
     DEF StopPlayback, PlaybackStopped, InitialState, Supervised
<1>3. CASE Play
  <2>1. turn' = "Ready" /\ name = "Loading"
    BY <1>3 DEF Play, Goto, SessionInv, TurnShape
  <2>2. CASE LoadStarted(Load(generation, 1))
    BY <2>1, <2>2, StallsForgotten DEF LoadStarted, RestartSupervision
  <2>3. CASE LoadFailed(Load(generation, 1))
    <3>1. TakesSourceFailure(generation, 1)
      BY <2>1 DEF TakesSourceFailure, Supervised
    <3>2. SourceFailed(generation, 1)
      BY <2>3, <3>1 DEF LoadFailed, ReportSourceFailed, Dispatch, Load
    <3>3. name' = "Failed"
      BY <2>1, <3>2 DEF SourceFailed, RetireLateCompletion, Terminal
    <3> QED BY <2>1, <3>3, StallsForgotten DEF Supervised
  <2> QED BY <1>3, <2>2, <2>3 DEF Play
<1> QED BY <1>1, <1>2, <1>3

\* And so is the load of a recovery.
LEMMA SettleStalls ==
  ASSUME IInv, SessionInv, StallsLatched, ExecuteRecovery \/ RecoveryFails
  PROVE  StallsLatched'
<1> DEFINE l == pending_load_attempt
<1>1. turn = "Settle" /\ turn' = "Ready"
  BY DEF ExecuteRecovery, RecoveryFails, Goto
<1>2. CASE ExecuteRecovery
  BY <1>1, <1>2, StallsForgotten DEF ExecuteRecovery, RestartSupervision
<1>3. CASE RecoveryFails
  <2>1. TakesSourceFailure(generation, l)
    BY <1>1, SettleFacts DEF TakesSourceFailure, Supervised, LoadAttempts
  <2>2. SourceFailed(generation, l)
    BY <1>1, <1>3, <2>1, SettleFacts
       DEF RecoveryFails, SettleFailure, ReportSourceFailed, Dispatch, Load
  <2>3. name' = "Failed"
    BY <1>1, <2>2, SettleFacts DEF SourceFailed, RetireLateCompletion, Terminal
  <2> QED BY <1>1, <2>3, StallsForgotten DEF Supervised
<1> QED BY <1>2, <1>3

\* Playback is resumed only by the first frame of a load, so that no stall but
\* one of its opening can have been reported before, which late_open tells;
\* a load that is revived is watched afresh.
LEMMA FirstStartStalls ==
  ASSUME IInv, SessionInv, UpToDateInv, StallsLatched,
         NEW load \in Loads, OnFirstStart(load)
  PROVE  StallsLatched'
<1>1. /\ UNCHANGED <<target, late_open>>
      /\ turn = "Events" /\ turn' = "Events" /\ InTurn
      /\ framed' = (framed \/ load = target)
      /\ frame_seen' = (frame_seen \/ IsCurrent(load))
      /\ load = target => ~framed
  BY DEF OnFirstStart, Handling, ObservesFrame, InTurn
<1>2. CASE name = "Failed" /\ name' = "Zap"
  <2>1. RestartSupervision(load)
    BY <1>2 DEF OnFirstStart
  <2>2. IsCurrent(load)
    <3>1. ~ UNCHANGED vars
      BY <1>2 DEF vars, supVars, stateVars
    <3> QED BY <3>1 DEF OnFirstStart
  <2>3. framed' = TRUE
    BY <1>1, <2>2 DEF IsCurrent
  <2> QED BY <1>1, <2>1, <2>3, StallsForgotten DEF RestartSupervision
<1>3. CASE ~ (name = "Failed" /\ name' = "Zap")
  <2>1. UNCHANGED <<stall_reported, decode_stall_reported>>
    BY <1>3 DEF OnFirstStart, foldVars
  <2>2. CASE UNCHANGED vars
    <3>1. name' = name
      BY <2>2 DEF vars, supVars, stateVars
    <3>2. framed \/ ~frame_seen => framed' \/ ~frame_seen'
      BY <1>1 DEF IsCurrent
    <3>3. frame_seen => frame_seen'
      BY <1>1
    <3> QED BY <1>1, <2>1, <3>1, <3>2, <3>3 DEF StallsLatched, Supervised
  <2>3. CASE IsCurrent(load) /\ ReportFrame(load)
    <3>1. framed' /\ ~framed /\ frame_seen'
      BY <1>1, <2>3 DEF IsCurrent
    <3>2. name' = name \/ (name = "Zap" /\ name' = "Zap") \/ (name = "Recovering" /\ name' = "Zap")
      BY <1>3, <2>3
         DEF ReportFrame, FirstFrame, AcceptsFrame, NormalFirstFrame,
             CancelsOpeningRetry, CancelsHeuristicRecreation, RevivesFailedLoad,
             Ignored, stateVars
    <3> QED BY <1>1, <2>1, <3>1, <3>2 DEF StallsLatched, Supervised
  <2> QED BY <2>2, <2>3 DEF OnFirstStart
<1> QED BY <1>2, <1>3

\* Every step of the session keeps the latches right.
LEMMA StallsLatchedStep ==
  ASSUME IInv, SessionInv, UpToDateInv, StallsLatched, [SessionNext]_sessionVars
  PROVE  StallsLatched'
<1>1. CASE UNCHANGED sessionVars
  BY <1>1
     DEF sessionVars, vars, supVars, stateVars, playerVars, foldVars, StallsLatched,
         Supervised
<1>2. CASE HandleEvent
  BY <1>2, QuietStalls, FirstStartStalls DEF HandleEvent
<1>3. CASE BeginChannel \/ Play \/ StopPlayback \/ Elapse \/ BeginTurn
  BY <1>3, ViewerStalls, QuietStalls
<1>4. CASE FlushStreamEnd \/ EndFlush \/ ServicePresentation
           \/ DispatchCacheState \/ SkipSample \/ SampleHealth
  BY <1>4, QuietStalls, DispatchStalls
<1>5. CASE ReportStall \/ ReportDecodeStall \/ ReportTimeline
  BY <1>5, VerdictStalls, QuietStalls
<1>6. CASE PollDeadline \/ ExecuteRecovery \/ RecoveryFails
  BY <1>6, QuietStalls, SettleStalls
<1> QED BY <1>1, <1>2, <1>3, <1>4, <1>5, <1>6 DEF SessionNext

\* While a stall of a load that plays is confirmed, the only step is to report
\* it, unless its latch is set.
LEMMA StallIsActedOn ==
  ASSUME IInv, SessionInv, StallsLatched, [SessionNext]_sessionVars,
         ConfirmsStall, ~late_open, ~ UNCHANGED sessionVars
  PROVE  name' \in {"Recovering", "Failed"}
<1>1. turn = "Verdict" /\ name \in {"Zap", "Steady"} /\ WithinLoadBound
      /\ fold \in {"OpenStalled", "Stalled", "DecodeStalled"}
  BY DEF ConfirmsStall
<1>2. StallConfirmed \/ DecodeConfirmed
  BY <1>1 DEF StallsLatched, Supervised, StallConfirmed, DecodeConfirmed
<1>3. ~ ReportTimeline
  BY <1>1, <1>2 DEF ReportTimeline
<1>4. ReportStall \/ ReportDecodeStall
  BY <1>1, <1>3
     DEF SessionNext, HandleEvent, BeginChannel, Play, StopPlayback, Elapse, BeginTurn,
         OnLoadRejected, OnFirstStart, OnEndFile, OnAuthenticationRejected,
         OnTransportFailure, Diagnose, Handling, OnBackendFailed, EndEvents,
         FlushStreamEnd, EndFlush, ServicePresentation, DispatchCacheState, SkipSample,
         SampleHealth, PollDeadline, ExecuteRecovery, RecoveryFails
<1> QED BY <1>1, <1>4, VerdictActsOn

\* For every policy: a confirmed stall of a load that plays, when no stall of
\* its opening has been reported before, starts a recovery or ends the episode
\* (player/playback_session.cpp, sample_health).
THEOREM StallsAreActedOn == SessionSpec => StallActedOn
<1>1. SessionInit => StallsLatched
  BY DEF SessionInit, EpisodeInit, Init, StallsLatched, Supervised
<1>2. IInv /\ SessionInv /\ UpToDateInv /\ StallsLatched /\ [SessionNext]_sessionVars
        => StallsLatched'
  BY StallsLatchedStep
<1>3. IInv /\ SessionInv /\ UpToDateInv /\ [SessionNext]_sessionVars => UpToDateInv'
  BY UpToDateStep
<1>4. IInv /\ SessionInv /\ StallsLatched /\ [SessionNext]_sessionVars
        => [ConfirmsStall /\ ~late_open => name' \in {"Recovering", "Failed"}]_sessionVars
  BY StallIsActedOn
<1> QED
  BY <1>1, <1>2, <1>3, <1>4, SessionInductive, UpToDateInit, PTL
     DEF SessionSpec, StallActedOn

=============================================================================
