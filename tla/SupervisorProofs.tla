-------------------------- MODULE SupervisorProofs --------------------------
(***************************************************************************)
(* IInv is inductive for every policy and every bound; the safety          *)
(* properties of SupervisorEpisode follow from it.                         *)
(***************************************************************************)
EXTENDS SupervisorEpisode, TLAPS

USE DEF Unset, NoLoad

(* An attempt that is left has a delay in the policy.                      *)
LEMMA DelayIsNat ==
  ASSUME attempt \in Nat, ~Exhausted
  PROVE  RetryDelay \in Nat
  BY PolicyAssumption DEF Exhausted, RetryDelay, MaxAttempts

LEMMA EpisodeAgeIsAge ==
  ASSUME recovery_age \in Ages
  PROVE  /\ EpisodeAge \in Ages
         /\ EpisodeAge >= recovery_age
         /\ EpisodeAge # Unset
  BY PolicyAssumption DEF EpisodeAge, EpisodeActive, Ages

THEOREM InitIInv == EpisodeInit => IInv
<1> SUFFICES ASSUME EpisodeInit PROVE IInv
  OBVIOUS
<1> USE PolicyAssumption DEF EpisodeInit, Init
<1>1. TypeOK
  <2>1. plan \in Plans
    BY DEF Plans, NoPlan
  <2>2. generation \in Generations /\ recovery_age \in Ages
    BY DEF Generations, Ages
  <2>3. FlagsTyped
    BY DEF FlagsTyped
  <2>4. CountsTyped
    BY DEF CountsTyped
  <2>5. StateTyped
    BY <2>2 DEF StateTyped, Names
  <2>6. LoadsTyped
    BY <2>1, <2>2 DEF LoadsTyped, Intents
  <2>7. QED
    BY <2>3, <2>4, <2>5, <2>6 DEF TypeOK
<1>2. DeadlinesValid /\ PlanShape /\ PendingShape
  BY DEF DeadlinesValid, PlanShape, PendingShape, NoPlan, SourceMechanisms
<1>3. CommandsKnown /\ LateFrameUnseen
  BY DEF CommandsKnown, LateFrameUnseen, NoPlan
<1>4. AttemptsCounted /\ WindowCountsClean /\ HeuristicJustified
  BY DEF AttemptsCounted, WindowCountsClean, HeuristicJustified, NoPlan,
         MaxAttempts
<1>5. QED
  BY <1>1, <1>2, <1>3, <1>4 DEF IInv

(* A terminal failure keeps the invariant if whatever late completion it   *)
(* leaves open belongs to the newest command and has shown no frame.       *)
LEMMA TerminalStep ==
  ASSUME IInv, ReduceEvent,
         name \notin {"Idle", "Failed"},
         NEW d \in Detections \cup {"None"}, NEW f \in Failures,
         NEW age \in Ages, Terminal(d, f, age),
         LateCompletion(d, f) => commanded = load_attempt /\ ~shown
  PROVE  IInv'
<1> USE PolicyAssumption
      DEF IInv, TypeOK, FlagsTyped, StateTyped, LoadsTyped, CountsTyped,
          Terminal, ReduceEvent, RecordCommands, NewSession, NewLoad,
          Emits, healthVars, loadVars, shortVars
<1>1. /\ generation' = generation /\ commanded' = commanded /\ issued' = issued
      /\ load_attempt' = load_attempt /\ shown' = shown
  BY DEF CommandsKnown, TypeOK
<1>2. TypeOK'
  BY <1>1 DEF TypeOK, Names, Plans, NoPlan, LateCompletion
<1>3. DeadlinesValid' /\ PlanShape' /\ PendingShape'
  BY DEF DeadlinesValid, PlanShape, PendingShape, NoPlan, SourceMechanisms
<1>4. CommandsKnown' /\ LateFrameUnseen'
  BY <1>1 DEF CommandsKnown, LateFrameUnseen, NoPlan, LateCompletion, TypeOK
<1>5. AttemptsCounted' /\ WindowCountsClean' /\ HeuristicJustified'
  BY <1>1 DEF AttemptsCounted, WindowCountsClean, HeuristicJustified, NoPlan
<1>6. QED
  BY <1>2, <1>3, <1>4, <1>5

LEMMA RetireStep ==
  ASSUME IInv, ReduceEvent, RetireLateCompletion
  PROVE  IInv'
<1> USE PolicyAssumption
      DEF IInv, TypeOK, FlagsTyped, StateTyped, LoadsTyped, CountsTyped,
          RetireLateCompletion, ReduceEvent, RecordCommands, NewSession,
          NewLoad, Emits, healthVars, deadlineVars, loadVars, pendingVars,
          shortVars
<1>1. /\ commanded' = commanded /\ issued' = issued /\ shown' = shown
  BY DEF CommandsKnown, TypeOK
<1>2. TypeOK'
  <2>1. FlagsTyped' /\ StateTyped'
    BY <1>1 DEF FlagsTyped, StateTyped
  <2>2. LoadsTyped' /\ CountsTyped'
    BY <1>1 DEF LoadsTyped, CountsTyped
  <2>3. QED
    BY <2>1, <2>2 DEF TypeOK
<1>3. DeadlinesValid' /\ PlanShape' /\ PendingShape'
  BY DEF DeadlinesValid, PlanShape, PendingShape, EpisodeActive
<1>4. CommandsKnown' /\ LateFrameUnseen'
  BY <1>1 DEF CommandsKnown, LateFrameUnseen
<1>5. AttemptsCounted' /\ WindowCountsClean' /\ HeuristicJustified'
  BY <1>1 DEF AttemptsCounted, WindowCountsClean, HeuristicJustified
<1>6. QED
  BY <1>2, <1>3, <1>4, <1>5

(* What the plans of the reducer have in common: a source plan comes with  *)
(* any evidence but a lost backend, a mandatory recreation only with one.  *)
SuitablePlan(d, p) ==
  \/ d # "BackendLost" /\ \E m \in SourceMechanisms : p = SourcePlan(m)
  \/ d = "BackendLost" /\ p = RecreationPlan("Mandatory")

LEMMA PlanFacts ==
  ASSUME NEW d \in Detections, NEW p, SuitablePlan(d, p)
  PROVE  /\ p \in Plans /\ p # NoPlan
         /\ p.mechanism \in Mechanisms /\ p.status = "Scheduled"
         /\ p.mechanism = "RecreatePlayer" <=> p.authority # "None"
         /\ p.authority = "None" => p.provenance = "None"
         /\ p.provenance # "Heuristic" /\ p.authority # "Heuristic"
         /\ p.authority = "Mandatory" <=> d = "BackendLost"
  BY DEF SuitablePlan, SourcePlan, RecreationPlan, Plans, NoPlan, Mechanisms,
         SourceMechanisms

LEMMA UpgradeAuthorityStep ==
  ASSUME IInv, ReduceEvent,
         NEW p, SuitablePlan("BackendLost", p),
         UpgradesAuthority(p), UpgradeAuthority("BackendLost")
  PROVE  IInv'
<1> USE PolicyAssumption
      DEF IInv, TypeOK, FlagsTyped, StateTyped, LoadsTyped, CountsTyped,
          UpgradesAuthority, UpgradeAuthority, ReduceEvent,
          RecordCommands, NewSession, NewLoad, Emits, healthVars,
          deadlineVars, loadVars, pendingVars, shortVars, lateVars
<1>0. /\ plan' \in Plans
      /\ plan'.mechanism = plan.mechanism /\ plan'.status = plan.status
      /\ plan'.provenance = plan.provenance /\ plan'.authority = "Mandatory"
  BY DEF TypeOK, Plans
<1>1. /\ commanded' = commanded /\ issued' = issued /\ shown' = shown
  BY DEF CommandsKnown, TypeOK
<1>2. TypeOK'
  BY <1>0, <1>1 DEF TypeOK, Detections
<1>3. DeadlinesValid' /\ PlanShape' /\ PendingShape'
  BY <1>0 DEF DeadlinesValid, PlanShape, PendingShape, EpisodeActive, NoPlan,
              SourceMechanisms
<1>4. CommandsKnown' /\ LateFrameUnseen'
  BY <1>0, <1>1 DEF CommandsKnown, LateFrameUnseen
<1>5. AttemptsCounted' /\ WindowCountsClean' /\ HeuristicJustified'
  BY <1>0, <1>1 DEF AttemptsCounted, WindowCountsClean, HeuristicJustified
<1>6. QED
  BY <1>2, <1>3, <1>4, <1>5

LEMMA ScheduleStep ==
  ASSUME IInv, ReduceEvent,
         NEW d \in Detections, NEW p, SuitablePlan(d, p),
         AdmitsRecovery(p), ~Exhausted, ScheduleRecovery(d, p),
         d = "OpenStall" => ~shown
  PROVE  IInv'
<1> USE PolicyAssumption
      DEF IInv, TypeOK, FlagsTyped, StateTyped, LoadsTyped, CountsTyped,
          ScheduleRecovery, ReduceEvent, RecordCommands, NewSession,
          NewLoad, Emits, healthVars, loadVars
<1>0. /\ plan' \in Plans /\ plan' # NoPlan
      /\ plan'.mechanism \in Mechanisms /\ plan'.status = "Scheduled"
      /\ plan'.mechanism = "RecreatePlayer" <=> plan'.authority # "None"
      /\ plan'.authority = "None" => plan'.provenance = "None"
      /\ plan'.authority = "Heuristic" => plan'.provenance = "Heuristic"
      /\ plan'.authority = "Mandatory" <=> d = "BackendLost"
      /\ plan'.provenance = "Heuristic" <=> EscalatesToRecreation(d)
  <2>1. CASE EscalatesToRecreation(d)
    <3>1. d # "BackendLost"
      BY <2>1 DEF EscalatesToRecreation, ShortReopen, ShortFaults
    <3>2. QED
      BY <2>1, <3>1 DEF RecreationPlan, Plans, NoPlan, Mechanisms
  <2>2. CASE ~EscalatesToRecreation(d)
    BY <2>2, PlanFacts
  <2>3. QED
    BY <2>1, <2>2
<1>1. /\ commanded' = commanded /\ shown' = shown /\ clean' = clean
      /\ issued' = issued
  BY DEF CommandsKnown, TypeOK
<1>2. /\ attempt \in Nat /\ retry_in' \in Nat /\ recovery_age' \in Ages
      /\ recovery_age' # Unset
  BY DelayIsNat, EpisodeAgeIsAge DEF TypeOK
<1>3. /\ pending_load_attempt' \in Nat
      /\ pending_load_intent' \in Intents \cup {"None"}
      /\ pending_load_attempt' # NoLoad =>
           /\ pending_load_attempt # NoLoad
           /\ pending_load_attempt' = pending_load_attempt + 1
           /\ pending_load_intent' = "PlayerRecreation"
           /\ d = "BackendLost"
           /\ name = "Recovering"
  <2>1. CASE UpgradesPending(p)
    <3>1. d = "BackendLost"
      BY <2>1 DEF UpgradesPending, SuitablePlan, SourcePlan, SourceMechanisms
    <3>2. name = "Recovering"
      BY <2>1 DEF UpgradesPending
    <3>3. CASE pending_load_attempt # NoLoad
      BY <2>1, <3>1, <3>2, <3>3 DEF FencePending, TypeOK, Intents
    <3>4. CASE pending_load_attempt = NoLoad
      BY <2>1, <3>4 DEF FencePending, TypeOK, pendingVars
    <3>5. QED
      BY <3>3, <3>4
  <2>2. CASE ~UpgradesPending(p)
    <3>1. pending_load_attempt = NoLoad
      BY <2>2 DEF AdmitsRecovery, PendingShape
    <3>2. QED
      BY <2>2, <3>1 DEF FencePending, TypeOK, pendingVars
  <2>3. QED
    BY <2>1, <2>2
<1>4. TypeOK'
  <2>1. FlagsTyped'
    BY <1>1 DEF FlagsTyped
  <2>2. StateTyped'
    BY <1>2 DEF StateTyped, Names
  <2>3. LoadsTyped'
    BY <1>0, <1>2, <1>3 DEF LoadsTyped
  <2>4. CountsTyped'
    BY <1>1 DEF CountsTyped
  <2>5. QED
    BY <2>1, <2>2, <2>3, <2>4 DEF TypeOK
<1>5. DeadlinesValid' /\ PlanShape'
  BY <1>0, <1>2 DEF DeadlinesValid, PlanShape, EpisodeActive, SourceMechanisms
<1>6. PendingShape'
  BY <1>0, <1>2, <1>3 DEF PendingShape, TypeOK
<1>7. CommandsKnown'
  <2>1. CASE pending_load_attempt' = NoLoad
    <3>1. pending_load_attempt = NoLoad
      BY <2>1 DEF FencePending, pendingVars, TypeOK
    <3>2. commanded = load_attempt
      BY <3>1 DEF AdmitsRecovery, UpgradesPending, CommandsKnown, PendingShape,
                  PlanShape, TypeOK, Plans
    <3>3. QED
      BY <1>0, <1>1, <2>1, <3>2 DEF CommandsKnown
  <2>2. CASE pending_load_attempt' # NoLoad
    <3>1. commanded <= pending_load_attempt
      BY <1>3, <2>2 DEF CommandsKnown, TypeOK, PlanShape, Plans
    <3>2. QED
      BY <1>0, <1>1, <1>3, <2>2, <3>1 DEF CommandsKnown, TypeOK
  <2>3. QED
    BY <2>1, <2>2
<1>8. LateFrameUnseen'
  BY <1>1 DEF LateFrameUnseen
<1>9. AttemptsCounted'
  BY <1>1, <1>2 DEF AttemptsCounted, Exhausted, TypeOK, MaxAttempts
<1>10. WindowCountsClean' /\ HeuristicJustified'
  BY <1>0, <1>1 DEF WindowCountsClean, HeuristicJustified,
                    EscalatesToRecreation, TypeOK
<1>11. QED
  BY <1>4, <1>5, <1>6, <1>7, <1>8, <1>9, <1>10

LEMMA RecoverStep ==
  ASSUME IInv, ReduceEvent,
         NEW d \in Detections, NEW p, SuitablePlan(d, p), Recover(d, p),
         d = "OpenStall" => ~shown
  PROVE  IInv'
<1>1. CASE UpgradesAuthority(p) /\ UpgradeAuthority(d)
  <2>1. d = "BackendLost"
    BY <1>1 DEF UpgradesAuthority, SuitablePlan, SourcePlan
  <2>2. QED
    BY <1>1, <2>1, UpgradeAuthorityStep
<1>2. ASSUME AdmitsRecovery(p), NEW f \in Failures, Terminal(d, f, EpisodeAge)
      PROVE  IInv'
  <2>1. name \notin {"Idle", "Failed"}
    BY <1>2 DEF AdmitsRecovery, UpgradesPending
  <2>2. EpisodeAge \in Ages
    BY EpisodeAgeIsAge DEF IInv, TypeOK, LoadsTyped
  <2>3. LateCompletion(d, f) => commanded = load_attempt /\ ~shown
    <3>1. SUFFICES ASSUME LateCompletion(d, f)
                   PROVE  commanded = load_attempt /\ ~shown
      OBVIOUS
    <3>2. d = "OpenStall"
      BY <3>1 DEF LateCompletion
    <3>3. p.mechanism \in SourceMechanisms
      BY <3>2 DEF SuitablePlan, SourcePlan
    <3>4. name \in {"Loading", "Zap", "Steady"}
      BY <1>2, <3>3 DEF AdmitsRecovery, UpgradesPending, SourceMechanisms
    <3>5. QED
      BY <3>2, <3>4 DEF IInv, CommandsKnown
  <2>4. QED
    BY <1>2, <2>1, <2>2, <2>3, TerminalStep
<1>3. CASE AdmitsRecovery(p) /\ ~Exhausted /\ ScheduleRecovery(d, p)
  BY <1>3, ScheduleStep
<1>4. QED
  BY <1>1, <1>2, <1>3 DEF Recover, Failures

LEMMA BackendLostStep ==
  ASSUME IInv, ReduceEvent, BackendLost
  PROVE  IInv'
<1>1. SuitablePlan("BackendLost", RecreationPlan("Mandatory"))
  BY DEF SuitablePlan
<1>2. QED
  BY <1>1, RetireStep, RecoverStep DEF BackendLost, Detections

LEMMA SourcePlanSuitable ==
  ASSUME NEW d, d # "BackendLost"
  PROVE  /\ SuitablePlan(d, SourcePlan(ReopenAction))
         /\ SuitablePlan(d, SourcePlan("ReopenStream"))
         /\ SuitablePlan(d, SourcePlan("ReopenProbed"))
<1>1. ReopenAction \in SourceMechanisms
  BY DEF ReopenAction, SourceMechanisms
<1>2. QED
  BY <1>1 DEF SuitablePlan, SourceMechanisms

LEMMA FaultStep == ASSUME IInv, Fault \/ OpenStall \/ LoseDevice PROVE IInv'
<1>1. ASSUME ReduceEvent, NEW g, PresentationLost(g) PROVE IInv'
  BY <1>1, BackendLostStep DEF PresentationLost
<1>2. ASSUME ReduceEvent, NEW g, NEW l, BackendUnresponsive(g, l) PROVE IInv'
  BY <1>2, BackendLostStep DEF BackendUnresponsive
<1>3. ASSUME ReduceEvent, ~shown, NEW g, NEW l, OpenStalled(g, l) PROVE IInv'
  BY <1>3, SourcePlanSuitable, RecoverStep DEF OpenStalled, Detections
<1>4. ASSUME ReduceEvent, NEW g, NEW l, PlaybackStalled(g, l) PROVE IInv'
  BY <1>4, SourcePlanSuitable, RecoverStep DEF PlaybackStalled, Detections
<1>5. ASSUME ReduceEvent, NEW g, NEW l, TimelineRegressed(g, l) PROVE IInv'
  BY <1>5, SourcePlanSuitable, RecoverStep DEF TimelineRegressed, Detections
<1>6. ASSUME ReduceEvent, NEW g, NEW l, NEW kind, StreamEnded(g, l, kind)
      PROVE  IInv'
  <2> DEFINE d == IF kind = "Unclassified" THEN "StreamEnd"
                  ELSE "TransportFailure"
             p == SourcePlan(IF kind = "FormatProbeRequired"
                             THEN "ReopenProbed" ELSE ReopenAction)
  <2>1. d \in Detections /\ d # "BackendLost" /\ d # "OpenStall"
    BY DEF Detections
  <2>2. SuitablePlan(d, p)
    BY <2>1, SourcePlanSuitable
  <2>3. CASE RetireLateCompletion
    BY <1>6, <2>3, RetireStep
  <2>4. CASE Recover(d, p)
    <3> HIDE DEF d, p
    <3>1. QED
      BY <1>6, <2>1, <2>2, <2>4, RecoverStep
  <2>5. QED
    BY <1>6, <2>3, <2>4 DEF StreamEnded
<1>7. QED
  BY <1>1, <1>2, <1>3, <1>4, <1>5, <1>6 DEF Fault, OpenStall, LoseDevice

LEMMA RejectStep == ASSUME IInv, Reject PROVE IInv'
<1>1. ASSUME ReduceEvent, name \notin {"Idle", "Failed"},
             NEW f \in {"AuthRejected", "SourceUnavailable"},
             Terminal(detection, f, recovery_age)
      PROVE  IInv'
  <2>1. ~LateCompletion(detection, f)
    BY <1>1 DEF LateCompletion
  <2>2. detection \in Detections \cup {"None"} /\ recovery_age \in Ages
    BY DEF IInv, TypeOK, StateTyped, LoadsTyped
  <2>3. f \in Failures
    BY DEF Failures
  <2>4. QED
    BY <1>1, <2>1, <2>2, <2>3, TerminalStep
<1>2. ASSUME ReduceEvent, NEW g, NEW l, AuthRejected(g, l) PROVE IInv'
  BY <1>1, <1>2, RetireStep DEF AuthRejected
<1>3. ASSUME ReduceEvent, NEW g, NEW l, SourceFailed(g, l) PROVE IInv'
  BY <1>1, <1>3, RetireStep DEF SourceFailed
<1>4. QED
  BY <1>2, <1>3 DEF Reject

(* A request or a stop starts over from the initial state.                 *)
LEMMA SessionStep == ASSUME IInv, Request \/ Stop PROVE IInv'
<1>1. PICK g \in Generations, n \in {"Idle", "Loading"} :
        /\ InitialState(g, n) /\ ReduceEvent
        /\ g # generation \/ n = "Idle"
  BY DEF Request, Stop, ChannelRequested, PlaybackStopped, IInv, TypeOK,
         StateTyped, Generations
<1> USE PolicyAssumption DEF InitialState, ReduceEvent, RecordCommands,
        NewSession, Emits
<1>2. /\ commanded' = NoLoad /\ issued' = 0 /\ shown' = FALSE
      /\ clean' = clean
  BY <1>1
<1>3. TypeOK'
  <2>1. FlagsTyped'
    BY <1>1, <1>2 DEF FlagsTyped
  <2>2. StateTyped'
    BY <1>1 DEF StateTyped, Names
  <2>3. plan' \in Plans
    BY <1>1 DEF Plans, NoPlan
  <2>4. LoadsTyped'
    BY <1>1, <2>3 DEF LoadsTyped, Intents, Ages
  <2>5. CountsTyped'
    BY <1>1, <1>2 DEF CountsTyped, IInv, TypeOK
  <2>6. QED
    BY <2>1, <2>2, <2>4, <2>5 DEF TypeOK
<1>4. DeadlinesValid' /\ PlanShape' /\ PendingShape'
  BY <1>1 DEF DeadlinesValid, PlanShape, PendingShape, NoPlan, SourceMechanisms
<1>5. CommandsKnown' /\ LateFrameUnseen'
  BY <1>1, <1>2 DEF CommandsKnown, LateFrameUnseen, NoPlan
<1>6. AttemptsCounted' /\ WindowCountsClean' /\ HeuristicJustified'
  BY <1>1, <1>2 DEF AttemptsCounted, WindowCountsClean, HeuristicJustified,
                    NoPlan, MaxAttempts
<1>7. QED
  BY <1>3, <1>4, <1>5, <1>6 DEF IInv

LEMMA PassTimeStep == ASSUME IInv, PassTime PROVE IInv'
<1> USE PolicyAssumption
      DEF IInv, TypeOK, FlagsTyped, StateTyped, LoadsTyped, CountsTyped,
          RecordCommands, NewSession, NewLoad, Emits, healthVars,
          deadlineVars, loadVars, pendingVars, shortVars, lateVars,
          PassTime, Tick
<1>1. /\ commanded' = commanded /\ issued' = issued /\ shown' = shown
      /\ clean' \in 0 .. SteadyWindow
      /\ retry_in' \in Nat \cup {Unset} /\ steady_in' \in Nat \cup {Unset}
      /\ retry_in' = Unset <=> retry_in = Unset
      /\ steady_in' = Unset <=> steady_in = Unset
      /\ recovery_age' \in Ages
      /\ recovery_age' = Unset <=> recovery_age = Unset
  <2>1. commanded' = commanded /\ issued' = issued /\ shown' = shown
    BY DEF CommandsKnown, WindowCountsClean, AttemptsCounted
  <2>2. clean' \in 0 .. SteadyWindow
    BY DEF Dirty
  <2>3. /\ retry_in' \in Nat \cup {Unset} /\ steady_in' \in Nat \cup {Unset}
        /\ retry_in' = Unset <=> retry_in = Unset
        /\ steady_in' = Unset <=> steady_in = Unset
    BY DEF Countdown
  <2>4. /\ recovery_age' \in Ages
        /\ recovery_age' = Unset <=> recovery_age = Unset
    BY DEF Aged, Ages
  <2>5. QED
    BY <2>1, <2>2, <2>3, <2>4
<1>2. TypeOK'
  <2>1. FlagsTyped'
    BY <1>1 DEF FlagsTyped
  <2>2. StateTyped'
    BY <1>1 DEF StateTyped, Names
  <2>3. LoadsTyped'
    BY <1>1 DEF LoadsTyped, Intents
  <2>4. CountsTyped'
    BY <1>1 DEF CountsTyped
  <2>5. QED
    BY <2>1, <2>2, <2>3, <2>4 DEF TypeOK
<1>3. DeadlinesValid' /\ PlanShape' /\ PendingShape'
  BY <1>1 DEF DeadlinesValid, PlanShape, PendingShape, EpisodeActive
<1>4. CommandsKnown' /\ LateFrameUnseen'
  BY <1>1 DEF CommandsKnown, LateFrameUnseen
<1>5. AttemptsCounted' /\ HeuristicJustified'
  BY <1>1 DEF AttemptsCounted, HeuristicJustified
<1>6. WindowCountsClean'
  <2>1. name = "Zap" => (first_frame' <=> steady_in' # Unset)
    BY <1>1 DEF WindowCountsClean
  <2>2. ASSUME steady_in' # Unset, ~cache_paused, ~playback_unhealthy
        PROVE  clean' + steady_in' >= SteadyWindow
    <3>1. steady_in \in Nat /\ name = "Zap" /\ first_frame
      BY <1>1, <2>2 DEF DeadlinesValid, WindowCountsClean
    <3>2. clean + steady_in >= SteadyWindow
      BY <2>2, <3>1 DEF WindowCountsClean
    <3>3. clean' = IF clean < SteadyWindow THEN clean + 1 ELSE clean
      BY <2>2, <3>1 DEF Dirty
    <3>4. QED
      BY <3>1, <3>2, <3>3 DEF Countdown
  <2>3. QED
    BY <2>1, <2>2 DEF WindowCountsClean
<1>7. QED
  BY <1>2, <1>3, <1>4, <1>5, <1>6

LEMMA HoldStep == ASSUME IInv, HoldSteadyWindow, ReduceEvent PROVE IInv'
<1> USE PolicyAssumption
      DEF IInv, TypeOK, FlagsTyped, StateTyped, LoadsTyped, CountsTyped,
          RecordCommands, NewSession, NewLoad, Emits, healthVars,
          deadlineVars, loadVars, pendingVars, shortVars, lateVars,
          ReduceEvent, HoldSteadyWindow, SteadyDue
<1>1. commanded' = commanded /\ issued' = issued /\ shown' = shown
  BY DEF CommandsKnown
<1>2. TypeOK'
  <2>1. FlagsTyped'
    BY <1>1 DEF FlagsTyped
  <2>2. StateTyped'
    BY <1>1 DEF StateTyped, Names
  <2>3. LoadsTyped'
    BY <1>1 DEF LoadsTyped, Intents
  <2>4. CountsTyped'
    BY <1>1 DEF CountsTyped
  <2>5. QED
    BY <2>1, <2>2, <2>3, <2>4 DEF TypeOK
<1>3. DeadlinesValid' /\ PlanShape' /\ PendingShape'
  BY DEF DeadlinesValid, PlanShape, PendingShape, EpisodeActive, SteadyDue
<1>4. CommandsKnown' /\ LateFrameUnseen'
  BY <1>1 DEF CommandsKnown, LateFrameUnseen
<1>5. AttemptsCounted' /\ WindowCountsClean' /\ HeuristicJustified'
  BY <1>1 DEF AttemptsCounted, WindowCountsClean, HeuristicJustified, SteadyDue
<1>6. QED
  BY <1>2, <1>3, <1>4, <1>5

LEMMA ConfirmStep == ASSUME IInv, ConfirmSteady, ReduceEvent PROVE IInv'
<1> USE PolicyAssumption
      DEF IInv, TypeOK, FlagsTyped, StateTyped, LoadsTyped, CountsTyped,
          RecordCommands, NewSession, NewLoad, Emits, healthVars,
          deadlineVars, loadVars, pendingVars, shortVars, lateVars,
          ReduceEvent, ConfirmSteady, SteadyDue
<1>1. /\ commanded' = commanded /\ issued' = 0 /\ shown' = shown
      /\ plan' \in Plans /\ plan' = NoPlan /\ plan'.status = "None"
      /\ recovery_age' \in Ages
  <2>1. commanded' = commanded /\ issued' = 0 /\ shown' = shown
    BY DEF CommandsKnown
  <2>2. plan' \in Plans /\ plan'.status = "None" /\ recovery_age' \in Ages
    BY DEF Plans, NoPlan, Ages
  <2>3. QED
    BY <2>1, <2>2
<1>2. TypeOK'
  <2>1. FlagsTyped'
    BY <1>1 DEF FlagsTyped
  <2>2. StateTyped'
    BY <1>1 DEF StateTyped, Names
  <2>3. LoadsTyped'
    BY <1>1 DEF LoadsTyped, Intents
  <2>4. CountsTyped'
    BY <1>1 DEF CountsTyped
  <2>5. QED
    BY <2>1, <2>2, <2>3, <2>4 DEF TypeOK
<1>3. DeadlinesValid' /\ PlanShape' /\ PendingShape'
  BY DEF DeadlinesValid, PlanShape, PendingShape, NoPlan, SourceMechanisms
<1>4. CommandsKnown' /\ LateFrameUnseen'
  BY <1>1 DEF CommandsKnown, LateFrameUnseen
<1>5. AttemptsCounted' /\ WindowCountsClean' /\ HeuristicJustified'
  BY <1>1 DEF AttemptsCounted, WindowCountsClean, HeuristicJustified,
              MaxAttempts
<1>6. QED
  BY <1>2, <1>3, <1>4, <1>5

LEMMA IssueStep == ASSUME IInv, IssueRecovery, ReduceEvent PROVE IInv'
<1> USE PolicyAssumption
      DEF IInv, TypeOK, FlagsTyped, StateTyped, LoadsTyped, CountsTyped,
          RecordCommands, NewSession, NewLoad, Emits, healthVars,
          deadlineVars, loadVars, pendingVars, shortVars, lateVars,
          ReduceEvent, IssueRecovery, ServeRetry, RetryDue
<1>1. /\ RetryLoad \in Nat /\ RetryLoad > load_attempt /\ RetryLoad > commanded
      /\ plan.status = "Scheduled"
  BY DEF RetryLoad, PendingShape, CommandsKnown, PlanShape, Plans
<1>2. /\ plan' \in Plans /\ plan'.mechanism = plan.mechanism
      /\ plan'.status = "Issued" /\ plan' # NoPlan
      /\ plan'.provenance = plan.provenance
      /\ plan'.authority = plan.authority
  BY DEF Plans, NoPlan
<1>3. /\ commanded' = RetryLoad /\ issued' = issued + 1 /\ shown' = shown
      /\ load_attempt' = load_attempt
  <2>1. effects' # <<>> /\ effects'[1].load_attempt = RetryLoad
    OBVIOUS
  <2>2. QED
    BY <2>1
<1>4. TypeOK'
  <2>1. FlagsTyped'
    BY <1>3 DEF FlagsTyped
  <2>2. StateTyped'
    BY DEF StateTyped
  <2>3. LoadsTyped'
    BY <1>1, <1>2 DEF LoadsTyped, Intents
  <2>4. CountsTyped'
    BY <1>1, <1>3 DEF CountsTyped
  <2>5. QED
    BY <2>1, <2>2, <2>3, <2>4 DEF TypeOK
<1>5. DeadlinesValid' /\ PlanShape'
  BY <1>1, <1>2 DEF DeadlinesValid, PlanShape, EpisodeActive, SourceMechanisms
<1>6. PendingShape'
  BY <1>1, <1>2 DEF PendingShape
<1>7. CommandsKnown' /\ LateFrameUnseen'
  BY <1>1, <1>2, <1>3 DEF CommandsKnown, LateFrameUnseen
<1>8. AttemptsCounted' /\ WindowCountsClean' /\ HeuristicJustified'
  BY <1>1, <1>2, <1>3 DEF AttemptsCounted, WindowCountsClean, HeuristicJustified
<1>9. QED
  BY <1>4, <1>5, <1>6, <1>7, <1>8

LEMMA ExpireStep == ASSUME IInv, ExpireRecovery, ReduceEvent PROVE IInv'
<1>1. /\ detection \in Detections \cup {"None"} /\ recovery_age \in Ages
      /\ name = "Recovering" /\ plan.status = "Scheduled"
  BY DEF ExpireRecovery, RetryDue, IInv, TypeOK, StateTyped, LoadsTyped,
         PlanShape, PendingShape, Plans
<1>2. LateCompletion(detection, "BudgetExpired") =>
        commanded = load_attempt /\ ~shown
  BY <1>1 DEF LateCompletion, IInv, CommandsKnown, LateFrameUnseen,
              PendingShape, PlanShape
<1>3. QED
  BY <1>1, <1>2, TerminalStep DEF ExpireRecovery, Failures

LEMMA PollStep == ASSUME IInv, Poll PROVE IInv'
  BY HoldStep, ConfirmStep, IssueStep, ExpireStep DEF Poll, DeadlineReached

LEMMA FrameStep == ASSUME IInv, FrameReported PROVE IInv'
<1> USE PolicyAssumption
      DEF IInv, TypeOK, FlagsTyped, StateTyped, LoadsTyped, CountsTyped,
          RecordCommands, NewSession, NewLoad, Emits, healthVars,
          deadlineVars, loadVars, pendingVars, shortVars, lateVars,
          FrameReported, stateVars
<1>1. CASE FirstFrame(generation, load_attempt)
  <2> USE <1>1 DEF FirstFrame
  <2>1. /\ commanded' = commanded /\ issued' = issued
        /\ plan' \in Plans /\ plan' = NoPlan /\ plan'.status = "None"
    <3>1. commanded' = commanded /\ issued' = issued
      BY DEF CommandsKnown
    <3>2. plan' \in Plans /\ plan'.status = "None"
      BY DEF Plans, NoPlan
    <3>3. QED
      BY <3>1, <3>2
  <2>2. commanded = load_attempt /\ issued <= attempt
    BY DEF AcceptsFrame, NormalFirstFrame, CancelsOpeningRetry,
           CancelsHeuristicRecreation, RevivesFailedLoad, ScheduledUnissued,
           CommandsKnown, AttemptsCounted
  <2>3. TypeOK'
    <3>1. FlagsTyped'
      <4>1. late_probation' \in BOOLEAN
        BY DEF RevivesFailedLoad
      <4>2. QED
        BY <4>1 DEF FlagsTyped
    <3>2. StateTyped'
      BY DEF StateTyped, Names
    <3>3. LoadsTyped'
      BY <2>1 DEF LoadsTyped
    <3>4. CountsTyped'
      BY <2>1 DEF CountsTyped
    <3>5. QED
      BY <3>1, <3>2, <3>3, <3>4 DEF TypeOK
  <2>4. DeadlinesValid' /\ PlanShape' /\ PendingShape'
    BY DEF DeadlinesValid, PlanShape, PendingShape, NoPlan, SourceMechanisms
  <2>5. CommandsKnown' /\ LateFrameUnseen'
    BY <2>1, <2>2 DEF CommandsKnown, LateFrameUnseen
  <2>6. AttemptsCounted' /\ WindowCountsClean' /\ HeuristicJustified'
    BY <2>1, <2>2 DEF AttemptsCounted, WindowCountsClean, HeuristicJustified
  <2>7. QED
    BY <2>3, <2>4, <2>5, <2>6
<1>2. CASE ~AcceptsFrame /\ Ignored
  <2> USE <1>2 DEF Ignored
  <2>1. /\ commanded' = commanded /\ issued' = issued /\ shown' = TRUE
    BY DEF CommandsKnown, AttemptsCounted
  <2>2. TypeOK'
    <3>1. FlagsTyped'
      BY <2>1 DEF FlagsTyped
    <3>2. StateTyped'
      BY DEF StateTyped
    <3>3. LoadsTyped'
      BY DEF LoadsTyped
    <3>4. CountsTyped'
      BY <2>1 DEF CountsTyped
    <3>5. QED
      BY <3>1, <3>2, <3>3, <3>4 DEF TypeOK
  <2>3. DeadlinesValid' /\ PlanShape' /\ PendingShape'
    BY DEF DeadlinesValid, PlanShape, PendingShape, EpisodeActive
  <2>4. CommandsKnown'
    BY <2>1 DEF CommandsKnown
  <2>5. LateFrameUnseen'
    <3>1. ~late_available
      BY DEF AcceptsFrame, RevivesFailedLoad, LateFrameUnseen
    <3>2. ~(/\ name = "Recovering" /\ plan.status = "Scheduled"
            /\ detection = "OpenStall")
      <4>1. SUFFICES ASSUME name = "Recovering", plan.status = "Scheduled",
                            detection = "OpenStall"
                     PROVE  AcceptsFrame
        OBVIOUS
      <4>2. ScheduledUnissued /\ plan.authority # "Mandatory"
        BY <4>1 DEF ScheduledUnissued, PendingShape, PlanShape
      <4>3. \/ plan.mechanism \in SourceMechanisms
            \/ plan.mechanism = "RecreatePlayer" /\ plan.authority = "Heuristic"
        BY <4>1, <4>2 DEF PlanShape, DeadlinesValid, Plans, Mechanisms
      <4>4. QED
        BY <4>1, <4>2, <4>3 DEF AcceptsFrame, CancelsOpeningRetry,
                                CancelsHeuristicRecreation
    <3>3. QED
      BY <3>1, <3>2 DEF LateFrameUnseen
  <2>6. AttemptsCounted' /\ WindowCountsClean' /\ HeuristicJustified'
    BY <2>1 DEF AttemptsCounted, WindowCountsClean, HeuristicJustified
  <2>7. QED
    BY <2>2, <2>3, <2>4, <2>5, <2>6
<1>3. QED
  BY <1>1, <1>2

LEMMA ObserveStep == ASSUME IInv, Observe PROVE IInv'
<1>1. PICK g \in Generations, l \in LoadAttempts, b \in BOOLEAN :
        (CacheState(g, l, b) \/ PlaybackHealthObserved(g, l, b)) /\ ReduceEvent
  BY DEF Observe
<1>2. name # "Idle"
  <2>1. load_attempt = l
    BY <1>1 DEF CacheState, PlaybackHealthObserved, Current
  <2>2. load_attempt # NoLoad
    BY <2>1, PolicyAssumption DEF LoadAttempts
  <2>3. QED
    BY <2>2 DEF IInv, CommandsKnown
<1> USE PolicyAssumption
      DEF IInv, TypeOK, FlagsTyped, StateTyped, LoadsTyped, CountsTyped,
          RecordCommands, NewSession, NewLoad, Emits, healthVars,
          deadlineVars, loadVars, pendingVars, shortVars, lateVars,
          ReduceEvent
<1>3. /\ cache_paused' \in BOOLEAN /\ playback_unhealthy' \in BOOLEAN
      /\ steady_in' = steady_in \/ steady_in' = SteadyWindow
      /\ steady_in' = Unset <=> steady_in = Unset
      /\ UNCHANGED <<name, generation, attempt, retry_in, detection, failure,
                     first_frame, load_attempt, load_intent, load_commanded,
                     transport, pendingVars, plan, recovery_age, shortVars,
                     lateVars>>
      /\ ~cache_paused' /\ ~playback_unhealthy' =>
           \/ steady_in' = SteadyWindow \/ steady_in' = Unset
           \/ ~cache_paused /\ ~playback_unhealthy /\ steady_in' = steady_in
      /\ effects' = <<>>
  BY <1>1 DEF CacheState, PlaybackHealthObserved, RestartedWindow,
              DeadlinesValid
<1>4. /\ commanded' = commanded /\ issued' = issued /\ shown' = shown
      /\ clean' = clean
  BY <1>1, <1>2, <1>3 DEF CommandsKnown, AttemptsCounted
<1>5. TypeOK'
  <2>1. FlagsTyped'
    BY <1>3, <1>4 DEF FlagsTyped
  <2>2. StateTyped'
    BY <1>3 DEF StateTyped
  <2>3. LoadsTyped'
    BY <1>3 DEF LoadsTyped
  <2>4. CountsTyped'
    BY <1>3, <1>4 DEF CountsTyped
  <2>5. QED
    BY <2>1, <2>2, <2>3, <2>4 DEF TypeOK
<1>6. DeadlinesValid' /\ PlanShape' /\ PendingShape'
  BY <1>3 DEF DeadlinesValid, PlanShape, PendingShape, EpisodeActive
<1>7. CommandsKnown' /\ LateFrameUnseen'
  BY <1>3, <1>4 DEF CommandsKnown, LateFrameUnseen
<1>8. AttemptsCounted' /\ HeuristicJustified'
  BY <1>3, <1>4 DEF AttemptsCounted, HeuristicJustified
<1>9. WindowCountsClean'
  BY <1>3, <1>4 DEF WindowCountsClean
<1>10. QED
  BY <1>5, <1>6, <1>7, <1>8, <1>9

LEMMA LoadIssuedStep == ASSUME IInv, LoadIssued PROVE IInv'
<1>1. PICK g \in Generations, l \in LoadAttempts, i \in Intents, t \in Transports :
        /\ name = "Loading" \/ l <= commanded
        /\ StreamLoadIssued(g, l, i, t)
        /\ ReduceEvent
  BY DEF LoadIssued
<1> USE PolicyAssumption
      DEF IInv, TypeOK, FlagsTyped, StateTyped, LoadsTyped, CountsTyped,
          RecordCommands, NewSession, NewLoad, Emits, healthVars,
          deadlineVars, loadVars, pendingVars, shortVars, lateVars,
          ReduceEvent
<1>2. /\ l \in Nat /\ l > load_attempt /\ l >= commanded
      /\ plan.status # "Scheduled"
  <2>1. CASE FreshLoad(l, i)
    BY <2>1 DEF FreshLoad, LoadAttempts, CommandsKnown, PlanShape, NoPlan
  <2>2. CASE RecoveryLoad(l, i)
    BY <1>1, <2>2 DEF RecoveryLoad, CommandsKnown, PendingShape, PlanShape,
                      Plans
  <2>3. QED
    BY <1>1, <2>1, <2>2 DEF StreamLoadIssued
<1>3. /\ commanded' = l /\ issued' = issued /\ shown' = FALSE
      /\ clean' = clean /\ load_attempt' = l
  <2>1. ~NewSession /\ ~Emits /\ NewLoad /\ load_attempt' = l
    BY <1>1, <1>2 DEF StreamLoadIssued
  <2>2. commanded' = l /\ issued' = issued
    <3>1. name' = "Zap"
      BY <1>1 DEF StreamLoadIssued
    <3>2. QED
      BY <1>1, <1>2, <2>1, <3>1
  <2>3. shown' = FALSE /\ clean' = clean
    BY <1>1, <2>1
  <2>4. QED
    BY <2>1, <2>2, <2>3
<1> USE <1>1 DEF StreamLoadIssued
<1>4. TypeOK'
  <2>1. FlagsTyped'
    BY <1>3 DEF FlagsTyped
  <2>2. StateTyped'
    BY DEF StateTyped, Names
  <2>3. LoadsTyped'
    BY <1>2, <1>3 DEF LoadsTyped
  <2>4. CountsTyped'
    BY <1>2, <1>3 DEF CountsTyped
  <2>5. QED
    BY <2>1, <2>2, <2>3, <2>4 DEF TypeOK
<1>5. DeadlinesValid' /\ PlanShape' /\ PendingShape'
  BY <1>2 DEF DeadlinesValid, PlanShape, PendingShape, EpisodeActive
<1>6. CommandsKnown' /\ LateFrameUnseen'
  BY <1>2, <1>3 DEF CommandsKnown, LateFrameUnseen
<1>7. AttemptsCounted' /\ WindowCountsClean' /\ HeuristicJustified'
  BY <1>2, <1>3 DEF AttemptsCounted, WindowCountsClean, HeuristicJustified
<1>8. QED
  BY <1>4, <1>5, <1>6, <1>7

LEMMA StutterStep == ASSUME IInv, UNCHANGED vars PROVE IInv'
  BY DEF IInv, vars, supVars, stateVars, histVars, healthVars, deadlineVars,
         loadVars, pendingVars, shortVars, lateVars, TypeOK, FlagsTyped,
         StateTyped, LoadsTyped, CountsTyped, DeadlinesValid, PlanShape,
         PendingShape, CommandsKnown, LateFrameUnseen, AttemptsCounted,
         WindowCountsClean, HeuristicJustified, EpisodeActive

(* IInv is an inductive invariant of the reducer and its environment.      *)
LEMMA InductiveStep == IInv /\ [Next]_vars => IInv'
  BY PassTimeStep, PollStep, FrameStep, SessionStep, FaultStep, ObserveStep,
     RejectStep, LoadIssuedStep, StutterStep DEF Next

THEOREM InductiveInvariant == Safety => []IInv
  BY InitIInv, InductiveStep, PTL DEF Safety

-----------------------------------------------------------------------------
(* The theorems.                                                           *)

(* The supervisor's state always has the types of SupervisorState.         *)
THEOREM TypeCorrect == Safety => []TypeOK
<1>1. IInv => TypeOK
  BY DEF IInv
<1>2. QED
  BY <1>1, InductiveInvariant, PTL

(* The assertion the reducer makes around every reduction never fails.     *)
THEOREM DeadlinesAlwaysValid == Safety => []DeadlinesValid
<1>1. IInv => DeadlinesValid
  BY DEF IInv
<1>2. QED
  BY <1>1, InductiveInvariant, PTL

(* A recovery always has an armed retry or a named outstanding command.    *)
THEOREM NeverStranded == Safety => []RecoveryNeverStrands
<1>1. IInv => RecoveryNeverStrands
  BY DEF IInv, RecoveryNeverStrands, TypeOK, LoadsTyped, PlanShape,
         PendingShape, Plans
<1>2. QED
  BY <1>1, InductiveInvariant, PTL

(* No episode emits more commands than the policy has attempts.            *)
THEOREM AttemptsAlwaysBounded == Safety => []AttemptsBounded
<1>1. IInv => AttemptsBounded
  BY PolicyAssumption DEF IInv, AttemptsBounded, AttemptsCounted, TypeOK,
     StateTyped, CountsTyped, MaxAttempts
<1>2. QED
  BY <1>1, InductiveInvariant, PTL

(* Only a served retry emits an effect.                                    *)
LEMMA OnlyIssueEmits ==
  ASSUME Next, Emits
  PROVE  IssueRecovery /\ ReduceEvent
<1>1. ASSUME NEW d, NEW f, NEW age, Terminal(d, f, age) PROVE effects' = <<>>
  BY <1>1 DEF Terminal
<1>2. ASSUME NEW d, NEW p, Recover(d, p) PROVE effects' = <<>>
  BY <1>1, <1>2 DEF Recover, UpgradeAuthority, ScheduleRecovery
<1>3. ASSUME RetireLateCompletion PROVE effects' = <<>>
  BY <1>3 DEF RetireLateCompletion
<1>4. PassTime => effects' = <<>>
  BY DEF PassTime, Tick
<1>5. Poll => effects' = <<>> \/ (IssueRecovery /\ ReduceEvent)
  BY <1>1 DEF Poll, DeadlineReached, HoldSteadyWindow, ConfirmSteady,
              ExpireRecovery
<1>6. FrameReported => effects' = <<>>
  BY DEF FrameReported, FirstFrame, Ignored
<1>7. Request \/ Stop => effects' = <<>>
  BY DEF Request, Stop, ChannelRequested, PlaybackStopped, InitialState
<1>8. Observe => effects' = <<>>
  BY DEF Observe, CacheState, PlaybackHealthObserved
<1>9. LoseDevice => effects' = <<>>
  BY <1>2, <1>3 DEF LoseDevice, PresentationLost, BackendLost
<1>10. OpenStall => effects' = <<>>
  BY <1>2 DEF OpenStall, OpenStalled
<1>11. Fault => effects' = <<>>
  <2>1. ASSUME NEW g, NEW l, PlaybackStalled(g, l) PROVE effects' = <<>>
    BY <1>2, <2>1 DEF PlaybackStalled
  <2>2. ASSUME NEW g, NEW l, TimelineRegressed(g, l) PROVE effects' = <<>>
    BY <1>2, <2>2 DEF TimelineRegressed
  <2>3. ASSUME NEW g, NEW l, BackendUnresponsive(g, l) PROVE effects' = <<>>
    BY <1>2, <1>3, <2>3 DEF BackendUnresponsive, BackendLost
  <2>4. ASSUME NEW g, NEW l, NEW k, StreamEnded(g, l, k) PROVE effects' = <<>>
    BY <1>2, <1>3, <2>4 DEF StreamEnded
  <2>5. QED
    BY <2>1, <2>2, <2>3, <2>4 DEF Fault
<1>12. Reject => effects' = <<>>
  BY <1>1, <1>3 DEF Reject, AuthRejected, SourceFailed
<1>13. LoadIssued => effects' = <<>>
  BY DEF LoadIssued, StreamLoadIssued
<1>14. QED
  BY <1>4, <1>5, <1>6, <1>7, <1>8, <1>9, <1>10, <1>11, <1>12, <1>13
     DEF Next, Emits

LEMMA EmissionFacts ==
  ASSUME IInv, Next, Emits
  PROVE  /\ effects'[1].load_attempt = RetryLoad
         /\ RetryLoad > commanded
         /\ name = "Recovering" /\ plan.status = "Scheduled"
         /\ recovery_age \in 0 .. AdmissionBudget
<1>1. IssueRecovery
  BY OnlyIssueEmits
<1>2. /\ name = "Recovering" /\ plan.status = "Scheduled"
      /\ recovery_age # Unset /\ recovery_age \in Ages
  BY <1>1 DEF IssueRecovery, RetryDue, IInv, PendingShape, PlanShape,
              EpisodeActive, Plans, TypeOK, LoadsTyped
<1>3. RetryLoad > commanded
  BY <1>2 DEF RetryLoad, IInv, CommandsKnown, TypeOK, LoadsTyped, CountsTyped
<1>4. recovery_age \in 0 .. AdmissionBudget
  BY <1>1, <1>2, PolicyAssumption DEF IssueRecovery, Ages
<1>5. effects'[1].load_attempt = RetryLoad
  BY <1>1 DEF IssueRecovery
<1>6. QED
  BY <1>2, <1>3, <1>4, <1>5

(* Every emitted command has an identity newer than any before it.         *)
THEOREM CommandsAlwaysFresh == Safety => CommandIsFresh
<1>1. IInv /\ [Next]_vars =>
        [Emits => effects'[1].load_attempt > commanded]_vars
  BY EmissionFacts
<1>2. QED
  BY <1>1, InductiveInvariant, PTL DEF Safety, CommandIsFresh

(* The heuristic recreation is emitted once per episode and with cause.    *)
THEOREM HeuristicRecreationAlwaysOnce == Safety => HeuristicRecreationOnce
<1>1. IInv /\ [Next]_vars =>
        [Emits /\ plan.provenance = "Heuristic" =>
           /\ ~short_recreation_used
           /\ short_failures >= ShortReopensBeforeRecreation]_vars
  BY EmissionFacts DEF IInv, HeuristicJustified
<1>2. QED
  BY <1>1, InductiveInvariant, PTL DEF Safety, HeuristicRecreationOnce

-----------------------------------------------------------------------------
(* What each action may do to the state a recovery left behind.            *)

(* A given up or rejected recovery ends, and its episode keeps its age.    *)
LEMMA TerminalOutcome ==
  ASSUME NEW d, NEW f, NEW age, Terminal(d, f, age)
  PROVE  name' = "Failed" /\ recovery_age' = age /\ load_attempt' = load_attempt
  BY DEF Terminal, loadVars

(* Failed is only left by a new session or a revived load, Recovering with *)
(* a mandatory recreation only as MandatoryRecreationSticks says, and the  *)
(* episode's age only goes back where its command count does.              *)
LEMMA RecoverOutcome ==
  ASSUME IInv, NEW d, NEW p, Recover(d, p),
         p.authority \in {"None", "Mandatory"}
  PROVE  /\ name # "Failed"
         /\ name' # "Steady"
         /\ EpisodeActive => recovery_age' = recovery_age
         /\ name = "Recovering" /\ plan.authority = "Mandatory" => name' = "Failed"
<1>1. CASE UpgradesAuthority(p) /\ UpgradeAuthority(d)
  BY <1>1 DEF UpgradesAuthority, UpgradeAuthority
<1>2. name = "Recovering" /\ plan.authority = "Mandatory" =>
        plan.mechanism \notin SourceMechanisms
  BY DEF IInv, PlanShape
<1>3. CASE AdmitsRecovery(p) /\ Exhausted
           /\ Terminal(d, "AttemptsExhausted", EpisodeAge)
  BY <1>3, TerminalOutcome DEF AdmitsRecovery, UpgradesPending, EpisodeAge
<1>4. CASE AdmitsRecovery(p) /\ ~Exhausted /\ RetryPastBudget
           /\ Terminal(d, "BudgetExpired", EpisodeAge)
  BY <1>4, TerminalOutcome DEF AdmitsRecovery, UpgradesPending, EpisodeAge
<1>5. CASE AdmitsRecovery(p) /\ ~Exhausted /\ ~RetryPastBudget
           /\ ScheduleRecovery(d, p)
  BY <1>2, <1>5 DEF AdmitsRecovery, UpgradesPending, ScheduleRecovery, EpisodeAge
<1>6. QED
  BY <1>1, <1>3, <1>4, <1>5 DEF Recover

(* The same of every event that reports a fault.                           *)
LEMMA FaultOutcome ==
  ASSUME IInv, Fault \/ OpenStall \/ LoseDevice
  PROVE  /\ name = "Failed" => name' = "Failed"
         /\ name' # "Steady"
         /\ EpisodeActive => recovery_age' = recovery_age
         /\ name = "Recovering" /\ plan.authority = "Mandatory" => name' = "Failed"
<1> DEFINE Outcome ==
      /\ name = "Failed" => name' = "Failed"
      /\ name' # "Steady"
      /\ EpisodeActive => recovery_age' = recovery_age
      /\ name = "Recovering" /\ plan.authority = "Mandatory" => name' = "Failed"
<1>1. ASSUME RetireLateCompletion PROVE Outcome
  BY <1>1 DEF RetireLateCompletion
<1>2. ASSUME NEW d, NEW m, Recover(d, SourcePlan(m)) PROVE Outcome
  BY <1>2, RecoverOutcome DEF SourcePlan
<1>3. ASSUME BackendLost PROVE Outcome
  BY <1>1, <1>3, RecoverOutcome DEF BackendLost, RecreationPlan
<1> HIDE DEF Outcome
<1>4. LoseDevice => Outcome
  BY <1>3 DEF LoseDevice, PresentationLost
<1>5. OpenStall => Outcome
  BY <1>2 DEF OpenStall, OpenStalled
<1>6. Fault => Outcome
  <2>1. ASSUME NEW g, NEW l, PlaybackStalled(g, l) PROVE Outcome
    BY <1>2, <2>1 DEF PlaybackStalled
  <2>2. ASSUME NEW g, NEW l, TimelineRegressed(g, l) PROVE Outcome
    BY <1>2, <2>2 DEF TimelineRegressed
  <2>3. ASSUME NEW g, NEW l, BackendUnresponsive(g, l) PROVE Outcome
    BY <1>3, <2>3 DEF BackendUnresponsive
  <2>4. ASSUME NEW g, NEW l, NEW k, StreamEnded(g, l, k) PROVE Outcome
    BY <1>1, <1>2, <2>4 DEF StreamEnded
  <2>5. QED
    BY <2>1, <2>2, <2>3, <2>4 DEF Fault
<1>7. QED
  BY <1>4, <1>5, <1>6 DEF Outcome

(* A rejected source only ends what it finds.                              *)
LEMMA RejectOutcome ==
  ASSUME Reject
  PROVE  name' = "Failed" /\ recovery_age' = recovery_age
  BY TerminalOutcome
     DEF Reject, AuthRejected, SourceFailed, RetireLateCompletion

(* What a poll that finds a due deadline leads to.                         *)
LEMMA PollOutcome ==
  ASSUME IInv, Poll
  PROVE  /\ name # "Failed"
         /\ name # "Steady" /\ name' = "Steady" => ConfirmSteady
         /\ name' = "Steady" \/ recovery_age' = recovery_age
         /\ name = "Recovering" =>
              name' = "Failed" \/ (name' = "Recovering" /\ plan'.authority = plan.authority)
<1>1. PICK q \in {1} : DeadlineReached
  BY DEF Poll
<1>2. CASE HoldSteadyWindow
  BY <1>2 DEF HoldSteadyWindow, SteadyDue
<1>3. CASE ConfirmSteady
  BY <1>3 DEF ConfirmSteady, SteadyDue
<1>4. CASE IssueRecovery
  <2>1. plan'.authority = plan.authority
    BY <1>4 DEF IssueRecovery, ServeRetry, IInv, TypeOK, LoadsTyped, Plans
  <2>2. QED
    BY <1>4, <2>1 DEF IssueRecovery, RetryDue
<1>5. CASE ExpireRecovery
  BY <1>5, TerminalOutcome DEF ExpireRecovery, RetryDue
<1>6. QED
  BY <1>1, <1>2, <1>3, <1>4, <1>5 DEF DeadlineReached

(* Events that leave the supervisor's state machine where it is.           *)
LEMMA QuietOutcome ==
  ASSUME IInv, PassTime \/ Observe \/ UNCHANGED vars
  PROVE  name' = name /\ plan' = plan /\ recovery_age' >= recovery_age
<1>1. recovery_age \in Int /\ recovery_age >= recovery_age
  BY PolicyAssumption DEF IInv, TypeOK, LoadsTyped, Ages, Unset
<1>2. CASE PassTime
  BY <1>1, <1>2, PolicyAssumption DEF PassTime, Tick, Aged, Ages, Unset
<1>3. CASE Observe
  BY <1>1, <1>3 DEF Observe, CacheState, PlaybackHealthObserved
<1>4. CASE UNCHANGED vars
  BY <1>1, <1>4 DEF vars, supVars, stateVars
<1>5. QED
  BY <1>2, <1>3, <1>4

(* A channel request and a stop begin a session.                           *)
LEMMA SessionOutcome ==
  ASSUME IInv, Request \/ Stop
  PROVE  NewSession /\ name' \in {"Idle", "Loading"}
  BY DEF IInv, TypeOK, StateTyped, Request, Stop, Generations, ChannelRequested,
         PlaybackStopped, InitialState, NewSession

(* What a first frame does to the state that accepts it.                   *)
LEMMA FrameOutcome ==
  ASSUME IInv, FrameReported
  PROVE  /\ recovery_age' = recovery_age
         /\ name' # "Steady" \/ name = "Steady"
         /\ name = "Recovering" /\ plan.authority = "Mandatory" =>
              name' = name /\ plan' = plan
         /\ name = "Failed" /\ name' # "Failed" =>
              /\ name' = "Zap" /\ shown' /\ ~shown
              /\ late_available
<1>1. name = "Recovering" /\ plan.authority = "Mandatory" => ~AcceptsFrame
  BY DEF IInv, PlanShape, AcceptsFrame, NormalFirstFrame, CancelsOpeningRetry,
         CancelsHeuristicRecreation, RevivesFailedLoad
<1>2. CASE FirstFrame(generation, load_attempt)
  BY <1>1, <1>2 DEF FirstFrame, FrameReported, AcceptsFrame, NormalFirstFrame,
     CancelsOpeningRetry, CancelsHeuristicRecreation, RevivesFailedLoad
<1>3. CASE ~AcceptsFrame /\ Ignored
  BY <1>3 DEF Ignored, stateVars
<1>4. QED
  BY <1>2, <1>3 DEF FrameReported

(* What the settlement of a load does.                                     *)
LEMMA LoadOutcome ==
  ASSUME IInv, LoadIssued
  PROVE  /\ name' = "Zap" /\ recovery_age' = recovery_age
         /\ name # "Failed"
         /\ name = "Recovering" /\ plan.authority = "Mandatory" =>
              NewLoad /\ load_intent' = "PlayerRecreation"
<1>1. PICK g \in Generations, l \in LoadAttempts, i \in Intents, t \in Transports :
        StreamLoadIssued(g, l, i, t)
  BY DEF LoadIssued
<1>2. name' = "Zap" /\ recovery_age' = recovery_age /\ load_attempt' = l
        /\ load_intent' = i /\ (FreshLoad(l, i) \/ RecoveryLoad(l, i))
  BY <1>1 DEF StreamLoadIssued
<1>3. name = "Recovering" /\ plan.authority = "Mandatory" =>
        /\ pending_load_attempt # NoLoad /\ pending_load_attempt = l
        /\ pending_load_intent = i
  BY <1>2 DEF FreshLoad, RecoveryLoad
<1>4. name = "Recovering" /\ plan.authority = "Mandatory" =>
        /\ plan.status \in {"Scheduled", "Issued"}
        /\ plan.mechanism = "RecreatePlayer"
  BY DEF IInv, PlanShape, TypeOK, LoadsTyped, Plans, Mechanisms, NoPlan
<1>5. name = "Recovering" /\ plan.authority = "Mandatory" =>
        NewLoad /\ i = "PlayerRecreation"
  BY <1>2, <1>3, <1>4 DEF IInv, PendingShape, TypeOK, LoadsTyped, NewLoad
<1>6. QED
  BY <1>2, <1>5 DEF FreshLoad, RecoveryLoad

(* Commands leave within the budget, and an episode never grows younger.   *)
THEOREM RecoveryAlwaysWithinBudget == Safety => RecoveryWithinBudget
<1>1. IInv /\ Next => (Emits => recovery_age \in 0 .. AdmissionBudget)
  BY EmissionFacts
<1>2. ASSUME IInv, Next, issued > 0, issued' > 0
      PROVE  recovery_age' >= recovery_age
  <2>1. (recovery_age \in Int /\ EpisodeActive) \/ recovery_age = -1
    BY <1>2, PolicyAssumption
       DEF IInv, TypeOK, LoadsTyped, Ages, Unset, EpisodeActive
  <2>2. recovery_age' \in Int /\ recovery_age' >= -1
    BY <1>2, InductiveStep, PolicyAssumption DEF IInv, TypeOK, LoadsTyped, Ages, Unset
  <2>3. ~NewSession /\ name' # "Steady"
    <3>1. RecordCommands
      BY <1>2 DEF Next, PassTime, Poll, FrameReported, Request, Stop, LoseDevice,
                  Observe, OpenStall, Fault, Reject, LoadIssued, ReduceEvent
    <3>2. NewSession \/ name' = "Steady" => issued' = 0
      BY <3>1 DEF RecordCommands
    <3>3. QED
      BY <1>2, <3>2
  <2>4. EpisodeActive => recovery_age' >= recovery_age
    BY <1>2, <2>1, <2>3, QuietOutcome, PollOutcome, FrameOutcome, FaultOutcome,
       RejectOutcome, LoadOutcome, SessionOutcome DEF Next
  <2>5. QED
    BY <2>1, <2>2, <2>4 DEF EpisodeActive, Unset
<1>3. IInv /\ [Next]_vars =>
        [/\ Emits => recovery_age \in 0 .. AdmissionBudget
         /\ issued > 0 /\ issued' > 0 => recovery_age' >= recovery_age]_vars
  BY <1>1, <1>2
<1>4. QED
  BY <1>3, InductiveInvariant, PTL DEF Safety, RecoveryWithinBudget

(* No poll confirms playback before a whole clean window.                  *)
THEOREM SteadyAlwaysEarned == Safety => SteadyIsEarned
<1>1. IInv /\ Next /\ name # "Steady" /\ name' = "Steady" => ConfirmSteady
  BY QuietOutcome, PollOutcome, FrameOutcome, FaultOutcome, RejectOutcome,
     LoadOutcome, SessionOutcome DEF Next
<1>2. IInv /\ ConfirmSteady => clean = SteadyWindow
  BY PolicyAssumption DEF IInv, ConfirmSteady, SteadyDue, WindowCountsClean,
     TypeOK, CountsTyped, Unset
<1>3. IInv /\ [Next]_vars =>
        [name # "Steady" /\ name' = "Steady" => clean = SteadyWindow]_vars
  BY <1>1, <1>2
<1>4. QED
  BY <1>3, InductiveInvariant, PTL DEF Safety, SteadyIsEarned

(* A mandatory recreation ends only in its own load, failure or a session. *)
THEOREM MandatoryRecreationAlwaysSticks == Safety => MandatoryRecreationSticks
<1>1. IInv /\ [Next]_vars =>
        [name = "Recovering" /\ plan.authority = "Mandatory" =>
           \/ name' = "Recovering" /\ plan'.authority = "Mandatory"
           \/ name' = "Zap" /\ NewLoad /\ load_intent' = "PlayerRecreation"
           \/ name' = "Failed"
           \/ NewSession]_vars
  BY QuietOutcome, PollOutcome, FrameOutcome, FaultOutcome, RejectOutcome,
     LoadOutcome, SessionOutcome DEF Next
<1>2. QED
  BY <1>1, InductiveInvariant, PTL DEF Safety, MandatoryRecreationSticks

(* Only the failed load's own first frame revives it, unovertaken.         *)
THEOREM FailureIsFinal == Safety => FailedIsFinal
<1>1. IInv /\ Next /\ name = "Failed" /\ name' # "Failed" /\ ~NewSession =>
        name' = "Zap" /\ shown' /\ ~shown /\ late_available
  BY QuietOutcome, PollOutcome, FrameOutcome, FaultOutcome, RejectOutcome,
     LoadOutcome, SessionOutcome DEF Next
<1>2. IInv /\ [Next]_vars =>
        [name = "Failed" /\ name' # "Failed" /\ ~NewSession =>
           /\ name' = "Zap"
           /\ shown' /\ ~shown
           /\ commanded = load_attempt]_vars
  BY <1>1 DEF IInv, CommandsKnown
<1>3. QED
  BY <1>2, InductiveInvariant, PTL DEF Safety, FailedIsFinal

=============================================================================
