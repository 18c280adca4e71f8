----------------------------- MODULE Supervisor -----------------------------
(***************************************************************************)
(* The recovery reducer of Coax (core/supervisor.cpp): one action per      *)
(* SupervisorEvent.  An event the reducer ignores enables no event action: *)
(* what happens then is Ignored.                                           *)
(*                                                                         *)
(* Time is held relative to the present.  A deadline is the time left      *)
(* until it is due (0 when due or overdue), and recovery_started_at is the *)
(* age of the episode, which saturates one unit past the admission budget  *)
(* because the code only ever compares it with that budget.  The other     *)
(* timestamps matter to the reducer only by being set or not.              *)
(* fault_decided_at, last_forward_progress_at and the SupervisorTransition *)
(* record feed statistics and logs and are left out.                       *)
(***************************************************************************)
EXTENDS Integers, Sequences

CONSTANTS
  AttemptDelays,      \* RecoveryPolicy::attempt_delays, a sequence
  SteadyWindow,       \* RecoveryPolicy::steady_healthy_window
  AdmissionBudget,    \* RecoveryPolicy::command_admission_budget
  ShortReopensBeforeRecreation,  \* RecoveryPolicy::short_reopens_before_...
  MaxGeneration,      \* bound: channel requests and stops
  MaxLoad             \* bound: no fault is reported for a later load

ASSUME PolicyAssumption ==
  /\ AttemptDelays \in Seq(Nat)
  /\ SteadyWindow \in Nat \ {0}
  /\ AdmissionBudget \in Nat
  /\ ShortReopensBeforeRecreation \in Nat
  /\ MaxGeneration \in Nat
  /\ MaxLoad \in Nat

VARIABLES
  name, generation, attempt,
  cache_paused, playback_unhealthy,
  retry_in, steady_in,            \* deadlines, Unset or time left
  detection, failure,
  first_frame,                    \* first_frame_at is set
  load_attempt, load_intent, load_commanded, transport,
  pending_load_attempt, pending_load_intent,
  plan,                           \* recovery_plan
  recovery_age,                   \* now - recovery_started_at, or Unset
  short_failures, last_short_failure, short_recreation_used,
  late_available, late_probation,
  effects                         \* SupervisorReduction::effects, last step

deadlineVars == <<retry_in, steady_in>>
healthVars   == <<cache_paused, playback_unhealthy>>
loadVars     == <<load_attempt, load_intent, load_commanded, transport>>
pendingVars  == <<pending_load_attempt, pending_load_intent>>
shortVars    == <<short_failures, last_short_failure, short_recreation_used>>
lateVars     == <<late_available, late_probation>>
stateVars == <<name, generation, attempt, healthVars, deadlineVars, detection,
               failure, first_frame, loadVars, pendingVars, plan,
               recovery_age, shortVars, lateVars>>
supVars == <<stateVars, effects>>

Unset  == -1
NoLoad == 0                       \* load attempts start at 1

Names       == {"Idle", "Loading", "Zap", "Steady", "Recovering", "Failed"}
Intents     == {"FreshSelection", "RecoveryReopen", "PlayerRecreation"}
Transports  == {"MpegTs", "Hls"}
Failures    == {"AttemptsExhausted", "AuthRejected", "BudgetExpired",
                "SourceUnavailable"}

(* Detection reasons, the ones the reducer treats alike sharing a member:  *)
(* "Stall" is CacheStall, DecodeStall and ProgressStall; "StreamEnd" the   *)
(* three StreamEnded ones; "TransportFailure" the four carried by a        *)
(* classified stream end; "BackendLost" IPC, process and device loss.      *)
Detections  == {"OpenStall", "Stall", "StreamEnd", "TransportFailure",
                "TimelineRegression", "BackendLost"}
ShortFaults == {"OpenStall", "Stall", "StreamEnd"}

SourceMechanisms == {"ReopenStream", "ReloadHlsLive", "ReopenProbed"}
Mechanisms       == SourceMechanisms \cup {"RecreatePlayer"}

Plans == [mechanism : Mechanisms \cup {"None"},
          authority : {"None", "Heuristic", "Mandatory"},
          provenance : {"None", "Heuristic", "Mandatory"},
          status : {"None", "Scheduled", "Issued"}]

NoPlan == [mechanism |-> "None", authority |-> "None",
           provenance |-> "None", status |-> "None"]

SourcePlan(mechanism) ==
  [mechanism |-> mechanism, authority |-> "None",
   provenance |-> "None", status |-> "Scheduled"]

RecreationPlan(kind) ==
  [mechanism |-> "RecreatePlayer", authority |-> kind,
   provenance |-> kind, status |-> "Scheduled"]

MaxAttempts == Len(AttemptDelays)

-----------------------------------------------------------------------------
(* initial_supervisor_state, with the generation and name of the event.    *)
InitialState(g, n) ==
  /\ name' = n /\ generation' = g /\ attempt' = 0
  /\ cache_paused' = FALSE /\ playback_unhealthy' = FALSE
  /\ retry_in' = Unset /\ steady_in' = Unset
  /\ detection' = "None" /\ failure' = "None" /\ first_frame' = FALSE
  /\ load_attempt' = NoLoad /\ load_intent' = "FreshSelection"
  /\ load_commanded' = FALSE /\ transport' = "None"
  /\ pending_load_attempt' = NoLoad /\ pending_load_intent' = "None"
  /\ plan' = NoPlan /\ recovery_age' = Unset
  /\ short_failures' = 0 /\ last_short_failure' = NoLoad
  /\ short_recreation_used' = FALSE
  /\ late_available' = FALSE /\ late_probation' = FALSE
  /\ effects' = <<>>

Init ==
  /\ name = "Idle" /\ generation = 0 /\ attempt = 0
  /\ cache_paused = FALSE /\ playback_unhealthy = FALSE
  /\ retry_in = Unset /\ steady_in = Unset
  /\ detection = "None" /\ failure = "None" /\ first_frame = FALSE
  /\ load_attempt = NoLoad /\ load_intent = "FreshSelection"
  /\ load_commanded = FALSE /\ transport = "None"
  /\ pending_load_attempt = NoLoad /\ pending_load_intent = "None"
  /\ plan = NoPlan /\ recovery_age = Unset
  /\ short_failures = 0 /\ last_short_failure = NoLoad
  /\ short_recreation_used = FALSE
  /\ late_available = FALSE /\ late_probation = FALSE
  /\ effects = <<>>

-----------------------------------------------------------------------------
(* Helpers of the reducer.                                                 *)

Current(g, l) == g = generation /\ l = load_attempt

(* ignore: the reduction of an event the state has no use for.             *)
Ignored == effects' = <<>> /\ UNCHANGED stateVars

EpisodeActive == recovery_age # Unset

\* Mutant: every fault starts a budget of its own.
EpisodeAgeRestarted == 0
EpisodeAge == IF EpisodeActive THEN recovery_age ELSE 0

\* Mutant: any exhausted load may come back, not only one still opening.
LateCompletionAnyFault(d, f) ==
  /\ f \in {"AttemptsExhausted", "BudgetExpired"}
  /\ load_commanded
  /\ ~first_frame
  /\ ~late_probation

(* terminal: may the exact current load still revive this failure?         *)
LateCompletion(d, f) ==
  /\ f \in {"AttemptsExhausted", "BudgetExpired"}
  /\ d = "OpenStall"
  /\ load_commanded
  /\ ~first_frame
  /\ ~late_probation

Terminal(d, f, age) ==
  /\ name' = "Failed" /\ detection' = d /\ failure' = f
  /\ retry_in' = Unset /\ steady_in' = Unset
  /\ first_frame' = FALSE
  /\ pending_load_attempt' = NoLoad /\ pending_load_intent' = "None"
  /\ plan' = NoPlan /\ recovery_age' = age
  /\ late_available' = LateCompletion(d, f) /\ late_probation' = FALSE
  /\ effects' = <<>>
  /\ UNCHANGED <<generation, attempt, healthVars, loadVars, shortVars>>

(* retire_failed_late_completion                                           *)
RetireLateCompletion ==
  /\ name = "Failed" /\ late_available
  /\ late_available' = FALSE
  /\ effects' = <<>>
  /\ UNCHANGED <<name, generation, attempt, healthVars, deadlineVars,
                 detection, failure, first_frame, loadVars, pendingVars,
                 plan, recovery_age, shortVars, late_probation>>

ReopenAction == IF transport = "Hls" THEN "ReloadHlsLive" ELSE "ReopenStream"

UpgradesAuthority(p) ==
  /\ name = "Recovering"
  /\ plan.mechanism = "RecreatePlayer" /\ plan.authority = "Heuristic"
  /\ p.authority = "Mandatory"

UpgradesPending(p) ==
  /\ name = "Recovering"
  /\ p.mechanism = "RecreatePlayer"
  /\ plan.mechanism \in SourceMechanisms

AdmitsRecovery(p) ==
  name \in {"Loading", "Zap", "Steady"} \/ UpgradesPending(p)

(* A reopened load that failed before the episode closed, counted once.    *)
ShortReopen(d) ==
  /\ transport = "MpegTs"
  /\ name = "Zap" /\ load_intent = "RecoveryReopen"
  /\ EpisodeActive
  /\ d \in ShortFaults
  /\ last_short_failure # load_attempt

\* Mutant: the one heuristic recreation of an episode is not remembered.
EscalatesAgain(d) ==
  ShortReopen(d) /\ short_failures + 1 >= ShortReopensBeforeRecreation

EscalatesToRecreation(d) ==
  /\ ShortReopen(d)
  /\ ~short_recreation_used
  /\ short_failures + 1 >= ShortReopensBeforeRecreation

Exhausted    == attempt >= MaxAttempts
RetryDelay   == AttemptDelays[attempt + 1]
RetryPastBudget == RetryDelay + EpisodeAge > AdmissionBudget

UpgradeAuthority(d) ==
  /\ detection' = d
  /\ plan' = [plan EXCEPT !.authority = "Mandatory"]
  /\ effects' = <<>>
  /\ UNCHANGED <<name, generation, attempt, healthVars, deadlineVars, failure,
                 first_frame, loadVars, pendingVars, recovery_age, shortVars,
                 lateVars>>

\* Mutant: the recreation reuses the identity of the command it replaces.
FencePendingMissing(p) == UNCHANGED pendingVars

(* Fence the settlement of a weaker command that was already emitted.      *)
FencePending(p) ==
  IF UpgradesPending(p) /\ pending_load_attempt # NoLoad
  THEN /\ pending_load_attempt' = pending_load_attempt + 1
       /\ pending_load_intent' = "PlayerRecreation"
  ELSE UNCHANGED pendingVars

ScheduleRecovery(d, p) ==
  /\ name' = "Recovering" /\ detection' = d /\ failure' = "None"
  /\ attempt' = attempt + 1
  /\ retry_in' = RetryDelay /\ steady_in' = Unset
  /\ first_frame' = FALSE
  /\ FencePending(p)
  /\ short_failures' = short_failures + (IF ShortReopen(d) THEN 1 ELSE 0)
  /\ last_short_failure' =
       IF ShortReopen(d) THEN load_attempt ELSE last_short_failure
  /\ plan' = IF EscalatesToRecreation(d) THEN RecreationPlan("Heuristic") ELSE p
  /\ recovery_age' = EpisodeAge
  /\ late_available' = FALSE /\ late_probation' = FALSE
  /\ effects' = <<>>
  /\ UNCHANGED <<generation, healthVars, loadVars, short_recreation_used>>

(* recover                                                                 *)
Recover(d, p) ==
  \/ UpgradesAuthority(p) /\ UpgradeAuthority(d)
  \/ /\ AdmitsRecovery(p)
     /\ Exhausted
     /\ Terminal(d, "AttemptsExhausted", EpisodeAge)
  \/ /\ AdmitsRecovery(p)
     /\ ~Exhausted /\ RetryPastBudget
     /\ Terminal(d, "BudgetExpired", EpisodeAge)
  \/ /\ AdmitsRecovery(p)
     /\ ~Exhausted /\ ~RetryPastBudget
     /\ ScheduleRecovery(d, p)

(* Evidence that only a new player can clear: IpcUnresponsive,             *)
(* PresentationLost and ProcessExited.                                     *)
BackendLost ==
  \/ RetireLateCompletion
  \/ Recover("BackendLost", RecreationPlan("Mandatory"))

-----------------------------------------------------------------------------
(* The events.                                                             *)

SteadyDue == name = "Zap" /\ steady_in = 0
RetryDue  == name = "Recovering" /\ retry_in = 0 /\ plan # NoPlan

(* DeadlineReached in Zap while playback is not clean: hold the window.    *)
HoldSteadyWindow ==
  /\ SteadyDue
  /\ cache_paused \/ playback_unhealthy
  /\ steady_in' = SteadyWindow
  /\ effects' = <<>>
  /\ UNCHANGED <<name, generation, attempt, healthVars, retry_in, detection,
                 failure, first_frame, loadVars, pendingVars, plan,
                 recovery_age, shortVars, lateVars>>

ConfirmSteady ==
  /\ SteadyDue
  /\ ~cache_paused /\ ~playback_unhealthy
  /\ name' = "Steady" /\ attempt' = 0
  /\ retry_in' = Unset /\ steady_in' = Unset
  /\ detection' = "None" /\ first_frame' = FALSE
  /\ plan' = NoPlan /\ recovery_age' = Unset
  /\ short_failures' = 0 /\ last_short_failure' = NoLoad
  /\ short_recreation_used' = FALSE
  /\ late_available' = FALSE /\ late_probation' = FALSE
  /\ effects' = <<>>
  /\ UNCHANGED <<generation, healthVars, failure, loadVars, pendingVars>>

\* Mutant: the retry command reuses the identity of the load it replaces.
RetryLoadSame ==
  IF pending_load_attempt # NoLoad THEN pending_load_attempt ELSE load_attempt

RetryLoad ==
  IF pending_load_attempt # NoLoad THEN pending_load_attempt ELSE load_attempt + 1

\* Mutant: a served retry stays armed.
ServeRetryStillArmed ==
  /\ UNCHANGED retry_in /\ steady_in' = Unset
  /\ plan' = [plan EXCEPT !.status = "Issued"]

ServeRetry ==
  /\ retry_in' = Unset /\ steady_in' = Unset
  /\ plan' = [plan EXCEPT !.status = "Issued"]

IssueRecovery ==
  /\ RetryDue
  /\ recovery_age <= AdmissionBudget
  /\ ServeRetry
  /\ pending_load_attempt' = RetryLoad
  /\ pending_load_intent' = IF plan.mechanism = "RecreatePlayer"
                            THEN "PlayerRecreation" ELSE "RecoveryReopen"
  /\ short_recreation_used' =
       (short_recreation_used \/ plan.provenance = "Heuristic")
  /\ effects' = <<[generation |-> generation, load_attempt |-> RetryLoad,
                   mechanism |-> plan.mechanism]>>
  /\ UNCHANGED <<name, generation, attempt, healthVars, detection, failure,
                 first_frame, loadVars, recovery_age, short_failures,
                 last_short_failure, lateVars>>

ExpireRecovery ==
  /\ RetryDue
  /\ recovery_age > AdmissionBudget
  /\ Terminal(detection, "BudgetExpired", recovery_age)

(* reduce_deadline: the host's poll found the armed deadline due.          *)
DeadlineReached ==
  HoldSteadyWindow \/ ConfirmSteady \/ IssueRecovery \/ ExpireRecovery

ChannelRequested(g) == g > generation /\ InitialState(g, "Loading")

PlaybackStopped(g) ==
  /\ g > generation \/ (g = generation /\ name # "Idle")
  /\ InitialState(g, "Idle")

\* Mutants: the window runs on through an edge; any report restarts it.
WindowNotRestarted(edge) == steady_in
WindowRestartedByAny(edge) ==
  IF name = "Zap" /\ steady_in # Unset THEN SteadyWindow ELSE steady_in

(* The clean-playback window, restarted by an edge seen while it runs.     *)
RestartedWindow(edge) ==
  IF name = "Zap" /\ steady_in # Unset /\ edge THEN SteadyWindow ELSE steady_in

CacheState(g, l, paused) ==
  /\ Current(g, l)
  /\ cache_paused' = paused
  /\ steady_in' = RestartedWindow(paused \/ cache_paused)
  /\ effects' = <<>>
  /\ UNCHANGED <<name, generation, attempt, playback_unhealthy, retry_in,
                 detection, failure, first_frame, loadVars, pendingVars, plan,
                 recovery_age, shortVars, lateVars>>

PlaybackHealthObserved(g, l, unhealthy) ==
  /\ Current(g, l)
  /\ playback_unhealthy # unhealthy
  /\ playback_unhealthy' = unhealthy
  /\ steady_in' = RestartedWindow(TRUE)
  /\ effects' = <<>>
  /\ UNCHANGED <<name, generation, attempt, cache_paused, retry_in,
                 detection, failure, first_frame, loadVars, pendingVars, plan,
                 recovery_age, shortVars, lateVars>>

AuthRejected(g, l) ==
  /\ Current(g, l)
  /\ \/ RetireLateCompletion
     \/ /\ name \notin {"Idle", "Failed"}
        /\ Terminal(detection, "AuthRejected", recovery_age)

ScheduledUnissued ==
  plan.status = "Scheduled" /\ retry_in # Unset /\ pending_load_attempt = NoLoad

NormalFirstFrame == name = "Zap" /\ ~first_frame

CancelsOpeningRetry ==
  /\ name = "Recovering" /\ detection = "OpenStall"
  /\ plan.mechanism \in SourceMechanisms
  /\ ScheduledUnissued

\* Mutant: a late frame cancels a mandatory recreation too.
CancelsAnyRecreation ==
  /\ name = "Recovering"
  /\ plan.mechanism = "RecreatePlayer"
  /\ ScheduledUnissued

CancelsHeuristicRecreation ==
  /\ name = "Recovering"
  /\ plan.mechanism = "RecreatePlayer" /\ plan.authority = "Heuristic"
  /\ ScheduledUnissued

RevivesFailedLoad == name = "Failed" /\ late_available

AcceptsFrame ==
  \/ NormalFirstFrame
  \/ CancelsOpeningRetry
  \/ CancelsHeuristicRecreation
  \/ RevivesFailedLoad

FirstFrame(g, l) ==
  /\ Current(g, l)
  /\ AcceptsFrame
  /\ name' = "Zap" /\ first_frame' = TRUE
  /\ retry_in' = Unset /\ steady_in' = SteadyWindow
  /\ playback_unhealthy' = FALSE
  /\ failure' = "None"
  /\ pending_load_attempt' = NoLoad /\ pending_load_intent' = "None"
  /\ plan' = NoPlan
  /\ late_available' = FALSE /\ late_probation' = RevivesFailedLoad
  /\ effects' = <<>>
  /\ UNCHANGED <<generation, attempt, cache_paused, detection, loadVars,
                 recovery_age, shortVars>>

(* PlaybackStalled with StallKind::Open.                                   *)
OpenStalled(g, l) ==
  Current(g, l) /\ Recover("OpenStall", SourcePlan(ReopenAction))

(* PlaybackStalled with the other kinds, and DecodeStalled.                *)
PlaybackStalled(g, l) ==
  Current(g, l) /\ Recover("Stall", SourcePlan(ReopenAction))

TimelineRegressed(g, l) ==
  /\ Current(g, l)
  /\ name = "Steady" /\ transport = "MpegTs"
  /\ Recover("TimelineRegression", SourcePlan("ReopenStream"))

BackendUnresponsive(g, l) == Current(g, l) /\ BackendLost

(* The one fault fenced by generation alone: a device is not a load.       *)
PresentationLost(g) == g = generation /\ BackendLost

EndKinds == {"Unclassified", "FormatProbeRequired", "Transport"}

StreamEnded(g, l, kind) ==
  /\ Current(g, l)
  /\ \/ RetireLateCompletion
     \/ Recover(IF kind = "Unclassified" THEN "StreamEnd" ELSE "TransportFailure",
                SourcePlan(IF kind = "FormatProbeRequired"
                           THEN "ReopenProbed" ELSE ReopenAction))

SourceFailed(g, l) ==
  /\ g = generation
  /\ \/ l = load_attempt
     \/ pending_load_attempt # NoLoad /\ l = pending_load_attempt
     \/ name = "Loading" /\ l = 1
  /\ \/ RetireLateCompletion
     \/ /\ name \notin {"Idle", "Failed"}
        /\ Terminal(detection, "SourceUnavailable", recovery_age)

FreshLoad(l, intent) ==
  name = "Loading" /\ l = 1 /\ intent = "FreshSelection"

RecoveryLoad(l, intent) ==
  /\ name = "Recovering"
  /\ pending_load_attempt # NoLoad
  /\ pending_load_attempt = l /\ pending_load_intent = intent

StreamLoadIssued(g, l, intent, t) ==
  /\ g = generation
  /\ FreshLoad(l, intent) \/ RecoveryLoad(l, intent)
  /\ name' = "Zap"
  /\ retry_in' = Unset /\ steady_in' = Unset
  /\ first_frame' = FALSE
  /\ cache_paused' = FALSE /\ playback_unhealthy' = FALSE
  /\ load_attempt' = l /\ load_intent' = intent
  /\ load_commanded' = TRUE /\ transport' = t
  /\ pending_load_attempt' = NoLoad /\ pending_load_intent' = "None"
  /\ late_available' = FALSE /\ late_probation' = FALSE
  /\ effects' = <<>>
  /\ UNCHANGED <<generation, attempt, detection, failure, plan, recovery_age,
                 shortVars>>

-----------------------------------------------------------------------------
(* Time passes; no deadline is skipped, but one may be served late.        *)
Countdown(t) == IF t > 0 THEN t - 1 ELSE t
Aged(age)    == IF age \in 0 .. AdmissionBudget THEN age + 1 ELSE age

Tick ==
  /\ retry_in' = Countdown(retry_in)
  /\ steady_in' = Countdown(steady_in)
  /\ recovery_age' = Aged(recovery_age)
  /\ effects' = <<>>
  /\ UNCHANGED <<name, generation, attempt, healthVars, detection, failure,
                 first_frame, loadVars, pendingVars, plan, shortVars, lateVars>>

=============================================================================
