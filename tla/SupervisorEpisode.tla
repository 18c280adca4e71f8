-------------------------- MODULE SupervisorEpisode --------------------------
(***************************************************************************)
(* The reducer under the events the playback session may feed it, with     *)
(* the history its promises are about.                                     *)
(*                                                                         *)
(* Events carry any generation and load, stale ones included, in any       *)
(* order.  Three facts about the reporter are assumed, all from            *)
(* player/playback_session.cpp and player/player_event_adapter.cpp: the    *)
(* first frame of a load is reported once, an open stall is only reported  *)
(* for a load that has shown no frame, and a load is only settled after it *)
(* was commanded, by a fresh selection or by an emitted effect.            *)
(***************************************************************************)
EXTENDS Supervisor

VARIABLES
  shown,      \* the backend reported the first frame of the current load
  commanded,  \* newest load of this generation the supervisor has commanded
  issued,     \* recovery commands since the last clean confirmation
  clean       \* how long playback has been clean, up to SteadyWindow

histVars == <<shown, commanded, issued, clean>>
vars == <<supVars, histVars>>

Generations  == 0 .. MaxGeneration
LoadAttempts == 1 .. (MaxLoad + 2)

EpisodeInit ==
  Init /\ shown = FALSE /\ commanded = NoLoad /\ issued = 0 /\ clean = 0

-----------------------------------------------------------------------------
Dirty == name # "Zap" \/ ~first_frame \/ cache_paused \/ playback_unhealthy

NewSession == generation' # generation \/ name' = "Idle"
NewLoad    == load_attempt' # load_attempt
Emits      == effects' # <<>>

RecordCommands ==
  /\ commanded' = CASE NewSession -> NoLoad
                    [] Emits      -> effects'[1].load_attempt
                    [] OTHER      -> IF load_attempt' > commanded
                                     THEN load_attempt' ELSE commanded
  /\ issued' = IF NewSession \/ name' = "Steady" THEN 0
               ELSE issued + (IF Emits THEN 1 ELSE 0)

(* An event takes no time; clean time accrues between events.              *)
ReduceEvent ==
  /\ RecordCommands
  /\ shown' = (shown /\ ~NewSession /\ ~NewLoad)
  /\ clean' = clean

PassTime ==
  /\ Tick
  /\ RecordCommands
  /\ clean' = IF Dirty THEN 0
              ELSE IF clean < SteadyWindow THEN clean + 1 ELSE clean
  /\ UNCHANGED shown

Poll == DeadlineReached /\ ReduceEvent

(* The backend shows the first frame of the load it is playing.            *)
FrameReported ==
  /\ load_commanded /\ ~shown
  /\ shown' = TRUE
  /\ \/ FirstFrame(generation, load_attempt)
     \/ ~AcceptsFrame /\ Ignored
  /\ RecordCommands
  /\ clean' = clean

WithinLoadBound == load_attempt <= MaxLoad

Request  == \E g \in Generations : ChannelRequested(g) /\ ReduceEvent
Stop     == \E g \in Generations : PlaybackStopped(g) /\ ReduceEvent
LoseDevice == WithinLoadBound
              /\ \E g \in Generations : PresentationLost(g) /\ ReduceEvent

Observe ==
  \E g \in Generations, l \in LoadAttempts, b \in BOOLEAN :
    /\ CacheState(g, l, b) \/ PlaybackHealthObserved(g, l, b)
    /\ ReduceEvent

OpenStall ==
  \E g \in Generations, l \in LoadAttempts :
    WithinLoadBound /\ ~shown /\ OpenStalled(g, l) /\ ReduceEvent

Fault ==
  \E g \in Generations, l \in LoadAttempts :
    /\ WithinLoadBound
    /\ \/ PlaybackStalled(g, l)
       \/ TimelineRegressed(g, l)
       \/ BackendUnresponsive(g, l)
       \/ \E kind \in EndKinds : StreamEnded(g, l, kind)
    /\ ReduceEvent

Reject ==
  \E g \in Generations, l \in LoadAttempts :
    (AuthRejected(g, l) \/ SourceFailed(g, l)) /\ ReduceEvent

LoadIssued ==
  \E g \in Generations, l \in LoadAttempts, i \in Intents, t \in Transports :
    /\ name = "Loading" \/ l <= commanded
    /\ StreamLoadIssued(g, l, i, t)
    /\ ReduceEvent

Next ==
  \/ PassTime \/ Poll \/ FrameReported
  \/ Request \/ Stop \/ LoseDevice
  \/ Observe \/ OpenStall \/ Fault \/ Reject \/ LoadIssued

(* The UI turn polls at least every 50 ms and time passes.                 *)
Fairness == WF_vars(PassTime) /\ WF_vars(Poll)

Safety == EpisodeInit /\ [][Next]_vars
Spec   == Safety /\ Fairness

-----------------------------------------------------------------------------
Ages == {Unset} \cup 0 .. (AdmissionBudget + 1)

FlagsTyped ==
  /\ cache_paused \in BOOLEAN /\ playback_unhealthy \in BOOLEAN
  /\ first_frame \in BOOLEAN /\ load_commanded \in BOOLEAN
  /\ short_recreation_used \in BOOLEAN /\ late_available \in BOOLEAN
  /\ late_probation \in BOOLEAN /\ shown \in BOOLEAN

StateTyped ==
  /\ name \in Names /\ generation \in Generations /\ attempt \in Nat
  /\ retry_in \in Nat \cup {Unset} /\ steady_in \in Nat \cup {Unset}
  /\ detection \in Detections \cup {"None"}
  /\ failure \in Failures \cup {"None"}

LoadsTyped ==
  /\ load_attempt \in Nat /\ load_intent \in Intents
  /\ transport \in Transports \cup {"None"}
  /\ pending_load_attempt \in Nat
  /\ pending_load_intent \in Intents \cup {"None"}
  /\ plan \in Plans /\ recovery_age \in Ages

CountsTyped ==
  /\ short_failures \in Nat /\ last_short_failure \in Nat
  /\ commanded \in Nat /\ issued \in Nat /\ clean \in 0 .. SteadyWindow

TypeOK == FlagsTyped /\ StateTyped /\ LoadsTyped /\ CountsTyped

(* At most one deadline is armed, in the state that serves it, and only a  *)
(* recreation carries a justification: supervisor_deadlines_valid, which   *)
(* the code asserts around every reduction.                                *)
DeadlinesValid ==
  /\ retry_in = Unset \/ steady_in = Unset
  /\ retry_in # Unset => name = "Recovering"
  /\ steady_in # Unset => name = "Zap"
  /\ (plan.mechanism = "RecreatePlayer") <=> (plan.authority # "None")
  /\ plan.authority = "Heuristic" => plan.provenance = "Heuristic"

(* Recovery always has a way out: either a retry is armed for a scheduled  *)
(* plan, or the command was emitted and the load that settles it is named, *)
(* is of the plan's kind, and is newer than the load it replaces.          *)
RecoveryNeverStrands ==
  name = "Recovering" =>
    \/ plan.status = "Scheduled" /\ retry_in # Unset
    \/ /\ plan.status = "Issued"
       /\ pending_load_attempt > load_attempt
       /\ pending_load_intent = "PlayerRecreation"
            <=> plan.mechanism = "RecreatePlayer"

(* An emitted command carries a load identity no earlier command or load   *)
(* of the generation had, so a late answer to one is never taken for       *)
(* another's; an upgrade of an emitted command takes a newer identity.     *)
CommandIsFresh ==
  [][Emits => effects'[1].load_attempt > commanded]_vars

(* An episode emits at most MaxAttempts commands ...                       *)
AttemptsBounded == issued <= MaxAttempts

(* ... all of them within the admission budget of its first fault: its age *)
(* never goes back while its commands count.                               *)
RecoveryWithinBudget ==
  [][/\ Emits => recovery_age \in 0 .. AdmissionBudget
     /\ issued > 0 /\ issued' > 0 => recovery_age' >= recovery_age]_vars

(* Steady is confirmed only after a whole window of clean playback, however *)
(* pauses, health edges and late polls interleave.                          *)
SteadyIsEarned ==
  [][name # "Steady" /\ name' = "Steady" => clean = SteadyWindow]_vars

(* Mandatory evidence is not lost: a recovery that must recreate the player *)
(* resumes playback only through a newer load that the recreation issued.   *)
MandatoryRecreationSticks ==
  [][name = "Recovering" /\ plan.authority = "Mandatory" =>
       \/ name' = "Recovering" /\ plan'.authority = "Mandatory"
       \/ name' = "Zap" /\ NewLoad /\ load_intent' = "PlayerRecreation"
       \/ name' = "Failed"
       \/ NewSession]_vars

(* Failed is left without a new session only by the first frame of the very *)
(* load that failed to open, and only if no command has overtaken it.       *)
FailedIsFinal ==
  [][name = "Failed" /\ name' # "Failed" /\ ~NewSession =>
       /\ name' = "Zap"
       /\ shown' /\ ~shown
       /\ commanded = load_attempt]_vars

(* Short reopened loads buy one player recreation per episode, after enough *)
(* of them failed, whatever cancels or upgrades it before it is emitted.    *)
HeuristicRecreationOnce ==
  [][Emits /\ plan.provenance = "Heuristic" =>
       /\ ~short_recreation_used
       /\ short_failures >= ShortReopensBeforeRecreation]_vars

(* Playback that stays clean is confirmed, however often the cache reports *)
(* that it is playing.                                                     *)
CleanPlaybackConfirms == (name = "Zap" /\ first_frame) ~> Dirty

-----------------------------------------------------------------------------
(* The inductive strengthening of the invariants above.                    *)

(* Which plans exist, and in which states.                                 *)
PlanShape ==
  /\ plan = NoPlan \/ (plan.mechanism \in Mechanisms /\ plan.status # "None")
  /\ plan.mechanism \in SourceMechanisms => plan.authority = "None"
  /\ plan.authority = "None" => plan.provenance = "None"
  /\ plan.status = "Scheduled" => name = "Recovering"
  /\ name = "Recovering" =>
       /\ plan # NoPlan /\ EpisodeActive
       /\ plan.authority = "Mandatory" => detection = "BackendLost"
  /\ name \in {"Idle", "Loading"} => plan = NoPlan

(* A pending load exists only while recovering, with an issued command or  *)
(* behind the fence of an upgraded one.                                    *)
PendingShape ==
  /\ pending_load_attempt # NoLoad =>
       name = "Recovering" /\ pending_load_attempt > load_attempt
  /\ name = "Recovering" /\ plan.status = "Scheduled" =>
       /\ retry_in # Unset
       /\ pending_load_attempt # NoLoad =>
            /\ plan.authority = "Mandatory"
            /\ pending_load_intent = "PlayerRecreation"
  /\ name = "Recovering" /\ plan.status = "Issued" =>
       /\ retry_in = Unset
       /\ pending_load_attempt # NoLoad
       /\ pending_load_intent = "PlayerRecreation"
            <=> plan.mechanism = "RecreatePlayer"

(* No command is newer than the identity the state accounts for.           *)
CommandsKnown ==
  /\ load_attempt <= commanded
  /\ name \in {"Idle", "Loading"} => load_attempt = NoLoad
  /\ name # "Recovering" /\ name # "Failed" => commanded = load_attempt
  /\ name = "Failed" /\ late_available => commanded = load_attempt
  /\ name = "Recovering" /\ plan.status = "Issued" =>
       commanded = pending_load_attempt
  /\ name = "Recovering" /\ plan.status = "Scheduled" =>
       IF pending_load_attempt = NoLoad THEN commanded = load_attempt
       ELSE commanded < pending_load_attempt

(* An opening stall that may still be cancelled has shown no frame.        *)
LateFrameUnseen ==
  /\ late_available => name = "Failed" /\ ~shown
  /\ name = "Recovering" /\ plan.status = "Scheduled"
       /\ detection = "OpenStall" => ~shown

AttemptsCounted ==
  /\ attempt <= MaxAttempts
  /\ issued <= attempt
  /\ name \in {"Idle", "Loading", "Steady"} => attempt = 0
  /\ plan.status = "Scheduled" => issued < attempt

WindowCountsClean ==
  /\ name = "Zap" => (first_frame <=> steady_in # Unset)
  /\ steady_in # Unset /\ ~cache_paused /\ ~playback_unhealthy =>
       clean + steady_in >= SteadyWindow

HeuristicJustified ==
  plan.status = "Scheduled" /\ plan.provenance = "Heuristic" =>
    ~short_recreation_used /\ short_failures >= ShortReopensBeforeRecreation

(* What every state satisfies: the types, the deadlines the code asserts,  *)
(* and what ties plan, pending load, commands, frames, attempts and window *)
(* together.  AttemptsBounded follows from it.                             *)
IInv ==
  /\ TypeOK /\ DeadlinesValid /\ PlanShape /\ PendingShape /\ CommandsKnown
  /\ LateFrameUnseen /\ AttemptsCounted /\ WindowCountsClean
  /\ HeuristicJustified

=============================================================================
