--------------------------- MODULE PlaybackSession ---------------------------
(***************************************************************************)
(* The playback session (player/playback_session.cpp) over the recovery    *)
(* supervisor: the UI thread's turn hands it the player's events, then it  *)
(* reports cache and health levels, polls the deadline and executes the    *)
(* command that comes out.  Between turns the viewer plays and stops.      *)
(*                                                                         *)
(* One step reduces at most one supervisor event; `turn' says where in the *)
(* turn, or in the handler of a command, the UI thread is.  Every step is  *)
(* one of SupervisorEpisode, or leaves the supervisor alone: Implements-   *)
(* Episode states it, and with it the session keeps what that module       *)
(* assumes of its reporter.                                                *)
(*                                                                         *)
(* The player is the little the session sees of it: its target, whether    *)
(* there is a backend, and which events it delivers (module MpvPlayer): no *)
(* first start twice for the target, nothing about a stopped channel.      *)
(* The fold of the health samples is its result, any that its first-frame  *)
(* flag allows.  Live sync, delivery and recovery-edge telemetry read the  *)
(* session and are left out.                                               *)
(***************************************************************************)
EXTENDS SupervisorEpisode, Subsequences

CONSTANTS
  StreamEndDelay,     \* how long a generic stream end waits for a diagnosis
  MaxStreamEnds       \* bound: stream ends waiting at once

ASSUME SessionAssumption == StreamEndDelay \in Nat /\ MaxStreamEnds \in Nat

VARIABLES
  turn,               \* where the UI thread is
  target, backend,    \* player: current_target(), and mpv_ is not null
  framed,             \* player: it has journaled the target's first start
  health,             \* playback_health_: the load the fold watches
  fold,               \* result of this turn's sample
  frame_seen,         \* live_sync_turn_.first_frame_seen()
  stall_reported, decode_stall_reported, exact_failure_reported,
  last_cache_state,   \* last_cache_state_dispatched_, at most one member
  paused,             \* paused_for_cache, as pumped this turn
  stream_ends,        \* pending_stream_ends_, with the time they have left
  diagnosed,          \* history: an exact failure of the target was handled,
                      \* since it was loaded or revived
  late_open           \* history: an open stall of the target was reported

playerVars   == <<target, backend, framed, diagnosed, late_open>>
foldVars     == <<health, stall_reported, decode_stall_reported,
                  exact_failure_reported, last_cache_state>>
sessionVars  == <<vars, turn, playerVars, foldVars, fold, frame_seen, paused,
                  stream_ends>>

Load(g, l) == [generation |-> g, load |-> l]
NoTarget   == Load(0, NoLoad)     \* no value
Loads      == {Load(g, l) : g \in 1 .. MaxGeneration, l \in LoadAttempts}

\* What fold_playback_health may find: before the first frame, and after.
OpeningFolds == {"Opening", "OpenStalled"}
PlayingFolds == {"Unknown", "Healthy", "Degraded", "Stalled", "DecodeStalled"}

Turns == {"Ready", "Playing", "Events", "Flush", "Present", "Cache",
          "Sample", "Verdict", "Poll", "Settle"}

SessionInit ==
  /\ EpisodeInit
  /\ turn = "Ready" /\ target = NoTarget /\ backend = TRUE /\ framed = FALSE
  /\ health = NoTarget /\ fold = "Unknown" /\ frame_seen = FALSE
  /\ stall_reported = FALSE /\ decode_stall_reported = FALSE
  /\ exact_failure_reported = FALSE /\ last_cache_state = {}
  /\ paused = FALSE /\ stream_ends = << >>
  /\ diagnosed = FALSE /\ late_open = FALSE

-----------------------------------------------------------------------------
(* Helpers.                                                                *)

Goto(next) == turn' = next

Supervised == name \notin {"Idle", "Failed"}
Watching   == target # NoTarget /\ Supervised

\* The reducer takes an event or ignores it.
Dispatch(taken, event) ==
  IF taken THEN event /\ ReduceEvent ELSE UNCHANGED vars

\* Which events it takes: the guards of the actions of Supervisor.
OwesLateFrame == name = "Failed" /\ late_available
Plays         == name \in {"Loading", "Zap", "Steady"}

TakesLoad(g, l, intent) ==
  g = generation /\ (FreshLoad(l, intent) \/ RecoveryLoad(l, intent))

TakesSourceFailure(g, l) ==
  /\ g = generation
  /\ \/ l = load_attempt
     \/ pending_load_attempt # NoLoad /\ l = pending_load_attempt
     \/ name = "Loading" /\ l = 1
  /\ OwesLateFrame \/ Supervised

TakesAuthRejection(g, l) == Current(g, l) /\ (OwesLateFrame \/ Supervised)
TakesStreamEnd(g, l)     == Current(g, l) /\ (OwesLateFrame \/ Plays)
TakesStall(g, l)         == Current(g, l) /\ Plays

TakesBackendLoss ==
  LET plan_ == RecreationPlan("Mandatory")
  IN  OwesLateFrame \/ UpgradesAuthority(plan_) \/ AdmitsRecovery(plan_)

IsCurrent(load) == load.generation = generation /\ load = target

\* Mutant: the new load inherits what was last said of the cache.
RestartKeepsCacheState(load) ==
  /\ health' = load
  /\ stall_reported' = FALSE /\ decode_stall_reported' = FALSE
  /\ exact_failure_reported' = FALSE
  /\ UNCHANGED last_cache_state

\* Mutant: the new load inherits the latch of the one it replaces.
RestartKeepsStallLatch(load) ==
  /\ health' = load /\ last_cache_state' = {}
  /\ decode_stall_reported' = FALSE /\ exact_failure_reported' = FALSE
  /\ UNCHANGED stall_reported

RestartSupervision(load) ==
  /\ health' = load
  /\ stall_reported' = FALSE /\ decode_stall_reported' = FALSE
  /\ exact_failure_reported' = FALSE
  /\ last_cache_state' = {}

\* The player takes a load as its target, started or not.
Targets(load) ==
  target' = load /\ framed' = FALSE /\ diagnosed' = FALSE /\ late_open' = FALSE

KeepsTarget == UNCHANGED <<target, framed, diagnosed, late_open>>

-----------------------------------------------------------------------------
(* Commands of the viewer.  Playing a channel begins it, and then the      *)
(* player issues its load or does not.                                     *)

BeginChannel ==
  /\ turn = "Ready" /\ generation < MaxGeneration
  /\ ChannelRequested(generation + 1) /\ ReduceEvent
  /\ Goto("Playing")
  /\ UNCHANGED <<playerVars, foldVars, fold, frame_seen, paused, stream_ends>>

LoadStarted(load) ==
  /\ RestartSupervision(load) /\ frame_seen' = FALSE
  /\ \E t \in Transports :
       Dispatch(TakesLoad(load.generation, load.load, "FreshSelection"),
                StreamLoadIssued(load.generation, load.load,
                                 "FreshSelection", t))

\* SourceFailed is what a refused or rejected load is reported as.
ReportSourceFailed(load) ==
  Dispatch(TakesSourceFailure(load.generation, load.load),
           SourceFailed(load.generation, load.load))

LoadFailed(load) ==
  /\ ReportSourceFailed(load)
  /\ UNCHANGED <<foldVars, frame_seen>>

Play ==
  /\ turn = "Playing"
  /\ LET load == Load(generation, 1)
     IN  \/ backend /\ Targets(load) /\ LoadStarted(load)
         \/ backend /\ Targets(load) /\ LoadFailed(load)
         \/ ~backend /\ KeepsTarget /\ LoadFailed(load)
  /\ Goto("Ready")
  /\ UNCHANGED <<backend, fold, paused, stream_ends>>

StopPlayback ==
  /\ turn = "Ready" /\ name # "Idle"
  /\ PlaybackStopped(generation) /\ ReduceEvent
  /\ RestartSupervision(NoTarget)
  /\ stream_ends' = << >>
  /\ IF target.generation = generation THEN Targets(NoTarget) ELSE KeepsTarget
  /\ UNCHANGED <<turn, backend, fold, frame_seen, paused>>

-----------------------------------------------------------------------------
(* The turn: the player's events.                                          *)

BeginTurn ==
  /\ turn = "Ready"
  /\ paused' \in BOOLEAN
  /\ Goto("Events")
  /\ UNCHANGED <<vars, playerVars, foldVars, fold, frame_seen, stream_ends>>

\* Loads the player may still deliver an event about.
Known(load) ==
  \/ load.generation \in 1 .. generation - 1
  \/ load.generation = generation /\ load.generation = target.generation
       /\ load.load <= target.load

Handling(load) == turn = "Events" /\ Known(load) /\ UNCHANGED turn

OnLoadRejected(load) ==
  /\ Handling(load)
  /\ ReportSourceFailed(load)
  /\ UNCHANGED <<playerVars, foldVars, fold, frame_seen, paused, stream_ends>>

\* The first frame of a load counts once, accepted or not (history).
ReportFrame(load) ==
  /\ \/ FirstFrame(load.generation, load.load)
     \/ ~AcceptsFrame /\ Ignored
  /\ RecordCommands
  /\ shown' = TRUE /\ clean' = clean

\* Mutant: the late frame of a failed load is not observed.
ObservesFrameSupervised(load) == frame_seen \/ (IsCurrent(load) /\ Supervised)
ObservesFrame(load) == frame_seen \/ IsCurrent(load)

\* A load that failed to open and then revives is watched afresh, with the
\* first frame it has shown.
OnFirstStart(load) ==
  /\ Handling(load)
  /\ load = target => ~framed
  /\ framed' = (framed \/ load = target)
  /\ frame_seen' = ObservesFrame(load)
  /\ IF IsCurrent(load) /\ Current(load.generation, load.load)
     THEN ReportFrame(load) ELSE UNCHANGED vars
  /\ IF name = "Failed" /\ name' = "Zap"
     THEN RestartSupervision(load) /\ diagnosed' = FALSE
     ELSE UNCHANGED <<foldVars, diagnosed>>
  /\ UNCHANGED <<target, backend, late_open, fold, paused, stream_ends>>

\* Mutant: a generic end is queued behind the diagnosis of its load.
AcceptsAnyEnd(load) == IsCurrent(load)
AcceptsGenericEnd(load) == IsCurrent(load) /\ ~exact_failure_reported

OnEndFile(load) ==
  /\ Handling(load)
  /\ Len(stream_ends) < MaxStreamEnds
  /\ stream_ends' = IF AcceptsGenericEnd(load)
                    THEN Append(stream_ends, [load |-> load,
                                              in |-> StreamEndDelay])
                    ELSE stream_ends
  /\ UNCHANGED <<vars, playerVars, foldVars, fold, frame_seen, paused>>

OnBackendFailed ==
  /\ turn = "Events" /\ WithinLoadBound
  /\ Dispatch(Current(target.generation, target.load) /\ TakesBackendLoss,
              BackendUnresponsive(target.generation, target.load))
  /\ UNCHANGED <<turn, playerVars, foldVars, fold, frame_seen, paused,
                 stream_ends>>

EndsOfOthers(load) ==
  MembersAt(stream_ends, {i \in DOMAIN stream_ends : stream_ends[i].load # load})

\* The diagnosis of a load withdraws the generic ends that wait for it.
Diagnose(load) ==
  /\ Handling(load)
  /\ exact_failure_reported' = (exact_failure_reported \/ IsCurrent(load))
  /\ stream_ends' = EndsOfOthers(load)
  /\ diagnosed' = (diagnosed \/ load = target)
  /\ UNCHANGED <<target, backend, framed, late_open, health, stall_reported,
                 decode_stall_reported, last_cache_state, fold, frame_seen,
                 paused>>

OnAuthenticationRejected(load) ==
  /\ Diagnose(load)
  /\ Dispatch(TakesAuthRejection(load.generation, load.load),
              AuthRejected(load.generation, load.load))

OnTransportFailure(load) ==
  /\ Diagnose(load) /\ WithinLoadBound
  /\ \E kind \in EndKinds \ {"Unclassified"} :
       Dispatch(TakesStreamEnd(load.generation, load.load),
                StreamEnded(load.generation, load.load, kind))

EndEvents ==
  /\ turn = "Events" /\ Goto("Flush")
  /\ UNCHANGED <<vars, playerVars, foldVars, fold, frame_seen, paused,
                 stream_ends>>

\* All ends wait equally long, so those that are due come first.
EndIsDue == stream_ends # << >> /\ Head(stream_ends).in = 0

FlushStreamEnd ==
  /\ turn = "Flush" /\ EndIsDue /\ WithinLoadBound
  /\ LET load == Head(stream_ends).load
     IN  Dispatch(TakesStreamEnd(load.generation, load.load),
                  StreamEnded(load.generation, load.load, "Unclassified"))
  /\ stream_ends' = Tail(stream_ends)
  /\ UNCHANGED <<turn, playerVars, foldVars, fold, frame_seen, paused>>

EndFlush ==
  /\ turn = "Flush" /\ (WithinLoadBound => ~EndIsDue)
  /\ Goto("Present")
  /\ UNCHANGED <<vars, playerVars, foldVars, fold, frame_seen, paused,
                 stream_ends>>

-----------------------------------------------------------------------------
(* The turn: what the application does after the events, then the levels.  *)

\* The presentation was rebuilt, or needed no rebuilding.
ServicePresentation ==
  /\ turn = "Present" /\ Goto("Cache")
  /\ \/ WithinLoadBound
        /\ Dispatch(TakesBackendLoss, PresentationLost(generation))
     \/ UNCHANGED vars
  /\ UNCHANGED <<playerVars, foldVars, fold, frame_seen, paused, stream_ends>>

DispatchCacheState ==
  /\ turn = "Cache" /\ Goto("Sample")
  /\ IF Watching /\ paused \notin last_cache_state
     THEN /\ last_cache_state' = {paused}
          /\ Dispatch(Current(target.generation, target.load),
                      CacheState(target.generation, target.load, paused))
     ELSE UNCHANGED <<vars, last_cache_state>>
  /\ UNCHANGED <<playerVars, health, stall_reported, decode_stall_reported,
                 exact_failure_reported, fold, frame_seen, paused,
                 stream_ends>>

\* No sample is due, or it is of another load than the one watched.
SkipSample ==
  /\ turn = "Sample" /\ Goto("Poll")
  /\ UNCHANGED <<vars, playerVars, foldVars, fold, frame_seen, paused,
                 stream_ends>>

SampleHealth ==
  /\ turn = "Sample" /\ Goto("Verdict")
  /\ health # NoTarget /\ Watching /\ health = target
  /\ fold' \in IF frame_seen THEN PlayingFolds ELSE OpeningFolds
  /\ IF fold' = "Unknown" THEN UNCHANGED vars
     ELSE LET unhealthy == fold' # "Healthy"
          IN  Dispatch(/\ Current(health.generation, health.load)
                       /\ playback_unhealthy # unhealthy,
                       PlaybackHealthObserved(health.generation, health.load,
                                              unhealthy))
  /\ UNCHANGED <<playerVars, foldVars, frame_seen, paused, stream_ends>>

StallConfirmed  == fold \in {"OpenStalled", "Stalled"} /\ ~stall_reported
DecodeConfirmed == fold = "DecodeStalled" /\ ~decode_stall_reported

EndSample ==
  /\ Goto("Poll") /\ fold' = "Unknown"
  /\ UNCHANGED <<target, backend, framed, diagnosed, health,
                 exact_failure_reported, last_cache_state, frame_seen,
                 paused, stream_ends>>

ReportStall ==
  /\ turn = "Verdict" /\ StallConfirmed /\ WithinLoadBound
  /\ stall_reported' = TRUE
  /\ late_open' = (late_open \/ fold = "OpenStalled")
  /\ Dispatch(TakesStall(health.generation, health.load),
              IF fold = "OpenStalled"
              THEN OpenStalled(health.generation, health.load)
              ELSE PlaybackStalled(health.generation, health.load))
  /\ EndSample /\ UNCHANGED decode_stall_reported

ReportDecodeStall ==
  /\ turn = "Verdict" /\ ~StallConfirmed /\ DecodeConfirmed /\ WithinLoadBound
  /\ decode_stall_reported' = TRUE
  /\ Dispatch(TakesStall(health.generation, health.load),
              PlaybackStalled(health.generation, health.load))
  /\ EndSample /\ UNCHANGED <<stall_reported, late_open>>

\* Neither stall is to be reported: the timeline may have gone back.
ReportTimeline ==
  /\ turn = "Verdict"
  /\ WithinLoadBound => ~StallConfirmed /\ ~DecodeConfirmed
  /\ \/ UNCHANGED vars
     \/ /\ frame_seen /\ WithinLoadBound
        /\ Dispatch(/\ Current(health.generation, health.load)
                    /\ name = "Steady" /\ transport = "MpegTs",
                    TimelineRegressed(health.generation, health.load))
  /\ EndSample
  /\ UNCHANGED <<stall_reported, decode_stall_reported, late_open>>

-----------------------------------------------------------------------------
(* The turn: the deadline and the recovery command it may emit.            *)

PollDeadline ==
  /\ turn = "Poll"
  /\ Dispatch(SteadyDue \/ RetryDue, DeadlineReached)
  /\ Goto(IF effects' # << >> THEN "Settle" ELSE "Ready")
  /\ paused' = FALSE
  /\ UNCHANGED <<playerVars, foldVars, fold, frame_seen, stream_ends>>

Effect        == effects[1]
Commanded     == Load(Effect.generation, Effect.load_attempt)
Recreates     == Effect.mechanism = "RecreatePlayer"

\* reopen_current and recreate_player accept only a newer load of the target.
Executable ==
  /\ target.generation = Effect.generation
  /\ Effect.load_attempt > target.load
  /\ Recreates \/ backend
  /\ Effect.mechanism = "ReloadHlsLive" => transport = "Hls"

\* Mutant: every settled load is taken for a reopened one.
SettledAsReopen == "RecoveryReopen"
SettledIntent == IF Recreates THEN "PlayerRecreation" ELSE "RecoveryReopen"

\* Mutant: the callback's failure is not settled.
UnsettledFailure == UNCHANGED vars
SettleFailure == ReportSourceFailed(Commanded)

ExecuteRecovery ==
  /\ turn = "Settle" /\ Executable
  /\ Targets(Commanded) /\ backend' = TRUE
  /\ RestartSupervision(Commanded) /\ frame_seen' = FALSE
  /\ Dispatch(TakesLoad(Effect.generation, Effect.load_attempt,
                        SettledIntent),
              StreamLoadIssued(Effect.generation, Effect.load_attempt,
                               SettledIntent, transport))
  /\ Goto("Ready")
  /\ UNCHANGED <<fold, paused, stream_ends>>

\* Refused, failed, or thrown at any point: before the load has become the
\* target or after, with a backend or, of a recreation, without.
RecoveryFails ==
  /\ turn = "Settle"
  /\ SettleFailure
  /\ \/ KeepsTarget /\ backend' = backend
     \/ KeepsTarget /\ Executable /\ Recreates /\ backend' \in BOOLEAN
     \/ Targets(Commanded) /\ Executable /\ backend' = TRUE
  /\ Goto("Ready")
  /\ UNCHANGED <<foldVars, fold, frame_seen, paused, stream_ends>>

-----------------------------------------------------------------------------
\* Time passes between turns.
Elapse ==
  /\ turn = "Ready"
  /\ PassTime
  /\ stream_ends' = [i \in DOMAIN stream_ends |->
                       [stream_ends[i] EXCEPT !.in = Countdown(@)]]
  /\ UNCHANGED <<turn, playerVars, foldVars, fold, frame_seen, paused>>

HandleEvent ==
  \/ \E load \in Loads :
       \/ OnLoadRejected(load) \/ OnFirstStart(load) \/ OnEndFile(load)
       \/ OnAuthenticationRejected(load) \/ OnTransportFailure(load)
  \/ OnBackendFailed \/ EndEvents

SessionNext ==
  \/ BeginChannel \/ Play \/ StopPlayback \/ Elapse \/ BeginTurn
  \/ HandleEvent \/ FlushStreamEnd \/ EndFlush \/ ServicePresentation
  \/ DispatchCacheState \/ SkipSample \/ SampleHealth
  \/ ReportStall \/ ReportDecodeStall \/ ReportTimeline
  \/ PollDeadline \/ ExecuteRecovery \/ RecoveryFails

SessionSpec == SessionInit /\ [][SessionNext]_sessionVars

-----------------------------------------------------------------------------
(* Properties.                                                             *)

SessionTypeOK ==
  /\ TypeOK
  /\ turn \in Turns /\ fold \in OpeningFolds \cup PlayingFolds
  /\ {target, health} \subseteq Loads \cup {NoTarget}
  /\ {backend, framed, frame_seen, stall_reported, decode_stall_reported,
      exact_failure_reported, paused, diagnosed, late_open} \subseteq BOOLEAN
  /\ last_cache_state \in {{}, {TRUE}, {FALSE}}
  /\ stream_ends \in Seq([load : Loads, in : 0 .. StreamEndDelay])

(* The session is a reporter SupervisorEpisode allows: it reports a first  *)
(* frame once per load, an open stall only of a load that has shown none,  *)
(* and settles only loads that were commanded.                             *)
ImplementsEpisode == Safety

(* Between turns no recovery command is outstanding: whatever the player   *)
(* answers or throws, execute_recovery settles the command with the load   *)
(* identity and the intent the supervisor waits for, in the same turn.     *)
CommandsSettledInTurn ==
  turn # "Settle" =>
    /\ pending_load_attempt = NoLoad
    /\ plan.status = "Issued" => name # "Recovering"

(* What is watched is what plays is what the supervisor recovers: while    *)
(* supervision is on, the health fold, the player's target and the         *)
(* supervisor name the same load; after a revival as well.                 *)
WatchesWhatPlays ==
  Supervised /\ turn \notin {"Playing", "Settle"} =>
    /\ target = Load(generation, load_attempt)
    /\ health = target

(* When the deadline is polled the supervisor knows the cache state pumped *)
(* this turn, so the clean-playback window is never confirmed on a stale   *)
(* one: reporting only changes loses none, across reopens and revivals.    *)
CacheViewCurrent ==
  turn \in {"Sample", "Verdict", "Poll"} /\ Watching => cache_paused = paused

(* A diagnosis wins: once an exact failure of the load that plays has been *)
(* handled, no generic stream end of it is waiting to be reported, until   *)
(* the load shows a frame after all and is watched afresh.                 *)
DiagnosisWins ==
  diagnosed => \A i \in DOMAIN stream_ends : stream_ends[i].load # target

(* What the session knows of the load that plays is current when it acts   *)
(* on it: the cache state and the diagnosis.                               *)
SessionIsUpToDate == SessionTypeOK /\ CacheViewCurrent /\ DiagnosisWins

\* A sample has confirmed a stall of a load that counts as playing.
ConfirmsStall ==
  /\ turn = "Verdict" /\ name \in {"Zap", "Steady"} /\ WithinLoadBound
  /\ fold \in {"OpenStalled", "Stalled", "DecodeStalled"}

(* A confirmed stall of a load that counts as playing starts a recovery or *)
(* ends the episode, if the load has not been reported stalled before ...  *)
StallActedOn ==
  [][ConfirmsStall /\ ~late_open => name' \in {"Recovering", "Failed"}]_sessionVars

(* ... and whether it has or not (what the health policy says of the grace *)
(* that bounds how long a pause can suppress recovery).                    *)
EveryStallActedOn ==
  [][ConfirmsStall => name' \in {"Recovering", "Failed"}]_sessionVars

-----------------------------------------------------------------------------
(* The inductive strengthening that PlaybackSessionProofs uses.            *)

(* A command is out exactly while it is being settled, and is the one the  *)
(* supervisor waits for.                                                   *)
TurnShape ==
  /\ turn \in Turns /\ paused \in BOOLEAN
  /\ turn = "Playing" <=> name = "Loading"
  /\ CommandsSettledInTurn
  /\ turn # "Settle" => effects = << >>
  /\ turn = "Settle" =>
       /\ name = "Recovering" /\ plan.status = "Issued"
       /\ pending_load_attempt \in 1 .. MaxLoad + 1
       /\ pending_load_intent = SettledIntent
       /\ effects = <<[generation |-> generation,
                       load_attempt |-> pending_load_attempt,
                       mechanism |-> plan.mechanism]>>

(* Loads stay within the bound, and only a commanded load is recovered.    *)
LoadShape ==
  /\ load_attempt <= MaxLoad + 1
  /\ name = "Recovering" => load_attempt <= MaxLoad
  /\ load_commanded <=> load_attempt # NoLoad
  /\ load_commanded => transport \in Transports
  /\ name \in {"Zap", "Steady", "Recovering"} => load_commanded
  /\ OwesLateFrame => load_commanded

(* A first frame the supervisor was told of was observed, and was the      *)
(* target's only one.                                                      *)
FrameShape ==
  /\ turn = "Verdict" /\ fold \in OpeningFolds => ~frame_seen
  /\ shown => frame_seen
  /\ shown => name # "Loading"
  /\ shown /\ target = Load(generation, load_attempt) => framed

SessionInv == TurnShape /\ LoadShape /\ FrameShape /\ WatchesWhatPlays

(* What the supervisor was last told of the cache is what it holds, until  *)
(* the next load; it forgets with every load, and so does the session.     *)
CacheAsTold ==
  Watching /\ turn # "Playing" =>
    \A said \in last_cache_state : cache_paused = said

(* The latch tells of every diagnosis of the generation that plays.        *)
DiagnosisLatched ==
  /\ target.generation <= generation
  /\ diagnosed /\ target.generation = generation => exact_failure_reported

(* A load that is supervised is of a channel that was begun.               *)
ChannelBegun == Supervised => generation >= 1

(* A first frame that was observed is the only one the load will show, and *)
(* a stall beyond the opening is confirmed only after it; so a latch that  *)
(* is set with no frame to come has ended the playback it is about.        *)
StallsLatched ==
  /\ turn = "Verdict" /\ fold \in {"Stalled", "DecodeStalled"} => frame_seen
  /\ Supervised /\ turn # "Playing" =>
       /\ frame_seen => framed
       /\ stall_reported => late_open \/ frame_seen
       /\ decode_stall_reported => frame_seen
       /\ name \in {"Zap", "Steady"} =>
            (stall_reported => late_open) /\ ~decode_stall_reported
=============================================================================
