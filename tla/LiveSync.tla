------------------------------ MODULE LiveSync ------------------------------
(***************************************************************************)
(* Live synchronisation (player/live_sync.cpp, live_sync_gate.hpp,         *)
(* live_sync_turn.hpp and what player/playback_session.cpp does with       *)
(* them): every turn the buffered duration, taken for the distance to the  *)
(* live edge, is steered to a target by nudging the speed of playback, and *)
(* every rebuffer of an established load moves the target back.            *)
(*                                                                         *)
(* Times are in intervals of the model, speeds in per cent.  The shipped   *)
(* range of speeds is [Unity, Unity]; the range of the tests is wider.     *)
(***************************************************************************)
EXTENDS Integers, FiniteSetsExt

CONSTANTS
  Buffers,            \* what the cache may hold when it can be read
  InitialTarget, TargetIncrement, MaxTarget,
  MinSpeed, MaxSpeed, Gain,
  UpdateInterval,
  MaxStalls           \* bound of the model: halts of one channel

Unity      == 100
Unreadable == -1      \* demuxer-cache-duration could not be read

ASSUME LiveSyncAssumption ==
  /\ Buffers \subseteq Nat /\ Unity \in MinSpeed..MaxSpeed
  /\ {InitialTarget, TargetIncrement, MaxTarget, Gain, UpdateInterval, MaxStalls,
      MinSpeed, MaxSpeed} \subseteq Nat
  /\ InitialTarget <= MaxTarget

VARIABLES
  live_target, speed, since_update, has_updated,   \* LiveSync
  was_paused_for_cache,                       \* LiveSyncGate
  first_frame_seen, playback_established,     \* LiveSyncTurn
  rebuffer_count,                             \* PlaybackSession
  supervised,            \* the supervisor is not Idle
  has_backend, installed, \* mpv, and the speed it plays at
  seen_load, stalls,       \* history: the load as it has been seen to play, and
                      \* how often the loads of this channel came to a halt
  load_refused,            \* history: this channel's own load was never issued
  measured            \* history: the last turn had a measurement

syncVars == <<live_target, speed, since_update, has_updated, was_paused_for_cache,
              first_frame_seen, playback_established, rebuffer_count, supervised,
              has_backend, installed, seen_load, stalls, load_refused, measured>>

SyncInit ==
  /\ live_target = InitialTarget /\ speed = Unity
  /\ since_update = 0 /\ has_updated = FALSE
  /\ was_paused_for_cache = FALSE
  /\ first_frame_seen = FALSE /\ playback_established = FALSE
  /\ rebuffer_count = 0 /\ supervised = FALSE
  /\ has_backend = TRUE /\ installed = Unity
  /\ seen_load = "Opening" /\ stalls = 0 /\ load_refused = FALSE /\ measured = FALSE

-----------------------------------------------------------------------------
(* The lifecycle of channels, loads and backends.                          *)

\* reset_live_state: LiveSync::reset, LiveSyncTurn::reset and set_speed(1),
\* which a player without a backend ignores.
\* Mutant: mpv is left at the speed of the channel before.
ResetKeepsSpeed ==
  /\ live_target' = InitialTarget /\ speed' = Unity
  /\ has_updated' = FALSE /\ since_update' = 0
  /\ was_paused_for_cache' = FALSE /\ rebuffer_count' = 0
  /\ stalls' = 0 /\ UNCHANGED installed
ResetLiveState ==
  /\ live_target' = InitialTarget /\ speed' = Unity
  /\ has_updated' = FALSE /\ since_update' = 0
  /\ was_paused_for_cache' = FALSE /\ rebuffer_count' = 0
  /\ installed' = Unity
  /\ stalls' = 0

\* Mutant: a load inherits the confirmation of the one before.
BeginSyncLoadEstablished ==
  /\ first_frame_seen' = FALSE /\ seen_load' = "Opening"
  /\ UNCHANGED playback_established
BeginSyncLoad ==
  /\ first_frame_seen' = FALSE /\ playback_established' = FALSE
  /\ seen_load' = "Opening"

\* begin_channel, then load_started.
StartChannel ==
  /\ has_backend
  /\ ResetLiveState /\ BeginSyncLoad /\ supervised' = TRUE /\ load_refused' = FALSE
  /\ UNCHANGED <<has_backend, measured>>

\* begin_channel, then load_failed: the turn is not told of a load.
ChannelRefused ==
  /\ ResetLiveState /\ supervised' = TRUE /\ load_refused' = TRUE /\ seen_load' = "Opening"
  /\ UNCHANGED <<first_frame_seen, playback_established, has_backend, measured>>

\* complete_recovery of a reopen: what was learned stays.
ReopenLoad ==
  /\ supervised /\ has_backend /\ BeginSyncLoad
  /\ UNCHANGED <<live_target, speed, since_update, has_updated, was_paused_for_cache,
                 rebuffer_count, supervised, has_backend, installed, stalls, load_refused, measured>>

\* complete_recovery of a recreation: a new backend plays at its default.
RecreateBackend ==
  /\ supervised /\ ResetLiveState /\ BeginSyncLoad /\ has_backend' = TRUE /\ load_refused' = FALSE
  /\ UNCHANGED <<supervised, measured>>

\* No backend is left, and the session is told of no load.
RecreationFails ==
  /\ supervised /\ has_backend' = FALSE /\ installed' = Unity
  /\ UNCHANGED <<live_target, speed, since_update, has_updated, was_paused_for_cache,
                 first_frame_seen, playback_established, rebuffer_count, supervised,
                 seen_load, stalls, load_refused, measured>>

Stop ==
  /\ supervised /\ ResetLiveState /\ supervised' = FALSE /\ seen_load' = "Opening"
  /\ UNCHANGED <<first_frame_seen, playback_established, has_backend, load_refused, measured>>

-----------------------------------------------------------------------------
(* One turn: its events, the supervisor's poll, then update_live_sync on   *)
(* what mpv reports.                                                       *)

Samples == [paused_for_cache : BOOLEAN, core_idle : BOOLEAN,
            buffered : Buffers \cup {Unreadable}]

Blind(sample) ==
  sample.paused_for_cache \/ sample.core_idle \/ sample.buffered = Unreadable

Clamp(low, value, high) == Max({low, Min({value, high})})

\* LiveSync::update.
WantedSpeed(sample) == Clamp(MinSpeed, Unity + Gain * (sample.buffered - live_target'), MaxSpeed)

\* The rising edge of a pause, once the load is established.
\* Mutant: from its first frame a load is taken for established.
RebufferedOnceSeen(sample) ==
  sample.paused_for_cache /\ ~was_paused_for_cache /\ first_frame_seen'
Rebuffered(sample) ==
  sample.paused_for_cache /\ ~was_paused_for_cache /\ playback_established'

\* hold_unity_speed, or update once the interval is over.
\* Mutant: without a measurement the speed stays what it was.
SteerWhenMeasured(sample, elapsed) ==
  LET age == Min({since_update + elapsed, UpdateInterval}) IN
  IF ~Blind(sample) /\ ~(has_updated /\ age < UpdateInterval)
  THEN has_updated' = TRUE /\ since_update' = 0 /\ speed' = WantedSpeed(sample)
  ELSE since_update' = age /\ UNCHANGED <<has_updated, speed>>
Steer(sample, elapsed) ==
  LET age == Min({since_update + elapsed, UpdateInterval}) IN
  \/ Blind(sample) /\ has_updated' = FALSE /\ speed' = Unity /\ since_update' = age
  \/ /\ ~Blind(sample) /\ has_updated /\ age < UpdateInterval
     /\ since_update' = age /\ UNCHANGED <<has_updated, speed>>
  \/ /\ ~Blind(sample) /\ ~(has_updated /\ age < UpdateInterval)
     /\ has_updated' = TRUE /\ since_update' = 0 /\ speed' = WantedSpeed(sample)

UpdateLiveSync(sample, elapsed) ==
  /\ was_paused_for_cache' = sample.paused_for_cache
  /\ rebuffer_count' = rebuffer_count + (IF Rebuffered(sample) THEN 1 ELSE 0)
  /\ live_target' = IF Rebuffered(sample) THEN Min({live_target + TargetIncrement, MaxTarget}) ELSE live_target
  /\ Steer(sample, elapsed)
  /\ installed' = IF has_backend THEN speed' ELSE installed

\* What a viewer sees: a load that plays steadily, and comes to a halt.
Watch(sample, steady) ==
  /\ seen_load' = IF seen_load = "Opening" /\ ~steady THEN "Opening"
                  ELSE IF sample.paused_for_cache THEN "Halted" ELSE "Plays"
  /\ stalls' = stalls + (IF seen_load = "Plays" /\ seen_load' = "Halted" THEN 1 ELSE 0)
  /\ {stalls', rebuffer_count'} \subseteq 0..MaxStalls

(* The supervisor announces Steady after a first frame and a clean window, *)
(* which a pause of the same turn would have ended.  An Idle one is not    *)
(* asked for anything.                                                     *)
Turn(sample, first_frame, steady, elapsed) ==
  /\ supervised
  /\ first_frame => has_backend
  /\ first_frame_seen' = (first_frame_seen \/ first_frame)
  /\ steady => has_backend /\ first_frame_seen' /\ ~sample.paused_for_cache
  /\ playback_established' = (playback_established \/ steady)
  /\ ~has_backend => Blind(sample) /\ ~sample.paused_for_cache
  /\ UpdateLiveSync(sample, elapsed)
  /\ Watch(sample, steady) /\ measured' = ~Blind(sample)
  /\ UNCHANGED <<supervised, has_backend, load_refused>>

SyncNext ==
  \/ StartChannel \/ ChannelRefused \/ ReopenLoad \/ RecreateBackend \/ RecreationFails \/ Stop
  \/ \E sample \in Samples, first_frame, steady \in BOOLEAN, elapsed \in {0, 1} :
       Turn(sample, first_frame, steady, elapsed)

SyncSpec == SyncInit /\ [][SyncNext]_syncVars

-----------------------------------------------------------------------------
(* Properties.                                                             *)

\* Every variable keeps its type.
SyncTypeOK ==
  /\ live_target \in InitialTarget..MaxTarget /\ speed \in MinSpeed..MaxSpeed
  /\ since_update \in 0..UpdateInterval
  /\ {has_updated, was_paused_for_cache, first_frame_seen, playback_established,
      supervised, has_backend, load_refused, measured} \subseteq BOOLEAN
  /\ rebuffer_count \in Nat /\ stalls \in 0..MaxStalls
  /\ seen_load \in {"Opening", "Plays", "Halted"} /\ installed \in MinSpeed..MaxSpeed

\* A speed other than unity was set on a measurement of the turn before.
SpeedIsBelieved ==
  /\ has_backend => installed = speed
  /\ speed # Unity => supervised /\ measured

\* A channel whose own load was refused is left out: the turn still holds
\* the confirmation of the load before.
TargetIsEarned ==
  ~load_refused =>
    /\ rebuffer_count = stalls
    /\ live_target = Min({InitialTarget + stalls * TargetIncrement, MaxTarget})

(* What the controller believes is so.  The speed it remembers is the one  *)
(* mpv plays at, through reopens, recreations that succeed or fail, stops  *)
(* and turns, and without a measurement it is unity (live_sync.hpp: its    *)
(* own record of the installed speed would drift away from mpv's).  And    *)
(* latency was conceded once for every time a load that played steadily    *)
(* came to a halt, and for nothing else: not for the opening fill of a     *)
(* channel, a reopen or a new backend, and not once per turn of a long     *)
(* halt (live_sync_turn.hpp: a reopen's own fill must concede nothing).    *)
ControllerIsHonest == SpeedIsBelieved /\ TargetIsEarned
=============================================================================
