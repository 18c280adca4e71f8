------------------------ MODULE PlaybackPartsProofs ------------------------
(***************************************************************************)
(* The parts that watch playback: the live controller believes what is so, *)
(* the telemetry of a recovery reports what really happened after it, a    *)
(* channel is reloaded only for ground that was lost, and only so often, a *)
(* stall is told from playback, both ways, of a source's gaps only silence *)
(* is charged to it, the filter of super resolution comes to rest, and the *)
(* cache of a load settles in the phase the load is in.                    *)
(***************************************************************************)
EXTENDS LiveSync, DeliveryTelemetry, RecoveryEdge, TimelineRecovery, PlaybackHealth,
        SuperResolution, BufferPhase, SubsequenceProofs

-----------------------------------------------------------------------------
(* Live synchronisation (player/live_sync.cpp)                             *)

\* What the least of two integers is.
LEMMA MinOfTwo ==
  ASSUME NEW a \in Int, NEW b \in Int
  PROVE  Min({a, b}) = IF a <= b THEN a ELSE b
<1>1. \E x \in {a, b} : \A y \in {a, b} : x <= y
  OBVIOUS
<1>2. Min({a, b}) \in {a, b} /\ \A y \in {a, b} : Min({a, b}) <= y
  BY <1>1, Zenon DEF Min
<1> QED BY <1>2

\* What the greatest of two integers is.
LEMMA MaxOfTwo ==
  ASSUME NEW a \in Int, NEW b \in Int
  PROVE  Max({a, b}) = IF a >= b THEN a ELSE b
<1>1. \E x \in {a, b} : \A y \in {a, b} : x >= y
  OBVIOUS
<1>2. Max({a, b}) \in {a, b} /\ \A y \in {a, b} : Max({a, b}) >= y
  BY <1>1, Zenon DEF Max
<1> QED BY <1>2

Target(n) == Min({InitialTarget + n * TargetIncrement, MaxTarget})

SyncNumbers ==
  /\ live_target \in InitialTarget .. MaxTarget /\ speed \in MinSpeed .. MaxSpeed
  /\ installed \in MinSpeed .. MaxSpeed /\ since_update \in 0 .. UpdateInterval
  /\ rebuffer_count \in Nat /\ stalls \in 0 .. MaxStalls
  /\ seen_load \in {"Opening", "Plays", "Halted"}

SyncFlags ==
  /\ has_updated \in BOOLEAN /\ was_paused_for_cache \in BOOLEAN
  /\ first_frame_seen \in BOOLEAN /\ playback_established \in BOOLEAN
  /\ supervised \in BOOLEAN /\ has_backend \in BOOLEAN
  /\ load_refused \in BOOLEAN /\ measured \in BOOLEAN

HaltsCounted ==
  ~load_refused => rebuffer_count = stalls /\ live_target = Target(stalls)

\* What the gate and the turn remember of a load is what was seen of it.
LoadIsAsSeen ==
  supervised /\ ~load_refused =>
    /\ playback_established <=> seen_load # "Opening"
    /\ seen_load = "Plays" => ~was_paused_for_cache
    /\ seen_load = "Halted" => was_paused_for_cache

SyncInv == SyncNumbers /\ SyncFlags /\ SpeedIsBelieved /\ HaltsCounted /\ LoadIsAsSeen

\* One more halt concedes one more increment, up to the greatest target.
LEMMA TargetGrows ==
  /\ Target(0) = InitialTarget
  /\ \A n \in Nat :
       /\ Target(n) \in InitialTarget .. MaxTarget
       /\ Min({Target(n) + TargetIncrement, MaxTarget}) = Target(n + 1)
<1> USE LiveSyncAssumption DEF Target
<1>1. Target(0) = InitialTarget
  <2>1. 0 * TargetIncrement = 0 
    OBVIOUS
  <2> QED BY <2>1, MinOfTwo
<1>2. ASSUME NEW n \in Nat
      PROVE  /\ Target(n) \in InitialTarget .. MaxTarget
             /\ Min({Target(n) + TargetIncrement, MaxTarget}) = Target(n + 1)
  <2>1. n * TargetIncrement \in Nat
    OBVIOUS
  <2>2. (n + 1) * TargetIncrement = n * TargetIncrement + TargetIncrement
    OBVIOUS
  <2> DEFINE conceded == n * TargetIncrement
  <2>3. Target(n) = IF InitialTarget + conceded <= MaxTarget THEN InitialTarget + conceded ELSE MaxTarget
    BY <2>1, MinOfTwo
  <2>4. Target(n + 1) = IF InitialTarget + conceded + TargetIncrement <= MaxTarget
                        THEN InitialTarget + conceded + TargetIncrement ELSE MaxTarget
    BY <2>1, <2>2, MinOfTwo
  <2>5. Min({Target(n) + TargetIncrement, MaxTarget})
          = IF Target(n) + TargetIncrement <= MaxTarget THEN Target(n) + TargetIncrement ELSE MaxTarget
    BY <2>1, <2>3, MinOfTwo
  <2> HIDE DEF conceded, Target
  <2>6. conceded \in Nat
    BY <2>1 DEF conceded
  <2> QED BY <2>3, <2>4, <2>5, <2>6
<1> QED BY <1>1, <1>2

\* No load has been seen at the start, and the speed is unity.
LEMMA SyncInvInit == SyncInit => SyncInv
<1> SUFFICES ASSUME SyncInit PROVE SyncInv
  OBVIOUS
<1>1. SyncNumbers
  BY LiveSyncAssumption DEF SyncInit, SyncNumbers, Unity
<1>2. SyncFlags /\ SpeedIsBelieved /\ LoadIsAsSeen
  BY DEF SyncInit, SyncFlags, SpeedIsBelieved, LoadIsAsSeen
<1>3. HaltsCounted
  BY TargetGrows DEF SyncInit, HaltsCounted
<1> QED BY <1>1, <1>2, <1>3 DEF SyncInv

\* What a reset leaves: the target of no halt at all, and unity.
LEMMA ResetIsHonest ==
  ASSUME ResetLiveState
  PROVE  /\ live_target' \in InitialTarget .. MaxTarget /\ live_target' = Target(stalls')
         /\ speed' \in MinSpeed .. MaxSpeed /\ installed' = speed' /\ speed' = Unity
         /\ since_update' \in 0 .. UpdateInterval
         /\ has_updated' = FALSE /\ was_paused_for_cache' = FALSE
         /\ stalls' = 0 /\ rebuffer_count' = 0 /\ stalls' \in 0 .. MaxStalls
BY TargetGrows, LiveSyncAssumption DEF ResetLiveState, Unity

\* Steering keeps the speed in its range, and at unity without a measurement.
LEMMA SteerIsHonest ==
  ASSUME SyncNumbers, SyncFlags, NEW sample \in Samples, NEW elapsed \in {0, 1},
         Steer(sample, elapsed), live_target' \in Nat
  PROVE  /\ speed' \in MinSpeed .. MaxSpeed /\ since_update' \in 0 .. UpdateInterval
         /\ has_updated' \in BOOLEAN
         /\ Blind(sample) => speed' = Unity
<1> DEFINE age == Min({since_update + elapsed, UpdateInterval})
           wanted == Unity + Gain * (sample.buffered - live_target')
<1> USE LiveSyncAssumption
<1>1. age \in 0 .. UpdateInterval
  BY MinOfTwo DEF SyncNumbers
<1>2. ASSUME ~Blind(sample)
      PROVE  WantedSpeed(sample) \in MinSpeed .. MaxSpeed
  <2>1. sample.buffered \in Nat
    BY <1>2 DEF Samples, Blind
  <2>2. wanted \in Int
    BY <2>1 DEF Unity
  <2> HIDE DEF wanted
  <2>3. WantedSpeed(sample) = Max({MinSpeed, Min({wanted, MaxSpeed})})
    BY DEF WantedSpeed, Clamp, wanted
  <2>4. Min({wanted, MaxSpeed}) = IF wanted <= MaxSpeed THEN wanted ELSE MaxSpeed
    BY <2>2, MinOfTwo
  <2>5. MinSpeed <= MaxSpeed
    BY DEF Unity
  <2> QED BY <2>2, <2>3, <2>4, <2>5, MaxOfTwo
<1> HIDE DEF age, wanted
<1>3. CASE Blind(sample) /\ has_updated' = FALSE /\ speed' = Unity /\ since_update' = age
  BY <1>1, <1>3
<1>4. CASE ~Blind(sample) /\ since_update' = age /\ UNCHANGED <<has_updated, speed>>
  BY <1>1, <1>4 DEF SyncNumbers, SyncFlags
<1>5. CASE ~Blind(sample) /\ has_updated' = TRUE /\ since_update' = 0 /\ speed' = WantedSpeed(sample)
  BY <1>2, <1>5
<1> QED BY <1>3, <1>4, <1>5 DEF Steer, age

\* A turn of the controller steers by what it measures and counts a halt once
\* (player/live_sync.cpp).
LEMMA SyncTurn ==
  ASSUME SyncInv, NEW sample \in Samples, NEW begins \in BOOLEAN, NEW holds_steady \in BOOLEAN,
         NEW elapsed \in {0, 1}, Turn(sample, begins, holds_steady, elapsed)
  PROVE  SyncInv'
<1> USE DEF SyncInv
<1>1. /\ supervised /\ UNCHANGED <<supervised, has_backend, load_refused>>
      /\ holds_steady => ~sample.paused_for_cache
      /\ was_paused_for_cache' = sample.paused_for_cache
      /\ installed' = IF has_backend THEN speed' ELSE installed
      /\ measured' = ~Blind(sample)
  BY DEF Turn, UpdateLiveSync
<1>2. /\ first_frame_seen' = (first_frame_seen \/ begins)
      /\ playback_established' = (playback_established \/ holds_steady)
  BY DEF Turn
<1>3. /\ seen_load' \in {"Opening", "Plays", "Halted"}
      /\ (seen_load' = "Opening") <=> (seen_load = "Opening" /\ ~holds_steady)
      /\ seen_load' = "Halted" => sample.paused_for_cache
      /\ seen_load' = "Plays" => ~sample.paused_for_cache
      /\ (seen_load = "Plays" /\ sample.paused_for_cache)
           <=> (seen_load = "Plays" /\ seen_load' = "Halted")
  <2>1. seen_load' = IF seen_load = "Opening" /\ ~holds_steady THEN "Opening"
                     ELSE IF sample.paused_for_cache THEN "Halted" ELSE "Plays"
    BY DEF Turn, Watch
  <2>2. sample.paused_for_cache \in BOOLEAN
    BY DEF Samples
  <2> QED BY <1>1, <2>1, <2>2
<1> DEFINE halts == seen_load = "Plays" /\ sample.paused_for_cache
<1>4. /\ stalls' = stalls + (IF halts THEN 1 ELSE 0)
      /\ stalls' \in 0 .. MaxStalls /\ rebuffer_count' \in 0 .. MaxStalls
  BY <1>3 DEF Turn, Watch
<1>5. /\ rebuffer_count' = rebuffer_count + (IF Rebuffered(sample) THEN 1 ELSE 0)
      /\ live_target' = IF Rebuffered(sample) THEN Min({live_target + TargetIncrement, MaxTarget})
                                              ELSE live_target
      /\ Steer(sample, elapsed)
  BY DEF Turn, UpdateLiveSync
<1>6. live_target' \in InitialTarget .. MaxTarget
  <2>1. Min({live_target + TargetIncrement, MaxTarget}) \in InitialTarget .. MaxTarget
    BY MinOfTwo, LiveSyncAssumption DEF SyncNumbers
  <2> QED BY <1>5, <2>1 DEF SyncNumbers
<1>7. /\ speed' \in MinSpeed .. MaxSpeed /\ since_update' \in 0 .. UpdateInterval
      /\ has_updated' \in BOOLEAN
      /\ Blind(sample) => speed' = Unity
  <2>1. live_target' \in Nat /\ speed \in Int
    BY <1>6, LiveSyncAssumption DEF SyncNumbers
  <2> QED BY <1>5, <2>1, SteerIsHonest
<1>8. SyncNumbers'
  BY <1>1, <1>3, <1>4, <1>6, <1>7 DEF SyncNumbers
<1>9. SyncFlags'
  <2>1. first_frame_seen' \in BOOLEAN /\ playback_established' \in BOOLEAN
    BY <1>2, Zenon
  <2>2. measured' \in BOOLEAN
    BY <1>1, Zenon
  <2>3. was_paused_for_cache' \in BOOLEAN
    BY <1>1 DEF Samples
  <2> QED BY <1>1, <1>7, <2>1, <2>2, <2>3 DEF SyncFlags
<1>10. SpeedIsBelieved'
  <2>1. Blind(sample) \/ measured'
    BY <1>1, Zenon
  <2> QED BY <1>1, <1>7, <2>1 DEF SpeedIsBelieved
<1>11. playback_established' <=> playback_established \/ holds_steady
  BY <1>2, Zenon
<1>12. ASSUME ~load_refused
       PROVE  Rebuffered(sample) <=> halts
  <2>1. Rebuffered(sample) <=> sample.paused_for_cache /\ ~was_paused_for_cache /\ playback_established'
    BY DEF Rebuffered
  <2>2. sample.paused_for_cache => ~holds_steady
    BY <1>1
  <2>3. /\ playback_established <=> seen_load # "Opening"
        /\ seen_load = "Plays" => ~was_paused_for_cache
        /\ seen_load = "Halted" => was_paused_for_cache
    BY <1>1, <1>12 DEF LoadIsAsSeen
  <2>4. seen_load = "Opening" \/ seen_load = "Plays" \/ seen_load = "Halted"
    BY DEF SyncNumbers
  <2> QED BY <1>11, <2>1, <2>2, <2>3, <2>4, Zenon
<1>13. HaltsCounted'
  BY <1>1, <1>4, <1>5, <1>12, TargetGrows DEF HaltsCounted, SyncNumbers
<1>14. LoadIsAsSeen'
  BY <1>1, <1>3, <1>11 DEF LoadIsAsSeen
<1> QED BY <1>8, <1>9, <1>10, <1>13, <1>14

\* Every load, stop and turn keeps the controller honest.
LEMMA SyncInvStep == SyncInv /\ [SyncNext]_syncVars => SyncInv'
<1> SUFFICES ASSUME SyncInv, [SyncNext]_syncVars PROVE SyncInv'
  OBVIOUS
<1> USE DEF SyncInv
<1>a. ASSUME ResetLiveState, seen_load' = "Opening", supervised' \in BOOLEAN,
             has_backend' \in BOOLEAN, load_refused' \in BOOLEAN, UNCHANGED measured,
             first_frame_seen' \in BOOLEAN, playback_established' \in BOOLEAN,
             ~supervised' \/ load_refused' \/ ~playback_established'
      PROVE  SyncInv'
  <2>1. SyncNumbers' /\ HaltsCounted'
    BY <1>a, ResetIsHonest DEF SyncNumbers, HaltsCounted
  <2>2. SyncFlags' /\ SpeedIsBelieved' /\ LoadIsAsSeen'
    BY <1>a, ResetIsHonest DEF SyncFlags, SpeedIsBelieved, LoadIsAsSeen
  <2> QED BY <2>1, <2>2
<1>b. /\ supervised \in BOOLEAN /\ has_backend \in BOOLEAN /\ load_refused \in BOOLEAN
      /\ first_frame_seen \in BOOLEAN /\ playback_established \in BOOLEAN
  BY DEF SyncFlags
<1>1. CASE StartChannel
  BY <1>1, <1>a, <1>b DEF StartChannel, BeginSyncLoad
<1>2. CASE ChannelRefused
  BY <1>2, <1>a, <1>b DEF ChannelRefused
<1>3. CASE ReopenLoad
  <2>1. SyncNumbers' /\ HaltsCounted'
    BY <1>3 DEF ReopenLoad, BeginSyncLoad, SyncNumbers, HaltsCounted
  <2>2. SyncFlags' /\ SpeedIsBelieved' /\ LoadIsAsSeen'
    BY <1>3 DEF ReopenLoad, BeginSyncLoad, SyncFlags, SpeedIsBelieved, LoadIsAsSeen
  <2> QED BY <2>1, <2>2
<1>4. CASE RecreateBackend
  BY <1>4, <1>a, <1>b DEF RecreateBackend, BeginSyncLoad
<1>5. CASE RecreationFails
  <2>1. SyncNumbers' /\ HaltsCounted'
    BY <1>5, LiveSyncAssumption DEF RecreationFails, SyncNumbers, HaltsCounted, Unity
  <2>2. SyncFlags' /\ SpeedIsBelieved' /\ LoadIsAsSeen'
    BY <1>5 DEF RecreationFails, SyncFlags, SpeedIsBelieved, LoadIsAsSeen
  <2> QED BY <2>1, <2>2
<1>6. CASE Stop
  BY <1>6, <1>a, <1>b DEF Stop
<1>7. CASE \E sample \in Samples, begins, holds_steady \in BOOLEAN, elapsed \in {0, 1} :
             Turn(sample, begins, holds_steady, elapsed)
  BY <1>7, SyncTurn
<1>8. CASE UNCHANGED syncVars
  BY <1>8 DEF syncVars, SyncNumbers, SyncFlags, SpeedIsBelieved, HaltsCounted, LoadIsAsSeen
<1> QED
  BY <1>1, <1>2, <1>3, <1>4, <1>5, <1>6, <1>7, <1>8 DEF SyncNext

\* For any targets, speeds, gain and interval: the speed the controller
\* believes is installed is installed, it is unity while nothing can be
\* measured, and the target has grown by one increment for each halt of the
\* load that was seen (player/live_sync.cpp, playback_session.cpp).
THEOREM ControllerBelievesWhatIsSo == SyncSpec => []ControllerIsHonest
<1>1. SyncInv => ControllerIsHonest
  BY DEF SyncInv, ControllerIsHonest, HaltsCounted, TargetIsEarned, Target
<1> QED
  BY <1>1, SyncInvInit, SyncInvStep, PTL DEF SyncSpec

\* For any targets and speeds, what the controller keeps has its type.
LEMMA SyncIsTyped == SyncSpec => []SyncTypeOK
<1>1. SyncInv => SyncTypeOK
  BY DEF SyncInv, SyncNumbers, SyncFlags, SyncTypeOK
<1> QED BY <1>1, SyncInvInit, SyncInvStep, PTL DEF SyncSpec

-----------------------------------------------------------------------------
(* Recovery-edge telemetry (player/recovery_edge_telemetry.cpp)            *)

MediaTimes == [playback : Int, cache : Int]
Anchors ==
  [channel : {0, 1}, recovered : Nat, age : Nat, times : SUBSET MediaTimes, start : SUBSET Nat]

ActiveLoad ==
  /\ active \in [channel : {0, 1}, load : Nat, start : Nat, raw : BOOLEAN]
  /\ active.load <= commanded /\ active.load >= 1 /\ commanded \in 1 .. MaxEdgeLoads

\* What was read when the recovery began is where playback and the cache were,
\* in the times of the load of then.
AnchorIsOwn ==
  \A a \in anchor :
    /\ a.channel = active.channel
    /\ \A b \in a.start, t \in a.times :
         t = [playback |-> origin.playback - b, cache |-> origin.cache - b]
    /\ a.times # {} => \E t \in a.times : a.times = {t}

Observation ==
  /\ anchor \subseteq Anchors /\ \A a, b \in anchor : a = b
  /\ origin \in [playback : Nat, cache : Nat]
  /\ pause_seen \in BOOLEAN /\ pauses \in BOOLEAN /\ readable_samples \in Nat /\ compared \in Nat
  /\ anchor # {} => (pause_seen = TRUE <=> pauses = TRUE) /\ readable_samples = compared
  /\ anchor = {} => readable_samples = 0 /\ pause_seen = FALSE

EdgeInv == ActiveLoad /\ Observation /\ AnchorIsOwn /\ ReportIsOfItsRecovery

\* Nothing has been recovered at the start.
LEMMA EdgeInvInit == EdgeInit => EdgeInv
<1> SUFFICES ASSUME EdgeInit PROVE EdgeInv
  OBVIOUS
<1> USE RecoveryEdgeAssumption DEF EdgeInit
<1>1. ActiveLoad
  BY DEF ActiveLoad
<1>2. Observation /\ AnchorIsOwn /\ ReportIsOfItsRecovery
  BY DEF Observation, AnchorIsOwn, ReportIsOfItsRecovery
<1> QED BY <1>1, <1>2 DEF EdgeInv

\* What is read of a load, of a known sample or of none.
LEMMA ReadingsSound ==
  ASSUME ActiveLoad, NEW s \in EdgeSamples
  PROVE  /\ s.playback \in Nat /\ s.cache \in Nat /\ s.paused \in BOOLEAN
         /\ Readings(s).start \in {{}, {active.start}}
         /\ Readings(s).times \in {{}, {[playback |-> s.playback - active.start,
                                         cache |-> s.cache - active.start]}}
BY RecoveryEdgeAssumption DEF EdgeSamples, Readings, Readable

\* The figures of a complete report are the distance really fallen behind.
LEMMA ResidualsAreTrue ==
  ASSUME ActiveLoad, Observation, AnchorIsOwn, NEW a \in anchor, NEW s \in EdgeSamples,
         {} \notin {a.times, a.start, Readings(s).times, Readings(s).start}
  PROVE  Residuals(a, s) = FellBehind(a, s)
<1> DEFINE then == CHOOSE t \in a.times : TRUE
           here == CHOOSE t \in Readings(s).times : TRUE
           base == CHOOSE b \in a.start : TRUE
<1>1. then \in a.times /\ base \in a.start /\ here \in Readings(s).times
  OBVIOUS
<1>2. then = [playback |-> origin.playback - base, cache |-> origin.cache - base]
  BY <1>1 DEF AnchorIsOwn
<1>3. here = [playback |-> s.playback - active.start, cache |-> s.cache - active.start]
  BY <1>1, ReadingsSound
<1>4. /\ base \in Nat /\ active.start \in Nat /\ a.age \in Nat
      /\ origin.playback \in Nat /\ origin.cache \in Nat
      /\ s.playback \in Nat /\ s.cache \in Nat
  BY <1>1, ReadingsSound DEF Observation, Anchors, ActiveLoad
<1>5. Residuals(a, s) = [playback |-> here.playback + (active.start - base) - then.playback - a.age,
                         cache    |-> here.cache + (active.start - base) - then.cache - a.age]
  BY DEF Residuals, Rebase
<1> HIDE DEF then, here, base
<1>6. /\ here.playback + (active.start - base) - then.playback - a.age
           = s.playback - origin.playback - a.age
      /\ here.cache + (active.start - base) - then.cache - a.age
           = s.cache - origin.cache - a.age
  <2>1. /\ then.playback = origin.playback - base /\ then.cache = origin.cache - base
        /\ here.playback = s.playback - active.start /\ here.cache = s.cache - active.start
    BY <1>2, <1>3
  <2> QED BY <1>4, <2>1
<1> QED BY <1>5, <1>6 DEF FellBehind

\* Without an anchor there is nothing to agree on.
LEMMA ResetSound ==
  ASSUME EdgeInv, ResetObserver, ActiveLoad', report' = {}, UNCHANGED edgeHistory
  PROVE  EdgeInv'
BY DEF EdgeInv, ResetObserver, Observation, AnchorIsOwn, ReportIsOfItsRecovery, edgeHistory

\* A reopen keeps the readings of the load it leaves as the anchor of the next.
LEMMA ReopenSound ==
  ASSUME EdgeInv, NEW start \in Places, EdgeReopen(start) PROVE EdgeInv'
<1> USE RecoveryEdgeAssumption DEF EdgeInv
<1>1. /\ commanded < MaxEdgeLoads /\ commanded' = commanded + 1 /\ report' = {} /\ Issued(start)
  BY DEF EdgeReopen
<1>2. ActiveLoad' /\ active'.channel = active.channel
  <2>1. CASE UNCHANGED active
    BY <1>1, <2>1 DEF ActiveLoad
  <2>2. ASSUME NEW raw \in {active.raw, FALSE},
               active' = [active EXCEPT !.load = commanded', !.start = start, !.raw = raw]
        PROVE  ActiveLoad' /\ active'.channel = active.channel
    <3>1. active' = [channel |-> active.channel, load |-> commanded + 1, start |-> start, raw |-> raw]
      BY <1>1, <2>2 DEF ActiveLoad
    <3>2. active.channel \in {0, 1} /\ start \in Nat /\ raw \in BOOLEAN /\ commanded \in 1 .. MaxEdgeLoads
      BY DEF ActiveLoad
    <3> QED BY <1>1, <3>1, <3>2 DEF ActiveLoad
  <2> QED BY <1>1, <2>1, <2>2 DEF Issued
<1>3. ASSUME NEW s, NEW known \in BOOLEAN, AnchorAt(s, known),
             s.playback \in Nat /\ s.cache \in Nat /\ s.paused \in BOOLEAN,
             known => s \in EdgeSamples
      PROVE  Observation' /\ AnchorIsOwn'
  <2> DEFINE readings == IF known THEN Readings(s) ELSE Unread
             a == [channel |-> active.channel, recovered |-> commanded', age |-> 0,
                   times |-> readings.times, start |-> readings.start]
  <2>1. /\ anchor' = {a} /\ pause_seen' = (known /\ s.paused) /\ readable_samples' = 0
        /\ origin' = [playback |-> s.playback, cache |-> s.cache]
        /\ pauses' = (known /\ s.paused) /\ compared' = 0
    BY <1>3 DEF AnchorAt, BeginRecovery
  <2>2. /\ readings.start \in {{}, {active.start}}
        /\ readings.times \in {{}, {[playback |-> s.playback - active.start,
                                     cache |-> s.cache - active.start]}}
    BY <1>3, ReadingsSound DEF Unread
  <2> HIDE DEF readings
  <2>3. a \in Anchors
    BY <1>1, <1>3, <2>2 DEF Anchors, MediaTimes, ActiveLoad
  <2>4. Observation'
    <3>1. pause_seen' \in BOOLEAN /\ pauses' \in BOOLEAN /\ (pause_seen' = TRUE <=> pauses' = TRUE)
      BY <2>1, <1>3, Zenon
    <3> HIDE DEF a
    <3> QED BY <2>1, <2>3, <3>1, <1>3 DEF Observation
  <2>5. AnchorIsOwn'
    BY <1>2, <2>1, <2>2 DEF AnchorIsOwn
  <2> QED BY <2>4, <2>5
<1>4. CASE active.raw
  <2>1. CASE \E s \in EdgeSamples : AnchorAt(s, TRUE)
    BY <1>1, <1>2, <1>3, <2>1, ReadingsSound DEF ReportIsOfItsRecovery
  <2>2. CASE AnchorAt([playback |-> 0, cache |-> 0, paused |-> FALSE], FALSE)
    BY <1>1, <1>2, <1>3, <2>2 DEF ReportIsOfItsRecovery
  <2> QED BY <1>4, <2>1, <2>2 DEF EdgeReopen
<1>5. CASE ~active.raw
  BY <1>1, <1>2, <1>5 DEF EdgeReopen, observerVars, edgeHistory, Observation, AnchorIsOwn,
     ReportIsOfItsRecovery
<1> QED BY <1>4, <1>5

\* A recreated player keeps them too.
LEMMA RecreateSound ==
  ASSUME EdgeInv, NEW start \in Places, EdgeRecreate(start) PROVE EdgeInv'
<1> USE RecoveryEdgeAssumption DEF EdgeInv
<1>1. /\ commanded < MaxEdgeLoads /\ commanded' = commanded + 1 /\ report' = {} /\ Issued(start)
      /\ UNCHANGED edgeHistory
      /\ IF active' = active THEN UNCHANGED observerVars ELSE ResetObserver
  BY DEF EdgeRecreate
<1>2. ActiveLoad' /\ active'.channel = active.channel
  <2>1. CASE UNCHANGED active
    BY <1>1, <2>1 DEF ActiveLoad
  <2>2. ASSUME NEW raw \in {active.raw, FALSE},
               active' = [active EXCEPT !.load = commanded', !.start = start, !.raw = raw]
        PROVE  ActiveLoad' /\ active'.channel = active.channel
    <3>1. active' = [channel |-> active.channel, load |-> commanded + 1, start |-> start, raw |-> raw]
      BY <1>1, <2>2 DEF ActiveLoad
    <3>2. active.channel \in {0, 1} /\ start \in Nat /\ raw \in BOOLEAN /\ commanded \in 1 .. MaxEdgeLoads
      BY DEF ActiveLoad
    <3> QED BY <1>1, <3>1, <3>2 DEF ActiveLoad
  <2> QED BY <1>1, <2>1, <2>2 DEF Issued
<1>3. CASE active' = active
  BY <1>1, <1>2, <1>3 DEF observerVars, edgeHistory, Observation, AnchorIsOwn, ReportIsOfItsRecovery
<1>4. CASE active' # active
  BY <1>1, <1>2, <1>4, ResetSound
<1> QED BY <1>3, <1>4

\* A sample is reported on while it belongs to the recovered load and the time
\* has not passed, and ends the observation otherwise.
LEMMA SampleSound ==
  ASSUME EdgeInv, NEW s \in EdgeSamples, EdgeSample(s) PROVE EdgeInv'
<1> USE RecoveryEdgeAssumption DEF EdgeInv
<1>1. PICK a \in anchor :
        IF a.age > CaptureWindow THEN ResetObserver /\ report' = {}
        ELSE IF active.channel # a.channel \/ active.load # a.recovered
        THEN UNCHANGED observerVars /\ report' = {ReportOn(a, "Stale", {}, {})}
        ELSE /\ pause_seen' = (pause_seen \/ s.paused) /\ UNCHANGED anchor
             /\ LET complete == {} \notin {a.times, a.start, Readings(s).times, Readings(s).start}
                IN  /\ readable_samples' = readable_samples + (IF complete THEN 1 ELSE 0)
                    /\ report' = {IF complete
                                  THEN ReportOn(a, "Complete", {Residuals(a, s)}, {FellBehind(a, s)})
                                  ELSE ReportOn(a, "Missing", {}, {})}
  BY DEF EdgeSample, ObserveEdge
<1> DEFINE ofRecovered == \E r \in report' : r.status # "Stale"
<1>2. /\ pauses' = (pauses \/ (ofRecovered /\ s.paused))
      /\ compared' = compared + (IF \E r \in report' : r.status = "Complete" THEN 1 ELSE 0)
      /\ UNCHANGED <<active, commanded, origin>>
  BY DEF EdgeSample
<1>3. /\ a \in Anchors /\ anchor = {a} /\ a.channel = active.channel
      /\ pause_seen \in BOOLEAN /\ pauses \in BOOLEAN /\ (pause_seen = TRUE <=> pauses = TRUE)
      /\ readable_samples = compared /\ compared \in Nat
      /\ a.age \in Nat /\ CaptureWindow \in Nat /\ s.paused \in BOOLEAN
  BY ReadingsSound DEF Observation, AnchorIsOwn, Anchors
<1>4. ActiveLoad'
  BY <1>2 DEF ActiveLoad
<1>5. CASE a.age > CaptureWindow
  <2>1. ResetObserver /\ report' = {} /\ pauses' = pauses /\ compared' = compared
    <3>1. ResetObserver /\ report' = {}
      BY <1>1, <1>5
    <3>2. pauses' = pauses
      BY <3>1, <1>2, <1>3, Zenon
    <3>3. compared' = compared
      BY <3>1, <1>2, <1>3
    <3> QED BY <3>1, <3>2, <3>3
  <2> QED BY <1>2, <1>4, <2>1, ResetSound DEF edgeHistory
<1>6. CASE a.age <= CaptureWindow /\ active.load # a.recovered
  <2> DEFINE r == ReportOn(a, "Stale", {}, {})
  <2>1. UNCHANGED observerVars /\ report' = {r}
    BY <1>1, <1>3, <1>6
  <2>2. /\ r.status = "Stale" /\ r.channel = a.channel /\ r.age = a.age
        /\ r.pause_seen = pause_seen'
    BY DEF ReportOn
  <2> HIDE DEF r
  <2>3. pauses' = pauses
    BY <1>2, <1>3, <2>1, <2>2, Zenon
  <2>4. compared' = compared
    BY <1>2, <1>3, <2>1, <2>2
  <2>5. Observation' /\ AnchorIsOwn'
    BY <1>2, <2>1, <2>3, <2>4 DEF Observation, AnchorIsOwn, observerVars
  <2>6. pause_seen' = pauses'
    BY <1>3, <2>1, <2>3 DEF observerVars
  <2>7. ReportIsOfItsRecovery'
    BY <1>2, <1>3, <1>6, <2>1, <2>2, <2>6 DEF ReportIsOfItsRecovery
  <2> QED BY <1>4, <2>5, <2>7
<1>7. CASE a.age <= CaptureWindow /\ active.load = a.recovered
  <2> DEFINE complete == {} \notin {a.times, a.start, Readings(s).times, Readings(s).start}
             r == IF complete THEN ReportOn(a, "Complete", {Residuals(a, s)}, {FellBehind(a, s)})
                  ELSE ReportOn(a, "Missing", {}, {})
  <2>1. /\ pause_seen' = (pause_seen \/ s.paused) /\ UNCHANGED anchor
        /\ readable_samples' = readable_samples + (IF complete THEN 1 ELSE 0)
        /\ report' = {r}
    <3>1. ~(a.age > CaptureWindow)
      BY <1>3, <1>7
    <3>2. ~(active.channel # a.channel \/ active.load # a.recovered)
      BY <1>3, <1>7
    <3> QED BY <1>1, <3>1, <3>2, Zenon
  <2>2. /\ r.status = IF complete THEN "Complete" ELSE "Missing"
        /\ r.channel = a.channel /\ r.age = a.age /\ r.recovered = a.recovered
        /\ r.pause_seen = pause_seen' /\ r.index = readable_samples'
        /\ r.figures = r.truth
    <3>1. CASE complete
      <4>1. Residuals(a, s) = FellBehind(a, s)
        BY <3>1, ResidualsAreTrue
      <4> QED BY <3>1, <4>1 DEF ReportOn
    <3>2. CASE ~complete
      BY <3>2 DEF ReportOn
    <3> QED BY <3>1, <3>2
  <2> HIDE DEF complete, r
  <2>3. pause_seen' \in BOOLEAN /\ pauses' \in BOOLEAN /\ pause_seen' = pauses'
    <3>1. ofRecovered
      BY <2>1, <2>2
    <3>2. pause_seen = pauses
      BY <1>3
    <3>3. pause_seen' = (pauses \/ s.paused) /\ pauses' = (pauses \/ s.paused)
      BY <2>1, <1>2, <3>1, <3>2, Zenon
    <3> QED BY <3>3, Zenon
  <2>4. readable_samples' = compared' /\ compared' \in Nat
    BY <1>2, <1>3, <2>1, <2>2
  <2>5. Observation'
    BY <1>2, <1>3, <2>1, <2>3, <2>4 DEF Observation
  <2>6. AnchorIsOwn'
    BY <1>2, <2>1 DEF AnchorIsOwn
  <2>7. ReportIsOfItsRecovery'
    BY <1>2, <1>3, <1>7, <2>1, <2>2, <2>3, <2>4 DEF ReportIsOfItsRecovery
  <2> QED BY <1>4, <2>5, <2>6, <2>7
<1> QED BY <1>3, <1>5, <1>6, <1>7

\* Time passes for the anchor.
LEMMA TimeSound ==
  ASSUME EdgeInv, EdgeTime PROVE EdgeInv'
<1> USE DEF EdgeInv
<1>1. PICK a : anchor = {a} /\ a \in Anchors
  BY DEF EdgeTime, Observation
<1> DEFINE older == [a EXCEPT !.age = @ + 1]
<1>2. /\ anchor' = {older} /\ report' = {}
      /\ UNCHANGED <<active, commanded, pause_seen, readable_samples, edgeHistory>>
  BY <1>1 DEF EdgeTime
<1>3. /\ older \in Anchors /\ older.channel = a.channel /\ older.times = a.times
      /\ older.start = a.start
  BY <1>1 DEF Anchors
<1> HIDE DEF older
<1>4. ActiveLoad' /\ Observation'
  BY <1>1, <1>2, <1>3 DEF ActiveLoad, Observation, edgeHistory
<1>5. AnchorIsOwn' /\ ReportIsOfItsRecovery'
  BY <1>1, <1>2, <1>3 DEF AnchorIsOwn, ReportIsOfItsRecovery, edgeHistory
<1> QED BY <1>4, <1>5

\* Every load, sample and passing of time keeps the observation that of its
\* recovery.
LEMMA EdgeInvStep == EdgeInv /\ [EdgeNext]_edgeVars => EdgeInv'
<1> SUFFICES ASSUME EdgeInv, [EdgeNext]_edgeVars PROVE EdgeInv'
  OBVIOUS
<1> USE RecoveryEdgeAssumption
<1>1. ASSUME NEW start \in Places, NEW raw \in BOOLEAN, EdgeChannel(start, raw) PROVE EdgeInv'
  <2>1. ActiveLoad'
    BY <1>1 DEF EdgeChannel, EdgeInv, ActiveLoad
  <2> QED BY <1>1, <2>1, ResetSound DEF EdgeChannel
<1>2. CASE EdgeStop
  <2>1. active' = [active EXCEPT !.raw = FALSE] /\ commanded' = commanded
    BY <1>2 DEF EdgeStop
  <2>2. ActiveLoad'
    BY <2>1 DEF EdgeInv, ActiveLoad
  <2> QED BY <1>2, <2>2, ResetSound DEF EdgeStop
<1>3. CASE UNCHANGED edgeVars
  BY <1>3 DEF edgeVars, observerVars, edgeHistory, EdgeInv, ActiveLoad, Observation, AnchorIsOwn,
     ReportIsOfItsRecovery
<1> QED
  BY <1>1, <1>2, <1>3, ReopenSound, RecreateSound, SampleSound, TimeSound DEF EdgeNext

\* For any places, window and bounds: a report names the recovery it follows,
\* and the figures it gives are how far playback and the cache really moved
\* since (player/recovery_edge_telemetry.cpp).
THEOREM ReportsAreTrue == EdgeSpec => []ReportIsOfItsRecovery
<1>1. EdgeInv => ReportIsOfItsRecovery
  BY DEF EdgeInv
<1> QED BY <1>1, EdgeInvInit, EdgeInvStep, PTL DEF EdgeSpec

\* For any number of loads, what the telemetry keeps has its type.
LEMMA EdgeIsTyped == EdgeSpec => []EdgeTypeOK
<1>1. EdgeInv => EdgeTypeOK
  BY DEF EdgeInv, ActiveLoad, Observation, EdgeTypeOK
<1> QED BY <1>1, EdgeInvInit, EdgeInvStep, PTL DEF EdgeSpec

-----------------------------------------------------------------------------
(* Timeline recovery (player/timeline_recovery.cpp)                        *)

CandidateRecords ==
  [age : Nat, baseline : SUBSET Int, persist : BOOLEAN, observed : BOOLEAN]

TimelineTypes ==
  /\ candidate \subseteq CandidateRecords /\ \A c, d \in candidate : c = d
  /\ trusted \subseteq [gap : Int, age : Nat]
  /\ gap \in Int /\ rewinds \subseteq Nat /\ lowest \subseteq Int
  /\ \A l, k \in lowest : l = k

\* The breaker remembers the recoveries of the channel, and the time until its
\* cooldown ends is what is left since the frame that began it.
BreakerIsTrue ==
  /\ decisions = recovered /\ recovered \subseteq Nat
  /\ IsFiniteSet(recovered) /\ Cardinality(recovered) <= MaxRecoveries
  /\ cooldown_in \in Nat /\ frame_ago \in Nat /\ cooldown_in + frame_ago = Cooldown
  /\ outcome = "Recover" => frame_ago = Cooldown

\* Behind a candidate there is a rewind of this load, within one window of it
\* or, once it has persisted, two.
CandidateHasRewind ==
  \A c \in candidate :
    \E a \in rewinds : a <= c.age + (IF c.observed THEN ConfirmationWindow ELSE 0)

\* A gap that was trusted is no smaller than the smallest this load showed.
BaselinesWereShown ==
  /\ \A t \in trusted : \E l \in lowest : l <= t.gap
  /\ \A c \in candidate : \A b \in c.baseline : \E l \in lowest : l <= b

EvidenceOfLoad == CandidateHasRewind /\ BaselinesWereShown

TimelineInv == TimelineTypes /\ BreakerIsTrue /\ EvidenceOfLoad

\* At the start there is no evidence and nothing was recovered.
LEMMA TimelineInvInit == TimelineInit => TimelineInv
<1> SUFFICES ASSUME TimelineInit PROVE TimelineInv
  OBVIOUS
<1> USE TimelinePolicyAssumption DEF TimelineInit
<1>1. IsFiniteSet({}) /\ Cardinality({}) = 0
  BY FS_EmptySet
<1>2. TimelineTypes
  BY DEF TimelineTypes, CandidateRecords
<1>3. BreakerIsTrue
  BY <1>1 DEF BreakerIsTrue
<1> QED BY <1>2, <1>3 DEF TimelineInv, EvidenceOfLoad, CandidateHasRewind, BaselinesWereShown

\* Times that pass forget what they forget, and never make more of it.
LEMMA AgedSound ==
  ASSUME NEW ages \in SUBSET Nat, IsFiniteSet(ages), NEW elapsed \in Nat \ {0}, NEW limit \in Nat
  PROVE  /\ Aged(ages, elapsed, limit) \subseteq Nat \ {0}
         /\ IsFiniteSet(Aged(ages, elapsed, limit))
         /\ Cardinality(Aged(ages, elapsed, limit)) <= Cardinality(ages)
<1> DEFINE kept == {a \in ages : a + elapsed <= limit}
           aged == {age + elapsed : age \in kept}
           grown == [a \in kept |-> a + elapsed]
<1>1. IsFiniteSet(kept) /\ Cardinality(kept) <= Cardinality(ages)
  BY FS_Subset
<1>2. IsFiniteSet(aged) /\ Cardinality(aged) <= Cardinality(kept)
  <2>1. grown \in Surjection(kept, aged)
    BY DEF Surjection
  <2> QED BY <1>1, <2>1, FS_Surjection
<1>3. aged \subseteq Nat \ {0}
  OBVIOUS
<1>4. Cardinality(aged) \in Nat /\ Cardinality(kept) \in Nat /\ Cardinality(ages) \in Nat
  BY <1>1, <1>2, FS_CardinalityType
<1>5. Cardinality(aged) <= Cardinality(ages)
  BY <1>1, <1>2, <1>4
<1> QED BY <1>2, <1>3, <1>5 DEF Aged

\* What a sample is made of (player/timeline_recovery.cpp,
\* TimelineRecoveryObservation).
LEMMA SampleTypes ==
  ASSUME TimelineTypes, NEW s \in TimelineSamples
  PROVE  /\ s.elapsed \in Nat \ {0} /\ s.move \in Int /\ s.cache_move \in Int
         /\ GapAfter(s) \in Int
<1>1. Elapsed \subseteq Nat \ {0} /\ Moves \subseteq Int /\ CacheMoves \subseteq Int
  BY TimelinePolicyAssumption
<1>2. s.elapsed \in Elapsed /\ s.move \in Moves /\ s.cache_move \in CacheMoves
  BY DEF TimelineSamples
<1>3. s.move \in Int /\ s.cache_move \in Int /\ gap \in Int
  BY <1>1, <1>2 DEF TimelineTypes
<1>4. gap + s.cache_move - s.move \in Int
  BY <1>3
<1>5. s.elapsed \in Nat \ {0}
  BY <1>1, <1>2
<1> QED BY <1>3, <1>4, <1>5 DEF GapAfter

\* What is kept of the candidate and of the trusted gap is what was there, a
\* sample older.
LEMMA OlderEvidence ==
  ASSUME TimelineTypes, NEW s \in TimelineSamples
  PROVE  /\ Older(candidate, s.elapsed, ConfirmationWindow) \subseteq CandidateRecords
         /\ \A c \in Older(candidate, s.elapsed, ConfirmationWindow) :
              \E b \in candidate : /\ c.age = b.age + s.elapsed /\ c.baseline = b.baseline
                                   /\ c.persist = b.persist /\ c.observed = b.observed
                                   /\ c.age <= ConfirmationWindow
         /\ Older(trusted, s.elapsed, BaselineMaxAge) \subseteq [gap : Int, age : Nat]
         /\ \A t \in Older(trusted, s.elapsed, BaselineMaxAge) : \E u \in trusted : t.gap = u.gap
<1>1. s.elapsed \in Nat
  BY SampleTypes
<1> USE TimelinePolicyAssumption DEF TimelineTypes, CandidateRecords, Older
<1>2. \A b \in candidate : b.age \in Nat /\ b.age + s.elapsed \in Nat
  BY <1>1
<1>3. \A b \in trusted : b.age \in Nat /\ b.age + s.elapsed \in Nat
  BY <1>1
<1> QED BY <1>1, <1>2, <1>3

\* The smallest gap of a load is no larger than any gap the load has shown.
LEMMA LowestSound ==
  ASSUME TimelineTypes, NEW s \in TimelineSamples, RecordSample(s), s.eligible
  PROVE  /\ lowest' \subseteq Int /\ \A l, k \in lowest' : l = k
         /\ \A l \in lowest : \E k \in lowest' : k <= l
         /\ Trustworthy(s) => \E k \in lowest' : k <= GapAfter(s)
<1>1. GapAfter(s) \in Int
  BY SampleTypes
<1> DEFINE shown == {GapAfter(s)} \cup lowest
           least == {l \in shown : \A k \in shown : l <= k}
<1>2. lowest \subseteq Int /\ \A l, k \in lowest : l = k
  BY DEF TimelineTypes
<1>3. least \subseteq Int /\ \A l, k \in least : l = k
  <2>1. shown \subseteq Int
    BY <1>1, <1>2
  <2>2. \A l, k \in least : l \in Int /\ k \in Int /\ l <= k /\ k <= l
    BY <2>1
  <2> QED BY <2>1, <2>2
<1>4. \A l \in shown : \E k \in least : k <= l
  <2>1. CASE lowest = {}
    BY <1>1, <2>1
  <2>2. CASE lowest # {}
    <3>1. PICK m \in Int : lowest = {m}
      BY <1>2, <2>2
    <3>2. CASE GapAfter(s) <= m
      BY <1>1, <3>1, <3>2
    <3>3. CASE m <= GapAfter(s)
      BY <1>1, <3>1, <3>3
    <3> QED BY <1>1, <3>1, <3>2, <3>3
  <2> QED BY <2>1, <2>2
<1>5. CASE Healthy(s) /\ GapKnown(s) /\ Coherent(s)
  <2>1. lowest' = least
    BY <1>5 DEF RecordSample
  <2> QED BY <1>3, <1>4, <2>1
<1>6. CASE ~(Healthy(s) /\ GapKnown(s) /\ Coherent(s))
  <2>1. lowest' = lowest
    BY <1>6 DEF RecordSample
  <2>2. \A l \in lowest : \E k \in lowest : k <= l
    BY <1>2
  <2> QED BY <1>2, <1>6, <2>1, <2>2 DEF Trustworthy
<1> QED BY <1>5, <1>6

\* A gap that is trusted, of this sample or of before, was shown by the load
\* (remember_trusted_live_gap).
LEMMA TrustSound ==
  ASSUME TimelineTypes, BaselinesWereShown, NEW s \in TimelineSamples, RecordSample(s), s.eligible
  PROVE  LET was == Older(trusted, s.elapsed, BaselineMaxAge)
         IN  /\ Trust(s, was) \subseteq [gap : Int, age : Nat]
             /\ \A t \in was \cup Trust(s, was) : \E k \in lowest' : k <= t.gap
<1> DEFINE was == Older(trusted, s.elapsed, BaselineMaxAge)
<1>1. was \subseteq [gap : Int, age : Nat] /\ \A t \in was : \E u \in trusted : t.gap = u.gap
  BY OlderEvidence
<1>2. \A t \in was : \E k \in lowest' : k <= t.gap
  <2> SUFFICES ASSUME NEW t \in was PROVE \E k \in lowest' : k <= t.gap
    OBVIOUS
  <2>1. PICK u \in trusted : t.gap = u.gap
    BY <1>1
  <2>2. PICK l \in lowest : l <= u.gap
    BY DEF BaselinesWereShown
  <2>3. PICK k \in lowest' : k <= l
    BY LowestSound
  <2>4. k \in Int /\ l \in Int /\ t.gap \in Int
    BY <1>1, LowestSound DEF TimelineTypes
  <2> QED BY <2>1, <2>2, <2>3, <2>4
<1> HIDE DEF was
<1>3. CASE Trustworthy(s)
  <2>1. Trust(s, was) = {[gap |-> GapAfter(s), age |-> 0]}
    BY <1>3 DEF Trust
  <2>2. \E k \in lowest' : k <= GapAfter(s)
    BY <1>3, LowestSound
  <2>3. GapAfter(s) \in Int
    BY SampleTypes
  <2> QED BY <1>2, <2>1, <2>2, <2>3 DEF was
<1>4. CASE ~Trustworthy(s)
  <2>1. Trust(s, was) = was
    BY <1>4 DEF Trust
  <2> QED BY <1>1, <1>2, <2>1 DEF was
<1> QED BY <1>3, <1>4

\* A rewind is kept for the two windows a candidate may need it.
LEMMA RewindsSound ==
  ASSUME TimelineTypes, NEW s \in TimelineSamples, RecordSample(s), s.eligible
  PROVE  /\ rewinds' \subseteq Nat
         /\ \A a \in rewinds : a + s.elapsed <= 2 * ConfirmationWindow =>
                                 a + s.elapsed \in rewinds' /\ a + s.elapsed # 0
         /\ MaterialRewindSeen(s) /\ ~CommonClockReset(s) => 0 \in rewinds'
<1>1. s.elapsed \in Nat \ {0} /\ rewinds \subseteq Nat
  BY SampleTypes DEF TimelineTypes
<1> DEFINE aged == Aged(rewinds, s.elapsed, 2 * ConfirmationWindow)
<1>2. aged \subseteq Nat /\ \A a \in rewinds : a + s.elapsed <= 2 * ConfirmationWindow =>
                              a + s.elapsed \in aged /\ a + s.elapsed # 0
  <2>1. \A a \in rewinds : a + s.elapsed \in Nat /\ a + s.elapsed # 0
    BY <1>1
  <2>2. aged \subseteq Nat
    BY <2>1 DEF Aged
  <2>3. ASSUME NEW a \in rewinds, a + s.elapsed <= 2 * ConfirmationWindow
        PROVE  a + s.elapsed \in aged
    BY <2>3 DEF Aged
  <2> QED BY <2>1, <2>2, <2>3
<1> HIDE DEF aged
<1>3. CASE MaterialRewindSeen(s) /\ ~CommonClockReset(s)
  <2>1. rewinds' = aged \cup {0}
    BY <1>3 DEF RecordSample, aged
  <2> QED BY <1>2, <2>1
<1>4. CASE ~(MaterialRewindSeen(s) /\ ~CommonClockReset(s))
  <2>1. rewinds' = aged
    BY <1>4 DEF RecordSample, aged
  <2> QED BY <1>2, <1>4, <2>1
<1> QED BY <1>3, <1>4

\* The candidate a sample meets has its rewind and its baseline behind it.
LEMMA CandidateSound ==
  ASSUME TimelineInv, NEW s \in TimelineSamples, RecordSample(s), s.eligible,
         NEW c \in Older(candidate, s.elapsed, ConfirmationWindow)
  PROVE  /\ c \in CandidateRecords /\ c.age <= ConfirmationWindow
         /\ \E r \in rewinds' :
              r # 0 /\ r <= c.age + (IF c.observed THEN ConfirmationWindow ELSE 0)
         /\ \A b \in c.baseline : \E k \in lowest' : k <= b
<1> USE DEF TimelineInv
<1>1. PICK d \in candidate : /\ c.age = d.age + s.elapsed /\ c.baseline = d.baseline
                             /\ c.persist = d.persist /\ c.observed = d.observed
                             /\ c.age <= ConfirmationWindow
  BY OlderEvidence
<1>2. c \in CandidateRecords /\ d \in CandidateRecords
  BY OlderEvidence DEF TimelineTypes
<1>3. PICK a \in rewinds : a <= d.age + (IF d.observed THEN ConfirmationWindow ELSE 0)
  BY DEF EvidenceOfLoad, CandidateHasRewind
<1>4. /\ a \in Nat /\ d.age \in Nat /\ s.elapsed \in Nat /\ ConfirmationWindow \in Nat
      /\ d.observed \in BOOLEAN
  BY <1>2, SampleTypes, TimelinePolicyAssumption DEF CandidateRecords, TimelineTypes
<1>5. a + s.elapsed <= c.age + (IF c.observed THEN ConfirmationWindow ELSE 0)
  <2>1. CASE d.observed
    BY <1>1, <1>3, <1>4, <2>1
  <2>2. CASE ~d.observed
    BY <1>1, <1>3, <1>4, <2>2
  <2> QED BY <2>1, <2>2
<1>6. a + s.elapsed <= 2 * ConfirmationWindow
  <2>1. c.age \in Nat /\ c.age <= ConfirmationWindow
    BY <1>1, <1>4
  <2>2. CASE c.observed
    BY <1>4, <1>5, <2>1, <2>2
  <2>3. CASE ~c.observed
    BY <1>4, <1>5, <2>1, <2>3
  <2> QED BY <2>2, <2>3
<1>7. a + s.elapsed \in rewinds' /\ a + s.elapsed # 0
  BY <1>6, RewindsSound
<1>8. ASSUME NEW b \in c.baseline
      PROVE  \E k \in lowest' : k <= b
  <2>1. PICK l \in lowest : l <= b
    BY <1>1 DEF EvidenceOfLoad, BaselinesWereShown
  <2>2. PICK k \in lowest' : k <= l
    BY LowestSound
  <2>3. b \in Int /\ l \in Int /\ k \in Int
    BY <1>2, LowestSound DEF CandidateRecords, TimelineTypes
  <2> QED BY <2>1, <2>2, <2>3
<1> QED BY <1>1, <1>2, <1>5, <1>7, <1>8

\* A decision spends the candidate, whatever it decides (decide_recovery).
LEMMA DecideSound ==
  ASSUME TimelineInv, NEW s \in TimelineSamples, Decide(s)
  PROVE  candidate' = {}
BY DEF Decide

\* Meeting a sample, the candidate is spent, waits on, or has persisted once
\* (observe).
LEMMA ConfirmSound ==
  ASSUME TimelineInv, NEW s \in TimelineSamples, RecordSample(s), s.eligible,
         NEW c \in Older(candidate, s.elapsed, ConfirmationWindow),
         Confirm(c, s, Older(trusted, s.elapsed, BaselineMaxAge))
  PROVE  /\ candidate' \subseteq CandidateRecords /\ \A d, e \in candidate' : d = e
         /\ trusted' \subseteq [gap : Int, age : Nat]
         /\ CandidateHasRewind' /\ BaselinesWereShown'
<1> DEFINE was == Older(trusted, s.elapsed, BaselineMaxAge)
<1> USE DEF TimelineInv
<1>1. /\ c \in CandidateRecords /\ c.age <= ConfirmationWindow
      /\ \E r \in rewinds' :
           r # 0 /\ r <= c.age + (IF c.observed THEN ConfirmationWindow ELSE 0)
      /\ \A b \in c.baseline : \E k \in lowest' : k <= b
  BY CandidateSound
<1>2. /\ was \subseteq [gap : Int, age : Nat] /\ Trust(s, was) \subseteq [gap : Int, age : Nat]
      /\ \A t \in was \cup Trust(s, was) : \E k \in lowest' : k <= t.gap
  BY TrustSound, OlderEvidence DEF EvidenceOfLoad
<1>3. trusted' = was \/ trusted' = Trust(s, was)
  BY DEF Confirm
<1>4. /\ trusted' \subseteq [gap : Int, age : Nat]
      /\ \A t \in trusted' : \E k \in lowest' : k <= t.gap
  BY <1>2, <1>3
<1>5. c.age \in Nat /\ ConfirmationWindow \in Nat /\ rewinds' \subseteq Nat
  BY <1>1, RewindsSound, TimelinePolicyAssumption DEF CandidateRecords
<1>6. \/ candidate' = {}
      \/ \E p \in BOOLEAN : candidate' = {[c EXCEPT !.persist = p]}
      \/ ~c.observed /\ candidate' = {[c EXCEPT !.persist = TRUE, !.observed = TRUE, !.age = 0]}
  <2>1. NeedsPersistence(c, s) \in BOOLEAN
    BY DEF NeedsPersistence
  <2>2. CASE NeedsPersistence(c, s) = TRUE
    BY <2>2, DecideSound DEF Confirm
  <2>3. CASE NeedsPersistence(c, s) = FALSE
    BY <2>3, DecideSound DEF Confirm
  <2> QED BY <2>1, <2>2, <2>3
<1>7. CASE candidate' = {}
  BY <1>4, <1>7 DEF CandidateHasRewind, BaselinesWereShown
<1>8. ASSUME NEW p \in BOOLEAN, candidate' = {[c EXCEPT !.persist = p]}
      PROVE  /\ candidate' \subseteq CandidateRecords /\ \A d, e \in candidate' : d = e
             /\ CandidateHasRewind' /\ BaselinesWereShown'
  <2> DEFINE d == [c EXCEPT !.persist = p]
  <2>1. d \in CandidateRecords /\ d.age = c.age /\ d.observed = c.observed /\ d.baseline = c.baseline
    BY <1>1 DEF CandidateRecords
  <2> HIDE DEF d
  <2>2. candidate' = {d}
    BY <1>8 DEF d
  <2> QED BY <1>1, <1>4, <2>1, <2>2 DEF CandidateHasRewind, BaselinesWereShown
<1>9. ASSUME ~c.observed,
             candidate' = {[c EXCEPT !.persist = TRUE, !.observed = TRUE, !.age = 0]}
      PROVE  /\ candidate' \subseteq CandidateRecords /\ \A d, e \in candidate' : d = e
             /\ CandidateHasRewind' /\ BaselinesWereShown'
  <2> DEFINE d == [c EXCEPT !.persist = TRUE, !.observed = TRUE, !.age = 0]
  <2>1. d \in CandidateRecords /\ d.age = 0 /\ d.observed = TRUE /\ d.baseline = c.baseline
    BY <1>1 DEF CandidateRecords
  <2> HIDE DEF d
  <2>2. candidate' = {d}
    BY <1>9 DEF d
  <2>3. PICK r \in rewinds' : r <= c.age
    BY <1>1, <1>5, <1>9
  <2>4. r \in Nat /\ r <= ConfirmationWindow /\ r <= 0 + ConfirmationWindow
    BY <1>1, <1>5, <2>3
  <2> QED BY <1>1, <1>4, <2>1, <2>2, <2>4 DEF CandidateHasRewind, BaselinesWereShown
<1> QED BY <1>4, <1>6, <1>7, <1>8, <1>9

\* Without a candidate, a rewind arms one with the gap that is trusted
\* (observe).
LEMMA ArmSound ==
  ASSUME TimelineInv, NEW s \in TimelineSamples, RecordSample(s), s.eligible, NEW otherwise,
         Arm(s, Older(trusted, s.elapsed, BaselineMaxAge), otherwise)
  PROVE  /\ candidate' \subseteq CandidateRecords /\ \A d, e \in candidate' : d = e
         /\ trusted' \subseteq [gap : Int, age : Nat]
         /\ CandidateHasRewind' /\ BaselinesWereShown'
<1> DEFINE was == Older(trusted, s.elapsed, BaselineMaxAge)
<1> USE DEF TimelineInv
<1>1. /\ was \subseteq [gap : Int, age : Nat] /\ Trust(s, was) \subseteq [gap : Int, age : Nat]
      /\ \A t \in was \cup Trust(s, was) : \E k \in lowest' : k <= t.gap
  BY TrustSound, OlderEvidence DEF EvidenceOfLoad
<1> HIDE DEF was
<1>2. trusted' = was \/ trusted' = Trust(s, was)
  BY DEF Arm, was
<1>3. /\ trusted' \subseteq [gap : Int, age : Nat]
      /\ \A t \in trusted' : \E k \in lowest' : k <= t.gap
  BY <1>1, <1>2
<1>4. CASE candidate' = {}
  BY <1>3, <1>4 DEF CandidateHasRewind, BaselinesWereShown
<1>5. CASE MaterialRewindSeen(s) /\ ~CommonClockReset(s)
  <2> DEFINE d == [age |-> 0, baseline |-> Baseline(was),
                   persist |-> RefillRelated(s), observed |-> FALSE]
  <2>1. candidate' = {d}
    BY <1>5 DEF Arm, was
  <2>2. 0 \in rewinds'
    BY <1>5, RewindsSound
  <2>3. \A b \in Baseline(was) : b \in Int /\ \E k \in lowest' : k <= b
    BY <1>1 DEF Baseline
  <2>4. RefillRelated(s) \in BOOLEAN
    BY DEF RefillRelated
  <2>5. d \in CandidateRecords /\ d.age = 0 /\ d.observed = FALSE /\ d.baseline = Baseline(was)
    BY <2>3, <2>4 DEF CandidateRecords
  <2> HIDE DEF d
  <2> QED BY <1>3, <2>1, <2>2, <2>3, <2>5 DEF CandidateHasRewind, BaselinesWereShown
<1> QED BY <1>4, <1>5 DEF Arm

\* A sample keeps the types and the evidence of its load.
LEMMA ObserveKeepsEvidence ==
  ASSUME TimelineInv, NEW s \in TimelineSamples, GapAfter(s) \in Gaps,
         Observe(s), gap' = GapAfter(s), RecordSample(s)
  PROVE  TimelineTypes' /\ EvidenceOfLoad'
<1> USE DEF TimelineInv
<1> DEFINE live == Older(candidate, s.elapsed, ConfirmationWindow)
           was  == Older(trusted, s.elapsed, BaselineMaxAge)
           kept == /\ candidate' \subseteq CandidateRecords /\ \A d, e \in candidate' : d = e
                   /\ trusted' \subseteq [gap : Int, age : Nat]
                   /\ CandidateHasRewind' /\ BaselinesWereShown'
<1>1. CASE s.eligible
  <2>1. CASE live # {}
    <3>1. PICK c \in live : Confirm(c, s, was)
      BY <1>1, <2>1 DEF Observe
    <3>2. kept
      BY <1>1, <3>1, ConfirmSound
    <3> QED BY <1>1, <3>2, LowestSound, RewindsSound, SampleTypes DEF TimelineTypes, EvidenceOfLoad
  <2>2. CASE live = {}
    <3>1. Arm(s, was, IF candidate # {} THEN "CandidateCleared" ELSE "None")
      BY <1>1, <2>2 DEF Observe
    <3>2. kept
      BY <1>1, <3>1, ArmSound
    <3> QED BY <1>1, <3>2, LowestSound, RewindsSound, SampleTypes DEF TimelineTypes, EvidenceOfLoad
  <2> QED BY <2>1, <2>2
<1>2. CASE ~s.eligible
  <2>1. candidate' = {} /\ trusted' = {}
    BY <1>2 DEF Observe, ForgetEvidence
  <2>2. rewinds' = {} /\ lowest' = {}
    BY <1>2 DEF RecordSample
  <2> QED BY <2>1, <2>2, SampleTypes
       DEF TimelineTypes, EvidenceOfLoad, CandidateHasRewind, BaselinesWereShown
<1> QED BY <1>1, <1>2

\* A candidate brings on a decision, or leaves the decisions there are.
LEMMA ConfirmDecides ==
  ASSUME NEW s, NEW c, NEW was, Confirm(c, s, was)
  PROVE  Decide(s) \/ (KeepDecisions(s) /\ outcome' # "Recover")
<1> DEFINE unmeasured == ~(GapKnown(s) /\ c.baseline # Unknown)
<1>1. CASE CommonClockReset(s)
  BY <1>1 DEF Confirm
<1>2. ASSUME ~CommonClockReset(s), MaterialRewindSeen(s), unmeasured
      PROVE  Decide(s)
  BY <1>2 DEF Confirm
<1>3. ASSUME ~CommonClockReset(s), ~(MaterialRewindSeen(s) /\ unmeasured),
             ~unmeasured, \E b \in c.baseline : GapAfter(s) - b >= MaterialGap,
             ~(NeedsPersistence(c, s) /\ ~c.observed)
      PROVE  Decide(s)
  BY <1>3 DEF Confirm
<1>4. ASSUME ~CommonClockReset(s), ~(MaterialRewindSeen(s) /\ unmeasured),
             ~(/\ ~unmeasured /\ \E b \in c.baseline : GapAfter(s) - b >= MaterialGap
               /\ ~(NeedsPersistence(c, s) /\ ~c.observed))
      PROVE  KeepDecisions(s) /\ outcome' # "Recover"
  BY <1>4 DEF Confirm
<1> QED BY <1>1, <1>2, <1>3, <1>4

\* A recovery is counted, and is decided on only within the limits.
LEMMA ObserveDecides ==
  ASSUME NEW s \in TimelineSamples, Observe(s)
  PROVE  LET taken == Aged(decisions, s.elapsed, RateWindow)
         IN  \/ outcome' # "Recover" /\ decisions' = taken
             \/ /\ outcome' = "Recover" /\ decisions' = taken \cup {0}
                /\ ~(cooldown_in > s.elapsed) /\ ~(Cardinality(taken) >= MaxRecoveries)
<1> DEFINE taken == Aged(decisions, s.elapsed, RateWindow)
           goal == \/ outcome' # "Recover" /\ decisions' = taken
                   \/ /\ outcome' = "Recover" /\ decisions' = taken \cup {0}
                      /\ ~(cooldown_in > s.elapsed) /\ ~(Cardinality(taken) >= MaxRecoveries)
<1>1. CASE Decide(s)
  BY <1>1 DEF Decide
<1>2. CASE KeepDecisions(s) /\ outcome' # "Recover"
  BY <1>2 DEF KeepDecisions
<1>3. ASSUME NEW c, NEW was, Confirm(c, s, was)
      PROVE  Decide(s) \/ (KeepDecisions(s) /\ outcome' # "Recover")
  BY <1>3, ConfirmDecides
<1>4. ASSUME NEW was, NEW otherwise \in {"CandidateCleared", "None"}, Arm(s, was, otherwise)
      PROVE  KeepDecisions(s) /\ outcome' # "Recover"
  BY <1>4 DEF Arm
<1>5. Decide(s) \/ (KeepDecisions(s) /\ outcome' # "Recover")
  <2>1. CASE ~s.eligible
    BY <2>1 DEF Observe
  <2>2. CASE s.eligible /\ Older(candidate, s.elapsed, ConfirmationWindow) # {}
    BY <1>3, <2>2 DEF Observe
  <2>3. CASE s.eligible /\ Older(candidate, s.elapsed, ConfirmationWindow) = {}
    BY <1>4, <2>3 DEF Observe
  <2> QED BY <2>1, <2>2, <2>3
<1> QED BY <1>1, <1>2, <1>5

\* The breaker stays true of the recoveries there were.
LEMMA ObserveKeepsBreaker ==
  ASSUME TimelineInv, NEW s \in TimelineSamples,
         Observe(s), cooldown_in' = Left(cooldown_in, s.elapsed), RecordSample(s)
  PROVE  BreakerIsTrue'
<1> USE DEF TimelineInv
<1> DEFINE taken == Aged(decisions, s.elapsed, RateWindow)
<1>1. /\ s.elapsed \in Nat \ {0} /\ Cooldown \in Nat /\ RateWindow \in Nat
      /\ MaxRecoveries \in Nat
  BY SampleTypes, TimelinePolicyAssumption
<1>2. /\ decisions = recovered /\ decisions \in SUBSET Nat /\ IsFiniteSet(decisions)
      /\ Cardinality(decisions) <= MaxRecoveries
      /\ cooldown_in \in Nat /\ frame_ago \in Nat /\ cooldown_in + frame_ago = Cooldown
  BY DEF BreakerIsTrue
<1>3. /\ taken \subseteq Nat \ {0} /\ IsFiniteSet(taken)
      /\ Cardinality(taken) <= Cardinality(decisions)
  BY <1>1, <1>2, AgedSound
<1>4. /\ IsFiniteSet(taken \cup {0}) /\ Cardinality(taken \cup {0}) = Cardinality(taken) + 1
      /\ Cardinality(taken) \in Nat /\ Cardinality(decisions) \in Nat
  BY <1>2, <1>3, FS_AddElement, FS_CardinalityType
<1>5. /\ frame_ago' = IF frame_ago + s.elapsed < Cooldown
                      THEN frame_ago + s.elapsed ELSE Cooldown
      /\ recovered' = IF outcome' = "Recover" THEN taken \cup {0} ELSE taken
  BY <1>2 DEF RecordSample
<1>6. /\ cooldown_in' \in Nat /\ frame_ago' \in Nat /\ cooldown_in' + frame_ago' = Cooldown
      /\ ~(cooldown_in > s.elapsed) => frame_ago' = Cooldown
  BY <1>1, <1>2, <1>5 DEF Left
<1>7. \/ outcome' # "Recover" /\ decisions' = taken
      \/ /\ outcome' = "Recover" /\ decisions' = taken \cup {0}
         /\ ~(cooldown_in > s.elapsed) /\ ~(Cardinality(taken) >= MaxRecoveries)
  BY ObserveDecides
<1> HIDE DEF taken
<1>8. CASE outcome' # "Recover" /\ decisions' = taken
  <2>1. Cardinality(taken) <= MaxRecoveries
    BY <1>1, <1>2, <1>3, <1>4
  <2> QED BY <1>3, <1>5, <1>6, <1>8, <2>1 DEF BreakerIsTrue
<1>9. CASE /\ outcome' = "Recover" /\ decisions' = taken \cup {0}
           /\ ~(cooldown_in > s.elapsed) /\ ~(Cardinality(taken) >= MaxRecoveries)
  <2>1. Cardinality(taken \cup {0}) <= MaxRecoveries
    BY <1>1, <1>4, <1>9
  <2> QED BY <1>3, <1>4, <1>5, <1>6, <1>9, <2>1 DEF BreakerIsTrue
<1> QED BY <1>7, <1>8, <1>9

\* Every sample, load, recovered first frame and new channel keeps the
\* invariant.
LEMMA TimelineInvStep == TimelineInv /\ [TimelineNext]_timelineVars => TimelineInv'
<1> SUFFICES ASSUME TimelineInv, [TimelineNext]_timelineVars PROVE TimelineInv'
  OBVIOUS
<1> USE DEF TimelineInv
<1>1. Gaps \subseteq Int /\ Cooldown \in Nat /\ MaxRecoveries \in Nat
  BY TimelinePolicyAssumption
<1>2. IsFiniteSet({}) /\ Cardinality({}) = 0
  BY FS_EmptySet
<1>3. CASE ObserveSample
  BY <1>3, ObserveKeepsEvidence, ObserveKeepsBreaker DEF ObserveSample
<1>4. CASE TimelineBeginLoad
  <2>1. TimelineTypes' /\ EvidenceOfLoad'
    BY <1>1, <1>4 DEF TimelineBeginLoad, ForgetEvidence, TimelineTypes, EvidenceOfLoad,
                      CandidateHasRewind, BaselinesWereShown
  <2>2. BreakerIsTrue'
    BY <1>4 DEF TimelineBeginLoad, KeepsBreaker, BreakerIsTrue
  <2> QED BY <2>1, <2>2
<1>5. CASE NoteRecoveredFirstFrame
  <2>1. TimelineTypes' /\ EvidenceOfLoad'
    BY <1>5 DEF NoteRecoveredFirstFrame, TimelineTypes, EvidenceOfLoad,
                CandidateHasRewind, BaselinesWereShown
  <2>2. BreakerIsTrue'
    BY <1>1, <1>5 DEF NoteRecoveredFirstFrame, BreakerIsTrue
  <2> QED BY <2>1, <2>2
<1>6. CASE TimelineReset
  <2>1. TimelineTypes' /\ EvidenceOfLoad'
    BY <1>1, <1>6 DEF TimelineReset, TimelineTypes, EvidenceOfLoad,
                      CandidateHasRewind, BaselinesWereShown
  <2>2. BreakerIsTrue'
    BY <1>1, <1>2, <1>6 DEF TimelineReset, BreakerIsTrue
  <2> QED BY <2>1, <2>2
<1>7. CASE UNCHANGED timelineVars
  BY <1>7 DEF timelineVars, recoveryVars, sampleVars, timelineHistory, TimelineTypes,
              BreakerIsTrue, EvidenceOfLoad, CandidateHasRewind, BaselinesWereShown
<1> QED BY <1>3, <1>4, <1>5, <1>6, <1>7 DEF TimelineNext

\* A candidate that brings on a recovery met no rebase, lost ground, and
\* persisted where the cache refills.
LEMMA ConfirmIsWarranted ==
  ASSUME TimelineInv, NEW s \in TimelineSamples, RecordSample(s), s.eligible,
         gap' = GapAfter(s), read_before' = s.read, paused_before' = s.paused,
         NEW c \in Older(candidate, s.elapsed, ConfirmationWindow),
         Confirm(c, s, Older(trusted, s.elapsed, BaselineMaxAge)), outcome' = "Recover"
  PROVE  /\ rewinds' # {} /\ LostGround'
         /\ read_before' = TimelineClocks /\ (paused_before \/ paused_before') =>
              \A d \in candidate : d.baseline # Unknown => d.observed
<1> USE DEF TimelineInv
<1> DEFINE comparable == GapKnown(s) /\ c.baseline # Unknown
           confirmed  == \E b \in c.baseline : GapAfter(s) - b >= MaterialGap
<1>1. /\ c \in CandidateRecords
      /\ \E r \in rewinds' : r # 0
      /\ \A b \in c.baseline : \E k \in lowest' : k <= b
  BY CandidateSound
<1>2. /\ ~CommonClockReset(s)
      /\ \/ MaterialRewindSeen(s) /\ ~comparable
         \/ comparable /\ confirmed /\ (~NeedsPersistence(c, s) \/ c.observed)
  BY DEF Confirm
<1>3. LostGround'
  <2>1. CASE MaterialRewindSeen(s) /\ ~comparable
    <3>1. 0 \in rewinds'
      BY <1>2, <2>1, RewindsSound
    <3> QED BY <1>1, <3>1 DEF LostGround
  <2>2. CASE confirmed
    <3>1. PICK b \in c.baseline : GapAfter(s) - b >= MaterialGap
      BY <2>2
    <3>2. PICK k \in lowest' : k <= b
      BY <1>1
    <3>3. b \in Int /\ k \in Int /\ GapAfter(s) \in Int /\ MaterialGap \in Int
      BY <1>1, LowestSound, SampleTypes, TimelinePolicyAssumption DEF CandidateRecords
    <3>4. GapAfter(s) - k >= MaterialGap
      BY <3>1, <3>2, <3>3
    <3> QED BY <3>4 DEF LostGround
  <2> QED BY <1>2, <2>1, <2>2
<1>4. ASSUME read_before' = TimelineClocks, paused_before \/ paused_before',
             NEW d \in candidate, d.baseline # Unknown
      PROVE  d.observed
  <2>1. PICK e \in candidate : c.baseline = e.baseline /\ c.observed = e.observed
    BY OlderEvidence
  <2>2. d = e
    BY <2>1 DEF TimelineTypes
  <2>3. comparable
    BY <1>4, <2>1, <2>2 DEF GapKnown
  <2>4. NeedsPersistence(c, s)
    BY <1>4 DEF NeedsPersistence, RefillRelated
  <2> QED BY <1>2, <2>1, <2>2, <2>3, <2>4
<1> QED BY <1>1, <1>3, <1>4

\* For any distances, windows, movements and limits: a channel is recovered at
\* most so often, never within the cooldown, and only after a rewind that lost
\* it ground and was no rebase of the clock (player/timeline_recovery.cpp).
THEOREM TimelineRecoversOnlyLostGround == TimelineSpec => RecoversOnlyLostGround
<1> DEFINE warranted ==
      outcome' = "Recover" =>
        /\ rewinds' # {} /\ LostGround'
        /\ read_before' = TimelineClocks /\ (paused_before \/ paused_before') =>
             \A c \in candidate : c.baseline # Unknown => c.observed
<1>1. TimelineInv => RecoveriesLimited
  BY DEF TimelineInv, BreakerIsTrue, RecoveriesLimited
<1>2. TimelineInv /\ [TimelineNext]_timelineVars => [warranted]_timelineVars
  <2> SUFFICES ASSUME TimelineInv, TimelineNext, outcome' = "Recover"
               PROVE  warranted
    OBVIOUS
  <2>1. PICK s \in TimelineSamples :
          /\ GapAfter(s) \in Gaps /\ Observe(s) /\ gap' = GapAfter(s)
          /\ read_before' = s.read /\ paused_before' = s.paused /\ RecordSample(s)
    BY DEF TimelineNext, ObserveSample, TimelineBeginLoad, NoteRecoveredFirstFrame, TimelineReset
  <2>2. s.eligible /\ Older(candidate, s.elapsed, ConfirmationWindow) # {}
    BY <2>1 DEF Observe, Arm
  <2>3. PICK c \in Older(candidate, s.elapsed, ConfirmationWindow) :
          Confirm(c, s, Older(trusted, s.elapsed, BaselineMaxAge))
    BY <2>1, <2>2 DEF Observe
  <2> QED BY <2>1, <2>2, <2>3, ConfirmIsWarranted
<1> QED BY <1>1, <1>2, TimelineInvInit, TimelineInvStep, PTL
     DEF TimelineSpec, RecoversOnlyLostGround, RecoveryIsWarranted

\* How old and how wide evidence may be.
TimelineBounds ==
  /\ \A c \in candidate : c.age <= ConfirmationWindow /\ c.baseline \subseteq Gaps
  /\ \A t \in trusted : t.age <= BaselineMaxAge /\ t.gap \in Gaps
  /\ read_before \subseteq TimelineClocks /\ paused_before \in BOOLEAN
  /\ gap \in Gaps /\ outcome \in Outcomes

\* For any policy: evidence is never older than its limit, in any outcome.
LEMMA TimelineIsTyped == TimelineSpec => []TimelineTypeOK
<1> USE TimelinePolicyAssumption
<1>1. TimelineInit => TimelineBounds
  BY DEF TimelineInit, TimelineBounds, Outcomes
<1>2. TimelineInv /\ TimelineBounds /\ [TimelineNext]_timelineVars => TimelineBounds'
  <2> SUFFICES ASSUME TimelineInv, TimelineBounds, [TimelineNext]_timelineVars PROVE TimelineBounds'
    OBVIOUS
  <2>1. CASE UNCHANGED timelineVars
    BY <2>1 DEF timelineVars, recoveryVars, sampleVars, TimelineBounds
  <2>2. CASE TimelineBeginLoad \/ TimelineReset
    BY <2>2 DEF TimelineBeginLoad, TimelineReset, ForgetEvidence, TimelineBounds, Outcomes
  <2>3. CASE NoteRecoveredFirstFrame
    BY <2>3 DEF NoteRecoveredFirstFrame, TimelineBounds, Outcomes
  <2>4. CASE ObserveSample
    <3>1. PICK s \in TimelineSamples :
            GapAfter(s) \in Gaps /\ Observe(s) /\ read_before' = s.read /\ paused_before' = s.paused
            /\ gap' = GapAfter(s)
      BY <2>4 DEF ObserveSample
    <3>2. read_before' \subseteq TimelineClocks /\ paused_before' \in BOOLEAN /\ gap' \in Gaps
      BY <3>1 DEF TimelineSamples
    <3> DEFINE live == Older(candidate, s.elapsed, ConfirmationWindow)
               was == Older(trusted, s.elapsed, BaselineMaxAge)
               Evidence == /\ outcome' \in Outcomes
                           /\ \A c \in candidate' : c.age <= ConfirmationWindow /\ c.baseline \subseteq Gaps
                           /\ \A t \in trusted' : t.age <= BaselineMaxAge /\ t.gap \in Gaps
    <3>3. \A c \in live : /\ c \in CandidateRecords /\ c.age <= ConfirmationWindow
                          /\ c.baseline \subseteq Gaps
      BY SampleTypes DEF Older, TimelineBounds, TimelineInv, TimelineTypes, CandidateRecords
    <3>4. \A t \in was : t.age <= BaselineMaxAge /\ t.gap \in Gaps
      BY SampleTypes DEF Older, TimelineBounds, TimelineInv, TimelineTypes
    <3> HIDE DEF live, was
    <3>5. \A t \in Trust(s, was) : t.age <= BaselineMaxAge /\ t.gap \in Gaps
      BY <3>1, <3>4 DEF Trust
    <3>6. ASSUME ~s.eligible PROVE Evidence
      <4>1. candidate' = {} /\ trusted' = {} /\ outcome' = "None"
        BY <3>1, <3>6 DEF Observe, ForgetEvidence
      <4> QED BY <4>1 DEF Outcomes
    <3>7. ASSUME Decide(s) PROVE outcome' \in Outcomes /\ candidate' = {}
      BY <3>7 DEF Decide, Outcomes
    <3>8. ASSUME NEW c \in live, Confirm(c, s, was) PROVE Evidence
      <4>1. trusted' \in {was, Trust(s, was)}
        BY <3>8 DEF Confirm
      <4>2. outcome' \in Outcomes
        BY <3>7, <3>8 DEF Confirm, Outcomes
      <4>3. \A d \in candidate' : d.age \in {0, c.age} /\ d.baseline = c.baseline
        <5>1. \/ candidate' = {}
              \/ candidate' = {[c EXCEPT !.persist = TRUE, !.observed = TRUE, !.age = 0]}
              \/ candidate' = {[c EXCEPT !.persist = NeedsPersistence(c, s)]}
          BY <3>7, <3>8 DEF Confirm
        <5> QED BY <3>3, <5>1 DEF CandidateRecords
      <4> QED BY <3>3, TimelinePolicyAssumption, <3>4, <3>5, <4>1, <4>2, <4>3
    <3>9. ASSUME NEW otherwise \in {"CandidateCleared", "None"}, Arm(s, was, otherwise) PROVE Evidence
      <4>1. trusted' \in {was, Trust(s, was)}
        BY <3>9 DEF Arm
      <4>2. outcome' \in Outcomes
        BY <3>9 DEF Arm, Outcomes
      <4>3. \A d \in candidate' : d.age = 0 /\ d.baseline = Baseline(was)
        BY <3>9 DEF Arm
      <4>4. Baseline(was) \subseteq Gaps
        BY <3>4 DEF Baseline
      <4> QED BY <3>4, <3>5, <4>1, <4>2, <4>3, <4>4
    <3>10. ASSUME s.eligible PROVE Evidence
      <4>1. \/ \E c \in live : Confirm(c, s, was)
            \/ \E otherwise \in {"CandidateCleared", "None"} : Arm(s, was, otherwise)
        BY <3>1, <3>10, Zenon DEF Observe, live, was
      <4>2. ASSUME NEW c \in live, Confirm(c, s, was) PROVE Evidence
        BY <3>8, <4>2
      <4>3. ASSUME NEW otherwise \in {"CandidateCleared", "None"}, Arm(s, was, otherwise) PROVE Evidence
        BY <3>9, <4>3
      <4> HIDE DEF Evidence
      <4> QED BY <4>1, <4>2, <4>3, Zenon
    <3>11. Evidence
      <4> HIDE DEF Evidence
      <4> QED BY <3>6, <3>10, Zenon
    <3> QED BY <3>2, <3>11 DEF TimelineBounds
  <2> QED BY <2>1, <2>2, <2>3, <2>4 DEF TimelineNext
<1>3. TimelineInv /\ TimelineBounds => TimelineTypeOK
  <2> SUFFICES ASSUME TimelineInv, TimelineBounds PROVE TimelineTypeOK
    OBVIOUS
  <2>1. Cardinality(decisions) <= MaxRecoveries
    BY DEF TimelineInv, BreakerIsTrue
  <2>2. cooldown_in \in 0 .. Cooldown
    BY DEF TimelineInv, BreakerIsTrue
  <2> QED BY <2>1, <2>2, Zenon DEF TimelineBounds, TimelineTypeOK
<1> QED BY <1>1, <1>2, <1>3, TimelineInvInit, TimelineInvStep, PTL DEF TimelineSpec

-----------------------------------------------------------------------------
(* Playback health (core/playback_health.cpp)                              *)

ClockRecords == [age : Nat, count : Nat]

HealthTypes ==
  /\ first_frame \in BOOLEAN /\ stalled \in BOOLEAN /\ decode_stalled \in BOOLEAN
  /\ load_age \in Nat /\ samples \in Nat
  /\ \A c \in DOMAIN unread : unread[c] \in Nat
  /\ \A clock \in {stall_clock, cache_clock, decode_clock} : clock \subseteq ClockRecords
  /\ still_for \in Nat /\ hindered_ago \in Nat
  /\ steady.age \in Nat /\ steady.count \in Nat
  /\ steady \in [look : {steady.look}, age : Nat, count : Nat]

\* Playback has stood still for as long as any clock has run, and as long as
\* the decoder's has run nothing else explained it.
ClocksAreTrue ==
  /\ \A clock \in {stall_clock, cache_clock, decode_clock} : \A c \in clock : c.age <= still_for
  /\ \A c \in decode_clock : c.age <= hindered_ago
  /\ "Cache" \in last_read => "Cache" \in DOMAIN unread /\ unread["Cache"] = 0

\* What the clocks say has been returned.
VerdictIsOfTheClocks ==
  /\ Confirmed(cache_clock, CacheGrace, MinCache) => stalled
  /\ Confirmed(stall_clock, StallConfirmation, MinStall) => stalled
  /\ Confirmed(decode_clock, DecodeConfirmation, MinDecode) <=> decode_stalled
  /\ stalled /\ stall_clock # Off => Confirmed(stall_clock, StallConfirmation, MinStall)
  /\ stalled /\ cache_clock # Off => Confirmed(cache_clock, CacheGrace, MinCache)

\* Some clock has run at least as long as the picture has been frozen in one
\* way; which one, the look tells.
RunsSince(clock) == \E c \in clock : c.age >= steady.age /\ c.count >= steady.count

FreezeIsTimed ==
  \A l \in steady.look :
    /\ l[1] => RunsSince(cache_clock)
    /\ ~l[1] /\ l[2] /\ ~l[3] => RunsSince(stall_clock)
    /\ ~l[1] /\ ~(l[2] /\ ~l[3]) /\ ~l[4] => RunsSince(decode_clock)

HealthInv ==
  HealthTypes /\ ClocksAreTrue /\ VerdictIsOfTheClocks /\ FreezeIsTimed /\ OpeningIsBounded

\* A fold starts with no clock running, and has returned nothing
\* (initial_playback_health).
LEMMA HealthInvInit == HealthInit => HealthInv
<1> SUFFICES ASSUME HealthInit PROVE HealthInv
  OBVIOUS
<1> USE HealthPolicyAssumption DEF HealthInit
<1>1. HealthTypes
  <2>1. DOMAIN unread = {}
    OBVIOUS
  <2>2. steady.age = 0 /\ steady.count = 0
    BY DEF NoLook
  <2>3. steady \in [look : {steady.look}, age : Nat, count : Nat]
    BY DEF NoLook
  <2> QED BY <2>1, <2>2, <2>3 DEF HealthTypes, Off
<1>2. ClocksAreTrue
  BY DEF ClocksAreTrue, Off
<1>3. VerdictIsOfTheClocks
  BY DEF VerdictIsOfTheClocks, Confirmed, Off
<1>4. FreezeIsTimed
  BY DEF FreezeIsTimed, NoLook
<1>5. OpeningIsBounded
  <2>1. MinOpen > 0 /\ MinOpen \in Nat
    OBVIOUS
  <2> QED BY <2>1 DEF OpeningIsBounded
<1> QED BY <1>1, <1>2, <1>3, <1>4, <1>5 DEF HealthInv

\* What a sample is made of (core/playback_health.hpp,
\* PlaybackHealthObservation).
LEMMA HealthSampleTypes ==
  ASSUME NEW s \in HealthSamples
  PROVE  /\ s.elapsed \in Nat \ {0} /\ s.move \in {0, 1} /\ s.fill \in Nat
         /\ s.paused \in BOOLEAN /\ s.low \in BOOLEAN
         /\ Limit \in Nat \ {0}
<1>1. SampleTimes \subseteq 1 .. Limit /\ Fills \subseteq Nat /\ Limit \in Nat \ {0}
  BY HealthPolicyAssumption
<1>2. s.elapsed \in SampleTimes /\ s.fill \in Fills
  BY DEF HealthSamples
<1>3. s.elapsed \in Nat \ {0}
  <2>1. s.elapsed \in 1 .. Limit
    BY <1>1, <1>2
  <2> QED BY <1>1, <2>1
<1> QED BY <1>1, <1>2, <1>3 DEF HealthSamples

\* A capped number is the number or the limit.
LEMMA CappedSound ==
  ASSUME NEW n \in Nat
  PROVE  Capped(n) \in Nat /\ (Capped(n) = n \/ Capped(n) = Limit) /\ Capped(n) <= Limit
         /\ Capped(n) <= n
BY HealthPolicyAssumption DEF Capped

\* Capping keeps an order.
LEMMA CappedGrows ==
  ASSUME NEW n \in Nat, NEW m \in Nat, n <= m
  PROVE  Capped(n) <= Capped(m)
BY HealthPolicyAssumption DEF Capped

\* A picture that is found frozen has not moved in this sample.
LEMMA FrozenStands ==
  ASSUME HealthTypes, NEW s \in HealthSamples, Frozen(s)
  PROVE  s.move = 0
<1>1. "Playback" \in DOMAIN unread /\ unread["Playback"] \in Nat
  BY DEF Frozen, Measured, HealthTypes
<1> QED BY <1>1, HealthSampleTypes DEF Frozen, Movement, MoveOf

\* A clock runs on from where it was, from its start, or not at all
\* (fold_playback_health).
LEMMA RunSound ==
  ASSUME NEW clock \in SUBSET ClockRecords, NEW holds \in BOOLEAN, NEW elapsed \in Nat
  PROVE  /\ Run(clock, holds, elapsed) \subseteq ClockRecords
         /\ Run(clock, holds, elapsed) # Off => holds
         /\ \A c \in Run(clock, holds, elapsed) :
              c.age = 0 \/ \E d \in clock : c.age = Capped(d.age + elapsed)
         /\ holds => \E c \in Run(clock, holds, elapsed) : c.age >= 0 /\ c.count >= 1
         /\ holds => \A d \in clock : \E c \in Run(clock, holds, elapsed) :
              c.age = Capped(d.age + elapsed) /\ c.count = Capped(d.count + 1)
<1> DEFINE next(d) == [age |-> Capped(d.age + elapsed), count |-> Capped(d.count + 1)]
<1>0. Limit \in Nat \ {0}
  BY HealthPolicyAssumption
<1>1. CASE holds = FALSE
  BY <1>1 DEF Run, Off
<1>2. CASE holds = TRUE /\ clock = Off
  <2>1. Run(clock, holds, elapsed) = {[age |-> 0, count |-> 1]}
    BY <1>2 DEF Run
  <2> DEFINE r == [age |-> 0, count |-> 1]
  <2>2. r \in ClockRecords /\ r.age = 0 /\ r.age >= 0 /\ r.count >= 1
    BY DEF ClockRecords
  <2>3. clock = {}
    BY <1>2 DEF Off
  <2>4. Run(clock, holds, elapsed) = {r}
    BY <2>1
  <2> HIDE DEF r
  <2> QED BY <1>2, <2>2, <2>3, <2>4
<1>3. CASE holds = TRUE /\ clock # Off
  <2>1. Run(clock, holds, elapsed) = {next(d) : d \in clock}
    BY <1>3 DEF Run
  <2>2. ASSUME NEW d \in clock
        PROVE  /\ next(d) \in ClockRecords /\ next(d).count >= 1 /\ next(d).age >= 0
               /\ next(d).age = Capped(d.age + elapsed) /\ next(d).count = Capped(d.count + 1)
    <3>1. d.age \in Nat /\ d.count \in Nat /\ d.age + elapsed \in Nat /\ d.count + 1 \in Nat
      BY DEF ClockRecords
    <3>2. Capped(d.age + elapsed) \in Nat /\ Capped(d.count + 1) \in Nat
      BY <3>1, CappedSound
    <3>3. Capped(d.count + 1) >= 1
      BY <1>0, <3>1 DEF Capped
    <3> QED BY <3>1, <3>2, <3>3 DEF ClockRecords
  <2>3. PICK d \in clock : TRUE
    BY <1>3 DEF Off
  <2> HIDE DEF next
  <2> QED BY <1>3, <2>1, <2>2, <2>3
<1> QED BY <1>1, <1>2, <1>3

\* A fold of the sample s.
FoldsIn(s) ==
  /\ load_age' = Capped(load_age + s.elapsed) /\ samples' = Capped(samples + 1)
  /\ unread' = UnreadAfter(s)
  /\ stall_clock' = Run(stall_clock, Starved(s), s.elapsed)
  /\ cache_clock' = Run(cache_clock, PauseWedged(s), s.elapsed)
  /\ decode_clock' = Run(decode_clock, DecodeWedged(s), s.elapsed)
  /\ stalled' =
       \/ Opening(s) /\ load_age' >= OpenConfirmation /\ samples' >= MinOpen
       \/ Confirmed(cache_clock', CacheGrace, MinCache)
       \/ Confirmed(stall_clock', StallConfirmation, MinStall)
  /\ decode_stalled' = Confirmed(decode_clock', DecodeConfirmation, MinDecode)
  /\ RememberSample(s) /\ UNCHANGED first_frame

\* What the conditions of the clocks need, and which of them exclude each
\* other.
LEMMA ConditionsExclude ==
  ASSUME NEW s \in HealthSamples
  PROVE  /\ Starved(s) \in BOOLEAN /\ PauseWedged(s) \in BOOLEAN /\ DecodeWedged(s) \in BOOLEAN
         /\ Starved(s) \/ PauseWedged(s) \/ DecodeWedged(s) => Frozen(s) /\ first_frame
         /\ Starved(s) \/ DecodeWedged(s) => ~s.paused
         /\ PauseWedged(s) => s.paused
         /\ DecodeWedged(s) => ~Throttled(s)
BY DEF Starved, PauseWedged, DecodeWedged, Opening

\* A fold keeps the types.
LEMMA FoldKeepsTypes ==
  ASSUME HealthInv, NEW s \in HealthSamples, FoldsIn(s)
  PROVE  HealthTypes'
<1> USE DEF HealthInv
<1>1. /\ s.elapsed \in Nat /\ s.move \in {0, 1} /\ s.fill \in Nat
      /\ load_age \in Nat /\ samples \in Nat /\ still_for \in Nat /\ hindered_ago \in Nat
      /\ \A c \in DOMAIN unread : unread[c] \in Nat
      /\ \A clock \in {stall_clock, cache_clock, decode_clock} : clock \subseteq ClockRecords
      /\ steady.age \in Nat /\ steady.count \in Nat
      /\ steady \in [look : {steady.look}, age : Nat, count : Nat] /\ first_frame \in BOOLEAN
  BY HealthSampleTypes DEF HealthTypes
<1>2. \A n \in Nat : Capped(n) \in Nat
  BY CappedSound
<1>3. load_age' \in Nat /\ samples' \in Nat
  <2>1. load_age + s.elapsed \in Nat /\ samples + 1 \in Nat
    BY <1>1
  <2> QED BY <1>2, <2>1 DEF FoldsIn
<1>4. still_for' \in Nat /\ hindered_ago' \in Nat
  <2>1. still_for + s.elapsed \in Nat /\ hindered_ago + s.elapsed \in Nat
    BY <1>1
  <2> QED BY <1>2, <2>1 DEF FoldsIn, RememberSample
<1>5. \A c \in DOMAIN unread' : unread'[c] \in Nat
  <2>1. unread' = [c \in s.read \cup DOMAIN unread |->
                     IF c \in s.read THEN 0 ELSE Capped(unread[c] + MoveOf(s, c))]
    BY DEF FoldsIn, UnreadAfter
  <2>2. ASSUME NEW c \in DOMAIN unread
        PROVE  unread[c] + MoveOf(s, c) \in Nat
    BY <1>1 DEF MoveOf
  <2> QED BY <1>2, <2>1, <2>2
<1>6. /\ stall_clock' \subseteq ClockRecords /\ cache_clock' \subseteq ClockRecords
      /\ decode_clock' \subseteq ClockRecords
  BY <1>1, RunSound, ConditionsExclude DEF FoldsIn
<1>7. stalled' \in BOOLEAN /\ decode_stalled' \in BOOLEAN
  BY DEF FoldsIn, Confirmed
<1>8. /\ steady'.age \in Nat /\ steady'.count \in Nat
      /\ steady' \in [look : {steady'.look}, age : Nat, count : Nat]
  <2>1. Capped(steady.age + s.elapsed) \in Nat /\ Capped(steady.count + 1) \in Nat
    <3>1. steady.age + s.elapsed \in Nat /\ steady.count + 1 \in Nat
      BY <1>1
    <3> QED BY <1>2, <3>1
  <2>2. CASE steady' = NoLook
    BY <2>2 DEF NoLook
  <2>3. CASE steady' = [steady EXCEPT !.age = Capped(@ + s.elapsed), !.count = Capped(@ + 1)]
    BY <1>1, <2>1, <2>3
  <2>4. CASE steady' = [look |-> Look(s), age |-> 0, count |-> 1]
    BY <2>4
  <2> QED BY <2>2, <2>3, <2>4 DEF FoldsIn, RememberSample
<1>9. first_frame' \in BOOLEAN
  BY <1>1 DEF FoldsIn
<1> QED BY <1>3, <1>4, <1>5, <1>6, <1>7, <1>8, <1>9 DEF HealthTypes

\* A clock that runs on has the picture stand still and, the decoder's, no
\* hindrance seen, for as long: what the cache moved is known from two readings
\* in a row.
LEMMA FoldKeepsClocks ==
  ASSUME HealthInv, NEW s \in HealthSamples, FoldsIn(s)
  PROVE  ClocksAreTrue'
<1> USE DEF HealthInv
<1>1. /\ s.elapsed \in Nat /\ s.fill \in Nat /\ still_for \in Nat /\ hindered_ago \in Nat
      /\ \A clock \in {stall_clock, cache_clock, decode_clock} : clock \subseteq ClockRecords
  BY HealthSampleTypes DEF HealthTypes
<1>2. still_for' \in Nat /\ hindered_ago' \in Nat
  BY FoldKeepsTypes DEF HealthTypes
<1>3. ASSUME NEW clock \in SUBSET ClockRecords, NEW holds \in BOOLEAN, NEW past \in Nat,
             \A d \in clock : d.age <= past,
             NEW c \in Run(clock, holds, s.elapsed)
      PROVE  c.age <= Capped(past + s.elapsed) /\ holds
  <2>1. holds
    BY <1>1, RunSound DEF Off
  <2>2. past + s.elapsed \in Nat /\ Capped(past + s.elapsed) \in Nat
    BY <1>1, CappedSound
  <2>3. c.age = 0 \/ \E d \in clock : c.age = Capped(d.age + s.elapsed)
    BY <1>1, RunSound
  <2>4. CASE c.age = 0
    BY <2>1, <2>2, <2>4
  <2>5. ASSUME NEW d \in clock, c.age = Capped(d.age + s.elapsed)
        PROVE  c.age <= Capped(past + s.elapsed)
    <3>1. d.age \in Nat
      BY DEF ClockRecords
    <3>2. d.age + s.elapsed \in Nat /\ d.age + s.elapsed <= past + s.elapsed
      BY <1>1, <1>3, <3>1
    <3> QED BY <2>2, <2>5, <3>2, CappedGrows
  <2> QED BY <2>1, <2>3, <2>4, <2>5
<1>4. Frozen(s) => still_for' = Capped(still_for + s.elapsed)
  BY FrozenStands DEF FoldsIn, RememberSample
<1>5. ASSUME DecodeWedged(s)
      PROVE  hindered_ago' = Capped(hindered_ago + s.elapsed)
  <2>1. ~s.paused /\ ~Throttled(s)
    BY <1>5, ConditionsExclude
  <2>2. ASSUME "Cache" \in s.read \cap last_read, s.fill > 0, 10 * s.fill < 9 * s.elapsed
        PROVE  FALSE
    <3>1. "Cache" \in DOMAIN unread /\ unread["Cache"] = 0
      BY <2>2 DEF ClocksAreTrue
    <3>2. Measured(s, "Cache")
      BY <2>2, <3>1 DEF Measured
    <3>3. Movement(s, "Cache") = s.fill
      BY <1>1, <3>1 DEF Movement, MoveOf
    <3> QED BY <2>1, <2>2, <3>2, <3>3 DEF Throttled, Delivering
  <2> QED BY <2>1, <2>2 DEF FoldsIn, RememberSample
<1>6. /\ \A c \in stall_clock' : c.age <= still_for'
      /\ \A c \in cache_clock' : c.age <= still_for'
      /\ \A c \in decode_clock' : c.age <= still_for' /\ c.age <= hindered_ago'
  <2>1. /\ \A d \in stall_clock : d.age <= still_for
        /\ \A d \in cache_clock : d.age <= still_for
        /\ \A d \in decode_clock : d.age <= still_for /\ d.age <= hindered_ago
    BY DEF ClocksAreTrue
  <2>2. ASSUME NEW c \in stall_clock' PROVE c.age <= still_for'
    BY <1>1, <1>3, <1>4, <2>1, ConditionsExclude DEF FoldsIn
  <2>3. ASSUME NEW c \in cache_clock' PROVE c.age <= still_for'
    BY <1>1, <1>3, <1>4, <2>1, ConditionsExclude DEF FoldsIn
  <2>4. ASSUME NEW c \in decode_clock' PROVE c.age <= still_for' /\ c.age <= hindered_ago'
    BY <1>1, <1>3, <1>4, <1>5, <2>1, ConditionsExclude DEF FoldsIn
  <2> QED BY <2>2, <2>3, <2>4
<1>7. "Cache" \in last_read' => "Cache" \in DOMAIN unread' /\ unread'["Cache"] = 0
  BY DEF FoldsIn, RememberSample, UnreadAfter
<1> QED BY <1>6, <1>7 DEF ClocksAreTrue

\* A fold returns what its clocks say, and ends an opening in time.
LEMMA FoldKeepsVerdict ==
  ASSUME HealthInv, NEW s \in HealthSamples, FoldsIn(s)
  PROVE  VerdictIsOfTheClocks' /\ OpeningIsBounded'
<1> USE DEF HealthInv
<1>1. /\ \A clock \in {stall_clock, cache_clock, decode_clock} : clock \subseteq ClockRecords
      /\ s.elapsed \in Nat /\ first_frame \in BOOLEAN
  BY HealthSampleTypes DEF HealthTypes
<1>2. stall_clock' # Off => first_frame /\ ~s.paused
  BY <1>1, RunSound, ConditionsExclude DEF FoldsIn
<1>3. cache_clock' # Off => first_frame /\ s.paused
  BY <1>1, RunSound, ConditionsExclude DEF FoldsIn
<1>4. /\ Confirmed(stall_clock', StallConfirmation, MinStall) => stall_clock' # Off
      /\ Confirmed(cache_clock', CacheGrace, MinCache) => cache_clock' # Off
  BY DEF Confirmed, Off
<1>5. /\ stalled' <=> \/ ~first_frame /\ load_age' >= OpenConfirmation /\ samples' >= MinOpen
                      \/ Confirmed(cache_clock', CacheGrace, MinCache)
                      \/ Confirmed(stall_clock', StallConfirmation, MinStall)
      /\ decode_stalled' <=> Confirmed(decode_clock', DecodeConfirmation, MinDecode)
      /\ first_frame' = first_frame
  BY DEF FoldsIn, Opening
<1>6. VerdictIsOfTheClocks'
  BY <1>2, <1>3, <1>4, <1>5 DEF VerdictIsOfTheClocks, Confirmed
<1>7. OpeningIsBounded'
  BY <1>5 DEF OpeningIsBounded
<1> QED BY <1>6, <1>7

\* A picture frozen in one way has one clock run all the while.
LEMMA FoldKeepsTime ==
  ASSUME HealthInv, NEW s \in HealthSamples, FoldsIn(s)
  PROVE  FreezeIsTimed'
<1> USE DEF HealthInv
<1>1. /\ \A clock \in {stall_clock, cache_clock, decode_clock} : clock \subseteq ClockRecords
      /\ s.elapsed \in Nat /\ steady.age \in Nat /\ steady.count \in Nat
      /\ steady \in [look : {steady.look}, age : Nat, count : Nat]
      /\ s.paused \in BOOLEAN /\ s.low \in BOOLEAN
  BY HealthSampleTypes DEF HealthTypes
<1> DEFINE looked == <<s.paused, s.low, Delivering(s), Throttled(s)>>
           goes(clock) == \E c \in clock : c.age >= steady.age /\ c.count >= steady.count
<1>2. CASE steady' = NoLook
  BY <1>2 DEF FreezeIsTimed, NoLook
<1>3. ASSUME ~(~first_frame \/ ~Frozen(s) \/ ~Measured(s, "Cache"))
      PROVE  FreezeIsTimed'
  <2>1. steady'.look = {looked}
    BY <1>1, <1>3 DEF FoldsIn, RememberSample, Look
  <2>2. /\ looked[1] = s.paused /\ looked[2] = s.low
        /\ looked[3] = Delivering(s) /\ looked[4] = Throttled(s)
    OBVIOUS
  <2>3. /\ looked[1] => PauseWedged(s)
        /\ ~looked[1] /\ looked[2] /\ ~looked[3] => Starved(s)
        /\ ~looked[1] /\ ~(looked[2] /\ ~looked[3]) /\ ~looked[4] => DecodeWedged(s)
    BY <1>3, <2>2 DEF PauseWedged, Starved, DecodeWedged, Opening
  <2>4. ASSUME NEW clock \in SUBSET ClockRecords, NEW holds \in BOOLEAN, holds,
               steady.look = {looked} => goes(clock)
        PROVE  \E c \in Run(clock, holds, s.elapsed) :
                 c.age >= steady'.age /\ c.count >= steady'.count
    <3>1. CASE steady.look = Look(s)
      <4>1. PICK d \in clock : d.age >= steady.age /\ d.count >= steady.count
        BY <2>4, <3>1 DEF Look
      <4>2. PICK c \in Run(clock, holds, s.elapsed) :
              c.age = Capped(d.age + s.elapsed) /\ c.count = Capped(d.count + 1)
        <5>1. s.elapsed \in Nat /\ holds
          BY <1>1, <2>4
        <5>2. holds => \A e \in clock : \E c \in Run(clock, holds, s.elapsed) :
                c.age = Capped(e.age + s.elapsed) /\ c.count = Capped(e.count + 1)
          BY <5>1, RunSound
        <5> QED BY <5>1, <5>2
      <4>3. d.age \in Nat /\ d.count \in Nat
        BY DEF ClockRecords
      <4>4. /\ d.age + s.elapsed \in Nat /\ steady.age + s.elapsed \in Nat
            /\ d.count + 1 \in Nat /\ steady.count + 1 \in Nat
            /\ steady.age + s.elapsed <= d.age + s.elapsed /\ steady.count + 1 <= d.count + 1
        BY <1>1, <4>1, <4>3
      <4>5. /\ Capped(steady.age + s.elapsed) <= Capped(d.age + s.elapsed)
            /\ Capped(steady.count + 1) <= Capped(d.count + 1)
            /\ Capped(steady.age + s.elapsed) \in Nat /\ Capped(d.age + s.elapsed) \in Nat
            /\ Capped(steady.count + 1) \in Nat /\ Capped(d.count + 1) \in Nat
        BY <4>4, CappedGrows, CappedSound
      <4>6. steady'.age = Capped(steady.age + s.elapsed) /\ steady'.count = Capped(steady.count + 1)
        BY <1>1, <1>3, <3>1 DEF FoldsIn, RememberSample
      <4> QED BY <4>2, <4>5, <4>6
    <3>2. CASE steady.look # Look(s)
      <4>1. steady'.age = 0 /\ steady'.count = 1
        BY <1>3, <3>2 DEF FoldsIn, RememberSample
      <4>2. s.elapsed \in Nat /\ holds
        BY <1>1, <2>4
      <4>3. holds => \E c \in Run(clock, holds, s.elapsed) : c.age >= 0 /\ c.count >= 1
        BY <4>2, RunSound
      <4> QED BY <4>1, <4>2, <4>3
    <3> QED BY <3>1, <3>2
  <2> HIDE DEF looked, goes
  <2>5. steady.look = {looked} =>
          /\ looked[1] => goes(cache_clock)
          /\ ~looked[1] /\ looked[2] /\ ~looked[3] => goes(stall_clock)
          /\ ~looked[1] /\ ~(looked[2] /\ ~looked[3]) /\ ~looked[4] => goes(decode_clock)
    BY DEF FreezeIsTimed, RunsSince, goes
  <2>6. /\ looked[1] => RunsSince(cache_clock)'
        /\ ~looked[1] /\ looked[2] /\ ~looked[3] => RunsSince(stall_clock)'
        /\ ~looked[1] /\ ~(looked[2] /\ ~looked[3]) /\ ~looked[4] => RunsSince(decode_clock)'
    BY <1>1, <2>3, <2>4, <2>5, ConditionsExclude DEF FoldsIn, RunsSince
  <2> QED BY <2>1, <2>6 DEF FreezeIsTimed
<1> QED BY <1>2, <1>3 DEF FoldsIn, RememberSample

\* Every fold, first frame and restart of the supervision keeps the invariant.
LEMMA HealthInvStep == HealthInv /\ [HealthNext]_healthVars => HealthInv'
<1> SUFFICES ASSUME HealthInv, [HealthNext]_healthVars PROVE HealthInv'
  OBVIOUS
<1>1. CASE FoldSample
  <2>1. PICK s \in HealthSamples : FoldsIn(s)
    BY <1>1 DEF FoldSample, FoldsIn
  <2> QED BY <2>1, FoldKeepsTypes, FoldKeepsClocks, FoldKeepsVerdict, FoldKeepsTime DEF HealthInv
<1>2. CASE FirstFrame
  <2>1. /\ first_frame' = TRUE
        /\ UNCHANGED <<load_age, samples, unread, stall_clock, cache_clock, decode_clock,
                       stalled, decode_stalled, still_for, hindered_ago, last_read, steady>>
    BY <1>2 DEF FirstFrame, foldVars, healthHistory
  <2> QED BY <2>1 DEF HealthInv, HealthTypes, ClocksAreTrue, VerdictIsOfTheClocks,
                      FreezeIsTimed, RunsSince, OpeningIsBounded, Confirmed
<1>3. CASE RestartHealth
  <2>1. HealthInit'
    BY <1>3 DEF RestartHealth, HealthInit
  <2>2. HealthInit' => HealthInv'
    BY HealthInvInit, PTL
  <2> QED BY <2>1, <2>2
<1>4. CASE UNCHANGED healthVars
  BY <1>4 DEF healthVars, foldVars, healthHistory, HealthInv, HealthTypes, ClocksAreTrue,
     VerdictIsOfTheClocks, FreezeIsTimed, RunsSince, OpeningIsBounded, Confirmed
<1> QED BY <1>1, <1>2, <1>3, <1>4 DEF HealthNext

\* The greatest of three numbers is no less than any of them.
LEMMA GreatestOfThree ==
  ASSUME NEW a \in Nat, NEW b \in Nat, NEW c \in Nat
  PROVE  Max({a, b, c}) \in Nat /\ Max({a, b, c}) >= a /\ Max({a, b, c}) >= b /\ Max({a, b, c}) >= c
<1>1. \E x \in {a, b, c} : \A y \in {a, b, c} : x >= y
  OBVIOUS
<1>2. Max({a, b, c}) \in {a, b, c} /\ \A y \in {a, b, c} : Max({a, b, c}) >= y
  BY <1>1, Zenon DEF Max
<1> QED BY <1>2

\* For any limits, counts, sample times and movements of the cache: a stall is
\* returned only for a picture that stood still so long, a decode stall only
\* when no pause and no slow input of that time explains it, and no exemption
\* lasts (core/playback_health.cpp).
THEOREM FoldTellsStallsFromPlayback == HealthSpec => []StallsAreToldFromPlayback
<1>1. HealthInit => HealthInv
  BY HealthInvInit
<1>2. HealthInv => StallsAreToldFromPlayback
  <2> SUFFICES ASSUME HealthInv PROVE StallsAreToldFromPlayback
    OBVIOUS
  <2> USE DEF HealthInv
  <2>1. /\ {StallConfirmation, MinStall, CacheGrace, MinCache, DecodeConfirmation, MinDecode}
             \subseteq Nat
        /\ still_for \in Nat /\ hindered_ago \in Nat
        /\ steady.age \in Nat /\ steady.count \in Nat
        /\ \A clock \in {stall_clock, cache_clock, decode_clock} :
             \A c \in clock : c.age \in Nat /\ c.count \in Nat
    BY HealthPolicyAssumption DEF HealthTypes, ClockRecords
  <2>2. VerdictIsWarranted
    BY <2>1 DEF VerdictIsWarranted, VerdictIsOfTheClocks, ClocksAreTrue, Confirmed
  <2>3. ASSUME NEW clock \in {stall_clock, cache_clock, decode_clock}, RunsSince(clock),
               NEW time \in Nat, NEW count \in Nat, steady.age >= time, steady.count >= count
        PROVE  Confirmed(clock, time, count)
    BY <2>1, <2>3 DEF RunsSince, Confirmed
  <2>4. CachePauseIsBounded
    BY <2>1, <2>3 DEF CachePauseIsBounded, FreezeIsTimed, VerdictIsOfTheClocks
  <2>5. SteadyFreezeIsFound
    <3> SUFFICES ASSUME NEW l \in steady.look, ~l[4],
             steady.age >= Max({StallConfirmation, CacheGrace, DecodeConfirmation}),
             steady.count >= Max({MinStall, MinCache, MinDecode})
                 PROVE  stalled \/ decode_stalled
      BY DEF SteadyFreezeIsFound
    <3>1. /\ steady.age >= StallConfirmation /\ steady.age >= CacheGrace
          /\ steady.age >= DecodeConfirmation
      <4>1. Max({StallConfirmation, CacheGrace, DecodeConfirmation}) \in Nat
        BY <2>1, GreatestOfThree
      <4> QED BY <2>1, <4>1, GreatestOfThree
    <3>2. steady.count >= MinStall /\ steady.count >= MinCache /\ steady.count >= MinDecode
      <4>1. Max({MinStall, MinCache, MinDecode}) \in Nat
        BY <2>1, GreatestOfThree
      <4> QED BY <2>1, <4>1, GreatestOfThree
    <3>3. RunsSince(cache_clock) \/ RunsSince(stall_clock) \/ RunsSince(decode_clock)
      BY DEF FreezeIsTimed
    <3> QED BY <2>1, <2>3, <3>1, <3>2, <3>3 DEF VerdictIsOfTheClocks
  <2> QED BY <2>2, <2>4, <2>5 DEF StallsAreToldFromPlayback, FreezeIsFound
<1> QED BY <1>1, <1>2, HealthInvStep, PTL DEF HealthSpec

\* No two clocks run at once.
OneClockRuns ==
  \/ stall_clock = Off /\ cache_clock = Off
  \/ stall_clock = Off /\ decode_clock = Off
  \/ cache_clock = Off /\ decode_clock = Off

\* HealthTypeOK, a clock at a time.
HealthBounds ==
  /\ {first_frame, stalled, decode_stalled} \subseteq BOOLEAN
  /\ {load_age, samples, still_for, hindered_ago} \subseteq 0 .. Limit
  /\ DOMAIN unread \subseteq HealthClocks /\ \A c \in DOMAIN unread : unread[c] \in 0 .. Limit
  /\ ClockType(stall_clock) /\ ClockType(cache_clock) /\ ClockType(decode_clock)
  /\ OneClockRuns

\* For any policy: no two health clocks run at once, and none runs past Limit.
LEMMA HealthIsTyped == HealthSpec => []HealthTypeOK
<1> USE HealthPolicyAssumption
<1>0. Limit \in Nat /\ 0 \in 0 .. Limit
  OBVIOUS
<1>1. HealthInit => HealthBounds
  <2>1. DOMAIN << >> = {}
    OBVIOUS
  <2> QED BY <1>0, <2>1 DEF HealthInit, HealthBounds, ClockType, OneClockRuns
<1>2. \A n \in Nat : Capped(n) \in 0 .. Limit
  BY DEF Capped
<1>3. ASSUME NEW clock, ClockType(clock), NEW holds \in BOOLEAN, NEW elapsed \in Nat
      PROVE  ClockType(Run(clock, holds, elapsed)) /\ (~holds => Run(clock, holds, elapsed) = Off)
  <2>1. CASE ~holds
    BY <2>1 DEF Run, ClockType
  <2>2. CASE holds /\ clock = Off
    <3>1. Run(clock, holds, elapsed) = {[age |-> 0, count |-> 1]}
      BY <2>2 DEF Run
    <3>2. 1 \in 0 .. Limit
      OBVIOUS
    <3> QED BY <1>0, <2>2, <3>1, <3>2 DEF ClockType
  <2>3. CASE holds /\ clock # Off
    <3>1. PICK age, count \in 0 .. Limit : clock = {[age |-> age, count |-> count]}
      BY <1>3, <2>3 DEF ClockType
    <3>2. Run(clock, holds, elapsed) = {[age |-> Capped(age + elapsed), count |-> Capped(count + 1)]}
      BY <2>3, <3>1 DEF Run
    <3>3. Capped(age + elapsed) \in 0 .. Limit /\ Capped(count + 1) \in 0 .. Limit
      BY <1>2
    <3> QED BY <2>3, <3>2, <3>3 DEF ClockType
  <2> QED BY <2>1, <2>2, <2>3
<1>4. HealthInv /\ HealthBounds /\ [HealthNext]_healthVars => HealthBounds'
  <2> SUFFICES ASSUME HealthInv, HealthBounds, [HealthNext]_healthVars PROVE HealthBounds'
    OBVIOUS
  <2>1. CASE UNCHANGED healthVars
    BY <2>1 DEF healthVars, foldVars, healthHistory, HealthBounds, OneClockRuns
  <2>2. CASE FirstFrame
    BY <2>2 DEF FirstFrame, foldVars, healthHistory, HealthBounds, OneClockRuns
  <2>3. CASE RestartHealth
    <3>1. DOMAIN << >> = {}
      OBVIOUS
    <3> QED BY <1>0, <2>3, <3>1 DEF RestartHealth, HealthBounds, ClockType, OneClockRuns
  <2>4. CASE FoldSample
    <3>1. PICK s \in HealthSamples :
            /\ load_age' = Capped(load_age + s.elapsed)
            /\ samples' = Capped(samples + 1)
            /\ unread' = UnreadAfter(s)
            /\ stall_clock' = Run(stall_clock, Starved(s), s.elapsed)
            /\ cache_clock' = Run(cache_clock, PauseWedged(s), s.elapsed)
            /\ decode_clock' = Run(decode_clock, DecodeWedged(s), s.elapsed)
            /\ RememberSample(s) /\ first_frame' = first_frame
      BY <2>4 DEF FoldSample
    <3>2. stalled' \in BOOLEAN /\ decode_stalled' \in BOOLEAN
      BY <2>4 DEF FoldSample, Confirmed
    <3>3. s.elapsed \in Nat /\ s.move \in Nat /\ s.fill \in Nat /\ s.read \subseteq HealthClocks
      BY HealthSampleTypes DEF HealthSamples
    <3>4. {load_age', samples', still_for', hindered_ago'} \subseteq 0 .. Limit
      <4>1. {load_age, samples, still_for, hindered_ago} \subseteq Nat
        BY DEF HealthBounds
      <4>2. /\ load_age' \in 0 .. Limit /\ samples' \in 0 .. Limit
        BY <1>2, <3>1, <3>3, <4>1
      <4>3. still_for' \in {0, Capped(still_for + s.elapsed)} /\ hindered_ago' \in {0, Capped(hindered_ago + s.elapsed)}
        BY <3>1 DEF RememberSample
      <4>4. still_for' \in 0 .. Limit /\ hindered_ago' \in 0 .. Limit
        BY <1>0, <1>2, <3>3, <4>1, <4>3
      <4> QED BY <4>2, <4>4
    <3>5. DOMAIN unread' \subseteq HealthClocks /\ \A c \in DOMAIN unread' : unread'[c] \in 0 .. Limit
      <4>1. DOMAIN unread' = s.read \cup DOMAIN unread
        BY <3>1 DEF UnreadAfter
      <4>2. ASSUME NEW c \in DOMAIN unread' PROVE unread'[c] \in 0 .. Limit
        <5>1. unread'[c] = IF c \in s.read THEN 0 ELSE Capped(unread[c] + MoveOf(s, c))
          BY <3>1, <4>1 DEF UnreadAfter
        <5>2. MoveOf(s, c) \in Nat
          BY <3>3 DEF MoveOf
        <5>3. c \notin s.read => unread[c] \in Nat
          BY <4>1 DEF HealthBounds
        <5> QED BY <1>0, <1>2, <5>1, <5>2, <5>3
      <4> QED BY <3>3, <4>1, <4>2 DEF HealthBounds
    <3>6. Starved(s) \in BOOLEAN /\ PauseWedged(s) \in BOOLEAN /\ DecodeWedged(s) \in BOOLEAN
      BY <2>4, HealthSampleTypes, Zenon DEF Starved, PauseWedged, DecodeWedged, HealthBounds
    <3>7. ClockType(stall_clock') /\ ClockType(cache_clock') /\ ClockType(decode_clock')
      BY <1>3, <3>1, <3>3, <3>6 DEF HealthBounds
    <3>8. OneClockRuns'
      <4>1. \/ ~Starved(s) /\ ~PauseWedged(s)
            \/ ~Starved(s) /\ ~DecodeWedged(s)
            \/ ~PauseWedged(s) /\ ~DecodeWedged(s)
        BY SMT DEF Starved, PauseWedged, DecodeWedged
      <4>2. /\ ~Starved(s) => stall_clock' = Off
            /\ ~PauseWedged(s) => cache_clock' = Off
            /\ ~DecodeWedged(s) => decode_clock' = Off
        BY <3>1, Zenon DEF Run
      <4> QED BY <4>1, <4>2 DEF OneClockRuns
    <3> QED BY <3>1, <3>2, <3>4, <3>5, <3>7, <3>8 DEF HealthBounds
  <2> QED BY <2>1, <2>2, <2>3, <2>4 DEF HealthNext
<1>5. HealthBounds => HealthTypeOK
  <2> SUFFICES ASSUME HealthBounds PROVE HealthTypeOK
    OBVIOUS
  <2> DEFINE running_ == {c \in {stall_clock, cache_clock, decode_clock} : c # Off}
  <2>1. running_ = {} \/ \E c : running_ = {c}
    BY DEF HealthBounds, OneClockRuns
  <2>2. Cardinality(running_) <= 1
    <3>1. CASE running_ = {}
      <4> HIDE DEF running_
      <4> QED BY <3>1, FS_EmptySet
    <3>2. CASE \E c : running_ = {c}
      <4> HIDE DEF running_
      <4>1. PICK c : running_ = {c}
        BY <3>2
      <4>2. Cardinality(running_) = 1
        BY <4>1, FS_Singleton, Zenon
      <4> QED BY <4>2
    <3> QED BY <2>1, <3>1, <3>2
  <2>3. Quantify({stall_clock, cache_clock, decode_clock}, LAMBDA c : c # Off) = Cardinality(running_)
    BY DEF Quantify
  <2>4. Quantify({stall_clock, cache_clock, decode_clock}, LAMBDA c : c # Off) <= 1
    <3> HIDE DEF running_
    <3> QED BY <2>2, <2>3
  <2> QED BY <2>4, Zenon DEF HealthBounds, HealthTypeOK
<1> QED BY <1>1, <1>4, <1>5, HealthInvInit, HealthInvStep, PTL DEF HealthSpec

-----------------------------------------------------------------------------
(* Delivery telemetry (player/delivery_telemetry.cpp)                      *)

\* The clock's past, and a moment in it or never.
Moment == 0 .. now
MaybeMoment == {Never} \cup Moment
DeliveryRecord ==
  [issued_at : Moment, last_movement_at : MaybeMoment,
   quiet_since : MaybeMoment, last_observed_at : MaybeMoment,
   suspended_at : MaybeMoment, still_seen : BOOLEAN, unwatched : Moment, source_gaps : Moment]

DeliveryTyped ==
  /\ now \in 0 .. MaxTime /\ observed_load \in 0 .. MaxDeliveryLoad
  /\ movement \in {"None", "Forward", "Back"}
  /\ delivery \in DeliveryRecord
  /\ arrived_at \in Moment /\ shown_at \in Moment /\ still_at \in Moment /\ resumed_at \in Moment

\* What a sample showed is what arrived, unless more has arrived since.
ShownIsArrived ==
  /\ shown_at <= arrived_at
  /\ observed_load # 0 /\ movement # "Forward" => shown_at = arrived_at

\* A silence and the last movement are of the time since the last data shown
\* and since the load was taken up; before its first data a load has neither.
SilenceIsOwn ==
  /\ delivery.quiet_since # Never =>
       delivery.quiet_since >= shown_at /\ delivery.quiet_since >= resumed_at
  /\ HasData => delivery.last_movement_at >= shown_at /\ delivery.last_movement_at >= resumed_at
  /\ ~HasData => delivery.quiet_since = Never /\ ~delivery.still_seen

\* The sample that saw the cache end still was within the silence.
StillIsWithin ==
  delivery.still_seen =>
    /\ still_at <= delivery.last_observed_at
    /\ delivery.quiet_since # Never => delivery.quiet_since <= still_at

\* No sample and no movement is later than the load was given up.
NothingWhileSuspended ==
  delivery.suspended_at # Never =>
    /\ delivery.last_observed_at <= delivery.suspended_at
    /\ delivery.last_movement_at <= delivery.suspended_at
    /\ delivery.quiet_since <= delivery.suspended_at

\* The gaps charged, and the time nobody watched, lie between the load's
\* issue and the silence that is running, or the last movement, or now.
Charged == delivery.issued_at + delivery.unwatched + delivery.source_gaps
ChargesFit ==
  /\ Charged <= IF delivery.suspended_at # Never THEN delivery.suspended_at ELSE now
  /\ delivery.quiet_since # Never => Charged <= delivery.quiet_since
  /\ HasData => Charged <= delivery.last_movement_at

DeliveryInv ==
  DeliveryTyped /\ ShownIsArrived /\ SilenceIsOwn /\ StillIsWithin /\ NothingWhileSuspended
  /\ ChargesFit

LEMMA DeliveryInvInit == DeliveryInit => DeliveryInv
BY DeliveryAssumption DEF DeliveryInit, DeliveryInv, DeliveryTyped, Moment, MaybeMoment,
   DeliveryRecord, ShownIsArrived, SilenceIsOwn, StillIsWithin,
   NothingWhileSuspended, ChargesFit, Charged, NewLoad, Never, HasData

\* The numbers of it, as the provers want them.
DeliveryNumbers ==
  /\ now \in Nat /\ delivery.issued_at \in 0 .. now
  /\ delivery.last_movement_at \in {-1} \cup 0 .. now
  /\ delivery.quiet_since \in {-1} \cup 0 .. now /\ delivery.last_observed_at \in {-1} \cup 0 .. now
  /\ delivery.still_seen \in BOOLEAN /\ delivery.unwatched \in 0 .. now
  /\ delivery.source_gaps \in 0 .. now
  /\ arrived_at \in 0 .. now /\ shown_at \in 0 .. now /\ still_at \in 0 .. now
  /\ resumed_at \in 0 .. now

LEMMA NumbersOfDelivery ==
  ASSUME DeliveryInv
  PROVE  DeliveryNumbers
BY DEF DeliveryInv, DeliveryTyped, Moment, MaybeMoment, DeliveryRecord, DeliveryNumbers, Never

\* A sample that can read the cache end.
LEMMA ObserveReadableSound ==
  ASSUME DeliveryInv, NEW drained \in BOOLEAN, NEW at_target \in BOOLEAN,
         observed_load # 0, delivery.suspended_at = Never, delivery.last_observed_at < now,
         ObserveReadable(drained, at_target), UNCHANGED <<now, observed_load, resumed_at>>
  PROVE  DeliveryInv'
<1> USE DeliveryAssumption DEF Never, DeliveryNumbers
<1>0. DeliveryNumbers
  BY NumbersOfDelivery
<1>1. now' = now /\ shown_at' = arrived_at /\ arrived_at' = arrived_at /\ resumed_at' = resumed_at
      /\ movement' = "None" /\ observed_load' = observed_load
  BY DEF ObserveReadable
<1> SUFFICES /\ delivery' \in DeliveryRecord' /\ still_at' \in Moment /\ SilenceIsOwn'
/\ StillIsWithin' /\ NothingWhileSuspended' /\ ChargesFit'
  BY <1>0, <1>1 DEF DeliveryInv, DeliveryTyped, Moment, MaybeMoment, DeliveryRecord,
     ShownIsArrived
<1>2. CASE ~HasData /\ drained /\ delivery' = Seen /\ still_at' = still_at
  BY <1>2, <1>0, <1>1 DEF DeliveryInv, DeliveryTyped, Moment, MaybeMoment, DeliveryRecord,
     ShownIsArrived, SilenceIsOwn, StillIsWithin, NothingWhileSuspended, ChargesFit,
     Charged, HasData, Seen
<1>3. CASE ~HasData /\ delivery' = FirstData(at_target) /\ still_at' = still_at
  <2>11. delivery' \in DeliveryRecord'
    <3>1. DeliveryRecord' = DeliveryRecord /\ MaybeMoment' = MaybeMoment
      BY <1>1 DEF DeliveryRecord, MaybeMoment, Moment
    <3>2. now \in MaybeMoment /\ -1 \in MaybeMoment
      BY <1>0 DEF MaybeMoment, Moment
    <3>3. delivery \in DeliveryRecord /\ now \in MaybeMoment /\ (IF at_target THEN -1 ELSE now) \in MaybeMoment
      BY <3>2 DEF DeliveryInv, DeliveryTyped
    <3>4. FirstData(at_target) \in DeliveryRecord
      BY <3>3 DEF FirstData, Seen, DeliveryRecord
    <3> QED BY <1>3, <3>1, <3>4
  <2>12. /\ delivery'.quiet_since = IF at_target THEN -1 ELSE now
        /\ delivery'.last_movement_at = now /\ delivery'.still_seen = delivery.still_seen
        /\ delivery'.last_observed_at = now /\ delivery'.suspended_at = -1
        /\ delivery'.issued_at = delivery.issued_at /\ delivery'.source_gaps = delivery.source_gaps
        /\ delivery'.unwatched = delivery.unwatched
    BY <1>3, <1>0, <1>1 DEF DeliveryInv, DeliveryTyped, Moment, MaybeMoment, DeliveryRecord,
       HasData, Seen, FirstData
  <2> QED
    BY <1>3, <1>0, <1>1, <2>11, <2>12 DEF DeliveryInv, DeliveryTyped, Moment, MaybeMoment,
       DeliveryRecord, ShownIsArrived, SilenceIsOwn, StillIsWithin, NothingWhileSuspended,
       ChargesFit, Charged, HasData
<1>4. CASE HasData /\ movement = "Back" /\ delivery' = Seen /\ still_at' = still_at
  BY <1>4, <1>0, <1>1 DEF DeliveryInv, DeliveryTyped, Moment, MaybeMoment, DeliveryRecord,
     ShownIsArrived, SilenceIsOwn, StillIsWithin, NothingWhileSuspended, ChargesFit,
     Charged, HasData, Seen
<1>5. CASE HasData /\ movement = "None" /\ delivery' = Still(at_target) /\ still_at' = now
  <2>11. delivery' \in DeliveryRecord'
    <3>1. DeliveryRecord' = DeliveryRecord /\ MaybeMoment' = MaybeMoment
      BY <1>1 DEF DeliveryRecord, MaybeMoment, Moment
    <3>2. now \in MaybeMoment /\ -1 \in MaybeMoment
      BY <1>0 DEF MaybeMoment, Moment
    <3>3. /\ delivery \in DeliveryRecord /\ now \in MaybeMoment
          /\ (IF delivery.quiet_since = -1 /\ ~at_target THEN now ELSE delivery.quiet_since) \in MaybeMoment
      BY <3>2 DEF DeliveryInv, DeliveryTyped, DeliveryRecord
    <3>4. Still(at_target) \in DeliveryRecord
      BY <3>3 DEF Still, Seen, DeliveryRecord
    <3> QED BY <1>5, <3>1, <3>4
  <2>12. /\ delivery'.quiet_since = IF delivery.quiet_since = -1 /\ ~at_target
                                    THEN now ELSE delivery.quiet_since
        /\ delivery'.last_movement_at = delivery.last_movement_at /\ delivery'.still_seen = TRUE
        /\ delivery'.last_observed_at = now /\ delivery'.suspended_at = -1
        /\ delivery'.issued_at = delivery.issued_at /\ delivery'.source_gaps = delivery.source_gaps
        /\ delivery'.unwatched = delivery.unwatched
    BY <1>5, <1>0, <1>1 DEF DeliveryInv, DeliveryTyped, Moment, MaybeMoment, DeliveryRecord,
       HasData, Seen, Still
  <2> QED
    BY <1>5, <1>0, <1>1, <2>11, <2>12 DEF DeliveryInv, DeliveryTyped, Moment, MaybeMoment,
       DeliveryRecord, ShownIsArrived, SilenceIsOwn, StillIsWithin, NothingWhileSuspended,
       ChargesFit, Charged, HasData
<1>6. CASE HasData /\ movement = "Forward" /\ delivery' = CacheEndMoved(at_target)
           /\ still_at' = still_at
  <2>1. SilenceEnded \in 0 .. now \/ ~IsSourceGap
    BY <1>0 DEF SilenceEnded, SamplingPaused, DeliveryInv, StillIsWithin, IsSourceGap
  <2>2. IsSourceGap => SilenceEnded >= delivery.quiet_since /\ SilenceEnded <= now
    BY <1>0 DEF SilenceEnded, SamplingPaused, DeliveryInv, StillIsWithin, IsSourceGap
  <2> DEFINE gaps == IF IsSourceGap THEN delivery.source_gaps + (SilenceEnded -
     delivery.quiet_since) ELSE delivery.source_gaps
  <2>3. gaps \in Nat /\ delivery.issued_at + delivery.unwatched + gaps <= now
    BY <1>0, <2>1, <2>2 DEF DeliveryInv, ChargesFit, Charged, IsSourceGap
  <2> HIDE DEF gaps
  <2>4. delivery' = [delivery EXCEPT !.last_observed_at = now, !.source_gaps = gaps,
                       !.last_movement_at = now, !.still_seen = FALSE,
                       !.quiet_since = IF at_target THEN Never ELSE now]
    BY <1>6 DEF CacheEndMoved, Seen, gaps, DeliveryInv, DeliveryTyped
  <2>11. delivery' \in DeliveryRecord'
    <3>1. DeliveryRecord' = DeliveryRecord /\ MaybeMoment' = MaybeMoment
      BY <1>1 DEF DeliveryRecord, MaybeMoment, Moment
    <3>2. now \in MaybeMoment /\ -1 \in MaybeMoment
      BY <1>0 DEF MaybeMoment, Moment
    <3>3. /\ delivery \in DeliveryRecord /\ now \in MaybeMoment
          /\ (IF at_target THEN -1 ELSE now) \in MaybeMoment /\ gaps \in Moment
      BY <1>0, <2>3, <3>2 DEF DeliveryInv, DeliveryTyped, Moment
    <3>4. delivery' \in DeliveryRecord
      BY <2>4, <3>3 DEF DeliveryRecord
    <3> QED BY <3>1, <3>4
  <2>12. /\ delivery'.quiet_since = IF at_target THEN -1 ELSE now
        /\ delivery'.last_movement_at = now /\ delivery'.still_seen = FALSE
        /\ delivery'.last_observed_at = now /\ delivery'.suspended_at = -1
        /\ delivery'.issued_at = delivery.issued_at /\ delivery'.source_gaps = gaps
        /\ delivery'.unwatched = delivery.unwatched
    BY <1>6, <1>0, <1>1, <2>3, <2>4 DEF DeliveryInv, DeliveryTyped, DeliveryRecord
  <2> QED
    BY <1>6, <1>0, <1>1, <2>3, <2>4, <2>11, <2>12 DEF DeliveryInv, DeliveryTyped,
       Moment, MaybeMoment, DeliveryRecord, ShownIsArrived, SilenceIsOwn, StillIsWithin,
       NothingWhileSuspended, ChargesFit, Charged, HasData
<1> QED
  BY <1>2, <1>3, <1>4, <1>5, <1>6 DEF ObserveReadable

\* A load taken up again: its silence begins anew, and the time between is
\* counted as unwatched.
LEMMA ReviveSound ==
  ASSUME DeliveryInv, Revive
  PROVE  DeliveryInv'
<1> USE DeliveryAssumption DEF Never, DeliveryNumbers
<1>0. DeliveryNumbers
  BY NumbersOfDelivery
<1>10. delivery.suspended_at \in 0 .. now
       /\ delivery.unwatched + (now - delivery.suspended_at) \in 0 .. now
  BY <1>0 DEF Revive, DeliveryInv, DeliveryTyped, Moment, MaybeMoment, DeliveryRecord,
     ChargesFit, Charged
<1>11. delivery' \in DeliveryRecord'
  <2>1. DeliveryRecord' = DeliveryRecord /\ MaybeMoment' = MaybeMoment
    BY DEF Revive, DeliveryRecord, MaybeMoment, Moment
  <2>2. now \in MaybeMoment /\ -1 \in MaybeMoment
    BY <1>0 DEF MaybeMoment, Moment
  <2>3. \A x \in MaybeMoment : AsOfNow(x) \in MaybeMoment
    BY <2>2 DEF AsOfNow
  <2>4. delivery \in DeliveryRecord /\ delivery.unwatched + (now - delivery.suspended_at) \in Moment
    BY <1>10 DEF DeliveryInv, DeliveryTyped, Moment
  <2>5. /\ AsOfNow(delivery.quiet_since) \in MaybeMoment /\ AsOfNow(delivery.last_movement_at) \in MaybeMoment
        /\ AsOfNow(delivery.last_observed_at) \in MaybeMoment
    BY <2>3, <2>4 DEF DeliveryRecord
  <2>6. Watched \in DeliveryRecord
    BY <2>2, <2>4, <2>5 DEF Watched, DeliveryRecord
  <2> QED BY <2>1, <2>6 DEF Revive
<1>12. /\ delivery'.quiet_since = AsOfNow(delivery.quiet_since)
       /\ delivery'.last_movement_at = AsOfNow(delivery.last_movement_at)
       /\ delivery'.last_observed_at = AsOfNow(delivery.last_observed_at)
       /\ delivery'.still_seen = FALSE /\ delivery'.suspended_at = Never
       /\ delivery'.issued_at = delivery.issued_at /\ delivery'.source_gaps = delivery.source_gaps
       /\ delivery'.unwatched = delivery.unwatched + (now - delivery.suspended_at)
  <2> HIDE DEF DeliveryNumbers, Never
  <2>1. delivery \in DeliveryRecord
    BY DEF DeliveryInv, DeliveryTyped
  <2> QED
    BY <2>1 DEF DeliveryRecord, Revive, Watched
<1>13. DeliveryTyped' /\ ShownIsArrived'
  BY <1>0, <1>11 DEF Revive, DeliveryInv, DeliveryTyped, Moment, ShownIsArrived
<1>14. UNCHANGED <<now, shown_at, still_at>> /\ resumed_at' = now
  BY DEF Revive
<1>15. SilenceIsOwn'
  BY <1>0, <1>12, <1>14 DEF AsOfNow, DeliveryInv, SilenceIsOwn, HasData
<1>16. StillIsWithin' /\ NothingWhileSuspended'
  BY <1>12 DEF StillIsWithin, NothingWhileSuspended
<1>17. delivery.suspended_at # Never /\ delivery.suspended_at \in 0 .. now
  BY <1>10 DEF Revive
<1>18. Charged' = Charged + (now - delivery.suspended_at) /\ Charged <= delivery.suspended_at
  BY <1>0, <1>12, <1>17 DEF Charged, DeliveryInv, ChargesFit
<1>19. Charged' <= now /\ Charged \in Int
  BY <1>0, <1>17, <1>18 DEF Charged
<1>20. ChargesFit'
  BY <1>0, <1>12, <1>14, <1>19 DEF AsOfNow, ChargesFit, HasData
<1> QED
  BY <1>13, <1>15, <1>16, <1>20 DEF DeliveryInv

LEMMA DeliveryInvStep == DeliveryInv /\ [DeliveryNext]_deliveryVars => DeliveryInv'
<1> SUFFICES ASSUME DeliveryInv, [DeliveryNext]_deliveryVars PROVE DeliveryInv'
  OBVIOUS
<1> USE DeliveryAssumption DEF Never, DeliveryNumbers
<1>0. DeliveryNumbers
  BY NumbersOfDelivery
<1>1. CASE Passes
  BY <1>0, <1>1 DEF Passes, DeliveryInv, DeliveryTyped, Moment, MaybeMoment, DeliveryRecord,
     ShownIsArrived, SilenceIsOwn, StillIsWithin, NothingWhileSuspended, ChargesFit,
     Charged, HasData
<1>2. CASE Arrives
  BY <1>0, <1>2 DEF Arrives, DeliveryInv, DeliveryTyped, Moment, MaybeMoment, DeliveryRecord,
     ShownIsArrived, SilenceIsOwn, StillIsWithin, NothingWhileSuspended, ChargesFit,
     Charged, HasData
<1>3. CASE TimestampsReset
  BY <1>0, <1>3 DEF TimestampsReset, DeliveryInv, DeliveryTyped, Moment, MaybeMoment,
     DeliveryRecord, ShownIsArrived, SilenceIsOwn, StillIsWithin, NothingWhileSuspended,
     ChargesFit, Charged, HasData
<1>4. CASE BeginDelivery
  BY <1>0, <1>4 DEF BeginDelivery, NewLoad, DeliveryInv, DeliveryTyped, Moment, MaybeMoment,
     DeliveryRecord, ShownIsArrived, SilenceIsOwn, StillIsWithin, NothingWhileSuspended,
     ChargesFit, Charged, HasData
<1>5. CASE Revive
  BY <1>5, ReviveSound
<1>6. CASE Suspend
  BY <1>0, <1>6 DEF Suspend, DeliveryInv, DeliveryTyped, Moment, MaybeMoment, DeliveryRecord,
     ShownIsArrived, SilenceIsOwn, StillIsWithin, NothingWhileSuspended, ChargesFit,
     Charged, HasData
<1>7. CASE EndLoad
  BY <1>0, <1>7 DEF EndLoad, NewLoad, DeliveryInv, DeliveryTyped, Moment, MaybeMoment,
     DeliveryRecord, ShownIsArrived, SilenceIsOwn, StillIsWithin, NothingWhileSuspended,
     ChargesFit, Charged, HasData
<1>8. CASE ObserveDelivery
  <2>1. CASE ObserveMissing
    BY <1>0, <1>8, <2>1 DEF ObserveDelivery, ObserveMissing, Seen, DeliveryInv,
       DeliveryTyped, Moment, MaybeMoment, DeliveryRecord, ShownIsArrived, SilenceIsOwn,
       StillIsWithin, NothingWhileSuspended, ChargesFit, Charged, HasData
  <2>2. CASE \E drained, at_target \in BOOLEAN : ObserveReadable(drained, at_target)
    BY <1>8, <2>2, ObserveReadableSound DEF ObserveDelivery
  <2> QED BY <1>8, <2>1, <2>2 DEF ObserveDelivery
<1>9. CASE UNCHANGED deliveryVars
  BY <1>9 DEF deliveryVars, DeliveryInv, DeliveryTyped, Moment, MaybeMoment, DeliveryRecord,
     ShownIsArrived, SilenceIsOwn, StillIsWithin, NothingWhileSuspended, ChargesFit,
     Charged, HasData
<1> QED BY <1>1, <1>2, <1>3, <1>4, <1>5, <1>6, <1>7, <1>8, <1>9 DEF DeliveryNext

(* ChargesOnlySilence for every clock, pause and number of loads: what    *)
(* DeliveryTelemetry::observe (delivery_telemetry.cpp) charges to a source *)
(* lies within one silence, after the last data shown, in which a sample   *)
(* saw the cache end still, and ends before a pause in sampling.           *)
THEOREM OnlySilenceIsCharged == DeliverySpec => ChargesOnlySilence
<1>1. ASSUME DeliveryInv, [DeliveryNext]_deliveryVars,
             observed_load' = observed_load, observed_load # 0,
             delivery'.source_gaps - delivery.source_gaps > 0
      PROVE  /\ delivery.quiet_since >= Max({shown_at, resumed_at})
             /\ delivery.quiet_since <= still_at
             /\ delivery.quiet_since + (delivery'.source_gaps - delivery.source_gaps)
                  <= IF SamplingPaused THEN delivery.last_observed_at ELSE now
  <2> USE DEF Never, DeliveryNumbers
  <2>0. DeliveryNumbers
    BY <1>1, NumbersOfDelivery
  <2>1. \E at_target \in BOOLEAN : delivery' = CacheEndMoved(at_target)
    <3>1. delivery \in DeliveryRecord
      BY <1>1 DEF DeliveryInv, DeliveryTyped
    <3>2. delivery' # delivery /\ ~EndLoad /\ ~BeginDelivery
      <4>1. observed_load \in Int
        BY <1>1, DeliveryAssumption DEF DeliveryInv, DeliveryTyped
      <4>2. ~EndLoad /\ ~BeginDelivery
        BY <1>1, <4>1 DEF EndLoad, BeginDelivery
      <4> QED
        BY <1>1, <2>0, <4>2
    <3>3. CASE Revive
      BY <1>1, <2>0, <3>1, <3>3 DEF Revive, Watched, DeliveryRecord
    <3>4. CASE Suspend
      BY <1>1, <2>0, <3>1, <3>4 DEF Suspend, DeliveryRecord
    <3>5. CASE ObserveDelivery
      <4>1. Seen.source_gaps = delivery.source_gaps
        BY <3>1 DEF Seen, DeliveryRecord
      <4>2. ASSUME NEW at_target \in BOOLEAN
            PROVE  /\ FirstData(at_target).source_gaps = delivery.source_gaps
                   /\ Still(at_target).source_gaps = delivery.source_gaps
        BY <3>1 DEF Seen, FirstData, Still, DeliveryRecord
      <4>3. delivery'.source_gaps # delivery.source_gaps
        BY <1>1, <2>0
      <4> QED
        BY <3>5, <4>1, <4>2, <4>3, Zenon DEF ObserveDelivery, ObserveMissing,
           ObserveReadable
    <3> QED
      BY <1>1, <3>2, <3>3, <3>4, <3>5 DEF DeliveryNext, Passes, Arrives,
         TimestampsReset, deliveryVars
  <2>2. /\ IsSourceGap
        /\ delivery'.source_gaps = delivery.source_gaps + (SilenceEnded - delivery.quiet_since)
    BY <1>1, <2>0, <2>1 DEF CacheEndMoved, Seen, DeliveryInv, DeliveryTyped,
       DeliveryRecord
  <2>3. SilenceEnded \in Int
        /\ SilenceEnded = IF SamplingPaused THEN delivery.last_observed_at ELSE now
    BY <2>0 DEF SilenceEnded
  <2>4. Max({shown_at, resumed_at}) = IF shown_at >= resumed_at THEN shown_at ELSE resumed_at
    BY <2>0, MaxOfTwo
  <2>5. delivery.quiet_since >= Max({shown_at, resumed_at}) /\ delivery.quiet_since <= still_at
    BY <1>1, <2>0, <2>2, <2>4 DEF IsSourceGap, DeliveryInv, SilenceIsOwn, StillIsWithin
  <2>6. delivery.quiet_since + (delivery'.source_gaps - delivery.source_gaps) = SilenceEnded
    BY <2>0, <2>2, <2>3
  <2> QED
    BY <2>3, <2>5, <2>6
<1>2. DeliveryInv /\ [DeliveryNext]_deliveryVars =>
        [LET charged == delivery'.source_gaps - delivery.source_gaps IN
         observed_load' = observed_load /\ observed_load # 0 /\ charged > 0 =>
           /\ delivery.quiet_since >= Max({shown_at, resumed_at})
           /\ delivery.quiet_since <= still_at
           /\ delivery.quiet_since + charged
                <= IF SamplingPaused THEN delivery.last_observed_at ELSE now]_deliveryVars
  BY <1>1
<1> QED
  BY <1>2, DeliveryInvInit, DeliveryInvStep, PTL DEF DeliverySpec, ChargesOnlySilence

(* The record of a load is sound: every field keeps its type, a silence    *)
(* and the last movement are of the time since the load was taken up, and  *)
(* the gaps with the silence that is running never exceed the time that    *)
(* summarize says was observed.                                            *)
THEOREM DeliverySound == DeliverySpec => []DeliveryTypeOK
<1>1. ASSUME DeliveryInv PROVE DeliveryTypeOK
  <2> USE DeliveryAssumption DEF Never, DeliveryNumbers
  <2>0. DeliveryNumbers
    BY <1>1, NumbersOfDelivery
  <2>1. /\ now \in 0..MaxTime /\ observed_load \in 0..MaxDeliveryLoad
        /\ movement \in {"None", "Forward", "Back"}
        /\ delivery.suspended_at \in {-1} \cup 0 .. now
    BY <1>1 DEF DeliveryInv, DeliveryTyped, DeliveryRecord, MaybeMoment, Moment
  <2>2. /\ {delivery.issued_at, delivery.last_movement_at, delivery.quiet_since,
             delivery.last_observed_at, delivery.suspended_at} \subseteq Times
        /\ {delivery.unwatched, delivery.source_gaps} \subseteq 0..MaxTime
    BY <2>0, <2>1 DEF Times
  <2>3. Max({shown_at, resumed_at}) = IF shown_at >= resumed_at THEN shown_at ELSE resumed_at
    BY <2>0, MaxOfTwo
  <2>4. /\ delivery.quiet_since # Never => delivery.quiet_since >= Max({shown_at, resumed_at})
        /\ HasData => delivery.last_movement_at >= Max({shown_at, resumed_at})
    BY <1>1, <2>0, <2>3 DEF DeliveryInv, SilenceIsOwn
  <2>5. Until = IF delivery.suspended_at # -1 THEN delivery.suspended_at ELSE now
    <3> DEFINE given_up == IF delivery.suspended_at # -1 THEN delivery.suspended_at ELSE now
    <3>1. given_up \in Int /\ delivery.last_observed_at \in Int
          /\ delivery.last_observed_at <= given_up
      BY <1>1, <2>0, <2>1 DEF DeliveryInv, NothingWhileSuspended
    <3>2. Until = Max({given_up, delivery.last_observed_at})
      BY DEF Until
    <3> HIDE DEF given_up
    <3>3. Until = given_up
      BY <3>1, <3>2, MaxOfTwo
    <3> QED BY <3>3 DEF given_up
  <2>6. delivery.source_gaps + SilentAtEnd <= ObservedFor
    BY <1>1, <2>0, <2>1, <2>5 DEF DeliveryInv, ChargesFit, Charged,
       NothingWhileSuspended, SilentAtEnd, ObservedFor
  <2> QED
    BY <2>0, <2>1, <2>2, <2>4, <2>6 DEF DeliveryTypeOK
<1> QED
  BY <1>1, DeliveryInvInit, DeliveryInvStep, PTL DEF DeliverySpec

-----------------------------------------------------------------------------
(* Super resolution (app/app.cpp, player/mpv_player.cpp)                   *)

Vsr == [wanted : BOOLEAN, window : Nat, seen : Nat, asked : Nat, applied : Nat,
        attached : BOOLEAN, height : Nat]
Source == [generation : Nat, height : Nat]
Renderer == [filter : Nat, refused : BOOLEAN, source : Nat, height : Nat, told : Nat, loading : Source,
             begun : BOOLEAN, mail : Seq([kind : {"Start", "Loaded"}, generation : Nat])]

SrTyped ==
  /\ vsr \in Vsr /\ renderer \in Renderer /\ current \in [target : Nat, active : Nat]
  /\ filters_set \in Nat

\* The events waiting: of one file, its start before its load.
MailInOrder ==
  \/ renderer.mail = << >>
  \/ \E g \in 1 .. current.target :
       \/ renderer.mail = <<FileEvent("Start", g)>>
       \/ renderer.mail = <<FileEvent("Start", g), FileEvent("Loaded", g)>> /\ ~renderer.begun
       \/ renderer.mail = <<FileEvent("Loaded", g)>> /\ ~renderer.begun /\ current.active = g

\* A file that has begun is of the channel to play and has been announced.
BegunIsAnnounced ==
  renderer.begun =>
    /\ renderer.loading # NoSource /\ renderer.source = 0
    /\ IF renderer.mail = << >> THEN current.active = current.target
       ELSE renderer.mail = <<FileEvent("Start", current.target)>>

LoadingIsTarget ==
  renderer.loading # NoSource =>
    renderer.loading.generation = current.target /\ current.target > 0
    /\ renderer.loading.height > 0

\* The load of the channel to play has yet to be pumped.
LoadDue ==
  renderer.mail # << >> /\ renderer.mail[Len(renderer.mail)] = FileEvent("Loaded", current.target)

\* Then a file to be loaded as well is the same again.
LoadsAgain ==
  LoadDue /\ renderer.loading # NoSource =>
    renderer.source > 0 /\ renderer.loading.height = renderer.source

HeightsInOrder == renderer.height \in {0, renderer.source} /\ vsr.height \in {0, vsr.seen}

\* A filter of the player is the one libmpv runs, and is attached, or libmpv
\* refused it and it is not.
FilterRuns(v, r, scale) ==
  IF r.refused THEN ~v.attached ELSE v.attached /\ r.filter = scale

FilterIsAsked ==
  /\ vsr.applied \in {NoFilter, vsr.asked}
  /\ vsr.applied # NoFilter => FilterRuns(vsr, renderer, vsr.applied)
  /\ vsr.asked # NoFilter => FilterRuns(vsr, renderer, vsr.asked)

One(b) == IF b THEN 1 ELSE 0

\* Heights that will be new to the application, if no profile changes.
NewHeights ==
  IF renderer.source > 0
  THEN One(renderer.source # vsr.seen)
       + One(renderer.loading # NoSource /\ renderer.loading.height # renderer.source)
  ELSE One(renderer.loading # NoSource /\ renderer.loading.height # vsr.seen)

\* Settings of the filter that are still to come.
ToCome == One(renderer.loading # NoSource) + One(LoadDue) + NewHeights

FilesInOrder == MailInOrder /\ BegunIsAnnounced /\ LoadingIsTarget /\ LoadsAgain

SrInv ==
  /\ SrTyped /\ FilesInOrder /\ HeightsInOrder
  /\ FilterIsAsked /\ filters_set + ToCome <= 4

\* A new backend is one.
LEMMA FreshIsRenderer == FreshRenderer \in Renderer
<1>1. << >> \in Seq([kind : {"Start", "Loaded"}, generation : Nat])
  OBVIOUS
<1> QED BY <1>1 DEF FreshRenderer, Renderer, NoFilter, NoSource, Source

LEMMA SrInvInit == SrInit => SrInv
<1> SUFFICES ASSUME SrInit PROVE SrInv
  OBVIOUS
<1>1. /\ vsr.wanted \in BOOLEAN /\ vsr.window \in WindowHeights /\ vsr.seen = 0 /\ vsr.asked = 0
      /\ vsr.applied = 0 /\ vsr.height = 0 /\ vsr.attached = FALSE
  BY DEF SrInit, NoFilter
<1>2. vsr \in Vsr /\ renderer \in Renderer /\ current \in [target : Nat, active : Nat]
  <2>1. FreshRenderer \in Renderer
    BY FreshIsRenderer
  <2> QED
    <3>1. vsr \in Vsr
      <4>1. WindowHeights \subseteq Nat /\ {0} \subseteq Nat /\ {TRUE} \subseteq BOOLEAN
            /\ {FALSE} \subseteq BOOLEAN
        BY HeightsAssumption
      <4>2. vsr \in [wanted : {TRUE}, window : WindowHeights, seen : {0},
                    asked : {0}, applied : {0}, attached : {FALSE}, height : {0}]
        BY DEF SrInit, NoFilter
      <4> QED
        BY <4>1, <4>2 DEF Vsr
    <3> QED
      BY <2>1, <3>1 DEF SrInit
<1>3. renderer = FreshRenderer /\ renderer.mail = << >> /\ renderer.loading = NoSource
      /\ renderer.source = 0
      /\ renderer.begun = FALSE /\ renderer.height = 0
  BY DEF SrInit, FreshRenderer
<1> QED
  BY <1>1, <1>2, <1>3 DEF SrInit, SrInv, SrTyped, FilesInOrder, MailInOrder,
     BegunIsAnnounced, LoadingIsTarget, LoadsAgain, LoadDue,
     HeightsInOrder, FilterIsAsked, NoFilter, ToCome, NewHeights, One

\* Without a height there is no filter.
LEMMA ScaleIsNat ==
  ASSUME NEW wanted \in BOOLEAN, NEW window \in Nat, NEW height \in Nat
  PROVE  /\ ScaleFor(wanted, window, height) \in Nat
         /\ height = 0 => ScaleFor(wanted, window, height) = NoFilter
<1>1. height > 0 => window \div height \in Nat
  OBVIOUS
<1> QED BY <1>1, HeightsAssumption DEF ScaleFor, NoFilter

\* Setting the filter, at most once, changes nothing else but the height that
\* is being reconfigured, and leaves the filter that was asked for.
LEMMA SetSound ==
  ASSUME NEW v \in Vsr, NEW r \in Renderer, NEW n \in Nat, NEW scale \in Nat,
         SetVsr(v, r, n, scale),
         scale # NoFilter => v.applied = NoFilter \/ FilterRuns(v, r, v.applied)
  PROVE  /\ vsr' \in Vsr /\ renderer' \in Renderer
         /\ vsr'.wanted = v.wanted /\ vsr'.window = v.window /\ vsr'.seen = v.seen
         /\ vsr'.height = v.height
         /\ renderer'.source = r.source /\ renderer'.told = r.told /\ renderer'.loading = r.loading
         /\ renderer'.begun = r.begun /\ renderer'.mail = r.mail
         /\ renderer'.height \in {0, r.height}
         /\ filters_set' \in {n, n + 1}
         /\ FilterIsAsked'
<1>1. CASE scale = v.applied
  <2>1. vsr' = [v EXCEPT !.asked = scale] /\ renderer' = r /\ filters_set' = n
    BY <1>1 DEF SetVsr
  <2>2. /\ vsr' \in Vsr /\ vsr'.asked = scale /\ vsr'.applied = scale
        /\ vsr'.attached = v.attached /\ vsr'.wanted = v.wanted /\ vsr'.window = v.window
        /\ vsr'.seen = v.seen /\ vsr'.height = v.height
    BY <1>1, <2>1 DEF Vsr
  <2>3. FilterIsAsked'
    BY <1>1, <2>1, <2>2 DEF FilterIsAsked, FilterRuns
  <2> QED
    BY <2>1, <2>2, <2>3
<1>2. CASE scale # v.applied
  <2>1. PICK accepted \in BOOLEAN :
          /\ vsr' = [v EXCEPT !.asked = scale, !.applied = scale,
                             !.attached = Attached(scale, accepted)]
          /\ renderer' \in GivenFilter(r, scale, accepted)
    BY <1>2 DEF SetVsr
  <2>2. filters_set' = n + 1
    BY <1>2 DEF SetVsr
  <2>3. Attached(scale, accepted) \in BOOLEAN
        /\ (scale # NoFilter => (Attached(scale, accepted) <=> accepted))
    BY DEF Attached
  <2>4. /\ vsr' \in Vsr /\ vsr'.asked = scale /\ vsr'.applied = scale
        /\ vsr'.attached = Attached(scale, accepted)
        /\ vsr'.wanted = v.wanted /\ vsr'.window = v.window /\ vsr'.seen = v.seen
        /\ vsr'.height = v.height
    BY <2>1, <2>3 DEF Vsr
  <2>5. CASE accepted
    <3>1. PICK height \in {0, r.height} :
            renderer' = [r EXCEPT !.filter = scale, !.refused = FALSE, !.height = height]
      BY <2>1, <2>5 DEF GivenFilter
    <3>2. height \in Nat
      BY DEF Renderer
    <3>3. /\ renderer' \in Renderer /\ renderer'.filter = scale /\ ~renderer'.refused
          /\ renderer'.source = r.source /\ renderer'.told = r.told
          /\ renderer'.loading = r.loading /\ renderer'.begun = r.begun
          /\ renderer'.mail = r.mail /\ renderer'.height = height
      BY <3>1, <3>2 DEF Renderer
    <3>4. FilterIsAsked'
      BY <2>3, <2>4, <2>5, <3>3 DEF FilterIsAsked, FilterRuns
    <3> QED
      BY <2>2, <2>4, <3>3, <3>4
  <2>6. CASE ~accepted
    <3>1. renderer' = [r EXCEPT !.refused = TRUE]
      BY <2>1, <2>6 DEF GivenFilter
    <3>2. /\ renderer' \in Renderer /\ renderer'.refused
          /\ renderer'.source = r.source /\ renderer'.told = r.told
          /\ renderer'.loading = r.loading /\ renderer'.begun = r.begun
          /\ renderer'.mail = r.mail /\ renderer'.height = r.height
      BY <3>1 DEF Renderer
    <3>3. FilterIsAsked'
      BY <2>3, <2>4, <2>6, <3>2 DEF FilterIsAsked, FilterRuns
    <3> QED
      BY <2>2, <2>4, <3>2, <3>3
  <2> QED BY <2>5, <2>6
<1> QED BY <1>1, <1>2

\* Three settings at most are to come.
LEMMA FewToCome == LoadsAgain => ToCome \in 0 .. 3
BY DEF LoadsAgain, ToCome, NewHeights, One

LEMMA CountedAgain ==
  ASSUME SrTyped', FilesInOrder', HeightsInOrder', FilterIsAsked', filters_set' \in {0, 1}
  PROVE  SrInv'
<1>1. (LoadsAgain => ToCome \in 0 .. 3)'
  BY FewToCome, PTL
<1> QED
  BY <1>1 DEF SrInv, FilesInOrder, SrTyped

\* The events in the mail, taken one by one.
LEMMA MailForms ==
  ASSUME SrTyped, MailInOrder
  PROVE  /\ renderer.mail \in Seq([kind : {"Start", "Loaded"}, generation : Nat])
         /\ HeadIs("Start") =>
              \E g \in 1 .. current.target :
                 /\ Head(renderer.mail) = FileEvent("Start", g)
                 /\ \/ Tail(renderer.mail) = << >>
                    \/ Tail(renderer.mail) = <<FileEvent("Loaded", g)>> /\ ~renderer.begun
         /\ HeadIs("Loaded") =>
              /\ Tail(renderer.mail) = << >> /\ Len(renderer.mail) = 1
              /\ renderer.mail = <<FileEvent("Loaded", current.active)>>
              /\ ~renderer.begun /\ current.active \in 1 .. current.target
<1>1. renderer.mail \in Seq([kind : {"Start", "Loaded"}, generation : Nat])
  BY DEF SrTyped, Renderer
<1>2. CASE renderer.mail = << >>
  BY <1>1, <1>2 DEF HeadIs
<1>3. CASE renderer.mail # << >>
  <2>1. PICK g \in 1 .. current.target :
          \/ renderer.mail = <<FileEvent("Start", g)>>
          \/ renderer.mail = <<FileEvent("Start", g), FileEvent("Loaded", g)>> /\ ~renderer.begun
          \/ renderer.mail = <<FileEvent("Loaded", g)>> /\ ~renderer.begun /\ current.active = g
    BY <1>3 DEF MailInOrder
  <2>2. CASE renderer.mail = <<FileEvent("Start", g)>>
    <3>1. Head(renderer.mail) = FileEvent("Start", g) /\ Tail(renderer.mail) = << >>
      BY <2>2
    <3>2. Head(renderer.mail).kind = "Start"
      BY <3>1 DEF FileEvent
    <3> QED BY <1>1, <3>1, <3>2 DEF HeadIs
  <2>3. CASE renderer.mail = <<FileEvent("Start", g), FileEvent("Loaded", g)>> /\ ~renderer.begun
    <3>1. /\ Head(renderer.mail) = FileEvent("Start", g)
          /\ Tail(renderer.mail) = <<FileEvent("Loaded", g)>>
      BY <2>3
    <3> QED BY <1>1, <2>3, <3>1 DEF HeadIs, FileEvent
  <2>4. CASE renderer.mail = <<FileEvent("Loaded", g)>> /\ ~renderer.begun /\ current.active = g
    <3>1. Head(renderer.mail) = FileEvent("Loaded", g) /\ Tail(renderer.mail) = << >>
          /\ Len(renderer.mail) = 1
      BY <2>4
    <3> QED BY <1>1, <2>4, <3>1 DEF HeadIs, FileEvent
  <2> QED BY <2>1, <2>2, <2>3, <2>4
<1> QED BY <1>2, <1>3

\* What comes last in the mail is about a channel that was chosen.
LEMMA LastIsChosen ==
  ASSUME SrTyped, MailInOrder, renderer.mail # << >>
  PROVE  \E g \in 1 .. current.target : \E kind \in {"Start", "Loaded"} :
           renderer.mail[Len(renderer.mail)] = FileEvent(kind, g)
<1>1. PICK g \in 1 .. current.target :
        \/ renderer.mail = <<FileEvent("Start", g)>>
        \/ renderer.mail = <<FileEvent("Start", g), FileEvent("Loaded", g)>>
        \/ renderer.mail = <<FileEvent("Loaded", g)>>
  BY DEF MailInOrder
<1>2. \/ renderer.mail[Len(renderer.mail)] = FileEvent("Start", g)
      \/ renderer.mail[Len(renderer.mail)] = FileEvent("Loaded", g)
  BY <1>1
<1> QED BY <1>2

\* A channel, or a backend, begins without a height, so without a filter.
LEMMA ChooseVideoSound ==
  ASSUME SrInv, ChooseVideo
  PROVE  SrInv'
<1> DEFINE v == [vsr EXCEPT !.height = 0]
<1>1. PICK h \in VideoHeights :
        ApplyVsr(v, [renderer EXCEPT !.loading = [generation |-> current.target + 1, height |-> h],
                                     !.begun = FALSE], 0)
  BY DEF ChooseVideo
<1> DEFINE r == [renderer EXCEPT !.loading = [generation |-> current.target + 1, height |-> h],
                                 !.begun = FALSE]
<1>2. /\ v \in Vsr /\ r \in Renderer /\ v.height = 0 /\ v.seen = vsr.seen
      /\ r.source = renderer.source /\ r.height = renderer.height /\ r.mail = renderer.mail
      /\ r.loading = [generation |-> current.target + 1, height |-> h] /\ r.begun = FALSE
      /\ h \in Nat /\ h > 0 /\ current.target \in Nat /\ current.active \in Nat
  <2>1. vsr \in Vsr /\ renderer \in Renderer /\ current.target \in Nat /\ current.active \in Nat
    BY DEF SrInv, SrTyped
  <2>2. h \in Nat /\ h > 0 /\ [generation |-> current.target + 1, height |-> h] \in Source
    BY <2>1, HeightsAssumption DEF Source
  <2>3. v \in Vsr /\ v.height = 0 /\ v.seen = vsr.seen
    BY <2>1 DEF Vsr
  <2> QED
    BY <2>1, <2>2, <2>3 DEF Renderer
<1> HIDE DEF v, r
<1>3. ScaleFor(v.wanted, v.window, v.height) = NoFilter
  BY <1>2, ScaleIsNat DEF Vsr
<1>4. SetVsr(v, r, 0, NoFilter)
  BY <1>1, <1>3 DEF ApplyVsr, r
<1>5. /\ vsr' \in Vsr /\ renderer' \in Renderer
      /\ vsr'.seen = v.seen /\ vsr'.height = v.height
      /\ renderer'.source = r.source /\ renderer'.loading = r.loading
      /\ renderer'.begun = r.begun /\ renderer'.mail = r.mail
      /\ renderer'.height \in {0, r.height}
      /\ filters_set' \in {0, 1}
      /\ FilterIsAsked'
  BY <1>2, <1>4, SetSound DEF NoFilter
<1>6. current' = [current EXCEPT !.target = @ + 1] /\ current'.target = current.target + 1
      /\ current'.active = current.active /\ current' \in [target : Nat, active : Nat]
  BY DEF ChooseVideo, SrInv, SrTyped
<1>7. SrTyped'
  BY <1>5, <1>6 DEF SrTyped
<1>8. MailInOrder'
  BY <1>2, <1>5, <1>6 DEF SrInv, FilesInOrder, MailInOrder
<1>9. BegunIsAnnounced' /\ LoadingIsTarget' /\ HeightsInOrder'
  BY <1>2, <1>5, <1>6 DEF SrInv, HeightsInOrder, BegunIsAnnounced, LoadingIsTarget
<1>10. ~LoadDue'
  <2>1. SUFFICES ASSUME LoadDue' PROVE FALSE
    OBVIOUS
  <2>2. renderer.mail # << >>
        /\ renderer.mail[Len(renderer.mail)] = FileEvent("Loaded", current.target + 1)
    BY <1>2, <1>5, <1>6, <2>1 DEF LoadDue
  <2>3. PICK g \in 1 .. current.target, kind \in {"Start", "Loaded"} :
          renderer.mail[Len(renderer.mail)] = FileEvent(kind, g)
    BY <2>2, LastIsChosen DEF SrInv, FilesInOrder
  <2>4. FileEvent(kind, g).generation = g
        /\ FileEvent("Loaded", current.target + 1).generation = current.target + 1
    BY DEF FileEvent
  <2> QED
    BY <1>2, <2>2, <2>3, <2>4
<1> QED
  BY <1>5, <1>7, <1>8, <1>9, <1>10, CountedAgain DEF FilesInOrder, LoadsAgain

LEMMA ReopenVideoSound ==
  ASSUME SrInv, ReopenVideo
  PROVE  SrInv'
<1>1. /\ vsr' \in Vsr /\ vsr'.height = 0 /\ vsr'.asked = vsr.asked /\ vsr'.applied = vsr.applied
      /\ vsr'.attached = vsr.attached
  BY DEF ReopenVideo, SrInv, SrTyped, Vsr
<1>2. /\ renderer' \in Renderer /\ renderer'.filter = renderer.filter
      /\ renderer'.refused = renderer.refused
      /\ renderer'.source = renderer.source /\ renderer'.height = renderer.height
      /\ renderer'.mail = renderer.mail /\ renderer'.begun = FALSE
      /\ renderer'.loading = [generation |-> current.target, height |-> renderer.source]
      /\ renderer.source > 0 /\ current.target > 0
  BY DEF ReopenVideo, SrInv, SrTyped, Renderer, Source
<1>3. current' = current /\ filters_set' = 0
  BY DEF ReopenVideo
<1>4. SrTyped' /\ FilterIsAsked' /\ HeightsInOrder'
  BY <1>1, <1>2, <1>3 DEF SrInv, SrTyped, FilterIsAsked, FilterRuns, HeightsInOrder
<1>5. MailInOrder' /\ BegunIsAnnounced' /\ LoadingIsTarget' /\ LoadsAgain'
  BY <1>2, <1>3 DEF SrInv, FilesInOrder, MailInOrder, BegunIsAnnounced, LoadingIsTarget,
     LoadsAgain
<1> QED
  BY <1>3, <1>4, <1>5, CountedAgain DEF FilesInOrder

LEMMA RecreateRendererSound ==
  ASSUME SrInv, RecreateRenderer
  PROVE  SrInv'
<1> DEFINE v == [vsr EXCEPT !.height = 0]
           r == [FreshRenderer EXCEPT
                   !.loading = [generation |-> current.target, height |-> renderer.source]]
<1>2. /\ v \in Vsr /\ v.height = 0 /\ current.target \in Nat /\ renderer.source \in Nat
  BY DEF SrInv, SrTyped, Vsr, Renderer
<1>3. /\ r \in Renderer
      /\ r.source = 0 /\ r.height = 0 /\ r.mail = << >> /\ r.begun = FALSE
      /\ r.loading = [generation |-> current.target, height |-> renderer.source]
  BY <1>2, FreshIsRenderer DEF FreshRenderer, Renderer, Source
<1>4. ApplyVsr(v, r, 0) /\ current' = [current EXCEPT !.active = 0]
      /\ current.target > 0 /\ renderer.source > 0
  BY DEF RecreateRenderer
<1> HIDE DEF v, r
<1>5. ScaleFor(v.wanted, v.window, v.height) = NoFilter
  BY <1>2, ScaleIsNat DEF Vsr
<1>6. SetVsr(v, r, 0, NoFilter)
  BY <1>4, <1>5 DEF ApplyVsr
<1>7. /\ vsr' \in Vsr /\ renderer' \in Renderer
      /\ vsr'.seen = v.seen /\ vsr'.height = v.height
      /\ renderer'.source = r.source /\ renderer'.loading = r.loading
      /\ renderer'.begun = r.begun /\ renderer'.mail = r.mail
      /\ renderer'.height \in {0, r.height}
      /\ filters_set' \in {0, 1}
      /\ FilterIsAsked'
  BY <1>2, <1>3, <1>6, SetSound DEF NoFilter
<1>8. current'.target = current.target /\ current' \in [target : Nat, active : Nat]
  BY <1>4 DEF SrInv, SrTyped
<1>9. SrTyped' /\ HeightsInOrder'
  BY <1>2, <1>3, <1>7, <1>8 DEF SrTyped, HeightsInOrder
<1>10. MailInOrder' /\ BegunIsAnnounced' /\ LoadingIsTarget' /\ LoadsAgain'
  BY <1>3, <1>4, <1>7, <1>8 DEF MailInOrder, BegunIsAnnounced, LoadingIsTarget, LoadsAgain,
     LoadDue
<1> QED
  BY <1>7, <1>9, <1>10, CountedAgain DEF FilesInOrder

\* The window's size, or the wish for the filter, changes.
LEMMA WishSound ==
  ASSUME SrInv, NEW v \in Vsr, v.seen = vsr.seen, v.height = vsr.height, v.applied = vsr.applied,
         v.attached = vsr.attached,
         ApplyVsr(v, renderer, 0), UNCHANGED current
  PROVE  SrInv'
<1>1. ScaleFor(v.wanted, v.window, v.height) \in Nat
  BY ScaleIsNat DEF Vsr
<1>2. (v.applied = NoFilter \/ FilterRuns(v, renderer, v.applied)) /\ renderer \in Renderer
  BY DEF SrInv, SrTyped, FilterIsAsked, FilterRuns
<1>3. /\ vsr' \in Vsr /\ renderer' \in Renderer
      /\ vsr'.seen = v.seen /\ vsr'.height = v.height
      /\ renderer'.source = renderer.source /\ renderer'.loading = renderer.loading
      /\ renderer'.begun = renderer.begun /\ renderer'.mail = renderer.mail
      /\ renderer'.height \in {0, renderer.height}
      /\ filters_set' \in {0, 1}
      /\ FilterIsAsked'
  BY <1>1, <1>2, SetSound DEF ApplyVsr
<1>4. SrTyped' /\ HeightsInOrder'
  BY <1>3 DEF SrInv, SrTyped, HeightsInOrder
<1>5. FilesInOrder'
  BY <1>3 DEF SrInv, FilesInOrder, MailInOrder, BegunIsAnnounced, LoadingIsTarget,
     LoadsAgain, LoadDue
<1> QED
  BY <1>3, <1>4, <1>5, CountedAgain

LEMMA ResizeVideoSound ==
  ASSUME SrInv, ResizeVideo
  PROVE  SrInv'
<1>1. PICK h \in WindowHeights : ApplyVsr([vsr EXCEPT !.window = h], renderer, 0)
  BY DEF ResizeVideo
<1> DEFINE v == [vsr EXCEPT !.window = h]
<1>2. v \in Vsr /\ v.seen = vsr.seen /\ v.height = vsr.height /\ v.applied = vsr.applied
      /\ v.attached = vsr.attached
  BY HeightsAssumption DEF SrInv, SrTyped, Vsr
<1> HIDE DEF v
<1> QED
  BY <1>1, <1>2, WishSound DEF ResizeVideo, v

LEMMA ToggleVsrSound ==
  ASSUME SrInv, ToggleVsr
  PROVE  SrInv'
<1> DEFINE v == [vsr EXCEPT !.wanted = ~@]
<1>1. v \in Vsr /\ v.seen = vsr.seen /\ v.height = vsr.height /\ v.applied = vsr.applied
      /\ v.attached = vsr.attached
  BY DEF SrInv, SrTyped, Vsr
<1>2. ApplyVsr(v, renderer, 0) /\ UNCHANGED current
  BY DEF ToggleVsr
<1> HIDE DEF v
<1> QED
  BY <1>1, <1>2, WishSound

\* The fields, one by one.
LEMMA TypesOfSr ==
  ASSUME SrInv
  PROVE  /\ vsr.wanted \in BOOLEAN /\ vsr.window \in Nat /\ vsr.seen \in Nat /\ vsr.asked \in Nat
         /\ vsr.applied \in Nat /\ vsr.attached \in BOOLEAN /\ vsr.height \in Nat
         /\ renderer.filter \in Nat /\ renderer.refused \in BOOLEAN /\ renderer.source \in Nat /\ renderer.height \in Nat
         /\ renderer.told \in Nat /\ renderer.loading \in Source /\ renderer.begun \in BOOLEAN
         /\ current.target \in Nat /\ current.active \in Nat /\ filters_set \in Nat
BY DEF SrInv, SrTyped, Vsr, Renderer

\* An event taken from the mail changes nothing else.
LEMMA UnqueuedIs ==
  ASSUME SrInv, renderer.mail # << >>
  PROVE  /\ Unqueued \in Renderer /\ Unqueued.mail = Tail(renderer.mail)
         /\ Unqueued.filter = renderer.filter /\ Unqueued.refused = renderer.refused
         /\ Unqueued.source = renderer.source
         /\ Unqueued.height = renderer.height /\ Unqueued.told = renderer.told
         /\ Unqueued.loading = renderer.loading /\ Unqueued.begun = renderer.begun
<1>1. renderer \in Renderer /\ renderer.mail \in Seq([kind : {"Start", "Loaded"}, generation : Nat])
  BY DEF SrInv, SrTyped, Renderer
<1>2. Tail(renderer.mail) \in Seq([kind : {"Start", "Loaded"}, generation : Nat])
  BY <1>1
<1> QED
  BY <1>1, <1>2 DEF Unqueued, Renderer

\* A height that is there and has been seen makes no difference.
LEMMA ComparedSame ==
  ASSUME NEW v \in Vsr, NEW r, v.height \in {0, v.seen}, ThenCompare(v, r)
  PROVE  vsr' = v /\ renderer' = r /\ filters_set' = filters_set
BY DEF ThenCompare, DimensionsChanged, Vsr

LEMMA PumpFileStartSound ==
  ASSUME SrInv, PumpFileStart
  PROVE  SrInv'
<1> DEFINE v == [vsr EXCEPT !.applied = NoFilter]
<1>0. SrTyped /\ MailInOrder /\ HeadIs("Start")
  BY DEF SrInv, FilesInOrder, PumpFileStart
<1>1. PICK g \in 1 .. current.target :
        /\ Head(renderer.mail) = FileEvent("Start", g)
        /\ \/ Tail(renderer.mail) = << >>
           \/ Tail(renderer.mail) = <<FileEvent("Loaded", g)>> /\ ~renderer.begun
  BY <1>0, MailForms
<1>2. v \in Vsr /\ v.height = vsr.height /\ v.seen = vsr.seen /\ v.asked = vsr.asked
      /\ v.applied = NoFilter /\ v.attached = vsr.attached
  BY <1>0 DEF SrTyped, Vsr, NoFilter
<1>3. current' = [current EXCEPT !.active = g] /\ ThenCompare(v, Unqueued)
  BY <1>1 DEF PumpFileStart, FileEvent
<1> HIDE DEF v
<1>4. vsr' = v /\ renderer' = Unqueued /\ filters_set' = filters_set
  BY <1>2, <1>3, ComparedSame DEF SrInv, HeightsInOrder
<1>5. current'.active = g /\ current'.target = current.target
      /\ current' \in [target : Nat, active : Nat]
  BY <1>0, <1>3 DEF SrTyped
<1>6. renderer.mail # << >> /\ renderer' \in Renderer /\ renderer'.mail = Tail(renderer.mail)
      /\ renderer'.filter = renderer.filter /\ renderer'.refused = renderer.refused
      /\ renderer'.source = renderer.source
      /\ renderer'.height = renderer.height /\ renderer'.told = renderer.told
      /\ renderer'.loading = renderer.loading /\ renderer'.begun = renderer.begun
  BY <1>0, <1>4, UnqueuedIs DEF HeadIs
<1>7. SrTyped' /\ HeightsInOrder' /\ FilterIsAsked'
  BY <1>2, <1>4, <1>5, <1>6 DEF SrInv, SrTyped, HeightsInOrder, FilterIsAsked, FilterRuns
<1>8. MailInOrder' /\ LoadingIsTarget'
  BY <1>1, <1>5, <1>6 DEF SrInv, FilesInOrder, MailInOrder, LoadingIsTarget
<1>9. BegunIsAnnounced'
  <2>1. SUFFICES ASSUME renderer.begun PROVE Tail(renderer.mail) = << >> /\ g = current.target
    BY <1>5, <1>6 DEF SrInv, FilesInOrder, BegunIsAnnounced
  <2>2. renderer.mail = <<FileEvent("Start", current.target)>>
    BY <1>6, <2>1 DEF SrInv, FilesInOrder, BegunIsAnnounced
  <2>3. Head(renderer.mail) = FileEvent("Start", current.target) /\ Tail(renderer.mail) = << >>
    BY <2>2
  <2> QED BY <1>1, <2>3 DEF FileEvent
<1>10. LoadDue' => LoadDue
  <2>1. SUFFICES ASSUME LoadDue' PROVE LoadDue
    OBVIOUS
  <2>2. renderer.mail \in Seq([kind : {"Start", "Loaded"}, generation : Nat])
    BY <1>0, MailForms
  <2>3. Tail(renderer.mail) # << >>
        /\ Tail(renderer.mail)[Len(Tail(renderer.mail))] = FileEvent("Loaded", current.target)
    BY <1>5, <1>6, <2>1 DEF LoadDue
  <2>4. renderer.mail[Len(renderer.mail)] = Tail(renderer.mail)[Len(Tail(renderer.mail))]
    BY <1>6, <2>2, <2>3
  <2> QED BY <1>6, <2>3, <2>4 DEF LoadDue
<1>11. LoadsAgain'
  BY <1>6, <1>10 DEF SrInv, FilesInOrder, LoadsAgain
<1>12. NewHeights' = NewHeights
  BY <1>2, <1>4, <1>6 DEF NewHeights
<1>13. ToCome' <= ToCome /\ ToCome \in Int /\ ToCome' \in Int
  BY <1>6, <1>10, <1>12 DEF ToCome, NewHeights, One
<1> QED
  BY <1>4, <1>7, <1>8, <1>9, <1>11, <1>13, TypesOfSr DEF SrInv, FilesInOrder

LEMMA PumpFileLoadedSound ==
  ASSUME SrInv, PumpFileLoaded
  PROVE  SrInv'
<1>0. SrTyped /\ MailInOrder /\ HeadIs("Loaded")
  BY DEF SrInv, FilesInOrder, PumpFileLoaded
<1>1. /\ Tail(renderer.mail) = << >> /\ Len(renderer.mail) = 1 /\ renderer.mail # << >>
      /\ renderer.mail = <<FileEvent("Loaded", current.active)>> /\ ~renderer.begun
  BY <1>0, MailForms DEF HeadIs
<1>2. /\ Unqueued \in Renderer /\ Unqueued.mail = << >>
      /\ Unqueued.filter = renderer.filter /\ Unqueued.refused = renderer.refused
      /\ Unqueued.source = renderer.source
      /\ Unqueued.height = renderer.height /\ Unqueued.told = renderer.told
      /\ Unqueued.loading = renderer.loading /\ Unqueued.begun = renderer.begun
  BY <1>1, UnqueuedIs
<1>3. vsr \in Vsr /\ filters_set \in Nat /\ vsr.asked \in Nat /\ UNCHANGED current
  BY <1>0, TypesOfSr DEF SrTyped, PumpFileLoaded
<1>4. /\ vsr' \in Vsr /\ renderer' \in Renderer
      /\ vsr'.seen = vsr.seen /\ vsr'.height = vsr.height
      /\ renderer'.source = renderer.source /\ renderer'.loading = renderer.loading
      /\ renderer'.begun = renderer.begun /\ renderer'.mail = << >>
      /\ renderer'.height \in {0, renderer.height}
      /\ filters_set' \in {filters_set, filters_set + One(LoadDue)}
      /\ FilterIsAsked'
  <2>1. CASE current.active = current.target /\ vsr.asked # NoFilter
    <3>1. SetVsr(vsr, Unqueued, filters_set, vsr.asked)
      BY <2>1 DEF PumpFileLoaded
    <3>2. vsr.applied = NoFilter \/ FilterRuns(vsr, Unqueued, vsr.applied)
      BY <1>2 DEF SrInv, FilterIsAsked, FilterRuns
    <3>3. LoadDue
      BY <1>1, <2>1 DEF LoadDue
    <3> QED
      BY <1>2, <1>3, <3>1, <3>2, <3>3, SetSound DEF One
  <2>2. CASE ~(current.active = current.target /\ vsr.asked # NoFilter)
    <3>1. ThenCompare(vsr, Unqueued)
      BY <2>2 DEF PumpFileLoaded
    <3>2. vsr' = vsr /\ renderer' = Unqueued /\ filters_set' = filters_set
      BY <1>3, <3>1, ComparedSame DEF SrInv, HeightsInOrder
    <3> QED
      BY <1>2, <1>3, <3>2 DEF SrInv, FilterIsAsked, FilterRuns
  <2> QED BY <2>1, <2>2
<1>5. SrTyped' /\ HeightsInOrder'
  BY <1>0, <1>3, <1>4 DEF SrInv, SrTyped, HeightsInOrder, One
<1>6. ~LoadDue' /\ MailInOrder' /\ LoadsAgain'
  BY <1>4 DEF LoadDue, MailInOrder, LoadsAgain
<1>7. BegunIsAnnounced' /\ LoadingIsTarget'
  BY <1>1, <1>3, <1>4 DEF SrInv, FilesInOrder, BegunIsAnnounced, LoadingIsTarget
<1>8. NewHeights' = NewHeights
  BY <1>4 DEF NewHeights
<1>9. ToCome' = ToCome - One(LoadDue) /\ ToCome \in Int
  BY <1>4, <1>6, <1>8 DEF ToCome, NewHeights, One
<1>10. filters_set' + ToCome' <= 4
  <2> DEFINE d == One(LoadDue)
  <2>1. d \in {0, 1} /\ filters_set + ToCome <= 4
    BY DEF One, SrInv
  <2>2. filters_set' \in {filters_set, filters_set + d} /\ ToCome' = ToCome - d
    BY <1>4, <1>9
  <2> HIDE DEF d
  <2> QED
    BY <1>3, <1>9, <2>1, <2>2
<1> QED
  BY <1>4, <1>5, <1>6, <1>7, <1>10 DEF SrInv, FilesInOrder

LEMMA PumpHeightSound ==
  ASSUME SrInv, PumpHeight
  PROVE  SrInv'
<1> DEFINE v == [vsr EXCEPT !.height = renderer.height]
           w == [v EXCEPT !.seen = v.height]
           r == [renderer EXCEPT !.told = renderer.height]
<1>1. vsr \in Vsr /\ renderer \in Renderer /\ renderer.height \in Nat /\ filters_set \in Nat
  BY TypesOfSr DEF SrInv, SrTyped
<1>2. v \in Vsr /\ v.height = renderer.height /\ v.seen = vsr.seen
      /\ v.applied = vsr.applied /\ v.asked = vsr.asked
      /\ v.attached = vsr.attached
  BY <1>1 DEF Vsr
<1>3. w \in Vsr /\ w.height = renderer.height /\ w.seen = renderer.height
      /\ w.applied = vsr.applied /\ w.attached = vsr.attached
  BY <1>1 DEF Vsr
<1>4. /\ r \in Renderer /\ r.mail = renderer.mail
      /\ r.filter = renderer.filter /\ r.refused = renderer.refused
      /\ r.source = renderer.source
      /\ r.height = renderer.height /\ r.loading = renderer.loading /\ r.begun = renderer.begun
  BY <1>1 DEF Renderer
<1>5. ThenCompare(v, r) /\ UNCHANGED current
  BY DEF PumpHeight
<1> HIDE DEF v, r
<1>6. /\ vsr' \in Vsr /\ renderer' \in Renderer
      /\ vsr'.seen = IF renderer.height = 0 THEN vsr.seen ELSE renderer.height
      /\ vsr'.height = renderer.height
      /\ renderer'.source = renderer.source /\ renderer'.loading = renderer.loading
      /\ renderer'.begun = renderer.begun /\ renderer'.mail = renderer.mail
      /\ renderer'.height \in {0, renderer.height}
      /\ filters_set' \in {filters_set, filters_set + One(renderer.height \notin {0, vsr.seen})}
      /\ FilterIsAsked'
  <2>1. CASE renderer.height > 0 /\ renderer.height # vsr.seen
    <3>1. ApplyVsr(w, r, filters_set)
      BY <1>2, <1>5, <2>1 DEF ThenCompare, DimensionsChanged
    <3> HIDE DEF w
    <3>2. ScaleFor(w.wanted, w.window, w.height) \in Nat
      BY <1>3, ScaleIsNat DEF Vsr
    <3>3. w.applied = NoFilter \/ FilterRuns(w, r, w.applied)
      BY <1>3, <1>4 DEF SrInv, FilterIsAsked, FilterRuns
    <3> QED
      BY <1>1, <1>3, <1>4, <2>1, <3>1, <3>2, <3>3, SetSound DEF ApplyVsr, One
  <2>2. CASE ~(renderer.height > 0 /\ renderer.height # vsr.seen)
    <3>1. v.height \in {0, v.seen}
      BY <1>1, <1>2, <2>2
    <3>2. vsr' = v /\ renderer' = r /\ filters_set' = filters_set
      BY <1>2, <1>5, <3>1, ComparedSame
    <3> QED
      BY <1>1, <1>2, <1>4, <2>2, <3>2 DEF SrInv, FilterIsAsked, FilterRuns
  <2> QED BY <2>1, <2>2
<1>7. SrTyped' /\ HeightsInOrder'
  BY <1>1, <1>5, <1>6 DEF SrInv, SrTyped, HeightsInOrder, One
<1>8. FilesInOrder' /\ (LoadDue' <=> LoadDue)
  BY <1>5, <1>6 DEF SrInv, FilesInOrder, MailInOrder, BegunIsAnnounced, LoadingIsTarget,
     LoadsAgain, LoadDue
<1>9. NewHeights' = NewHeights - One(renderer.height \notin {0, vsr.seen}) /\ NewHeights \in Int
  <2>1. renderer.height \in {0, renderer.source}
    BY DEF SrInv, HeightsInOrder
  <2> QED
    BY <1>1, <1>6, <2>1, TypesOfSr DEF NewHeights, One
<1>10. ToCome' = ToCome - One(renderer.height \notin {0, vsr.seen}) /\ ToCome \in Int
  BY <1>6, <1>8, <1>9 DEF ToCome, One
<1>11. filters_set' + ToCome' <= 4
  <2> DEFINE d == One(renderer.height \notin {0, vsr.seen})
  <2>1. d \in {0, 1} /\ filters_set + ToCome <= 4
    BY DEF One, SrInv
  <2>2. filters_set' \in {filters_set, filters_set + d} /\ ToCome' = ToCome - d
    BY <1>6, <1>10
  <2> HIDE DEF d
  <2> QED
    BY <1>1, <1>10, <2>1, <2>2
<1> QED
  BY <1>6, <1>7, <1>8, <1>11 DEF SrInv

\* Fewer are still few enough.
LEMMA StillFour ==
  ASSUME NEW n \in Nat, NEW m \in Int, NEW fewer \in Int, fewer <= m, n + m <= 4
  PROVE  n + fewer <= 4
OBVIOUS

\* The video of the file before is gone, and its height with it.
LEMMA FileStartsSound ==
  ASSUME SrInv, FileStarts
  PROVE  SrInv'
<1>1. /\ vsr' = vsr /\ current' = current /\ filters_set' = filters_set
      /\ renderer.loading # NoSource /\ ~renderer.begun /\ renderer.mail = << >>
  BY DEF FileStarts, RendererCore
<1>2. renderer.loading.generation = current.target /\ current.target \in Nat /\ current.target > 0
      /\ renderer \in Renderer
  BY <1>1, TypesOfSr DEF SrInv, SrTyped, FilesInOrder, LoadingIsTarget
<1>3. renderer' = [renderer EXCEPT !.begun = TRUE, !.source = 0, !.height = 0,
                                   !.mail = <<FileEvent("Start", current.target)>>]
  <2>1. Append(renderer.mail, FileEvent("Start", current.target))
          = <<FileEvent("Start", current.target)>>
    BY <1>1
  <2> QED
    BY <1>2, <2>1 DEF FileStarts
<1>4. <<FileEvent("Start", current.target)>> \in Seq([kind : {"Start", "Loaded"}, generation : Nat])
  BY <1>2 DEF FileEvent
<1>5. /\ renderer' \in Renderer /\ renderer'.begun = TRUE /\ renderer'.source = 0
      /\ renderer'.height = 0
      /\ renderer'.mail = <<FileEvent("Start", current.target)>>
      /\ renderer'.loading = renderer.loading /\ renderer'.filter = renderer.filter
      /\ renderer'.refused = renderer.refused
  BY <1>2, <1>3, <1>4 DEF Renderer
<1>6. SrTyped' /\ HeightsInOrder' /\ FilterIsAsked'
  BY <1>1, <1>5 DEF SrInv, SrTyped, HeightsInOrder, FilterIsAsked, FilterRuns
<1>7. MailInOrder' /\ BegunIsAnnounced' /\ LoadingIsTarget'
  BY <1>1, <1>2, <1>5 DEF SrInv, FilesInOrder, MailInOrder, BegunIsAnnounced,
     LoadingIsTarget
<1>8. ~LoadDue /\ ~LoadDue'
  <2>1. FileEvent("Start", current.target) # FileEvent("Loaded", current.target)
    BY DEF FileEvent
  <2> QED
    BY <1>1, <1>5, <2>1 DEF LoadDue
<1>9. NewHeights' <= NewHeights /\ NewHeights \in Int /\ NewHeights' \in Int
  BY <1>1, <1>5, TypesOfSr DEF NewHeights, One
<1>10. ToCome' <= ToCome /\ ToCome' \in Int /\ ToCome \in Int
  <2>1. ToCome = One(renderer.loading # NoSource) + NewHeights
    BY <1>8, <1>9 DEF ToCome, One
  <2>2. ToCome' = One(renderer.loading # NoSource) + NewHeights'
    BY <1>5, <1>8, <1>9 DEF ToCome, One
  <2>3. One(renderer.loading # NoSource) \in Int
    BY DEF One
  <2> QED
    BY <1>9, <2>1, <2>2, <2>3
<1>11. filters_set + ToCome <= 4 /\ filters_set \in Nat
  BY TypesOfSr DEF SrInv
<1>12. filters_set' + ToCome' <= 4
  <2>1. filters_set' = filters_set
    BY <1>1
  <2> QED BY <1>10, <1>11, <2>1, StillFour, Zenon
<1> QED
  BY <1>6, <1>7, <1>8, <1>12 DEF SrInv, FilesInOrder, LoadsAgain

\* One more after the first.
LEMMA AppendToOne ==
  ASSUME NEW a, NEW b
  PROVE  Append(<<a>>, b) = <<a, b>>
<1>1. <<a>> \in Seq({a, b}) /\ <<a, b>> \in Seq({a, b}) /\ Append(<<a>>, b) \in Seq({a, b})
  OBVIOUS
<1>2. Len(<<a>>) = 1 /\ <<a>>[1] = a
  OBVIOUS
<1> DEFINE s == Append(<<a>>, b)
<1>3. Len(s) = 2 /\ s[1] = a /\ s[2] = b
  BY <1>1, <1>2
<1>4. s \in Seq({a, b})
  BY <1>1
<1> HIDE DEF s
<1>5. s = [i \in 1 .. 2 |-> s[i]]
  BY <1>3, <1>4
<1>6. s = [i \in 1 .. 2 |-> IF i = 1 THEN a ELSE b]
  BY <1>3, <1>5
<1>7. <<a, b>> = [i \in 1 .. 2 |-> IF i = 1 THEN a ELSE b]
  OBVIOUS
<1> QED
  BY <1>6, <1>7 DEF s

\* Its load is announced, and its height is what was new all along.
LEMMA FileLoadsSound ==
  ASSUME SrInv, FileLoads
  PROVE  SrInv'
<1>1. /\ vsr' = vsr /\ current' = current /\ filters_set' = filters_set
      /\ renderer.loading # NoSource /\ renderer.begun
  BY DEF FileLoads, RendererCore
<1>2. /\ renderer.loading.generation = current.target /\ current.target \in Nat
      /\ current.target > 0
      /\ renderer.loading.height \in Nat /\ renderer.loading.height > 0 /\ renderer.source = 0
      /\ renderer \in Renderer
  BY <1>1, TypesOfSr DEF SrInv, SrTyped, FilesInOrder, LoadingIsTarget, BegunIsAnnounced,
     Source
<1> DEFINE mail == Append(renderer.mail, FileEvent("Loaded", current.target))
<1>3. /\ mail \in Seq([kind : {"Start", "Loaded"}, generation : Nat])
      /\ IF renderer.mail = << >>
         THEN mail = <<FileEvent("Loaded", current.target)>> /\ current.active = current.target
         ELSE mail = <<FileEvent("Start", current.target), FileEvent("Loaded", current.target)>>
  <2>1. FileEvent("Loaded", current.target) \in [kind : {"Start", "Loaded"}, generation : Nat]
    BY <1>2 DEF FileEvent
  <2>2. mail \in Seq([kind : {"Start", "Loaded"}, generation : Nat])
    BY <1>2, <2>1 DEF Renderer
  <2>3. CASE renderer.mail = << >>
    BY <1>1, <2>2, <2>3 DEF SrInv, FilesInOrder, BegunIsAnnounced
  <2>4. CASE renderer.mail = <<FileEvent("Start", current.target)>>
    <3>1. mail = <<FileEvent("Start", current.target), FileEvent("Loaded", current.target)>>
      BY <2>4, AppendToOne
    <3>2. renderer.mail # << >>
      BY <2>4
    <3> QED BY <2>2, <3>1, <3>2
  <2> QED
    BY <1>1, <2>3, <2>4 DEF SrInv, FilesInOrder, BegunIsAnnounced
<1> HIDE DEF mail
<1>4. renderer' = [renderer EXCEPT !.loading = NoSource, !.begun = FALSE,
                                   !.source = renderer.loading.height, !.mail = mail]
  BY <1>2 DEF FileLoads, mail
<1>5. /\ renderer' \in Renderer /\ renderer'.begun = FALSE
      /\ renderer'.source = renderer.loading.height
      /\ renderer'.mail = mail /\ renderer'.height = renderer.height
      /\ renderer'.loading = NoSource /\ renderer'.filter = renderer.filter
      /\ renderer'.refused = renderer.refused
  BY <1>2, <1>3, <1>4 DEF Renderer, NoSource, Source
<1>6. SrTyped' /\ HeightsInOrder' /\ FilterIsAsked'
  BY <1>1, <1>2, <1>5 DEF SrInv, SrTyped, HeightsInOrder, FilterIsAsked, FilterRuns
<1>7. MailInOrder' /\ BegunIsAnnounced' /\ LoadingIsTarget' /\ LoadsAgain'
  BY <1>1, <1>2, <1>3, <1>5 DEF MailInOrder, BegunIsAnnounced, LoadingIsTarget, LoadsAgain
<1>8. ~LoadDue
  <2>1. FileEvent("Start", current.target) # FileEvent("Loaded", current.target)
    BY DEF FileEvent
  <2> QED
    BY <1>1, <2>1 DEF LoadDue, SrInv, FilesInOrder, BegunIsAnnounced
<1>9. NewHeights' = NewHeights
  BY <1>1, <1>2, <1>5 DEF NewHeights, One
<1>10. ToCome' <= ToCome /\ ToCome' \in Int /\ ToCome \in Int
  BY <1>1, <1>5, <1>8, <1>9 DEF ToCome, NewHeights, One
<1>11. filters_set + ToCome <= 4 /\ filters_set \in Nat
  BY TypesOfSr DEF SrInv
<1>12. filters_set' + ToCome' <= 4
  <2>1. filters_set' = filters_set
    BY <1>1
  <2> QED BY <1>10, <1>11, <2>1, StillFour, Zenon
<1> QED
  BY <1>6, <1>7, <1>12 DEF SrInv, FilesInOrder

LEMMA VideoConfiguredSound ==
  ASSUME SrInv, VideoConfigured
  PROVE  SrInv'
<1>1. /\ vsr' = vsr /\ current' = current /\ filters_set' = filters_set
  BY DEF VideoConfigured, RendererCore
<1>2. /\ renderer' \in Renderer /\ renderer'.mail = renderer.mail
      /\ renderer'.filter = renderer.filter /\ renderer'.refused = renderer.refused
      /\ renderer'.source = renderer.source /\ renderer'.height = renderer.source
      /\ renderer'.loading = renderer.loading /\ renderer'.begun = renderer.begun
  BY DEF VideoConfigured, SrInv, SrTyped, Renderer
<1>3. SrTyped' /\ HeightsInOrder' /\ FilterIsAsked'
  BY <1>1, <1>2 DEF SrInv, SrTyped, HeightsInOrder, FilterIsAsked, FilterRuns
<1>4. FilesInOrder'
  BY <1>1, <1>2 DEF SrInv, FilesInOrder, MailInOrder, BegunIsAnnounced, LoadingIsTarget,
     LoadsAgain, LoadDue
<1>5. ToCome' = ToCome
  BY <1>1, <1>2 DEF ToCome, NewHeights, LoadDue
<1> QED
  BY <1>1, <1>3, <1>4, <1>5 DEF SrInv

\* The count begins again.
LEMMA ProfileChangesSound ==
  ASSUME SrInv, ProfileChanges
  PROVE  SrInv'
<1>1. PICK h \in VideoHeights : renderer' = [renderer EXCEPT !.source = h, !.height = h]
  BY DEF ProfileChanges
<1>2. /\ vsr' = vsr /\ current' = current /\ filters_set' = 0
      /\ renderer.loading = NoSource /\ renderer.source > 0 /\ renderer \in Renderer
  BY DEF ProfileChanges, SrInv, SrTyped
<1>3. /\ renderer' \in Renderer /\ renderer'.mail = renderer.mail
      /\ renderer'.filter = renderer.filter /\ renderer'.refused = renderer.refused
      /\ renderer'.source = h /\ renderer'.height = h
      /\ renderer'.loading = renderer.loading /\ renderer'.begun = renderer.begun
  <2>1. h \in Nat
    BY HeightsAssumption
  <2> QED BY <1>1, <1>2, <2>1 DEF Renderer
<1>4. SrTyped' /\ HeightsInOrder' /\ FilterIsAsked'
  BY <1>2, <1>3 DEF SrInv, SrTyped, HeightsInOrder, FilterIsAsked, FilterRuns
<1>5. FilesInOrder'
  BY <1>2, <1>3 DEF SrInv, FilesInOrder, MailInOrder, BegunIsAnnounced, LoadingIsTarget,
     LoadsAgain, LoadDue
<1> QED
  BY <1>2, <1>4, <1>5, CountedAgain

LEMMA SrInvStep == SrInv /\ [SrNext]_srVars => SrInv'
<1> SUFFICES ASSUME SrInv, [SrNext]_srVars PROVE SrInv'
  OBVIOUS
<1>1. CASE UNCHANGED srVars
  BY <1>1 DEF srVars, SrInv, SrTyped, HeightsInOrder, FilterIsAsked, FilterRuns, FilesInOrder,
     MailInOrder, BegunIsAnnounced,
     LoadingIsTarget, LoadsAgain, LoadDue, ToCome, NewHeights
<1> QED
  BY <1>1, ChooseVideoSound, ReopenVideoSound, RecreateRendererSound, ResizeVideoSound,
     ToggleVsrSound,
     PumpFileStartSound, PumpFileLoadedSound, PumpHeightSound, FileStartsSound, FileLoadsSound,
     VideoConfiguredSound, ProfileChangesSound DEF SrNext

(* FilterComesToRest for all heights, scales and numbers of channels:      *)
(* apply_vsr and set_vsr follow what the user or libmpv does by four       *)
(* settings at most, whatever heights libmpv tells while it reconfigures   *)
(* and whichever filters it refuses; and a filter that is asked for is the *)
(* one that runs, or the player says that libmpv refused it.               *)
THEOREM FilterSettles == SrSpec => []FilterComesToRest
<1>1. SrInv => FilterComesToRest
  <2>1. SUFFICES ASSUME SrInv PROVE FilterComesToRest
    OBVIOUS
  <2>2. ToCome \in 0 .. 3
    BY <2>1, FewToCome DEF SrInv, FilesInOrder
  <2> QED
    BY <2>1, <2>2, TypesOfSr DEF SrInv, FilterIsAsked, FilterRuns, FilterComesToRest
<1> QED
  BY <1>1, SrInvInit, SrInvStep, PTL DEF SrSpec

\* SrTypeOK of any heights, from the same invariant (player/mpv_player.cpp).
LEMMA SrIsTyped == SrSpec => []SrTypeOK
<1>1. SrInv => SrTypeOK
  <2>1. SUFFICES ASSUME SrInv PROVE SrTypeOK
    OBVIOUS
  <2>2. vsr.height \in {0, vsr.seen} /\ renderer.height \in {0, renderer.source}
    BY <2>1 DEF SrInv, HeightsInOrder
  <2>3. renderer.begun => renderer.loading # NoSource /\ renderer.source = 0
    BY <2>1 DEF SrInv, FilesInOrder, BegunIsAnnounced
  <2>4. vsr.applied \in {NoFilter, vsr.asked}
    BY <2>1 DEF SrInv, FilterIsAsked
  <2> QED
    BY <2>1, <2>2, <2>3, <2>4, TypesOfSr DEF SrTypeOK
<1> QED
  BY <1>1, SrInvInit, SrInvStep, PTL DEF SrSpec

-----------------------------------------------------------------------------
(* Buffer phases (player/buffer_phase_gate.hpp, player/mpv_player.cpp)     *)

Loads == [generation : 1 .. MaxGeneration, load : 1 .. MaxLoad]

Records == [state : States, result : [Properties -> Results]]

PhaseTypes ==
  /\ generation \in 0 .. MaxGeneration /\ target \in Loads \cup {NoTarget}
  /\ backend \in BOOLEAN /\ refused \in BOOLEAN /\ lost \in BOOLEAN
  /\ gate \in [generation : 0 .. MaxGeneration, record : [Phases -> Records]]
  /\ buffer_phase \in Phases /\ command_state \in States
  /\ journal \in Seq(Commands) /\ sent \in Seq(Commands) /\ answers \in Seq(Commands)
  /\ value \in [Properties -> Phases \cup {"Default"}]

\* The gate is the target's, and a phase that waits has something to wait for.
RecordSound(record) ==
  /\ record.state = "Unissued" => \A p \in Properties : record.result[p] = "None"
  /\ record.state = "Pending" =>
       /\ \E p \in Properties : record.result[p] = "None"
       /\ \A p \in Properties : record.result[p] # "Refused"
GateSound ==
  /\ gate.generation = target.generation
  /\ \A phase \in Phases : RecordSound(gate.record[phase])

\* A command that was run or refused has a result.
ResultsKnown ==
  /\ \A i \in DOMAIN answers : answers[i].result # "None"
  /\ \A i \in DOMAIN journal : journal[i].result # "None"

\* A property is set for the phase of the load, or is about to be: the last
\* command for it is the load's own.
LastWord(p) ==
  \/ /\ value[p] = buffer_phase
     /\ \A i \in DOMAIN sent : sent[i].property # p
  \/ \E i \in DOMAIN sent :
       /\ sent[i].load = target /\ sent[i].property = p /\ sent[i].phase = buffer_phase
       /\ \A j \in DOMAIN sent : j > i => sent[j].property # p
LastWordIsOwn == Playing /\ backend /\ ~refused => \A p \in Properties : LastWord(p)

\* A result that is waited for is on its way.
Waits(g, phase, p) ==
  g.record[phase].state = "Pending" /\ g.record[phase].result[p] = "None"
Tells(command, load, phase, p) ==
  /\ command.load = load /\ command.tracked
  /\ command.phase = phase /\ command.property = p
OnItsWay(phase, p) ==
  \/ \E i \in DOMAIN sent : Tells(sent[i], target, phase, p)
  \/ \E i \in DOMAIN answers : Tells(answers[i], target, phase, p)
  \/ \E i \in DOMAIN journal : Tells(journal[i], target, phase, p)
AwaitedIsComing ==
  Playing /\ ~lost =>
    \A phase \in Phases, p \in Properties :
      Waits(gate, phase, p) => OnItsWay(phase, p)

BufferInv == PhaseTypes /\ GateSound /\ ResultsKnown /\ LastWordIsOwn /\ AwaitedIsComing

\* What is so before the first result, after each, and after some of them.
Before == [gate |-> gate, state |-> command_state, foreign |-> foreign]
SeenAfter(results, n, f) == IF n = 0 THEN Before ELSE ObserveResult(f[n - 1], results[n])
Upto(results, m, f) == f = [n \in 0 .. m |-> SeenAfter(results, n, f)]

\* What is so after some results has a continuation for one more, so that it
\* is so after all of them: Observations is what its definition says.
LEMMA ObservationsGoOn ==
  ASSUME NEW results, NEW m \in Nat, NEW f, Upto(results, m, f)
  PROVE  \E g : Upto(results, m + 1, g)
<1> DEFINE last == ObserveResult(f[m], results[m + 1])
           g == [n \in 0 .. m + 1 |-> IF n = m + 1 THEN last ELSE f[n]]
<1>1. \A n \in 0 .. m + 1 : g[n] = SeenAfter(results, n, g)
  <2> SUFFICES ASSUME NEW n \in 0 .. m + 1 PROVE g[n] = SeenAfter(results, n, g)
    OBVIOUS
  <2> HIDE DEF last
  <2>1. CASE n = m + 1
    <3>1. g[n] = last /\ n # 0 /\ g[n - 1] = f[m] /\ n - 1 = m
      BY <2>1
    <3> HIDE DEF g
    <3> QED BY <3>1, <2>1 DEF SeenAfter, last
  <2>2. CASE n # m + 1
    <3>1. n \in 0 .. m
      BY <2>2
    <3>2. g[n] = f[n]
      BY <2>2
    <3>3. f[n] = SeenAfter(results, n, f)
      BY <3>1 DEF Upto
    <3>4. n # 0 => g[n - 1] = f[n - 1]
      BY <3>1
    <3> HIDE DEF g
    <3> QED BY <3>2, <3>3, <3>4 DEF SeenAfter
  <2> QED BY <2>1, <2>2
<1>2. g = [n \in 0 .. m + 1 |-> g[n]]
  OBVIOUS
<1>3. g = [n \in 0 .. m + 1 |-> SeenAfter(results, n, g)]
  <2> HIDE DEF g
  <2> QED BY <1>1, <1>2
<1> HIDE DEF g
<1> QED BY <1>3 DEF Upto

LEMMA ObservationsAre ==
  ASSUME NEW results \in Seq(Commands)
  PROVE  Upto(results, Len(results), Observations(results))
<1> DEFINE T == {m \in 0 .. Len(results) : \E f : Upto(results, m, f)}
<1>1. Len(results) \in Nat
  OBVIOUS
<1>2. 0 \in T
  <2>1. Upto(results, 0, [n \in 0 .. 0 |-> Before])
    BY DEF Upto, SeenAfter
  <2> QED BY <1>1, <2>1
<1>3. ASSUME NEW n \in 0 .. Len(results) - 1, n \in T PROVE n + 1 \in T
  BY <1>1, <1>3, ObservationsGoOn
<1>4. Len(results) \in T
  <2> HIDE DEF T
  <2>1. \A n \in 0 .. Len(results) : n \in T
    BY <1>1, <1>2, <1>3, Climb
  <2> QED BY <1>1, <2>1
<1>5. PICK f : Upto(results, Len(results), f)
  BY <1>4
<1>6. Observations(results) = CHOOSE h : Upto(results, Len(results), h)
  BY DEF Observations, Upto, SeenAfter, Before
<1> QED BY <1>5, <1>6

\* What is kept of a gate, one result at a time.
GateTyped(g) ==
  /\ g \in [generation : 0 .. MaxGeneration, record : [Phases -> Records]]
  /\ \A phase \in Phases : RecordSound(g.record[phase])

\* A result settles at most the phase that waits for it, and ends that wait.
LEMMA SettleKeeps ==
  ASSUME NEW g, GateTyped(g), NEW c \in Commands, c.result # "None"
  PROVE  /\ GateTyped(Settle(g, c)) /\ Settle(g, c).generation = g.generation
         /\ \A phase \in Phases, p \in Properties :
              Waits(Settle(g, c), phase, p) =>
                /\ Waits(g, phase, p)
                /\ ~(c.load.generation = g.generation /\ c.phase = phase /\ c.property = p)
<1> DEFINE results == [g.record[c.phase].result EXCEPT ![c.property] = c.result]
           new == [state |-> SettledState(results), result |-> results]
<1>1. c.phase \in Phases /\ c.property \in Properties /\ c.result \in {"Accepted", "Refused"}
  BY DEF Commands, Results
<1>2. g.record \in [Phases -> Records] /\ g.record[c.phase] \in Records
  BY <1>1 DEF GateTyped
<1>3. CASE ~Awaits(g, c)
  <2>1. Settle(g, c) = g
    BY <1>3 DEF Settle
  <2> QED BY <2>1, <1>3 DEF Awaits, Waits
<1>4. CASE Awaits(g, c)
  <2>1. Settle(g, c) = [g EXCEPT !.record[c.phase] = new]
    BY <1>4 DEF Settle
  <2>2. results \in [Properties -> Results]
    BY <1>1, <1>2 DEF Records, Results
  <2>3. new \in Records /\ RecordSound(new)
    <3>1. SettledState(results) \in States \ {"Unissued"}
      BY DEF SettledState, States
    <3>2. SettledState(results) = "Pending" =>
            /\ \E p \in Properties : results[p] = "None"
            /\ \A p \in Properties : results[p] # "Refused"
      <4> HIDE DEF results
      <4> QED BY <2>2 DEF SettledState, Results
    <3> HIDE DEF results
    <3> QED BY <2>2, <3>1, <3>2 DEF Records, RecordSound
  <2>4. results[c.property] # "None" /\ \A p \in Properties \ {c.property} :
          results[p] = g.record[c.phase].result[p]
    BY <1>1, <1>2 DEF Records
  <2> HIDE DEF new
  <2>5. /\ Settle(g, c).generation = g.generation
        /\ Settle(g, c) \in [generation : 0 .. MaxGeneration, record : [Phases -> Records]]
        /\ Settle(g, c).record[c.phase] = new
        /\ \A phase \in Phases \ {c.phase} : Settle(g, c).record[phase] = g.record[phase]
    BY <2>1, <2>3, <1>1, <1>2 DEF GateTyped
  <2>6. GateTyped(Settle(g, c))
    BY <2>5, <2>3 DEF GateTyped
  <2>7. new.result = results
    BY DEF new
  <2> HIDE DEF results
  <2>8. ASSUME NEW phase \in Phases, NEW p \in Properties, Waits(Settle(g, c), phase, p)
        PROVE  /\ Waits(g, phase, p)
               /\ ~(c.load.generation = g.generation /\ c.phase = phase /\ c.property = p)
    <3>1. CASE phase # c.phase
      BY <3>1, <2>5, <2>8 DEF Waits
    <3>2. CASE phase = c.phase
      BY <3>2, <2>5, <2>4, <2>7, <2>8, <1>4 DEF Waits, Awaits
    <3> QED BY <3>1, <3>2
  <2> QED BY <2>5, <2>6, <2>8
<1> QED BY <1>3, <1>4

\* The gate waits for less, and not for what some results told.
Unanswered(g, results, n) ==
  \A phase \in Phases, p \in Properties :
    Waits(g, phase, p) =>
      /\ Waits(gate, phase, p)
      /\ \A i \in 1 .. n :
           ~(/\ results[i].load.generation = gate.generation
             /\ results[i].phase = phase /\ results[i].property = p)

ObservedWell(o, results, n) ==
  /\ GateTyped(o.gate) /\ o.gate.generation = gate.generation
  /\ o.state \in States
  /\ Unanswered(o.gate, results, n)

(* What the gate still waits for after some results was waited for before    *)
(* them and is told by none of them.                                       *)
LEMMA HandsOver ==
  ASSUME PhaseTypes, GateSound, NEW results \in Seq(Commands),
         \A i \in DOMAIN results : results[i].result # "None", HandOver(results)
  PROVE  /\ GateTyped(gate') /\ gate'.generation = gate.generation
         /\ command_state' \in States
         /\ journal' = << >>
         /\ Unanswered(gate', results, Len(results))
<1> DEFINE seen == Observations(results)
           N == Len(results)
           T == {n \in 0 .. N : ObservedWell(seen[n], results, n)}
<1>1. N \in Nat /\ DOMAIN results = 1 .. N
  OBVIOUS
<1>2. \A n \in 0 .. N : seen[n] = SeenAfter(results, n, seen)
  <2>1. Upto(results, N, seen)
    BY ObservationsAre
  <2> HIDE DEF seen
  <2> QED BY <1>1, <2>1 DEF Upto
<1> HIDE DEF seen
<1>3. 0 \in T
  <2>1. seen[0] = Before
    BY <1>1, <1>2 DEF SeenAfter
  <2> QED BY <1>1, <2>1 DEF Before, ObservedWell, Unanswered, GateTyped, GateSound,
     PhaseTypes
<1>4. ASSUME NEW n \in 0 .. N - 1, n \in T PROVE n + 1 \in T
  <2> DEFINE was == seen[n]
             c == results[n + 1]
  <2>1. ObservedWell(was, results, n)
    BY <1>4
  <2>2. n + 1 \in 1 .. N /\ n + 1 \in 0 .. N /\ n \in Nat /\ (n + 1) - 1 = n /\ n + 1 # 0
    BY <1>1
  <2>3. c \in Commands /\ c.result # "None"
    BY <2>2, <1>1
  <2>4. seen[n + 1] = ObserveResult(was, c)
    BY <1>2, <2>2 DEF SeenAfter
  <2> HIDE DEF was, c
  <2>5. /\ seen[n + 1].gate = Settle(was.gate, c)
        /\ seen[n + 1].state \in {was.state, Settle(was.gate, c).record[c.phase].state}
    BY <2>4 DEF ObserveResult
  <2>6. c.phase \in Phases
    BY <2>3 DEF Commands
  <2>7. /\ GateTyped(Settle(was.gate, c)) /\ Settle(was.gate, c).generation = gate.generation
        /\ \A phase \in Phases, p \in Properties :
             Waits(Settle(was.gate, c), phase, p) =>
               /\ Waits(was.gate, phase, p)
               /\ ~(c.load.generation = gate.generation /\ c.phase = phase /\ c.property = p)
    BY <2>1, <2>3, SettleKeeps DEF ObservedWell
  <2>8. seen[n + 1].state \in States
    BY <2>5, <2>6, <2>7, <2>1 DEF GateTyped, Records, ObservedWell
  <2>9. Unanswered(seen[n + 1].gate, results, n + 1)
    <3> SUFFICES ASSUME NEW phase \in Phases, NEW p \in Properties,
                        Waits(Settle(was.gate, c), phase, p)
                 PROVE  /\ Waits(gate, phase, p)
                        /\ \A i \in 1 .. n + 1 :
                             ~(/\ results[i].load.generation = gate.generation
                               /\ results[i].phase = phase /\ results[i].property = p)
      BY <2>5 DEF Unanswered
    <3>1. /\ Waits(was.gate, phase, p)
          /\ ~(c.load.generation = gate.generation /\ c.phase = phase /\ c.property = p)
      BY <2>7
    <3>2. Waits(gate, phase, p) /\ \A i \in 1 .. n :
                             ~(/\ results[i].load.generation = gate.generation
                               /\ results[i].phase = phase /\ results[i].property = p)
      BY <3>1, <2>1 DEF ObservedWell, Unanswered
    <3>3. \A i \in 1 .. n + 1 : i \in 1 .. n \/ i = n + 1
      BY <2>2
    <3> QED BY <3>1, <3>2, <3>3 DEF c
  <2> QED BY <2>2, <2>5, <2>7, <2>8, <2>9 DEF ObservedWell
<1>5. ObservedWell(seen[N], results, N)
  <2> HIDE DEF T
  <2>1. \A n \in 0 .. N : n \in T
    BY <1>1, <1>3, <1>4, Climb
  <2>2. N \in T
    BY <1>1, <2>1
  <2> QED BY <2>2 DEF T
<1>6. gate' = seen[N].gate /\ command_state' = seen[N].state /\ journal' = << >>
  BY DEF HandOver, seen
<1> QED BY <1>5, <1>6 DEF ObservedWell

\* Every property that is asked for is asked for once, with no later word.
LEMMA CommandsForAre ==
  ASSUME NEW load \in Loads, NEW phase \in Phases, NEW properties \in SUBSET Properties
  PROVE  /\ CommandsFor(load, phase, properties) \in Seq(Commands)
         /\ \A i \in DOMAIN CommandsFor(load, phase, properties) :
              \E p \in properties :
                CommandsFor(load, phase, properties)[i] = Command(load, phase, p)
         /\ \A p \in properties : \E i \in DOMAIN CommandsFor(load, phase, properties) :
              /\ CommandsFor(load, phase, properties)[i] = Command(load, phase, p)
              /\ \A j \in DOMAIN CommandsFor(load, phase, properties) :
                   j > i => CommandsFor(load, phase, properties)[j].property # p
<1> DEFINE cache == Command(load, phase, "CacheSeconds")
           ahead == Command(load, phase, "ReadaheadSeconds")
<1>1. cache \in Commands /\ ahead \in Commands
  BY DEF Command, Commands, Loads, Properties, Results
<1>2. cache.property = "CacheSeconds" /\ ahead.property = "ReadaheadSeconds"
  BY DEF Command
<1>3. /\ "CacheSeconds" \in properties => CommandsFor(load, phase, properties) =
           <<cache>> \o IF "ReadaheadSeconds" \in properties THEN <<ahead>> ELSE << >>
      /\ "CacheSeconds" \notin properties => CommandsFor(load, phase, properties) =
           << >> \o IF "ReadaheadSeconds" \in properties THEN <<ahead>> ELSE << >>
  BY DEF CommandsFor
<1>4. \A p \in properties : p = "CacheSeconds" \/ p = "ReadaheadSeconds"
  BY DEF Properties
<1> DEFINE all == CommandsFor(load, phase, properties)
<1> HIDE DEF all
<1>5. CASE "CacheSeconds" \in properties /\ "ReadaheadSeconds" \in properties
  <2>1. all = <<cache>> \o <<ahead>>
    BY <1>3, <1>5 DEF all
  <2> HIDE DEF cache, ahead
  <2>2. all \in Seq(Commands) /\ DOMAIN all = 1 .. 2 /\ all[1] = cache /\ all[2] = ahead
    BY <2>1, <1>1
  <2>3. \A i \in DOMAIN all : i = 1 \/ i = 2
    BY <2>2
  <2>4. /\ \A i \in DOMAIN all : \E p \in properties : all[i] = Command(load, phase, p)
    BY <2>2, <2>3, <1>5 DEF cache, ahead
  <2>5. \A j \in DOMAIN all : ~(j > 2)
    BY <2>2
  <2>6. \A j \in DOMAIN all : j > 1 => all[j].property # "CacheSeconds"
    BY <2>2, <2>3, <1>2
  <2>7. /\ all[1] = Command(load, phase, "CacheSeconds")
        /\ all[2] = Command(load, phase, "ReadaheadSeconds")
    BY <2>2 DEF cache, ahead
  <2>8. ASSUME NEW p \in properties
        PROVE  \E i \in DOMAIN all : /\ all[i] = Command(load, phase, p)
                                    /\ \A j \in DOMAIN all : j > i => all[j].property # p
    <3>1. CASE p = "CacheSeconds"
      <4>1. 1 \in DOMAIN all
        BY <2>2
      <4> QED BY <3>1, <2>6, <2>7, <4>1
    <3>2. CASE p = "ReadaheadSeconds"
      <4>1. 2 \in DOMAIN all
        BY <2>2
      <4> QED BY <3>2, <2>5, <2>7, <4>1
    <3> QED BY <3>1, <3>2, <1>4
  <2> QED BY <2>2, <2>4, <2>8 DEF all
<1>6. CASE "CacheSeconds" \in properties /\ "ReadaheadSeconds" \notin properties
  <2>1. all = <<cache>> \o << >>
    BY <1>3, <1>6 DEF all
  <2> HIDE DEF cache, ahead
  <2>2. all \in Seq(Commands) /\ DOMAIN all = 1 .. 1 /\ all[1] = cache
    BY <2>1, <1>1
  <2>3. all[1] = Command(load, phase, "CacheSeconds") /\ \A p \in properties : p = "CacheSeconds"
    BY <2>2, <1>4, <1>6 DEF cache
  <2>4. 1 \in DOMAIN all /\ \A i \in DOMAIN all : i = 1
    BY <2>2
  <2>5. \A i \in DOMAIN all : ~(i > 1)
    BY <2>4
  <2> QED BY <2>2, <2>3, <2>4, <2>5, <1>6 DEF all
<1>7. CASE "CacheSeconds" \notin properties /\ "ReadaheadSeconds" \in properties
  <2>1. all = << >> \o <<ahead>>
    BY <1>3, <1>7 DEF all
  <2> HIDE DEF cache, ahead
  <2>2. all \in Seq(Commands) /\ DOMAIN all = 1 .. 1 /\ all[1] = ahead
    BY <2>1, <1>1
  <2>3. all[1] = Command(load, phase, "ReadaheadSeconds") /\ \A p \in properties : p = "ReadaheadSeconds"
    BY <2>2, <1>4, <1>7 DEF ahead
  <2>4. 1 \in DOMAIN all /\ \A i \in DOMAIN all : i = 1
    BY <2>2
  <2>5. \A i \in DOMAIN all : ~(i > 1)
    BY <2>4
  <2> QED BY <2>2, <2>3, <2>4, <2>5, <1>7 DEF all
<1>8. CASE properties = {}
  <2>1. all = << >> \o << >>
    BY <1>3, <1>8 DEF all
  <2>2. all \in Seq(Commands) /\ DOMAIN all = {}
    BY <2>1
  <2> QED BY <2>2, <1>8 DEF all
<1> QED BY <1>4, <1>5, <1>6, <1>7, <1>8

\* What mpv refuses is journaled behind what was journaled already.
LEMMA Refusals ==
  ASSUME NEW was_journal \in Seq(Commands), NEW refusals \in Seq(Commands),
         \A i \in DOMAIN was_journal : was_journal[i].result # "None"
  PROVE  /\ JournalRefusals(was_journal, refusals) \in Seq(Commands)
         /\ \A i \in DOMAIN JournalRefusals(was_journal, refusals) :
              JournalRefusals(was_journal, refusals)[i].result # "None"
         /\ \A i \in DOMAIN refusals : \E k \in DOMAIN JournalRefusals(was_journal, refusals) :
              JournalRefusals(was_journal, refusals)[k] = Answered(refusals[i], "Refused")
         /\ \A i \in DOMAIN was_journal :
              /\ i \in DOMAIN JournalRefusals(was_journal, refusals)
              /\ JournalRefusals(was_journal, refusals)[i] = was_journal[i]
<1> DEFINE said == [i \in DOMAIN refusals |-> Answered(refusals[i], "Refused")]
           all == was_journal \o said
<1>1. \A i \in DOMAIN refusals : refusals[i] \in Commands
  OBVIOUS
<1>2. \A i \in DOMAIN refusals :
        /\ Answered(refusals[i], "Refused") \in Commands
        /\ Answered(refusals[i], "Refused").result = "Refused"
  BY <1>1 DEF Answered, Commands, Results
<1>3. said \in Seq(Commands) /\ DOMAIN said = DOMAIN refusals
  BY <1>2
<1>4. \A i \in DOMAIN said : said[i] = Answered(refusals[i], "Refused") /\ said[i].result # "None"
  BY <1>2
<1>5. JournalRefusals(was_journal, refusals) = all
  BY DEF JournalRefusals
<1> HIDE DEF said
<1>6. /\ all \in Seq(Commands)
      /\ \A i \in DOMAIN was_journal : i \in DOMAIN all /\ all[i] = was_journal[i]
      /\ \A i \in DOMAIN said : /\ i + Len(was_journal) \in DOMAIN all
                               /\ all[i + Len(was_journal)] = said[i]
      /\ \A k \in DOMAIN all : \/ k \in DOMAIN was_journal
                               \/ k - Len(was_journal) \in DOMAIN said /\ all[k] = said[k - Len(was_journal)]
  BY <1>3, Behind
<1> HIDE DEF all
<1>7. \A k \in DOMAIN all : all[k].result # "None"
  BY <1>4, <1>6
<1>8. \A i \in DOMAIN refusals : \E k \in DOMAIN all : all[k] = Answered(refusals[i], "Refused")
  BY <1>3, <1>4, <1>6
<1> QED BY <1>5, <1>6, <1>7, <1>8

(* What is issued for a load has the last word on both properties unless     *)
(* some of it was refused, and either way its result is on its way.         *)
LEMMA IssuedIsComing ==
  ASSUME NEW load \in Loads, NEW phase \in Phases,
         NEW was_sent \in Seq(Commands), NEW was_journal \in Seq(Commands),
         \A i \in DOMAIN was_journal : was_journal[i].result # "None",
         refused \in BOOLEAN,
         target' = load, buffer_phase' = phase,
         Issue(load, phase, was_sent, was_journal)
  PROVE  /\ sent' \in Seq(Commands) /\ journal' \in Seq(Commands) /\ refused' \in BOOLEAN
         /\ \A i \in DOMAIN journal' : journal'[i].result # "None"
         /\ \A i \in DOMAIN was_sent : i \in DOMAIN sent' /\ sent'[i] = was_sent[i]
         /\ \A i \in DOMAIN was_journal : i \in DOMAIN journal' /\ journal'[i] = was_journal[i]
         /\ ~refused' => \A p \in Properties : LastWord(p)'
         /\ \A p \in Properties : \/ \E i \in DOMAIN sent' : Tells(sent'[i], load, phase, p)
                                  \/ \E i \in DOMAIN journal' : Tells(journal'[i], load, phase, p)
<1>1. PICK taken \in SUBSET Properties :
        /\ sent' = was_sent \o CommandsFor(load, phase, taken)
        /\ journal' = JournalRefusals(was_journal, CommandsFor(load, phase, Properties \ taken))
        /\ refused' = (taken # Properties \/ (load = target /\ refused))
  BY DEF Issue
<1> DEFINE asked == CommandsFor(load, phase, taken)
           rest == Properties \ taken
           declined == CommandsFor(load, phase, rest)
<1>2. /\ asked \in Seq(Commands)
      /\ \A p \in taken : \E i \in DOMAIN asked :
           /\ asked[i] = Command(load, phase, p)
           /\ \A j \in DOMAIN asked : j > i => asked[j].property # p
  BY CommandsForAre
<1>3. /\ declined \in Seq(Commands)
      /\ \A p \in rest : \E i \in DOMAIN declined : declined[i] = Command(load, phase, p)
  <2>1. rest \in SUBSET Properties
    OBVIOUS
  <2> HIDE DEF rest
  <2> QED BY <2>1, CommandsForAre
<1> HIDE DEF asked, declined
<1>4. /\ sent' \in Seq(Commands)
      /\ \A i \in DOMAIN was_sent : i \in DOMAIN sent' /\ sent'[i] = was_sent[i]
      /\ \A i \in DOMAIN asked : /\ i + Len(was_sent) \in DOMAIN sent'
                                /\ sent'[i + Len(was_sent)] = asked[i]
      /\ \A k \in DOMAIN sent' : \/ k \in DOMAIN was_sent
                                 \/ k > Len(was_sent) /\ k - Len(was_sent) \in DOMAIN asked
                                    /\ sent'[k] = asked[k - Len(was_sent)]
  BY <1>1, <1>2, Behind DEF asked
<1>5. /\ journal' \in Seq(Commands)
      /\ \A i \in DOMAIN journal' : journal'[i].result # "None"
      /\ \A i \in DOMAIN declined : \E k \in DOMAIN journal' :
           journal'[k] = Answered(declined[i], "Refused")
      /\ \A i \in DOMAIN was_journal : i \in DOMAIN journal' /\ journal'[i] = was_journal[i]
  BY <1>1, <1>3, Refusals DEF declined
<1>6. refused' \in BOOLEAN
  BY <1>1
<1>7. ASSUME NEW p \in Properties
      PROVE  /\ Tells(Command(load, phase, p), load, phase, p)
             /\ Tells(Answered(Command(load, phase, p), "Refused"), load, phase, p)
  BY DEF Tells, Command, Answered
<1>8. ASSUME NEW p \in Properties PROVE \/ \E i \in DOMAIN sent' : Tells(sent'[i], load, phase, p)
                                  \/ \E i \in DOMAIN journal' : Tells(journal'[i], load, phase, p)
  <2>1. CASE p \in taken
    <3>1. PICK i \in DOMAIN asked : asked[i] = Command(load, phase, p)
      BY <1>2, <2>1
    <3>2. i + Len(was_sent) \in DOMAIN sent' /\ sent'[i + Len(was_sent)] = Command(load, phase, p)
      BY <1>4, <3>1
    <3> QED BY <3>2, <1>7
  <2>2. CASE p \notin taken
    <3>1. PICK i \in DOMAIN declined : declined[i] = Command(load, phase, p)
      BY <1>3, <2>2
    <3>2. PICK k \in DOMAIN journal' : journal'[k] = Answered(declined[i], "Refused")
      BY <1>5
    <3> QED BY <3>1, <3>2, <1>7
  <2> QED BY <2>1, <2>2
<1>9. ASSUME ~refused', NEW p \in Properties PROVE LastWord(p)'
  <2>1. p \in taken
    BY <1>1, <1>9
  <2>2. PICK i \in DOMAIN asked : /\ asked[i] = Command(load, phase, p)
                                 /\ \A j \in DOMAIN asked : j > i => asked[j].property # p
    BY <1>2, <2>1
  <2>3. i + Len(was_sent) \in DOMAIN sent' /\ sent'[i + Len(was_sent)] = Command(load, phase, p)
    BY <1>4, <2>2
  <2>4. ASSUME NEW k \in DOMAIN sent', k > i + Len(was_sent) PROVE sent'[k].property # p
    <3>1. i \in Nat /\ Len(was_sent) \in Nat /\ k \in Nat /\ DOMAIN was_sent = 1 .. Len(was_sent)
      BY <1>2, <1>4
    <3>2. k \notin DOMAIN was_sent /\ k - Len(was_sent) > i
      BY <3>1, <2>4
    <3>3. k - Len(was_sent) \in DOMAIN asked /\ sent'[k] = asked[k - Len(was_sent)]
      BY <1>4, <3>2
    <3> QED BY <2>2, <3>2, <3>3
  <2>5. LET c == Command(load, phase, p) IN c.load = load /\ c.property = p /\ c.phase = phase
    BY DEF Command
  <2> QED BY <2>3, <2>4, <2>5 DEF LastWord
<1> QED BY <1>4, <1>5, <1>6, <1>8, <1>9

\* A load that starts waits for its own results only, and has the last word.
LEMMA LoadStarted ==
  ASSUME NEW load \in Loads, NEW was_sent \in Seq(Commands), NEW was_journal \in Seq(Commands),
         \A i \in DOMAIN was_journal : was_journal[i].result # "None",
         StartLoad(load, was_sent, was_journal), PhaseTypes,
         generation' \in 0 .. MaxGeneration, backend' \in BOOLEAN,
         answers' \in Seq(Commands), \A i \in DOMAIN answers' : answers'[i].result # "None",
         value' \in [Properties -> Phases \cup {"Default"}]
  PROVE  BufferInv'
<1> DEFINE blank == BeginLoad(gate, load.generation)
<1>1. load.generation \in 1 .. MaxGeneration /\ load.generation \in 0 .. MaxGeneration
  BY BufferBounds DEF Loads
<1>2. FreshRecord \in Records /\ FreshRecord.state = "Unissued"
      /\ FreshRecord.result = [p \in Properties |-> "None"]
  BY DEF FreshRecord, Records, States, Results
<1>3. blank = [generation |-> load.generation, record |-> [p \in Phases |-> FreshRecord]]
  BY DEF BeginLoad, Retired
<1>4. "Zap" \in Phases
  BY DEF Phases
<1> HIDE DEF blank
<1>5. /\ blank.generation = load.generation
      /\ blank.record = [p \in Phases |-> FreshRecord]
      /\ blank \in [generation : 0 .. MaxGeneration, record : [Phases -> Records]]
  BY <1>1, <1>2, <1>3
<1>6. MayBegin(blank, load.generation, "Zap")
  BY <1>2, <1>4, <1>5 DEF MayBegin
<1>7. /\ target' = load /\ lost' = FALSE /\ foreign' = FALSE
      /\ gate' = Begin(blank, "Zap")
      /\ buffer_phase' = "Zap" /\ command_state' = "Pending"
      /\ Issue(load, "Zap", was_sent, was_journal)
  BY <1>6 DEF StartLoad, ApplyPhase, blank
<1> DEFINE pending == [state |-> "Pending", result |-> [p \in Properties |-> "None"]]
<1>8. pending \in Records /\ RecordSound(pending) /\ RecordSound(FreshRecord)
  BY <1>2 DEF Records, States, Results, RecordSound, Properties
<1>9. /\ gate' \in [generation : 0 .. MaxGeneration, record : [Phases -> Records]]
      /\ gate'.generation = load.generation
      /\ gate'.record["Zap"] = pending
      /\ \A phase \in Phases \ {"Zap"} : gate'.record[phase] = FreshRecord
  <2>1. gate' = [blank EXCEPT !.record["Zap"].state = "Pending"]
    BY <1>7 DEF Begin
  <2>2. gate' = [blank EXCEPT !.record =
                   [blank.record EXCEPT !["Zap"] = [blank.record["Zap"] EXCEPT !.state = "Pending"]]]
    BY <2>1
  <2>3. blank.record["Zap"] = FreshRecord
    BY <1>5, <1>4
  <2>4. [FreshRecord EXCEPT !.state = "Pending"] = pending
    BY DEF FreshRecord
  <2>5. gate' = [blank EXCEPT !.record = [blank.record EXCEPT !["Zap"] = pending]]
    BY <2>2, <2>3, <2>4
  <2> HIDE DEF pending
  <2> QED BY <2>5, <1>4, <1>5, <1>8
<1>10. /\ sent' \in Seq(Commands) /\ journal' \in Seq(Commands) /\ refused' \in BOOLEAN
       /\ \A i \in DOMAIN journal' : journal'[i].result # "None"
       /\ ~refused' => \A p \in Properties : LastWord(p)'
       /\ \A p \in Properties : \/ \E i \in DOMAIN sent' : Tells(sent'[i], load, "Zap", p)
                                \/ \E i \in DOMAIN journal' : Tells(journal'[i], load, "Zap", p)
  <2>1. refused \in BOOLEAN
    BY DEF PhaseTypes
  <2> QED BY <1>4, <1>7, <2>1, IssuedIsComing
<1>11. PhaseTypes'
  BY <1>4, <1>7, <1>9, <1>10 DEF PhaseTypes, States
<1>12. GateSound'
  <2>1. ASSUME NEW phase \in Phases PROVE RecordSound(gate'.record[phase])
    <3> HIDE DEF pending
    <3> QED BY <1>8, <1>9
  <2> QED BY <1>7, <1>9, <2>1 DEF GateSound
<1>13. ResultsKnown'
  BY <1>10 DEF ResultsKnown
<1>14. LastWordIsOwn'
  BY <1>10 DEF LastWordIsOwn
<1>15. AwaitedIsComing'
  <2>1. ASSUME NEW phase \in Phases, NEW p \in Properties, Waits(gate', phase, p)
        PROVE  OnItsWay(phase, p)'
    <3>1. phase = "Zap"
      BY <1>2, <1>9, <2>1 DEF Waits
    <3> QED BY <1>7, <1>10, <3>1 DEF OnItsWay
  <2> QED BY <2>1 DEF AwaitedIsComing
<1> QED BY <1>11, <1>12, <1>13, <1>14, <1>15 DEF BufferInv

\* Forgotten commands are still run and answered.
LEMMA ForgetKeeps ==
  ASSUME NEW s \in Seq(Commands), NEW generations
  PROVE  /\ Forget(s, generations) \in Seq(Commands)
         /\ DOMAIN Forget(s, generations) = DOMAIN s
         /\ \A i \in DOMAIN s : /\ Forget(s, generations)[i].load = s[i].load
                                /\ Forget(s, generations)[i].phase = s[i].phase
                                /\ Forget(s, generations)[i].property = s[i].property
                                /\ Forget(s, generations)[i].result = s[i].result
<1> DEFINE f(i) == IF s[i].load.generation \in generations
                   THEN [s[i] EXCEPT !.tracked = FALSE] ELSE s[i]
<1>1. ASSUME NEW i \in DOMAIN s
      PROVE  /\ f(i) \in Commands /\ f(i).load = s[i].load /\ f(i).phase = s[i].phase
             /\ f(i).property = s[i].property /\ f(i).result = s[i].result
  <2>1. s[i] \in Commands
    OBVIOUS
  <2> QED BY <2>1 DEF Commands
<1>2. Forget(s, generations) = [i \in DOMAIN s |-> f(i)]
  BY DEF Forget
<1> HIDE DEF f
<1>3. [i \in DOMAIN s |-> f(i)] \in Seq(Commands)
  BY <1>1
<1> QED BY <1>1, <1>2, <1>3

\* The invariant holds at first and over every action.
LEMMA InitBufferInv == BufferInit => BufferInv
<1> SUFFICES ASSUME BufferInit PROVE BufferInv
  OBVIOUS
<1>1. FreshRecord \in Records /\ RecordSound(FreshRecord)
  BY DEF FreshRecord, Records, RecordSound, States, Results
<1>2. Retired \in [generation : 0 .. MaxGeneration, record : [Phases -> Records]]
      /\ \A p \in Phases : Retired.record[p] = FreshRecord
  BY <1>1, BufferBounds DEF Retired
<1>3. PhaseTypes
  <2>1. << >> \in Seq(Commands)
    OBVIOUS
  <2>2. [p \in Properties |-> "Default"] \in [Properties -> Phases \cup {"Default"}]
    OBVIOUS
  <2>3. generation \in 0 .. MaxGeneration
    BY BufferBounds DEF BufferInit
  <2> QED BY <1>2, <2>1, <2>2, <2>3 DEF BufferInit, PhaseTypes, States, Phases
<1>4. GateSound
  BY <1>1, <1>2 DEF BufferInit, GateSound, Retired, NoTarget, Load
<1>5. ResultsKnown /\ LastWordIsOwn /\ AwaitedIsComing
  BY DEF BufferInit, ResultsKnown, LastWordIsOwn, AwaitedIsComing, Playing
<1> QED BY <1>3, <1>4, <1>5 DEF BufferInv

\* The load that plays, when it is one of the latest channel.
LEMMA TargetTyped ==
  ASSUME BufferInv, Playing, target.generation = generation
  PROVE  /\ target \in Loads /\ generation \in 1 .. MaxGeneration /\ target.load \in 1 .. MaxLoad
         /\ target = Load(generation, target.load)
BY BufferBounds DEF BufferInv, PhaseTypes, Playing, NoTarget, Loads, Load

LEMMA KeepsInv ==
  ASSUME BufferInv, UNCHANGED <<generation, target, backend, gate, buffer_phase, command_state,
           journal, sent, answers, value, refused, lost>>
  PROVE  BufferInv'
<1>1. PhaseTypes' /\ GateSound' /\ ResultsKnown'
  BY DEF BufferInv, PhaseTypes, GateSound, ResultsKnown
<1>2. LastWordIsOwn'
  BY DEF BufferInv, LastWordIsOwn, LastWord, Playing
<1>3. AwaitedIsComing'
  BY DEF BufferInv, AwaitedIsComing, OnItsWay, Playing
<1> QED BY <1>1, <1>2, <1>3 DEF BufferInv

LEMMA PlayChannelStep == ASSUME BufferInv, PlayChannel PROVE BufferInv'
<1>1. generation + 1 \in 1 .. MaxGeneration /\ generation' = generation + 1
  BY BufferBounds DEF BufferInv, PhaseTypes, PlayChannel
<1>2. CASE backend
  <2>1. Load(generation + 1, 1) \in Loads
    BY <1>1, <1>2, BufferBounds DEF Load, Loads
  <2>2. /\ StartLoad(Load(generation + 1, 1), sent, journal)
        /\ generation' \in 0 .. MaxGeneration /\ backend' \in BOOLEAN
        /\ answers' = answers /\ value' = value
    BY <1>1, <1>2 DEF PlayChannel, BufferInv, PhaseTypes
  <2> QED BY <2>1, <2>2, LoadStarted DEF BufferInv, PhaseTypes, ResultsKnown
<1>3. CASE ~backend
  <2>1. UNCHANGED <<target, backend, gate, buffer_phase, command_state,
           journal, sent, answers, value, refused, lost>> /\ generation' \in 0 .. MaxGeneration
    BY <1>1, <1>3 DEF PlayChannel, bufferHistory
  <2>2. PhaseTypes' /\ GateSound' /\ ResultsKnown'
    BY <2>1 DEF BufferInv, PhaseTypes, GateSound, ResultsKnown
  <2>3. LastWordIsOwn'
    BY <2>1 DEF BufferInv, LastWordIsOwn, LastWord, Playing
  <2>4. AwaitedIsComing'
    BY <2>1 DEF BufferInv, AwaitedIsComing, OnItsWay, Playing
  <2> QED BY <2>2, <2>3, <2>4 DEF BufferInv
<1> QED BY <1>2, <1>3

LEMMA ReopenStep == ASSUME BufferInv, Reopen PROVE BufferInv'
<1>1. /\ Playing /\ target.generation = generation /\ target.load < MaxLoad
      /\ StartLoad(Load(generation, target.load + 1), sent, journal)
      /\ UNCHANGED <<generation, backend, answers, value>>
  BY DEF Reopen, Reloads
<1>2. Load(generation, target.load + 1) \in Loads
  BY <1>1, TargetTyped, BufferBounds DEF Load, Loads
<1> QED BY <1>1, <1>2, LoadStarted DEF BufferInv, PhaseTypes, ResultsKnown

LEMMA RecreateStep == ASSUME BufferInv, Recreate PROVE BufferInv'
<1>1. /\ Playing /\ target.generation = generation /\ target.load < MaxLoad
      /\ backend' \in BOOLEAN /\ answers' = << >> /\ generation' = generation
      /\ value' = [p \in Properties |-> "Default"]
  BY DEF Recreate, Reloads
<1>2. << >> \in Seq(Commands) /\ value' \in [Properties -> Phases \cup {"Default"}]
      /\ generation' \in 0 .. MaxGeneration
  BY <1>1 DEF BufferInv, PhaseTypes
<1>3. CASE backend'
  <2>1. StartLoad(Load(generation, target.load + 1), << >>, << >>)
    BY <1>3 DEF Recreate
  <2>2. Load(generation, target.load + 1) \in Loads
    BY <1>1, TargetTyped, BufferBounds DEF Load, Loads
  <2>3. /\ \A i \in DOMAIN << >> : << >>[i].result # "None"
        /\ answers' \in Seq(Commands) /\ \A i \in DOMAIN answers' : answers'[i].result # "None"
    BY <1>1
  <2>4. PhaseTypes
    BY DEF BufferInv
  <2> QED BY <1>1, <1>2, <2>1, <2>2, <2>3, <2>4, LoadStarted
<1>4. CASE ~backend'
  <2>1. /\ sent' = << >> /\ journal' = << >> /\ lost' = TRUE
        /\ UNCHANGED <<target, gate, buffer_phase, command_state, refused>>
    BY <1>4 DEF Recreate
  <2>2. PhaseTypes' /\ GateSound' /\ ResultsKnown'
    BY <1>1, <1>2, <2>1 DEF BufferInv, PhaseTypes, GateSound, ResultsKnown
  <2>3. LastWordIsOwn' /\ AwaitedIsComing'
    BY <1>4, <2>1 DEF LastWordIsOwn, AwaitedIsComing
  <2> QED BY <2>2, <2>3 DEF BufferInv
<1> QED BY <1>1, <1>3, <1>4

LEMMA StopStep == ASSUME BufferInv, StopChannel PROVE BufferInv'
<1> DEFINE rest == {i \in DOMAIN journal : journal[i].load.generation # generation}
<1>1. /\ Playing /\ target.generation = generation /\ target' = NoTarget
      /\ gate' = Retire(gate, generation)
      /\ buffer_phase' = "Zap" /\ command_state' = "Unissued"
      /\ sent' = Forget(sent, {generation}) /\ answers' = Forget(answers, {generation})
      /\ journal' = MembersAt(journal, rest)
      /\ UNCHANGED <<generation, backend, value, refused, lost>>
  BY DEF StopChannel, bufferHistory
<1>2. gate' = Retired
  BY <1>1 DEF Retire, BufferInv, GateSound
<1>3. rest \in SUBSET DOMAIN journal
  OBVIOUS
<1>4. sent \in Seq(Commands) /\ answers \in Seq(Commands) /\ journal \in Seq(Commands)
  BY DEF BufferInv, PhaseTypes
<1> HIDE DEF rest
<1>5. journal' \in Seq(Commands) /\ \A i \in DOMAIN journal' : journal'[i].result # "None"
  BY <1>1, <1>3, <1>4, MembersStay DEF BufferInv, ResultsKnown
<1>6. sent' \in Seq(Commands) /\ answers' \in Seq(Commands)
      /\ \A i \in DOMAIN answers' : answers'[i].result # "None"
  BY <1>1, <1>4, ForgetKeeps DEF BufferInv, ResultsKnown
<1>7. FreshRecord \in Records /\ RecordSound(FreshRecord)
  BY DEF FreshRecord, Records, RecordSound, States, Results
<1>8. Retired \in [generation : 0 .. MaxGeneration, record : [Phases -> Records]]
      /\ \A p \in Phases : Retired.record[p] = FreshRecord
  BY <1>7, BufferBounds DEF Retired
<1>9. PhaseTypes'
  BY <1>1, <1>2, <1>5, <1>6, <1>8 DEF BufferInv, PhaseTypes, Phases, States
<1>10. GateSound'
  BY <1>1, <1>2, <1>7, <1>8 DEF GateSound, Retired, NoTarget, Load
<1>11. ResultsKnown' /\ LastWordIsOwn' /\ AwaitedIsComing'
  BY <1>1, <1>5, <1>6 DEF ResultsKnown, LastWordIsOwn, AwaitedIsComing, Playing
<1> QED BY <1>9, <1>10, <1>11 DEF BufferInv

LEMMA FailStep == ASSUME BufferInv, FailBackend PROVE BufferInv'
<1> DEFINE all == 1 .. MaxGeneration
<1>1. /\ sent' = Forget(sent, all) /\ answers' = Forget(answers, all) /\ lost' = TRUE
      /\ UNCHANGED <<generation, target, backend, gate, buffer_phase, command_state, journal,
                      value, refused>>
  BY DEF FailBackend, playerVars
<1> HIDE DEF all
<1>2. sent \in Seq(Commands) /\ answers \in Seq(Commands)
  BY DEF BufferInv, PhaseTypes
<1>3. /\ sent' \in Seq(Commands) /\ DOMAIN sent' = DOMAIN sent
      /\ \A i \in DOMAIN sent : /\ sent'[i].load = sent[i].load
                                /\ sent'[i].phase = sent[i].phase
                                /\ sent'[i].property = sent[i].property
  BY <1>1, <1>2, ForgetKeeps
<1>4. answers' \in Seq(Commands) /\ \A i \in DOMAIN answers' : answers'[i].result # "None"
  BY <1>1, <1>2, ForgetKeeps DEF BufferInv, ResultsKnown
<1>5. PhaseTypes' /\ GateSound' /\ ResultsKnown' /\ AwaitedIsComing'
  BY <1>1, <1>3, <1>4 DEF BufferInv, PhaseTypes, GateSound, ResultsKnown, AwaitedIsComing
<1>6. ASSUME NEW p \in Properties, LastWord(p) PROVE LastWord(p)'
  BY <1>1, <1>3, <1>6 DEF LastWord
<1>7. LastWordIsOwn'
  BY <1>1, <1>6 DEF BufferInv, LastWordIsOwn, Playing
<1> QED BY <1>5, <1>7 DEF BufferInv

LEMMA SteadyStep == ASSUME BufferInv, ApplySteady PROVE BufferInv'
<1>1. /\ Playing /\ target.generation = generation /\ backend
      /\ MayBegin(gate, generation, "Steady")
      /\ ApplyPhase(gate, target, "Steady", sent, journal)
      /\ UNCHANGED <<generation, target, backend, answers, value, lost>>
  BY DEF ApplySteady
<1>2. target \in Loads /\ PhaseTypes /\ GateSound /\ ResultsKnown /\ AwaitedIsComing
  BY <1>1, TargetTyped DEF BufferInv
<1>3. /\ gate' = Begin(gate, "Steady") /\ buffer_phase' = "Steady" /\ command_state' = "Pending"
      /\ Issue(target, "Steady", sent, journal)
  BY <1>1 DEF ApplyPhase
<1>4. "Steady" \in Phases /\ "Pending" \in States
  BY DEF Phases, States
<1>5. /\ sent' \in Seq(Commands) /\ journal' \in Seq(Commands) /\ refused' \in BOOLEAN
      /\ \A i \in DOMAIN journal' : journal'[i].result # "None"
      /\ \A i \in DOMAIN sent : i \in DOMAIN sent' /\ sent'[i] = sent[i]
      /\ \A i \in DOMAIN journal : i \in DOMAIN journal' /\ journal'[i] = journal[i]
      /\ ~refused' => \A p \in Properties : LastWord(p)'
      /\ \A p \in Properties : \/ \E i \in DOMAIN sent' : Tells(sent'[i], target, "Steady", p)
                               \/ \E i \in DOMAIN journal' : Tells(journal'[i], target, "Steady", p)
  BY <1>1, <1>2, <1>3, <1>4, IssuedIsComing DEF PhaseTypes, ResultsKnown
<1> DEFINE was == gate.record["Steady"]
           pending == [was EXCEPT !.state = "Pending"]
<1>6. was \in Records /\ was.state = "Unissued" /\ RecordSound(was)
  BY <1>1, <1>2, <1>4 DEF PhaseTypes, GateSound, MayBegin
<1>7. pending \in Records /\ pending.state = "Pending" /\ pending.result = was.result
      /\ \A p \in Properties : was.result[p] = "None"
  BY <1>4, <1>6 DEF Records, RecordSound
<1>8. RecordSound(pending)
  BY <1>7 DEF RecordSound, Properties
<1> HIDE DEF was
<1>9. /\ gate' \in [generation : 0 .. MaxGeneration, record : [Phases -> Records]]
      /\ gate'.generation = gate.generation
      /\ gate'.record["Steady"] = pending
      /\ \A phase \in Phases \ {"Steady"} : gate'.record[phase] = gate.record[phase]
  <2>1. gate' = [gate EXCEPT !.record["Steady"].state = "Pending"]
    BY <1>3 DEF Begin
  <2>2. gate' = [gate EXCEPT !.record = [gate.record EXCEPT !["Steady"] = pending]]
    BY <2>1 DEF was
  <2>3. gate \in [generation : 0 .. MaxGeneration, record : [Phases -> Records]]
    BY <1>2 DEF PhaseTypes
  <2> HIDE DEF pending
  <2> QED BY <2>2, <2>3, <1>4, <1>7
<1> HIDE DEF pending
<1>10. PhaseTypes'
  BY <1>1, <1>2, <1>3, <1>4, <1>5, <1>9 DEF PhaseTypes
<1>11. GateSound'
  BY <1>1, <1>2, <1>8, <1>9 DEF GateSound
<1>12. ResultsKnown' /\ LastWordIsOwn'
  BY <1>1, <1>2, <1>5 DEF ResultsKnown, LastWordIsOwn
<1>13. AwaitedIsComing'
  <2> SUFFICES ASSUME ~lost, NEW phase \in Phases, NEW p \in Properties, Waits(gate', phase, p)
               PROVE  OnItsWay(phase, p)'
    BY <1>1 DEF AwaitedIsComing
  <2>1. CASE phase = "Steady"
    BY <2>1, <1>1, <1>5 DEF OnItsWay
  <2>2. CASE phase # "Steady"
    <3>1. Waits(gate, phase, p)
      BY <2>2, <1>9 DEF Waits
    <3>2. OnItsWay(phase, p)
      BY <3>1, <1>1, <1>2 DEF AwaitedIsComing
    <3> QED BY <3>2, <1>1, <1>5 DEF OnItsWay
  <2> QED BY <2>1, <2>2
<1> QED BY <1>10, <1>11, <1>12, <1>13 DEF BufferInv

\* What was waited for and is not told by this turn's results is still coming.
LEMMA TurnStep == ASSUME BufferInv, BufferTurn PROVE BufferInv'
<1> USE DEF BufferInv
<1>1. PICK results \in Seq(Commands) :
        /\ HandOver(results)
        /\ \A i \in DOMAIN results : results[i].result # "None"
        /\ answers' \in Seq(Commands) /\ \A i \in DOMAIN answers' : answers'[i].result # "None"
        /\ \A i \in DOMAIN journal : i \in DOMAIN results /\ results[i] = journal[i]
        /\ \A i \in DOMAIN answers :
             \/ \E j \in DOMAIN answers' : answers'[j] = answers[i]
             \/ answers[i].tracked => \E j \in DOMAIN results : results[j] = answers[i]
  <2>1. CASE answers # << >> /\ answers' = Tail(answers)
             /\ HandOver(journal \o IF Head(answers).tracked THEN <<Head(answers)>> ELSE << >>)
    <3> DEFINE reply == IF Head(answers).tracked THEN <<Head(answers)>> ELSE << >>
               results == journal \o reply
    <3>1. journal \in Seq(Commands) /\ answers \in Seq(Commands)
      BY DEF PhaseTypes
    <3>2. /\ Tail(answers) \in Seq(Commands) /\ Head(answers) = answers[1]
          /\ Head(answers) \in Commands /\ 1 \in DOMAIN answers
          /\ \A i \in DOMAIN Tail(answers) : i + 1 \in DOMAIN answers /\ Tail(answers)[i] = answers[i + 1]
          /\ \A i \in DOMAIN answers : i # 1 =>
               i - 1 \in DOMAIN Tail(answers) /\ Tail(answers)[i - 1] = answers[i]
      BY <2>1, <3>1, RestOf
    <3>3. /\ reply \in Seq(Commands)
          /\ \A i \in DOMAIN reply : reply[i] = Head(answers)
          /\ Head(answers).tracked => 1 \in DOMAIN reply /\ reply[1] = Head(answers)
      BY <3>2
    <3>4. /\ results \in Seq(Commands)
          /\ \A i \in DOMAIN journal : i \in DOMAIN results /\ results[i] = journal[i]
          /\ \A i \in DOMAIN reply : /\ i + Len(journal) \in DOMAIN results
                                     /\ results[i + Len(journal)] = reply[i]
          /\ \A k \in DOMAIN results :
              \/ k \in DOMAIN journal
              \/ /\ k > Len(journal) /\ k - Len(journal) \in DOMAIN reply
                 /\ results[k] = reply[k - Len(journal)]
      <4> HIDE DEF reply
      <4> QED BY <3>1, <3>3, Behind
    <3>5. HandOver(results)
      BY <2>1
    <3> HIDE DEF reply, results
    <3>6. \A i \in DOMAIN results : results[i].result # "None"
      BY <3>2, <3>3, <3>4 DEF ResultsKnown
    <3>7. answers' \in Seq(Commands) /\ \A i \in DOMAIN answers' : answers'[i].result # "None"
      BY <2>1, <3>2 DEF ResultsKnown
    <3>8. \A i \in DOMAIN answers :
             \/ \E j \in DOMAIN answers' : answers'[j] = answers[i]
             \/ answers[i].tracked => \E j \in DOMAIN results : results[j] = answers[i]
      <4> SUFFICES ASSUME NEW i \in DOMAIN answers
                   PROVE  \/ \E j \in DOMAIN answers' : answers'[j] = answers[i]
                          \/ answers[i].tracked => \E j \in DOMAIN results : results[j] = answers[i]
        OBVIOUS
      <4>1. CASE i = 1
        <5>1. answers[i] = Head(answers)
          BY <3>2, <4>1
        <5>2. Head(answers).tracked => /\ 1 + Len(journal) \in DOMAIN results
                                       /\ results[1 + Len(journal)] = Head(answers)
          BY <3>3, <3>4
        <5> QED BY <5>1, <5>2
      <4>2. CASE i # 1
        BY <4>2, <2>1, <3>2
      <4> QED BY <4>1, <4>2
    <3> QED BY <3>4, <3>5, <3>6, <3>7, <3>8
  <2>2. CASE journal # << >> /\ answers' = answers /\ HandOver(journal)
    BY <2>2 DEF PhaseTypes, ResultsKnown
  <2> QED BY <2>1, <2>2 DEF BufferTurn
<1>2. UNCHANGED <<generation, target, backend, buffer_phase, sent, value, refused, lost>>
  BY DEF BufferTurn
<1>3. /\ GateTyped(gate') /\ gate'.generation = gate.generation
      /\ command_state' \in States /\ journal' = << >>
      /\ Unanswered(gate', results, Len(results))
  BY <1>1, HandsOver
<1>4. << >> \in Seq(Commands)
  OBVIOUS
<1>5. PhaseTypes'
  BY <1>1, <1>2, <1>3, <1>4 DEF PhaseTypes, GateTyped
<1>6. GateSound'
  BY <1>2, <1>3 DEF GateSound, GateTyped
<1>7. ResultsKnown'
  BY <1>1, <1>3 DEF ResultsKnown
<1>8. LastWordIsOwn'
  BY <1>2 DEF LastWordIsOwn, LastWord, Playing
<1>9. AwaitedIsComing'
  <2> SUFFICES ASSUME Playing, ~lost, NEW phase \in Phases, NEW p \in Properties,
                      Waits(gate', phase, p)
               PROVE  OnItsWay(phase, p)'
    BY <1>2 DEF AwaitedIsComing, Playing
  <2>1. /\ Waits(gate, phase, p)
        /\ \A i \in 1 .. Len(results) :
             ~(/\ results[i].load.generation = gate.generation
               /\ results[i].phase = phase /\ results[i].property = p)
    BY <1>3 DEF Unanswered
  <2>2. OnItsWay(phase, p)
    BY <2>1 DEF AwaitedIsComing
  <2>3. DOMAIN results = 1 .. Len(results)
    BY <1>1
  <2>4. \A i \in DOMAIN results : ~Tells(results[i], target, phase, p)
    BY <2>1, <2>3 DEF Tells, GateSound
  <2>5. ~\E i \in DOMAIN journal : Tells(journal[i], target, phase, p)
    BY <2>4, <1>1
  <2>6. CASE \E i \in DOMAIN sent : Tells(sent[i], target, phase, p)
    BY <2>6, <1>2 DEF OnItsWay
  <2>7. CASE \E i \in DOMAIN answers : Tells(answers[i], target, phase, p)
    <3>1. PICK i \in DOMAIN answers : Tells(answers[i], target, phase, p)
      BY <2>7
    <3>2. answers[i].tracked
      BY <3>1 DEF Tells
    <3>3. ~\E j \in DOMAIN results : results[j] = answers[i]
      BY <2>4, <3>1
    <3>4. PICK j \in DOMAIN answers' : answers'[j] = answers[i]
      BY <1>1, <3>2, <3>3
    <3> QED BY <3>1, <3>4, <1>2 DEF OnItsWay
  <2> QED BY <2>2, <2>5, <2>6, <2>7 DEF OnItsWay
<1> QED BY <1>5, <1>6, <1>7, <1>8, <1>9

\* The command that is run has set its property and left its answer.
LEMMA RunStep == ASSUME BufferInv, MpvRuns PROVE BufferInv'
<1> DEFINE c == Head(sent)
<1>1. PICK result \in Results \ {"None"} :
        /\ sent # << >> /\ sent' = Tail(sent) /\ answers' = Append(answers, Answered(c, result))
        /\ value' = IF result = "Accepted" THEN [value EXCEPT ![c.property] = c.phase] ELSE value
        /\ refused' = (refused \/ (result = "Refused" /\ c.load = target))
        /\ UNCHANGED <<generation, target, backend, gate, buffer_phase, command_state, journal, lost>>
  BY DEF MpvRuns, playerVars
<1>2. /\ sent \in Seq(Commands) /\ answers \in Seq(Commands)
      /\ value \in [Properties -> Phases \cup {"Default"}]
      /\ PhaseTypes /\ GateSound /\ ResultsKnown /\ LastWordIsOwn /\ AwaitedIsComing
  BY DEF BufferInv, PhaseTypes
<1>3. /\ Tail(sent) \in Seq(Commands) /\ c = sent[1] /\ c \in Commands /\ 1 \in DOMAIN sent
      /\ \A i \in DOMAIN Tail(sent) : i + 1 \in DOMAIN sent /\ Tail(sent)[i] = sent[i + 1]
      /\ \A i \in DOMAIN sent : i # 1 => i - 1 \in DOMAIN Tail(sent) /\ Tail(sent)[i - 1] = sent[i]
  BY <1>1, <1>2, RestOf
<1> HIDE DEF c
<1>4. /\ Answered(c, result) \in Commands /\ Answered(c, result).result # "None"
      /\ \A load, phase, p : Tells(c, load, phase, p) => Tells(Answered(c, result), load, phase, p)
  BY <1>3 DEF Answered, Commands, Tells
<1>5. /\ answers' \in Seq(Commands)
      /\ \A i \in DOMAIN answers : i \in DOMAIN answers' /\ answers'[i] = answers[i]
      /\ \E k \in DOMAIN answers' : answers'[k] = Answered(c, result)
      /\ \A k \in DOMAIN answers' : k \in DOMAIN answers \/ answers'[k] = Answered(c, result)
  <2> DEFINE a == Answered(c, result)
  <2>1. a \in Commands /\ answers' = Append(answers, a)
    BY <1>1, <1>4
  <2> HIDE DEF a
  <2>2. answers' \in Seq(Commands) /\ Len(answers) \in Nat
        /\ DOMAIN answers' = 1 .. Len(answers) + 1 /\ DOMAIN answers = 1 .. Len(answers)
        /\ answers'[Len(answers) + 1] = a
        /\ \A i \in DOMAIN answers : answers'[i] = answers[i]
    BY <2>1, <1>2
  <2>3. Len(answers) + 1 \in DOMAIN answers'
    BY <2>2
  <2>4. \A k \in DOMAIN answers' : k \in DOMAIN answers \/ k = Len(answers) + 1
    BY <2>2
  <2>5. \A i \in DOMAIN answers : i \in DOMAIN answers'
    BY <2>2
  <2> QED BY <2>2, <2>3, <2>4, <2>5 DEF a
<1>6. c.property \in Properties /\ c.phase \in Phases
  BY <1>3 DEF Commands
<1>7. /\ value' \in [Properties -> Phases \cup {"Default"}]
      /\ \A p \in Properties : p # c.property => value'[p] = value[p]
      /\ result = "Accepted" => value'[c.property] = c.phase
  BY <1>1, <1>2, <1>6
<1>8. refused' \in BOOLEAN
  BY <1>1, <1>2 DEF PhaseTypes
<1>9. PhaseTypes'
  BY <1>1, <1>2, <1>3, <1>5, <1>7, <1>8 DEF PhaseTypes
<1>10. GateSound' /\ ResultsKnown'
  BY <1>1, <1>2, <1>4, <1>5 DEF GateSound, ResultsKnown
<1>11. AwaitedIsComing'
  <2> SUFFICES ASSUME Playing, ~lost, NEW phase \in Phases, NEW p \in Properties,
                      Waits(gate, phase, p)
               PROVE  OnItsWay(phase, p)'
    BY <1>1 DEF AwaitedIsComing, Playing
  <2>1. OnItsWay(phase, p)
    BY <1>2 DEF AwaitedIsComing
  <2>2. CASE \E i \in DOMAIN sent : Tells(sent[i], target, phase, p)
    <3>1. PICK i \in DOMAIN sent : Tells(sent[i], target, phase, p)
      BY <2>2
    <3>2. CASE i = 1
      BY <3>1, <3>2, <1>1, <1>3, <1>4, <1>5 DEF OnItsWay
    <3>3. CASE i # 1
      BY <3>1, <3>3, <1>1, <1>3 DEF OnItsWay
    <3> QED BY <3>2, <3>3
  <2>3. CASE \E i \in DOMAIN answers : Tells(answers[i], target, phase, p)
    BY <2>3, <1>1, <1>5 DEF OnItsWay
  <2>4. CASE \E i \in DOMAIN journal : Tells(journal[i], target, phase, p)
    BY <2>4, <1>1 DEF OnItsWay
  <2> QED BY <2>1, <2>2, <2>3, <2>4 DEF OnItsWay
<1>12. LastWordIsOwn'
  <2> SUFFICES ASSUME Playing, backend, ~refused', NEW p \in Properties PROVE LastWord(p)'
    BY <1>1 DEF LastWordIsOwn, Playing
  <2>1. LastWord(p) /\ (result = "Accepted" \/ c.load # target)
    BY <1>1, <1>2 DEF LastWordIsOwn, Results
  <2>2. DOMAIN sent = 1 .. Len(sent) /\ DOMAIN Tail(sent) \subseteq Nat /\ Len(sent) \in Nat
    BY <1>2, <1>3
  <2>3. CASE value[p] = buffer_phase /\ \A i \in DOMAIN sent : sent[i].property # p
    <3>1. p # c.property /\ \A i \in DOMAIN Tail(sent) : Tail(sent)[i].property # p
      BY <2>3, <1>3
    <3> QED BY <3>1, <2>3, <1>1, <1>7 DEF LastWord
  <2>4. CASE \E i \in DOMAIN sent :
               /\ sent[i].load = target /\ sent[i].property = p /\ sent[i].phase = buffer_phase
               /\ \A j \in DOMAIN sent : j > i => sent[j].property # p
    <3>1. PICK i \in DOMAIN sent :
               /\ sent[i].load = target /\ sent[i].property = p /\ sent[i].phase = buffer_phase
               /\ \A j \in DOMAIN sent : j > i => sent[j].property # p
      BY <2>4
    <3>2. CASE i = 1
      <4>1. value'[p] = buffer_phase
        BY <2>1, <3>1, <3>2, <1>3, <1>7
      <4>2. \A j \in DOMAIN Tail(sent) : Tail(sent)[j].property # p
        <5> SUFFICES ASSUME NEW j \in DOMAIN Tail(sent) PROVE Tail(sent)[j].property # p
          OBVIOUS
        <5>1. j + 1 \in DOMAIN sent /\ Tail(sent)[j] = sent[j + 1] /\ j \in Nat
          BY <1>3, <2>2
        <5>2. j + 1 > 1
          BY <5>1, <2>2
        <5> QED BY <5>1, <5>2, <3>1, <3>2
      <4> QED BY <4>1, <4>2, <1>1 DEF LastWord
    <3>3. CASE i # 1
      <4>1. i - 1 \in DOMAIN Tail(sent) /\ Tail(sent)[i - 1] = sent[i]
        BY <3>3, <1>3
      <4>2. ASSUME NEW j \in DOMAIN Tail(sent), j > i - 1 PROVE Tail(sent)[j].property # p
        <5>1. j + 1 \in DOMAIN sent /\ Tail(sent)[j] = sent[j + 1]
          BY <1>3
        <5>2. j + 1 > i
          BY <4>2, <2>2
        <5> QED BY <5>1, <5>2, <3>1
      <4> QED BY <4>1, <4>2, <3>1, <1>1 DEF LastWord
    <3> QED BY <3>2, <3>3
  <2> QED BY <2>1, <2>3, <2>4 DEF LastWord
<1> QED BY <1>9, <1>10, <1>11, <1>12 DEF BufferInv

\* The invariant says what the properties do.
LEMMA BufferSettled == BufferInv => BufferTypeOK /\ PhaseSettles
<1> SUFFICES ASSUME BufferInv PROVE BufferTypeOK /\ PhaseSettles
  OBVIOUS
<1>1. PhaseTypes /\ GateSound /\ LastWordIsOwn /\ AwaitedIsComing
  BY DEF BufferInv
<1>2. LatestPhaseWins
  <2> SUFFICES ASSUME Playing, backend, Own(sent) = {}, ~refused, NEW p \in Properties
               PROVE  value[p] = buffer_phase
    BY DEF LatestPhaseWins
  <2>1. \A i \in DOMAIN sent : sent[i].load # target
    BY DEF Own, Range
  <2> QED BY <1>1, <2>1 DEF LastWordIsOwn, LastWord
<1>3. NothingPendingForever
  <2> SUFFICES ASSUME Playing, ~lost, NEW phase \in Phases,
                      gate.record[phase].state = "Pending"
               PROVE  /\ {p \in Properties : gate.record[phase].result[p] = "None"} # {}
                      /\ \A p \in Properties : gate.record[phase].result[p] = "None" =>
                           \E c \in UNION {Own(sent), Own(answers), Range(journal)} :
                             c.phase = phase /\ c.property = p /\ c.tracked
    BY DEF NothingPendingForever
  <2>1. \E p \in Properties : gate.record[phase].result[p] = "None"
    BY <1>1 DEF GateSound, RecordSound
  <2>2. ASSUME NEW p \in Properties, gate.record[phase].result[p] = "None"
        PROVE  \E c \in UNION {Own(sent), Own(answers), Range(journal)} :
                 c.phase = phase /\ c.property = p /\ c.tracked
    <3>1. OnItsWay(phase, p)
      BY <1>1, <2>2 DEF AwaitedIsComing, Waits
    <3>2. CASE \E i \in DOMAIN sent : Tells(sent[i], target, phase, p)
      BY <3>2 DEF Own, Range, Tells
    <3>3. CASE \E i \in DOMAIN answers : Tells(answers[i], target, phase, p)
      BY <3>3 DEF Own, Range, Tells
    <3>4. CASE \E i \in DOMAIN journal : Tells(journal[i], target, phase, p)
      BY <3>4 DEF Range, Tells
    <3> QED BY <3>1, <3>2, <3>3, <3>4 DEF OnItsWay
  <2> QED BY <2>1, <2>2
<1>4. BufferTypeOK
  <2>1. target \in [generation : 0 .. MaxGeneration, load : 0 .. MaxLoad]
    BY <1>1, BufferBounds DEF PhaseTypes, Loads, NoTarget, Load
  <2>2. \A s \in Seq(Commands) : Range(s) \subseteq Commands
    BY DEF Range
  <2>3. UNION {Range(journal), Range(sent), Range(answers)} \subseteq Commands
    BY <1>1, <2>2 DEF PhaseTypes
  <2>4. gate.record \in [Phases -> [state : States, result : [Properties -> Results]]]
    BY <1>1 DEF PhaseTypes, Records
  <2> QED BY <1>1, <2>1, <2>3, <2>4 DEF BufferTypeOK, PhaseTypes, GateSound
<1> QED BY <1>2, <1>3, <1>4 DEF PhaseSettles

LEMMA BufferNextKeepsInv == ASSUME BufferInv, [BufferNext]_bufferVars PROVE BufferInv'
<1>1. CASE UNCHANGED bufferVars
  BY <1>1, KeepsInv DEF bufferVars, playerVars, mpvVars, bufferHistory
<1>2. CASE BufferNext
  BY <1>2, PlayChannelStep, ReopenStep, RecreateStep, StopStep, SteadyStep, FailStep,
     TurnStep, RunStep
     DEF BufferNext
<1> QED BY <1>1, <1>2

LEMMA BufferInvariant == BufferSpec => []BufferInv
BY InitBufferInv, BufferNextKeepsInv, PTL DEF BufferSpec

(* PhaseSettles for any number of channels, loads and results under way:   *)
(* apply_buffer_phase, the gate (player/buffer_phase_gate.hpp) and the      *)
(* pump leave no phase pending for ever, and the properties of mpv end up   *)
(* set for the phase of the load.                                          *)
THEOREM PhaseAlwaysSettles == BufferSpec => []PhaseSettles
BY BufferInvariant, BufferSettled, PTL

\* The gate is the target's, and every part of the state keeps its type.
THEOREM GateIsSound == BufferSpec => []BufferTypeOK
BY BufferInvariant, BufferSettled, PTL
=============================================================================
