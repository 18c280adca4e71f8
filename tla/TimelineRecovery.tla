-------------------------- MODULE TimelineRecovery --------------------------
(***************************************************************************)
(* Recovery from a timeline that went back (player/timeline_recovery.cpp): *)
(* from two adjacent health samples it tells a provider that rebased its   *)
(* clock, where playback and the end of the cache move together, from      *)
(* playback that fell behind the live edge, and asks for a recovery at     *)
(* most so often.  The evidence of a sample is the health fold's (core/    *)
(* playback_health.cpp 79-97), its use the session's (player/playback_     *)
(* session.cpp 363-490).                                                   *)
(*                                                                         *)
(* `gap' is the true distance from playback to the end of the cache, known *)
(* to the code when a sample can read both.  Ages are times that passed; no *)
(* two samples are of one time, so no two decisions have one age.           *)
(***************************************************************************)
EXTENDS Integers, FiniteSets

CONSTANTS
  MaterialRewind, MaterialGap, Tolerance,       \* distances
  ConfirmationWindow, BaselineMaxAge, Cooldown, RateWindow,     \* times
  MaxRecoveries,
  Elapsed,            \* times from one sample to the next
  Moves,              \* how far playback moves between two samples
  CacheMoves,         \* how far the end of the cache moves
  Gaps                \* bound: the gaps that may be

ASSUME TimelinePolicyAssumption ==
  /\ {MaterialRewind, MaterialGap, Tolerance, ConfirmationWindow,
      BaselineMaxAge, Cooldown, RateWindow, MaxRecoveries} \subseteq Nat
  /\ Elapsed \subseteq Nat \ {0}
  /\ UNION {Moves, CacheMoves, Gaps} \subseteq Int

VARIABLES
  candidate,          \* candidate_, at most one member
  trusted,            \* trusted_live_gap_seconds_ and _at_, at most one
  decisions,          \* ages of recovery_decisions_
  cooldown_in,        \* time until cooldown_until_
  read_before,        \* what the previous sample read of playback and cache
  paused_before,      \* previous_cache_paused, FALSE when unknown
  gap,                \* the world: end of the cache minus playback
  outcome,            \* outcome of the last sample
  lowest,             \* history: lowest gap a trustworthy sample showed
  rewinds,            \* history: ages of the rewinds, of this load's evidence
  frame_ago,          \* history: time since a recovered first frame
  recovered           \* history: ages of the recoveries of this channel

recoveryVars == <<candidate, trusted, decisions, cooldown_in>>
sampleVars   == <<read_before, paused_before, gap, outcome>>
timelineHistory  == <<lowest, rewinds, frame_ago, recovered>>
timelineVars         == <<recoveryVars, sampleVars, timelineHistory>>

TimelineClocks   == {"Playback", "Cache"}
Outcomes == {"None", "CandidateArmed", "CandidateAwaitingTelemetry",
             "CandidatePersistencePending", "CandidateCleared",
             "CommonClockReset", "Recover", "SuppressedCooldown",
             "SuppressedRateLimit"}

\* A gap that was not measured.
Unknown == {}

TimelineInit ==
  /\ candidate = {} /\ trusted = {} /\ decisions = {} /\ cooldown_in = 0
  /\ read_before = {} /\ paused_before = FALSE /\ gap \in Gaps
  /\ outcome = "None"
  /\ lowest = {} /\ rewinds = {} /\ frame_ago = Cooldown /\ recovered = {}

-----------------------------------------------------------------------------
(* Ages.  What is older than every limit it is compared with is forgotten. *)

Aged(ages, elapsed, limit) ==
  {age + elapsed : age \in {a \in ages : a + elapsed <= limit}}

\* Mutant: what was found stays found.
OlderForever(records, elapsed, limit) ==
  {[r EXCEPT !.age = @ + (IF @ <= limit THEN elapsed ELSE 0)] : r \in records}
Older(records, elapsed, limit) ==
  {[r EXCEPT !.age = @ + elapsed] : r \in {q \in records : q.age + elapsed <= limit}}

Left(time, elapsed) == IF time > elapsed THEN time - elapsed ELSE 0

-----------------------------------------------------------------------------
(* Evidence of a sample s: how far playback and the cache moved in the     *)
(* time since the previous one, what could be read, and the cache pause.   *)

TimelineSamples ==
  [elapsed : Elapsed, move : Moves, cache_move : CacheMoves,
   read : SUBSET TimelineClocks, paused : BOOLEAN, eligible : BOOLEAN]

Abs(x) == IF x < 0 THEN -x ELSE x

GapAfter(s) == gap + s.cache_move - s.move

\* Movement needs the clock in both samples.
Moved(s, clock) == clock \in s.read \cap read_before
BothMoved(s)    == Moved(s, "Playback") /\ Moved(s, "Cache")
GapKnown(s)     == s.read = TimelineClocks

MaterialRewindSeen(s) ==
  Moved(s, "Playback") /\ s.move - s.elapsed <= -MaterialRewind

Coherent(s) == BothMoved(s) /\ Abs(s.cache_move - s.move) <= Tolerance

CommonClockReset(s) == MaterialRewindSeen(s) /\ Coherent(s)

RefillRelated(s) == s.paused \/ paused_before

\* Healthy is what the fold calls a sample that found playback to advance.
Healthy(s) == s.move > 0 /\ ~s.paused

Trustworthy(s) ==
  Healthy(s) /\ GapKnown(s) /\ GapAfter(s) >= -Tolerance /\ Coherent(s)

Trust(s, was) ==
  IF Trustworthy(s) THEN {[gap |-> GapAfter(s), age |-> 0]} ELSE was

-----------------------------------------------------------------------------
\* decide_recovery: the candidate is spent, whatever is decided.
Decide(s) ==
  LET taken == Aged(decisions, s.elapsed, RateWindow)
  IN  /\ candidate' = {}
      /\ outcome' = IF cooldown_in > s.elapsed THEN "SuppressedCooldown"
                    ELSE IF Cardinality(taken) >= MaxRecoveries
                    THEN "SuppressedRateLimit" ELSE "Recover"
      /\ decisions' = IF outcome' = "Recover" THEN taken \cup {0} ELSE taken

KeepDecisions(s) == decisions' = Aged(decisions, s.elapsed, RateWindow)

\* Mutant: a refill is told from a loss by its first sample.
PersistenceIgnored(c, s) == FALSE
NeedsPersistence(c, s) == c.persist \/ RefillRelated(s)

\* A candidate meets the sample after it, within the confirmation window.
Confirm(c, s, was) ==
  LET persist   == NeedsPersistence(c, s)
      measured  == GapKnown(s) /\ c.baseline # Unknown
      confirmed == \E b \in c.baseline : GapAfter(s) - b >= MaterialGap
  IN  IF CommonClockReset(s)
      THEN /\ outcome' = "CommonClockReset" /\ candidate' = {}
           /\ trusted' = Trust(s, was) /\ KeepDecisions(s)
      ELSE IF MaterialRewindSeen(s) /\ ~measured
      THEN trusted' = was /\ Decide(s)
      ELSE IF measured /\ confirmed /\ persist /\ ~c.observed
      THEN /\ outcome' = "CandidatePersistencePending"
           /\ candidate' = {[c EXCEPT !.persist = TRUE, !.observed = TRUE,
                                      !.age = 0]}
           /\ trusted' = was /\ KeepDecisions(s)
      ELSE IF measured /\ confirmed
      THEN trusted' = was /\ Decide(s)
      ELSE IF ~measured
      THEN /\ outcome' = "CandidateAwaitingTelemetry"
           /\ candidate' = {[c EXCEPT !.persist = persist]}
           /\ trusted' = was /\ KeepDecisions(s)
      ELSE /\ outcome' = "CandidateCleared" /\ candidate' = {}
           /\ trusted' = Trust(s, was) /\ KeepDecisions(s)

\* What is older than BaselineMaxAge has been dropped.
Baseline(was) == {t.gap : t \in was}

\* No candidate, or one that has expired.
Arm(s, was, otherwise) ==
  /\ KeepDecisions(s)
  /\ IF CommonClockReset(s)
     THEN outcome' = "CommonClockReset" /\ candidate' = {} /\ trusted' = was
     ELSE IF MaterialRewindSeen(s)
     THEN /\ outcome' = "CandidateArmed"
          /\ candidate' = {[age |-> 0, baseline |-> Baseline(was),
                            persist |-> RefillRelated(s), observed |-> FALSE]}
          /\ trusted' = was
     ELSE /\ outcome' = otherwise /\ candidate' = {}
          /\ trusted' = Trust(s, was)

\* Mutant: evidence survives a load that is not to be recovered.
KeepEvidence == candidate' = candidate /\ trusted' = trusted
ForgetEvidence == candidate' = {} /\ trusted' = {}

Observe(s) ==
  LET live == Older(candidate, s.elapsed, ConfirmationWindow)
      was  == Older(trusted, s.elapsed, BaselineMaxAge)
  IN  IF ~s.eligible
      THEN ForgetEvidence /\ outcome' = "None" /\ KeepDecisions(s)
      ELSE IF live # {}
      THEN \E c \in live : Confirm(c, s, was)
      ELSE Arm(s, was, IF candidate # {} THEN "CandidateCleared" ELSE "None")

-----------------------------------------------------------------------------
(* History.                                                                *)

RecordSample(s) ==
  LET aged == Aged(rewinds, s.elapsed, 2 * ConfirmationWindow)
  IN  /\ rewinds' = IF ~s.eligible THEN {}
                    ELSE IF MaterialRewindSeen(s) /\ ~CommonClockReset(s)
                    THEN aged \cup {0} ELSE aged
      /\ lowest' = IF ~s.eligible THEN {}
                   ELSE IF Healthy(s) /\ GapKnown(s) /\ Coherent(s)
                        THEN {l \in {GapAfter(s)} \cup lowest :
                                \A k \in {GapAfter(s)} \cup lowest : l <= k}
                   ELSE lowest
      /\ recovered' = LET ages == Aged(recovered, s.elapsed, RateWindow)
                      IN  IF outcome' = "Recover" THEN ages \cup {0} ELSE ages
      /\ frame_ago' = IF frame_ago + s.elapsed < Cooldown
                      THEN frame_ago + s.elapsed ELSE Cooldown

-----------------------------------------------------------------------------
(* What the session calls.                                                 *)

ObserveSample ==
  \E s \in TimelineSamples :
    /\ GapAfter(s) \in Gaps
    /\ Observe(s)
    /\ cooldown_in' = Left(cooldown_in, s.elapsed)
    /\ read_before' = s.read /\ paused_before' = s.paused
    /\ gap' = GapAfter(s)
    /\ RecordSample(s)

\* Mutant: a reload forgets the recoveries before it.
KeepsCooldown == decisions' = {} /\ UNCHANGED cooldown_in
\* Mutant: a reload ends the cooldown.
KeepsDecisions == UNCHANGED decisions /\ cooldown_in' = 0
KeepsBreaker == UNCHANGED <<decisions, cooldown_in>>

\* begin_load, with a fresh health fold.
TimelineBeginLoad ==
  /\ ForgetEvidence /\ KeepsBreaker
  /\ read_before' = {} /\ paused_before' = FALSE /\ gap' \in Gaps
  /\ outcome' = "None"
  /\ lowest' = {} /\ rewinds' = {}
  /\ UNCHANGED <<frame_ago, recovered>>

\* note_recovered_first_frame, in the load that recovered.
NoteRecoveredFirstFrame ==
  /\ cooldown_in' = Cooldown /\ frame_ago' = 0 /\ outcome' = "None"
  /\ UNCHANGED <<candidate, trusted, decisions, read_before, paused_before, gap,
                 lowest, rewinds, recovered>>

\* reset and begin_load, for a new channel.
TimelineReset ==
  /\ candidate' = {} /\ trusted' = {} /\ decisions' = {} /\ cooldown_in' = 0
  /\ read_before' = {} /\ paused_before' = FALSE /\ gap' \in Gaps
  /\ outcome' = "None"
  /\ lowest' = {} /\ rewinds' = {} /\ recovered' = {}
  /\ frame_ago' = Cooldown

TimelineNext == ObserveSample \/ TimelineBeginLoad \/ NoteRecoveredFirstFrame \/ TimelineReset

TimelineSpec == TimelineInit /\ [][TimelineNext]_timelineVars

-----------------------------------------------------------------------------
(* Properties.                                                             *)

\* Every variable keeps its type; evidence within its limits is kept.
TimelineTypeOK ==
  /\ \A c \in candidate : c.age <= ConfirmationWindow /\ c.baseline \subseteq Gaps
  /\ \A t \in trusted : t.age <= BaselineMaxAge /\ t.gap \in Gaps
  /\ Cardinality(decisions) <= MaxRecoveries /\ cooldown_in \in 0 .. Cooldown
  /\ read_before \subseteq TimelineClocks /\ paused_before \in BOOLEAN
  /\ gap \in Gaps /\ outcome \in Outcomes

(* A channel is recovered at most so often in any rate window, and never   *)
(* within the cooldown of a recovered first frame, however many loads its  *)
(* recoveries take.                                                        *)
RecoveriesLimited ==
  /\ Cardinality(recovered) <= MaxRecoveries
  /\ outcome = "Recover" => frame_ago = Cooldown

\* The gap is materially wider than the smallest one this load showed, or
\* playback went back twice while the gap could not be compared.
LostGround ==
  \/ \E l \in lowest : gap - l >= MaterialGap
  \/ 0 \in rewinds /\ rewinds # {0}

(* Playback has really fallen behind: a recovery follows a rewind that was *)
(* no rebase of the clock, and ground was lost.  While the cache refills   *)
(* a wider gap is no evidence by itself: an earlier sample of the          *)
(* candidate had shown it too.                                             *)
RecoveryIsWarranted ==
  [][outcome' = "Recover" =>
       /\ rewinds' # {} /\ LostGround'
       /\ read_before' = TimelineClocks /\ (paused_before \/ paused_before') =>
            \A c \in candidate : c.baseline # Unknown => c.observed]_timelineVars

(* A channel is reloaded for ground really lost, and for that only so      *)
(* often: neither a rebase, nor a refill, nor a recovery of its own brings *)
(* the next reload on.                                                     *)
RecoversOnlyLostGround == []RecoveriesLimited /\ RecoveryIsWarranted
=============================================================================
