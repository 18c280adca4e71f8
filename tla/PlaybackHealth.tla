---------------------------- MODULE PlaybackHealth ----------------------------
(***************************************************************************)
(* The health fold of one load (core/playback_health.cpp): which samples   *)
(* make a stall, a decode stall or neither.  A sample reads the clocks it  *)
(* can; what moved while a clock could not be read shows in the next       *)
(* sample that reads it, because the fold keeps the last value it read.    *)
(*                                                                         *)
(* The movement of playback and of the cache is the world's, the readings  *)
(* are what the code sees of it.  Ages and counts stop at Limit, no less   *)
(* than what they are compared with.  Figures that only explain a verdict  *)
(* (discontinuities, frame rates, A/V offset) are left out.                *)
(***************************************************************************)
EXTENDS Integers, FiniteSetsExt

CONSTANTS
  SampleTimes,                                  \* times from a sample to the next
  Fills,                                    \* how far the cache may move
  StallConfirmation, MinStall,
  OpenConfirmation, MinOpen,
  CacheGrace, MinCache,
  DecodeConfirmation, MinDecode,            \* core::HealthPolicy
  Limit               \* bound: where ages, counts and movements stop

ASSUME HealthPolicyAssumption ==
  /\ SampleTimes \subseteq 1 .. Limit /\ Fills \subseteq Nat
  /\ {StallConfirmation, MinStall, OpenConfirmation, MinOpen, CacheGrace,
      MinCache, DecodeConfirmation, MinDecode} \subseteq 0 .. Limit
  /\ Limit \in Nat \ {0} /\ MinOpen > 0

VARIABLES
  first_frame,        \* live_sync_turn_.first_frame_seen()
  load_age, samples,  \* since load_issued_at; observations while opening
  unread,             \* movement of each clock since it was last read; a
                      \* clock that was never read is not in the domain
  stall_clock,        \* since and observations of a Stalled verdict
  cache_clock,        \* cache_pause_since and _observations
  decode_clock,       \* decode_since and _observations
  stalled, decode_stalled,   \* what the last fold returned
  still_for,          \* history: time since playback last moved
  hindered_ago,       \* history: time since a cache pause or slow input showed
  last_read,        \* history: clocks the last sample read
  steady              \* history: [look, age, count] of equal frozen samples

foldVars    == <<load_age, samples, unread, stall_clock, cache_clock, decode_clock,
                 stalled, decode_stalled>>
healthHistory == <<still_for, hindered_ago, last_read, steady>>
healthVars        == <<first_frame, foldVars, healthHistory>>

HealthClocks == {"Playback", "Cache"}
Capped(n) == IF n < Limit THEN n ELSE Limit

\* A clock that does not run.
Off == {}

NoLook == [look |-> {}, age |-> 0, count |-> 0]

\* initial_playback_health
HealthInit ==
  /\ first_frame = FALSE /\ load_age = 0 /\ samples = 0
  /\ unread = << >>
  /\ stall_clock = Off /\ cache_clock = Off /\ decode_clock = Off
  /\ stalled = FALSE /\ decode_stalled = FALSE
  /\ still_for = 0 /\ hindered_ago = 0 /\ last_read = {} /\ steady = NoLook

-----------------------------------------------------------------------------
(* What one sample shows.                                                  *)

HealthSamples == [elapsed : SampleTimes, move : {0, 1}, fill : Fills,
            read : SUBSET HealthClocks, paused : BOOLEAN, low : BOOLEAN]

MoveOf(s, clock) == IF clock = "Playback" THEN s.move ELSE s.fill

UnreadAfter(s) ==
  [clock \in s.read \cup DOMAIN unread |->
     IF clock \in s.read THEN 0 ELSE Capped(unread[clock] + MoveOf(s, clock))]

Measured(s, clock) == clock \in s.read \cap DOMAIN unread
Movement(s, clock) == unread[clock] + MoveOf(s, clock)

\* Mutant: what cannot be measured is taken for no progress.
NoProgress(s) == Measured(s, "Playback") => Movement(s, "Playback") = 0
Frozen(s)     == Measured(s, "Playback") /\ Movement(s, "Playback") = 0

Delivering(s) == Measured(s, "Cache") /\ Movement(s, "Cache") > 0
\* Mutant: a slow input is no different from a damaged stream.
ThrottledNever(s) == FALSE
Throttled(s)  == Delivering(s) /\ 10 * Movement(s, "Cache") < 9 * s.elapsed

\* Mutant: incoming data exempts an opening load.
OpeningDry(s) == ~first_frame /\ ~Delivering(s)
Opening(s) == ~first_frame

\* Mutant: a pause that receives data is a refill, however long it takes.
PauseWedgedDry(s) == first_frame /\ s.paused /\ Frozen(s) /\ ~Delivering(s)
PauseWedged(s)    == first_frame /\ s.paused /\ Frozen(s)

\* Verdict Stalled.
\* Mutant: a cache pause does not keep an empty buffer from being a stall.
StarvedInPause(s) == ~Opening(s) /\ Frozen(s) /\ s.low /\ ~Delivering(s)
Starved(s) == ~Opening(s) /\ ~s.paused /\ Frozen(s) /\ s.low /\ ~Delivering(s)

\* Verdict Degraded, for a reason other than a slow input or a cache pause.
\* Mutant: data that arrives while the buffer is low is taken for recovery.
DecodeWedgedFull(s) == ~Opening(s) /\ ~s.paused /\ Frozen(s) /\ ~s.low /\ ~Throttled(s)
DecodeWedged(s) ==
  /\ ~Opening(s) /\ ~s.paused /\ Frozen(s)
  /\ ~(s.low /\ ~Delivering(s)) /\ ~Throttled(s)

\* A clock runs on while its condition holds in every sample.
Run(clock, holds, elapsed) ==
  IF ~holds THEN Off
  ELSE IF clock = Off THEN {[age |-> 0, count |-> 1]}
  ELSE {[age |-> Capped(c.age + elapsed), count |-> Capped(c.count + 1)] : c \in clock}

Confirmed(clock, time, count) == \E c \in clock : c.age >= time /\ c.count >= count

-----------------------------------------------------------------------------
(* Steps.                                                                  *)

\* How a frozen, wholly readable sample looks to the fold.
Look(s) == {<<s.paused, s.low, Delivering(s), Throttled(s)>>}

RememberSample(s) ==
  /\ still_for' = IF s.move > 0 THEN 0 ELSE Capped(still_for + s.elapsed)
  /\ hindered_ago' =
       IF s.paused \/ (/\ "Cache" \in s.read \cap last_read
                       /\ s.fill > 0 /\ 10 * s.fill < 9 * s.elapsed)
       THEN 0 ELSE Capped(hindered_ago + s.elapsed)
  /\ last_read' = s.read
  /\ steady' = IF ~first_frame \/ ~Frozen(s) \/ ~Measured(s, "Cache") THEN NoLook
               ELSE IF steady.look = Look(s)
                    THEN [steady EXCEPT !.age = Capped(@ + s.elapsed),
                                        !.count = Capped(@ + 1)]
               ELSE [look |-> Look(s), age |-> 0, count |-> 1]

\* fold_playback_health, for an observation of this load.
FoldSample ==
  \E s \in HealthSamples :
    /\ load_age' = Capped(load_age + s.elapsed)
    /\ samples' = Capped(samples + 1)
    /\ unread' = UnreadAfter(s)
    /\ stall_clock' = Run(stall_clock, Starved(s), s.elapsed)
    /\ cache_clock' = Run(cache_clock, PauseWedged(s), s.elapsed)
    /\ decode_clock' = Run(decode_clock, DecodeWedged(s), s.elapsed)
    /\ stalled' =
         \/ Opening(s) /\ load_age' >= OpenConfirmation /\ samples' >= MinOpen
         \/ Confirmed(cache_clock', CacheGrace, MinCache)
         \/ Confirmed(stall_clock', StallConfirmation, MinStall)
    /\ decode_stalled' = Confirmed(decode_clock', DecodeConfirmation, MinDecode)
    /\ RememberSample(s)
    /\ UNCHANGED first_frame

\* The first frame of the load, between two samples.
FirstFrame ==
  /\ ~first_frame /\ first_frame' = TRUE
  /\ UNCHANGED <<foldVars, healthHistory>>

\* restart_health_supervision
RestartHealth ==
  /\ first_frame' = FALSE /\ load_age' = 0 /\ samples' = 0 /\ unread' = << >>
  /\ stall_clock' = Off /\ cache_clock' = Off /\ decode_clock' = Off
  /\ stalled' = FALSE /\ decode_stalled' = FALSE
  /\ still_for' = 0 /\ hindered_ago' = 0 /\ last_read' = {} /\ steady' = NoLook

HealthNext == FoldSample \/ FirstFrame \/ RestartHealth

HealthSpec == HealthInit /\ [][HealthNext]_healthVars

-----------------------------------------------------------------------------
(* Properties.                                                             *)

ClockType(clock) ==
  \/ clock = Off
  \/ \E age, count \in 0 .. Limit : clock = {[age |-> age, count |-> count]}

\* Every variable keeps its type, and at most one clock runs.
HealthTypeOK ==
  /\ {first_frame, stalled, decode_stalled} \subseteq BOOLEAN
  /\ {load_age, samples, still_for, hindered_ago} \subseteq 0 .. Limit
  /\ DOMAIN unread \subseteq HealthClocks /\ \A c \in DOMAIN unread : unread[c] \in 0 .. Limit
  /\ \A clock \in {stall_clock, cache_clock, decode_clock} : ClockType(clock)
  /\ Quantify({stall_clock, cache_clock, decode_clock}, LAMBDA c : c # Off) <= 1

\* Nothing an opening load shows, neither data nor a readable clock nor a cache
\* pause, puts off the end of its bounded opening.
OpeningIsBounded ==
  ~first_frame /\ load_age >= OpenConfirmation /\ samples >= MinOpen => stalled

(* A load that plays is not taken for stalled: playback has really stood   *)
(* still for the whole confirmation time, whatever could be read of it;    *)
(* and reloading for the decoder's sake needs that no cache pause and no   *)
(* slow input of that time explains it.                                    *)
VerdictIsWarranted ==
  /\ stalled => /\ stall_clock # Off => still_for >= StallConfirmation
                /\ cache_clock # Off => still_for >= CacheGrace
  /\ decode_stalled => /\ still_for >= DecodeConfirmation
                       /\ hindered_ago >= DecodeConfirmation

\* A cache pause protects a frozen picture only so long: whether data arrives
\* or not, a pause that keeps its look ends in a stall.
CachePauseIsBounded ==
  /\ \E l \in steady.look : l[1]
  /\ steady.age >= CacheGrace /\ steady.count >= MinCache
  => stalled

\* A picture frozen in one constant way, of whichever kind, is found to be one
\* stall or the other, a slow input excepted.
SteadyFreezeIsFound ==
  /\ \E l \in steady.look : ~l[4]
  /\ steady.age >= Max({StallConfirmation, CacheGrace, DecodeConfirmation})
  /\ steady.count >= Max({MinStall, MinCache, MinDecode})
  => stalled \/ decode_stalled

(* No exemption lasts: an opening load, a pause for the cache and a picture*)
(* frozen in whichever constant way all end in a verdict within their time.*)
FreezeIsFound == OpeningIsBounded /\ CachePauseIsBounded /\ SteadyFreezeIsFound

(* The fold is right both ways: a stall it finds is one, and a freeze that *)
(* lasts is found.                                                         *)
StallsAreToldFromPlayback == VerdictIsWarranted /\ FreezeIsFound
=============================================================================
