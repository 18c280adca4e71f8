-------------------------- MODULE DeliveryTelemetry --------------------------
(***************************************************************************)
(* What a load's delivery is reported to have been                         *)
(* (player/delivery_telemetry.cpp, fed by player/playback_session.cpp):    *)
(* the silences of the cache end, charged to the source from the first     *)
(* sample with the buffer below its target, and not across a time in which *)
(* nobody watched.                                                         *)
(*                                                                         *)
(* The source is external: its data arrives between samples, and a sample  *)
(* shows what became of the cache end since the last one that could read   *)
(* it.  Percentiles are left out; of the gaps their sum is kept, and of    *)
(* the time of the first data that it has been.                            *)
(***************************************************************************)
EXTENDS Integers, FiniteSetsExt

CONSTANTS
  SamplingPause,      \* a longer interval between samples is a pause of theirs
  MaxTime,            \* bound of the model: how far the clock goes
  MaxDeliveryLoad     \* bound of the model: loads begun

ASSUME DeliveryAssumption == {SamplingPause, MaxTime, MaxDeliveryLoad} \subseteq Nat

Never == -1

VARIABLES
  now,
  observed_load,       \* 0: no load is observed
  delivery,           \* the observer's record of the load
  movement,           \* of the cache end since it was last readable
  arrived_at,         \* history: when data last arrived that it can show,
  shown_at,           \* the same as of the last readable sample,
  still_at,           \* and the last sample that showed none
  resumed_at          \* history: since when the load is being watched

deliveryVars == <<now, observed_load, delivery, movement, arrived_at, shown_at,
                  still_at, resumed_at>>

NewLoad ==
  [issued_at |-> now, last_movement_at |-> Never, quiet_since |-> Never,
   last_observed_at |-> Never, suspended_at |-> Never,
   still_seen |-> FALSE, unwatched |-> 0, source_gaps |-> 0]

DeliveryInit ==
  /\ now = 0 /\ observed_load = 0 /\ delivery = NewLoad
  /\ movement = "None"
  /\ arrived_at = 0 /\ shown_at = 0 /\ still_at = 0 /\ resumed_at = 0

-----------------------------------------------------------------------------
(* The source and the clock.                                               *)

Passes ==
  /\ now < MaxTime /\ now' = now + 1
  /\ UNCHANGED <<observed_load, delivery, movement, arrived_at, shown_at, still_at,
                 resumed_at>>

\* Behind a reset of the timestamps an arrival does not show.
Arrives ==
  /\ observed_load # 0 /\ movement # "Back"
  /\ movement' = "Forward" /\ arrived_at' = now
  /\ UNCHANGED <<now, observed_load, delivery, shown_at, still_at, resumed_at>>

\* What arrived and has not been seen is then not seen either.
TimestampsReset ==
  /\ observed_load # 0 /\ movement' = "Back" /\ arrived_at' = shown_at
  /\ UNCHANGED <<now, observed_load, delivery, shown_at, still_at, resumed_at>>

-----------------------------------------------------------------------------
(* The observer.                                                           *)

\* A load that replaces one, or none.
BeginDelivery ==
  /\ observed_load < MaxDeliveryLoad
  /\ observed_load' = observed_load + 1 /\ delivery' = NewLoad
  /\ movement' = "None"
  /\ arrived_at' = now /\ shown_at' = now /\ still_at' = now /\ resumed_at' = now
  /\ UNCHANGED now

\* What is known is known as of now; what never was stays so.
AsOfNow(time) == IF time = Never THEN Never ELSE now

Watched ==
  [delivery EXCEPT !.unwatched = @ + (now - delivery.suspended_at), !.suspended_at = Never,
                   !.quiet_since = AsOfNow(@), !.last_movement_at = AsOfNow(@),
                   !.last_observed_at = AsOfNow(@), !.still_seen = FALSE]

\* The load given up plays after all: begin_load of the load observed already.
\* Mutant: the silence goes on across the time nobody watched.
RevivalGoesOn ==
  /\ observed_load # 0 /\ delivery.suspended_at # Never
  /\ delivery' = [Watched EXCEPT !.quiet_since = delivery.quiet_since,
                                 !.still_seen = delivery.still_seen]
  /\ resumed_at' = now
  /\ UNCHANGED <<now, observed_load, movement, arrived_at, shown_at, still_at>>
Revive ==
  /\ observed_load # 0 /\ delivery.suspended_at # Never
  /\ delivery' = Watched /\ resumed_at' = now
  /\ UNCHANGED <<now, observed_load, movement, arrived_at, shown_at, still_at>>

\* The supervisor gives the load up.
Suspend ==
  /\ observed_load # 0 /\ delivery.suspended_at = Never
  /\ delivery' = [delivery EXCEPT !.suspended_at = now]
  /\ UNCHANGED <<now, observed_load, movement, arrived_at, shown_at, still_at,
                 resumed_at>>

EndLoad ==
  /\ observed_load # 0 /\ observed_load' = 0 /\ delivery' = NewLoad /\ movement' = "None"
  /\ UNCHANGED <<now, arrived_at, shown_at, still_at, resumed_at>>

-----------------------------------------------------------------------------
(* observe, of a sample of the load: what it shows of the cache end        *)
(* ("Missing" when that cannot be read), and of the buffer whether it is   *)
(* drained or at its target.  Health is sampled at most once a unit, while *)
(* the supervisor watches.                                                 *)

HasData == delivery.last_movement_at # Never

Seen == [delivery EXCEPT !.last_observed_at = now]

SamplingPaused ==
  delivery.last_observed_at # Never /\ now - delivery.last_observed_at > SamplingPause

\* When a silence that the sample ends is taken to have ended.
\* Mutant: it goes on across the pause in sampling.
SilenceEndsNow == now
SilenceEnded == IF SamplingPaused THEN delivery.last_observed_at ELSE now

\* A readable cache end that is not drained is data.
FirstData(at_target) ==
  [Seen EXCEPT !.last_movement_at = now,
               !.quiet_since = IF at_target THEN Never ELSE now]

Still(at_target) ==
  [Seen EXCEPT !.still_seen = TRUE,
               !.quiet_since = IF @ = Never /\ ~at_target THEN now ELSE @]

IsSourceGap == delivery.still_seen /\ delivery.quiet_since # Never

CacheEndMoved(at_target) ==
  [Seen EXCEPT
     !.source_gaps = IF IsSourceGap THEN @ + (SilenceEnded - delivery.quiet_since) ELSE @,
     !.last_movement_at = now, !.still_seen = FALSE,
     !.quiet_since = IF at_target THEN Never ELSE now]

ObserveMissing ==
  /\ delivery' = Seen
  /\ UNCHANGED <<movement, arrived_at, shown_at, still_at>>

ObserveReadable(drained, at_target) ==
  /\ movement' = "None" /\ shown_at' = arrived_at
  /\ \/ /\ ~HasData
        /\ delivery' = IF drained THEN Seen ELSE FirstData(at_target)
        /\ UNCHANGED still_at
     \/ /\ HasData /\ movement = "Back"
        /\ delivery' = Seen
        /\ UNCHANGED still_at
     \/ /\ HasData /\ movement = "None"
        /\ delivery' = Still(at_target) /\ still_at' = now
     \/ /\ HasData /\ movement = "Forward"
        /\ delivery' = CacheEndMoved(at_target)
        /\ UNCHANGED still_at
  /\ UNCHANGED arrived_at

ObserveDelivery ==
  /\ observed_load # 0 /\ delivery.suspended_at = Never
  /\ delivery.last_observed_at < now /\ delivery.issued_at < now
  /\ \/ ObserveMissing
     \/ \E drained, at_target \in BOOLEAN :
          ~(drained /\ at_target) /\ ObserveReadable(drained, at_target)
  /\ UNCHANGED <<now, observed_load, resumed_at>>

DeliveryNext ==
  Passes \/ Arrives \/ TimestampsReset \/ BeginDelivery \/ Revive \/ Suspend \/ EndLoad \/ ObserveDelivery

DeliverySpec == DeliveryInit /\ [][DeliveryNext]_deliveryVars

-----------------------------------------------------------------------------
(* summarize, of the load as it stands.                                    *)

Until ==
  Max({IF delivery.suspended_at # Never THEN delivery.suspended_at ELSE now,
       delivery.last_observed_at})
ObservedFor == Until - delivery.issued_at - delivery.unwatched
SilentAtEnd ==
  IF delivery.quiet_since # Never THEN Until - delivery.quiet_since ELSE 0

-----------------------------------------------------------------------------
(* Properties.                                                             *)

Times == -1..MaxTime

(* Every variable keeps its type, a running silence began after the last   *)
(* data a sample could show and after the load was last taken up again,    *)
(* so does what input_silence measures, and what a summary charges fits    *)
(* into the time it says was observed.                                     *)
DeliveryTypeOK ==
  /\ now \in 0..MaxTime /\ observed_load \in 0..MaxDeliveryLoad
  /\ movement \in {"None", "Forward", "Back"}
  /\ delivery.still_seen \in BOOLEAN
  /\ {delivery.issued_at, delivery.last_movement_at, delivery.quiet_since,
      delivery.last_observed_at, delivery.suspended_at} \subseteq Times
  /\ {delivery.unwatched, delivery.source_gaps} \subseteq 0..MaxTime
  /\ observed_load # 0 /\ delivery.quiet_since # Never =>
       delivery.quiet_since >= Max({shown_at, resumed_at})
  /\ observed_load # 0 /\ HasData => delivery.last_movement_at >= Max({shown_at, resumed_at})
  /\ delivery.source_gaps + SilentAtEnd <= ObservedFor

(* A silence is charged to the source only when a sample saw the cache end *)
(* still within it; it begins after the last data shown and not before the *)
(* load was last taken up, and it ends with the sample before a pause in   *)
(* sampling (delivery_telemetry.hpp: only an interval in which some sample *)
(* saw the cache end still is a silence; one that ended during a pause is  *)
(* recorded only up to the sample before it).                              *)
ChargesOnlySilence ==
  [][LET charged == delivery'.source_gaps - delivery.source_gaps IN
     observed_load' = observed_load /\ observed_load # 0 /\ charged > 0 =>
       /\ delivery.quiet_since >= Max({shown_at, resumed_at})
       /\ delivery.quiet_since <= still_at
       /\ delivery.quiet_since + charged
            <= IF SamplingPaused THEN delivery.last_observed_at ELSE now]_deliveryVars
=============================================================================
