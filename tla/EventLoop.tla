----------------------------- MODULE EventLoop -----------------------------
(***************************************************************************)
(* What the host of the supervisor promises whoever feeds it: one event or *)
(* one effect is carried out at a time, to its end; events in the order in *)
(* which they were posted, and every waiting event before any effect;      *)
(* effects in the order in which the reducer asked for them, each once.    *)
(***************************************************************************)
EXTENDS Integers, Sequences

CONSTANTS
  LastEvent,          \* bound: events are numbered as they are posted
  EffectCounts        \* how many effects an event may have

VARIABLES
  posted,             \* the events posted so far
  inbox, work,        \* the events, and the events whose effects, wait
  busy                \* what is carried out: an event, an effect or nothing

Rest == [kind |-> "Nothing", event |-> 0]

LoopInit == posted = 0 /\ inbox = << >> /\ work = << >> /\ busy = Rest

\* An event may be posted at any time, also by what is carried out.
Post ==
  /\ posted < LastEvent /\ posted' = posted + 1 /\ inbox' = Append(inbox, posted')
  /\ UNCHANGED <<work, busy>>

Serve ==
  /\ busy = Rest /\ inbox # << >>
  /\ busy' = [kind |-> "Event", event |-> Head(inbox)] /\ inbox' = Tail(inbox)
  /\ \E n \in EffectCounts : work' = work \o [i \in 1 .. n |-> Head(inbox)]
  /\ UNCHANGED posted

Perform ==
  /\ busy = Rest /\ inbox = << >> /\ work # << >>
  /\ busy' = [kind |-> "Effect", event |-> Head(work)] /\ work' = Tail(work)
  /\ UNCHANGED <<posted, inbox>>

Finish == busy # Rest /\ busy' = Rest /\ UNCHANGED <<posted, inbox, work>>

Dispose == inbox' = << >> /\ work' = << >> /\ UNCHANGED <<posted, busy>>

LoopNext == Post \/ Serve \/ Perform \/ Finish \/ Dispose

LoopSpec == LoopInit /\ [][LoopNext]_<<posted, inbox, work, busy>>
=============================================================================
