------------------------------- MODULE LogRing -------------------------------
(***************************************************************************)
(* The most recent lines of the session log (util/log_ring.cpp).  Every    *)
(* access takes the ring's lock, so each is one step; lines are told apart *)
(* by the order in which they were pushed.                                 *)
(***************************************************************************)
EXTENDS Integers, Sequences

CONSTANTS
  Capacities,         \* what the ring may be built with
  MaxLines            \* bound: lines pushed

ASSUME CapacityAssumption == Capacities \subseteq Nat /\ MaxLines \in Nat

VARIABLES
  capacity, entries, head,     \* capacity_, entries_ and head_
  lines               \* history: how many lines have been pushed

ringVars == <<capacity, entries, head, lines>>

RingInit ==
  /\ capacity \in Capacities /\ entries = << >> /\ head = 0 /\ lines = 0

\* The next slot, (head + 1) % capacity.
\* Mutant: the slot after the last one is the last one again.
Saturating(slot) == IF slot + 1 = capacity THEN slot ELSE slot + 1
Following(slot)  == IF slot + 1 = capacity THEN 0 ELSE slot + 1

Push ==
  /\ lines < MaxLines /\ lines' = lines + 1
  /\ IF capacity = 0 THEN UNCHANGED <<entries, head>>
     ELSE IF Len(entries) < capacity
     THEN entries' = Append(entries, lines') /\ UNCHANGED head
     ELSE entries' = [entries EXCEPT ![head + 1] = lines'] /\ head' = Following(head)
  /\ UNCHANGED capacity

\* snapshot_into: from the oldest entry to the end, then the wrapped front.
Snapshot == SubSeq(entries, head + 1, Len(entries)) \o SubSeq(entries, 1, head)

RingNext == Push

RingSpec == RingInit /\ [][RingNext]_ringVars

-----------------------------------------------------------------------------
(* Properties.                                                             *)

Retained == IF lines < capacity THEN lines ELSE capacity

\* The ring has wrapped only when it is full, and is never overfull.
RingTypeOK ==
  /\ entries \in Seq(Nat) /\ Len(entries) = Retained
  /\ head = 0 \/ (head \in 1 .. capacity - 1 /\ Len(entries) = capacity)

(* What the diagnostics panel is given is the latest lines, as many as fit,*)
(* oldest first, wherever the ring has wrapped.                            *)
SnapshotIsLatest == Snapshot = [i \in 1 .. Retained |-> lines - Retained + i]
=============================================================================
