---------------------------- MODULE Subsequences ----------------------------
(***************************************************************************)
(* What std::erase_if leaves of a vector: its other elements, in their     *)
(* order.  (SelectSeq, in a form that the provers can expand.)             *)
(***************************************************************************)
EXTENDS Naturals, FiniteSets

\* The n-th of some numbers, in their order.
Nth(numbers, n) == CHOOSE i \in numbers : Cardinality({j \in numbers : j <= i}) = n

\* What a sequence has at some of its places.
MembersAt(sequence, places) ==
  [n \in 1 .. Cardinality(places) |-> sequence[Nth(places, n)]]
=============================================================================
