----------------------------- MODULE AtomicFile -----------------------------
(***************************************************************************)
(* What win/file_write.hpp promises of write_file_atomically: a call       *)
(* replaces the file or leaves what was there, answers which, and there is *)
(* no third outcome, whenever a process dies or the power fails.           *)
(***************************************************************************)
CONSTANT Versions     \* what there may be to write

VARIABLES
  content,            \* of the file, Absent before the first write
  answer              \* the last call's: ok, version, and the content before
                      \* and after it

Absent == "Absent"

Answer(ok, version, after) ==
  [ok |-> ok, version |-> version, before |-> content, after |-> after]

AtomicInit ==
  /\ content \in {Absent} \cup Versions
  /\ answer = [ok |-> TRUE, version |-> Absent, before |-> Absent, after |-> Absent]

Replaces(version) == content' = version /\ answer' = Answer(TRUE, version, version)

LeavesAlone(version) == UNCHANGED content /\ answer' = Answer(FALSE, version, content)

AtomicNext == \E version \in Versions : Replaces(version) \/ LeavesAlone(version)

AtomicSpec == AtomicInit /\ [][AtomicNext]_<<content, answer>>
=============================================================================
