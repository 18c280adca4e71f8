------------------------------ MODULE FileWrite ------------------------------
(***************************************************************************)
(* write_file_atomically (win/file_write.cpp): the settings and the saved  *)
(* portal are written to a temporary file with a fixed name beside them,   *)
(* which is flushed and renamed over them.  Windows may refuse or cut      *)
(* short any call, a process may be killed between two of them, and the    *)
(* power may fail, which costs what has not been flushed.                  *)
(*                                                                         *)
(* Files are external: an open handle that shares nothing keeps the file   *)
(* from being opened, renamed and deleted by others.                       *)
(***************************************************************************)
EXTENDS Integers

CONSTANTS
  Writers,            \* running instances of the application
  Versions            \* what they may have to write

Cut      == "Cut"     \* a file whose end is missing
Absent   == "Absent"
NoWriter == "NoWriter"

ASSUME WritersAssumption == Writers # {} /\ Versions # {} /\ NoWriter \notin Writers

VARIABLES
  writer,             \* of each instance: at, version, what it found (before)
  saved, saved_flushed,    \* the destination
  temporary, temporary_flushed, opened_by,    \* the .tmp file
  returned            \* history: how the last call ended

fileVars == <<saved, saved_flushed, temporary, temporary_flushed, opened_by>>
writeVars == <<writer, fileVars, returned>>

Idle == [at |-> "Idle", version |-> Absent, before |-> Absent]
Nothing == [ok |-> TRUE, version |-> Absent, before |-> Absent, after |-> Absent]

FileInit ==
  /\ writer = [w \in Writers |-> Idle]
  /\ saved \in {Absent} \cup Versions /\ saved_flushed = TRUE
  /\ temporary = Absent /\ temporary_flushed = TRUE /\ opened_by = NoWriter
  /\ returned = Nothing

-----------------------------------------------------------------------------
(* The steps of a write.                                                   *)

Goes(w, from, to) ==
  writer[w].at = from /\ writer' = [writer EXCEPT ![w].at = to]

Returns(w, ok) ==
  /\ returned' = [ok |-> ok, version |-> writer[w].version,
                  before |-> writer[w].before, after |-> saved']
  /\ writer' = [writer EXCEPT ![w] = Idle]

\* CREATE_ALWAYS, without sharing.
CreateTemporary(w) ==
  /\ writer[w].at = "Idle" /\ opened_by = NoWriter
  /\ \E version \in Versions :
       writer' = [writer EXCEPT ![w] = [at |-> "Write", version |-> version,
                                        before |-> saved]]
  /\ temporary' = Cut /\ temporary_flushed' = FALSE /\ opened_by' = w
  /\ UNCHANGED <<saved, saved_flushed, returned>>

CannotCreate(w) ==
  /\ writer[w].at = "Idle"
  /\ \E version \in Versions :
       returned' = [ok |-> FALSE, version |-> version, before |-> saved, after |-> saved]
  /\ UNCHANGED <<writer, fileVars>>

WriteAll(w) ==
  /\ Goes(w, "Write", "Flush") /\ temporary' = writer[w].version
  /\ UNCHANGED <<saved, saved_flushed, temporary_flushed, opened_by, returned>>

WriteCutShort(w) == Goes(w, "Write", "GiveUp") /\ UNCHANGED <<fileVars, returned>>

\* Mutant: the rename is trusted to order the bytes as well.
FlushSkipped(w) == Goes(w, "Flush", "Close") /\ UNCHANGED <<fileVars, returned>>
Flush(w) ==
  /\ Goes(w, "Flush", "Close") /\ temporary_flushed' = TRUE
  /\ UNCHANGED <<saved, saved_flushed, temporary, opened_by, returned>>

FlushFails(w) == Goes(w, "Flush", "GiveUp") /\ UNCHANGED <<fileVars, returned>>

\* Mutant: the handle is closed only when all went well.
CloseOnSuccess(w) ==
  /\ \/ Goes(w, "Close", "Move") /\ opened_by' = NoWriter
     \/ Goes(w, "GiveUp", "Delete") /\ UNCHANGED opened_by
  /\ UNCHANGED <<saved, saved_flushed, temporary, temporary_flushed, returned>>
CloseHandle(w) ==
  /\ \/ Goes(w, "Close", "Move")
     \/ Goes(w, "GiveUp", "Delete")
  /\ opened_by' = NoWriter
  /\ UNCHANGED <<saved, saved_flushed, temporary, temporary_flushed, returned>>

\* Another handle, or the lack of the file, fails the rename.
MoveTemporary(w) ==
  /\ writer[w].at = "Move" /\ temporary # Absent /\ opened_by = NoWriter
  /\ saved' = temporary /\ saved_flushed' = temporary_flushed
  /\ temporary' = Absent /\ temporary_flushed' = TRUE
  /\ Returns(w, TRUE)
  /\ UNCHANGED opened_by

\* Mutant: what the rename answers is not looked at.
MoveUnnoticed(w) ==
  writer[w].at = "Move" /\ UNCHANGED fileVars /\ Returns(w, TRUE)
CannotMove(w) == Goes(w, "Move", "Delete") /\ UNCHANGED <<fileVars, returned>>

\* What cannot be deleted stays; the answer is the same.
DeleteTemporary(w) ==
  /\ writer[w].at = "Delete"
  /\ temporary' \in (IF opened_by = NoWriter THEN {Absent, temporary} ELSE {temporary})
  /\ UNCHANGED <<saved, saved_flushed, temporary_flushed, opened_by>>
  /\ Returns(w, FALSE)

-----------------------------------------------------------------------------
(* The environment.                                                        *)

Kill(w) ==
  /\ writer[w].at # "Idle"
  /\ writer' = [writer EXCEPT ![w] = Idle]
  /\ opened_by' = IF opened_by = w THEN NoWriter ELSE opened_by
  /\ UNCHANGED <<saved, saved_flushed, temporary, temporary_flushed, returned>>

\* What a disk that lost its power holds of a file.
Survives(content, flushed) ==
  IF flushed \/ content = Absent THEN {content} ELSE {content, Cut}

PowerFails ==
  /\ writer' = [w \in Writers |-> Idle] /\ opened_by' = NoWriter
  /\ saved' \in Survives(saved, saved_flushed)
  /\ temporary' \in Survives(temporary, temporary_flushed)
  /\ saved_flushed' = TRUE /\ temporary_flushed' = TRUE
  /\ UNCHANGED returned

Write(w) ==
  \/ CreateTemporary(w) \/ CannotCreate(w) \/ WriteAll(w) \/ WriteCutShort(w)
  \/ Flush(w) \/ FlushFails(w) \/ CloseHandle(w)
  \/ MoveTemporary(w) \/ CannotMove(w) \/ DeleteTemporary(w)

FileNext == PowerFails \/ \E w \in Writers : Write(w) \/ Kill(w)

FileSpec == FileInit /\ [][FileNext]_writeVars

-----------------------------------------------------------------------------
(* Properties.                                                             *)

Contents == {Absent, Cut} \cup Versions

\* Every variable keeps its type, and no handle leaks.
FileTypeOK ==
  /\ \A w \in Writers :
       /\ writer[w].at \in {"Idle", "Write", "Flush", "Close", "GiveUp", "Move", "Delete"}
       /\ writer[w].version \in Contents /\ writer[w].before \in Contents
  /\ saved \in Contents /\ temporary \in Contents
  /\ {saved_flushed, temporary_flushed} \subseteq BOOLEAN
  /\ opened_by \in Writers \cup {NoWriter}
  /\ \A w \in Writers :
       opened_by = w <=> writer[w].at \in {"Write", "Flush", "Close", "GiveUp"}

(* The destination is never a truncated file, whatever call fails, process *)
(* dies or power goes (what file_write.hpp says: there is no third         *)
(* outcome, and in particular no truncated file).                          *)
NoTruncatedFile == saved # Cut

(* A single instance of the application writes as AtomicFile promises:     *)
(* every step of a write, a failed call, a kill and a power failure is a   *)
(* replacement of the whole file, a refusal that leaves it alone, or no    *)
(* change at all; in particular no truncated file.                         *)
Promise == INSTANCE AtomicFile WITH content <- saved, answer <- returned

ImplementsAtomicFile == Promise!AtomicSpec
=============================================================================
