----------------------------- MODULE SessionLog -----------------------------
(***************************************************************************)
(* The session log (util/log.cpp): every running instance of the           *)
(* application writes its lines to a file of its own, coax.log for the one *)
(* that holds the claim, and a viewer may save a copy.  A copy is written  *)
(* beside the live log under a name not yet taken, and renamed when it is  *)
(* complete.  Instances are killed, calls fail, clocks are set back.       *)
(*                                                                         *)
(* Files are external.  A log is who wrote it, an instance told from an    *)
(* earlier one of its process id by a number, and how many lines it holds. *)
(* One directory stands for the preferred one and its fallback.            *)
(***************************************************************************)
EXTENDS Integers, FiniteSetsExt

CONSTANTS
  Instances,          \* process ids
  MaxSession,         \* bound of the model: how often an instance is started
  MaxLogLines,        \* bound of the model: lines of a session
  Seconds,            \* what the local time in a name may be
  Copies,             \* names tried in one second
  MaxSaved            \* bound of the model: files of the logs directory

NoOne   == "NoOne"
NoLog   == "NoLog"
Primary == "Primary"  \* coax.log; the files of collisions are the process ids

ASSUME SessionLogAssumption ==
  /\ Seconds # {} /\ {MaxSession, MaxLogLines, Copies, MaxSaved} \subseteq Nat \ {0}
  /\ {NoOne, NoLog, Primary} \cap Instances = {}

NoFile == [pid |-> NoOne, number |-> 0, lines |-> 0, whole |-> TRUE]
Names  == Instances \X Seconds \X (1..Copies)

VARIABLES
  claim,              \* who holds coax.log.lock
  instance,            \* of each instance: its number, log and lines written
  live,               \* the files written to
  saving,             \* of each instance: its save thread
  partial, finished,  \* the files of the logs directory
  answered            \* history: the names save_copy said it has saved to

sessionLogVars == <<claim, instance, live, saving, partial, finished, answered>>

NotRunning(number) == [running |-> FALSE, number |-> number, log |-> NoLog, lines |-> 0]
NoSave == [at |-> "Idle", length |-> 0, copy |-> 0, second |-> CHOOSE s \in Seconds : TRUE]

SessionLogInit ==
  /\ claim = NoOne
  /\ instance = [i \in Instances |-> NotRunning(0)]
  /\ live = [f \in {Primary} \cup Instances |-> NoFile]
  /\ saving = [i \in Instances |-> NoSave]
  /\ partial = [n \in Names |-> NoFile] /\ finished = [n \in Names |-> NoFile]
  /\ answered = {}

\* What the log of the instance holds when nobody has interfered.
Log(i, lines) == [pid |-> i, number |-> instance[i].number, lines |-> lines, whole |-> TRUE]

-----------------------------------------------------------------------------
(* session_log, at the first line, and write.                              *)

NextNumber == 1 + Max({instance[i].number : i \in Instances})

StartsWith(i, log) ==
  /\ ~instance[i].running /\ NextNumber <= MaxSession
  /\ instance' = [instance EXCEPT ![i] =
       [running |-> TRUE, number |-> NextNumber, log |-> log, lines |-> 0]]

Truncated(i) == [pid |-> i, number |-> NextNumber, lines |-> 0, whole |-> TRUE]

\* CREATE_NEW of the claim, then "w" of coax.log.
\* Mutant: every instance writes to coax.log.
StartUnclaimed(i) ==
  /\ claim' = i /\ StartsWith(i, Primary)
  /\ live' = [live EXCEPT ![Primary] = Truncated(i)]
  /\ UNCHANGED <<saving, partial, finished, answered>>
StartPrimary(i) ==
  /\ claim = NoOne /\ claim' = i /\ StartsWith(i, Primary)
  /\ live' = [live EXCEPT ![Primary] = Truncated(i)]
  /\ UNCHANGED <<saving, partial, finished, answered>>

\* The claim is taken, or coax.log cannot be opened and it is given back.
StartOwn(i) ==
  /\ StartsWith(i, i)
  /\ live' = [live EXCEPT ![i] = Truncated(i)]
  /\ UNCHANGED <<claim, saving, partial, finished, answered>>

StartWithout(i) ==
  StartsWith(i, NoLog) /\ UNCHANGED <<claim, live, saving, partial, finished, answered>>

\* Over the lines of another writer a line is not added but mixed in.
Appended(i) ==
  LET file == live[instance[i].log] IN
  IF file = Log(i, instance[i].lines)
  THEN Log(i, file.lines + 1) ELSE [file EXCEPT !.whole = FALSE]

WriteLine(i) ==
  /\ instance[i].log # NoLog /\ instance[i].lines < MaxLogLines
  /\ instance' = [instance EXCEPT ![i].lines = @ + 1]
  /\ live' = [live EXCEPT ![instance[i].log] = Appended(i)]
  /\ UNCHANGED <<claim, saving, partial, finished, answered>>

\* However the process ends, Windows deletes the claim with its handle.
End(i) ==
  /\ instance[i].running
  /\ instance' = [instance EXCEPT ![i] = NotRunning(@.number)]
  /\ claim' = IF claim = i THEN NoOne ELSE claim
  /\ saving' = [saving EXCEPT ![i] = NoSave]
  /\ UNCHANGED <<live, partial, finished, answered>>

-----------------------------------------------------------------------------
(* save_copy, on a thread of its own; the button waits for its answer.     *)

Name(i) == <<i, saving[i].second, saving[i].copy>>

\* remove_stale_partials: what no open handle protects.
Stale(name) ==
  partial[name] # NoFile /\ ~(saving[name[1]].at = "Copy" /\ name = Name(name[1]))

Taken(name) == finished[name] # NoFile \/ partial'[name] # NoFile

(* Under the writer's lock the flush and the length; then, of the names    *)
(* this instance has in the second, the first that is free gets a partial  *)
(* file.                                                                   *)
Reserves(i, second, copy, removed) ==
  LET name == <<i, second, copy>> IN
  /\ saving' = [saving EXCEPT ![i] = [at |-> "Copy", length |-> instance[i].lines,
                                      second |-> second, copy |-> copy]]
  /\ partial' = [n \in Names |->
       IF n = name THEN [Log(i, 0) EXCEPT !.whole = FALSE]
       ELSE IF n \in removed THEN NoFile ELSE partial[n]]
  /\ finished[name] = NoFile /\ (partial[name] = NoFile \/ name \in removed)
  /\ \A earlier \in 1..(copy - 1) : Taken(<<i, second, earlier>>)

BeginSave(i) ==
  /\ saving[i].at = "Idle" /\ instance[i].log # NoLog
  /\ Cardinality({n \in Names : finished[n] # NoFile \/ partial[n] # NoFile}) < MaxSaved
  /\ \E second \in Seconds, copy \in 1..Copies, removed \in SUBSET {n \in Names : Stale(n)} :
       Reserves(i, second, copy, removed)
  /\ UNCHANGED <<claim, instance, live, finished, answered>>

\* The first bytes of the file that is there now, as many as there were.
\* Mutant: all of it, and whatever is being written to it.
CopyAll(i) ==
  /\ saving[i].at = "Copy"
  /\ partial' = [partial EXCEPT ![Name(i)] =
       [live[instance[i].log] EXCEPT
          !.whole = @ /\ live[instance[i].log].lines = saving[i].length]]
  /\ saving' = [saving EXCEPT ![i].at = "Move"]
  /\ UNCHANGED <<claim, instance, live, finished, answered>>
CopyLog(i) ==
  /\ saving[i].at = "Copy" /\ live[instance[i].log].lines >= saving[i].length
  /\ partial' = [partial EXCEPT ![Name(i)] =
       [live[instance[i].log] EXCEPT !.lines = saving[i].length]]
  /\ saving' = [saving EXCEPT ![i].at = "Move"]
  /\ UNCHANGED <<claim, instance, live, finished, answered>>

\* Without MOVEFILE_REPLACE_EXISTING.
Move(i) ==
  /\ saving[i].at = "Move"
  /\ partial[Name(i)] # NoFile /\ finished[Name(i)] = NoFile
  /\ finished' = [finished EXCEPT ![Name(i)] = partial[Name(i)]]
  /\ partial' = [partial EXCEPT ![Name(i)] = NoFile]
  /\ saving' = [saving EXCEPT ![i] = NoSave]
  /\ answered' = answered \cup {[name |-> Name(i), log |-> Log(i, saving[i].length)]}
  /\ UNCHANGED <<claim, instance, live>>

\* Whatever fails, the partial file is deleted if it can be.
Fail(i) ==
  /\ saving[i].at # "Idle"
  /\ saving' = [saving EXCEPT ![i] = NoSave]
  /\ \/ partial' = [partial EXCEPT ![Name(i)] = NoFile]
     \/ UNCHANGED partial
  /\ UNCHANGED <<claim, instance, live, finished, answered>>

SaveCopy(i) ==
  BeginSave(i) \/ CopyLog(i) \/ Move(i) \/ Fail(i)

SessionLogNext ==
  \E i \in Instances :
    \/ StartPrimary(i) \/ StartOwn(i) \/ StartWithout(i)
    \/ WriteLine(i) \/ End(i) \/ SaveCopy(i)

SessionLogSpec == SessionLogInit /\ [][SessionLogNext]_sessionLogVars

-----------------------------------------------------------------------------
(* Properties.                                                             *)

LogContents ==
  [pid : Instances \cup {NoOne}, number : 0..MaxSession, lines : 0..MaxLogLines,
   whole : BOOLEAN]

\* Every variable keeps its type.
SessionLogTypeOK ==
  /\ claim \in Instances \cup {NoOne}
  /\ instance \in [Instances -> [running : BOOLEAN, number : 0..MaxSession,
                                log : {NoLog, Primary} \cup Instances, lines : 0..MaxLogLines]]
  /\ live \in [{Primary} \cup Instances -> LogContents]
  /\ \A i \in Instances :
       /\ saving[i].at \in {"Idle", "Copy", "Move"}
       /\ saving[i].length \in 0..MaxLogLines
  /\ partial \in [Names -> LogContents] /\ finished \in [Names -> LogContents]

(* The evidence of a session is its own and complete: the log of a running *)
(* instance holds all of its lines and nobody else's, every save that      *)
(* looks finished is a whole log of the instance in its name, and what     *)
(* save_copy said it has saved is there as it was, whatever is saved       *)
(* later, in the same second, by another instance or after a crash         *)
(* (log.cpp: an interrupted save never looks finished; neither step ever   *)
(* overwrites an earlier save).                                            *)
EvidenceIsKept ==
  /\ \A i \in Instances :
       instance[i].log # NoLog => live[instance[i].log] = Log(i, instance[i].lines)
  /\ \A name \in Names :
       finished[name] # NoFile => finished[name].whole /\ finished[name].pid = name[1]
  /\ \A save \in answered : finished[save.name] = save.log
=============================================================================
