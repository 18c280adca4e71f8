----------------------------- MODULE UpdateCheck -----------------------------
(***************************************************************************)
(* The update check (app/app.cpp begin_update_check to shutdown, app/      *)
(* update_check.cpp, core/version.cpp): a thread asks once for the latest  *)
(* release, a frame takes its answer, the viewer may dismiss the notice.   *)
(*                                                                         *)
(* A tag is a sequence of symbols; a frame is one step of the UI thread,   *)
(* wherever it is drawn from.  The releases feed is external.              *)
(***************************************************************************)
EXTENDS Integers, FiniteSets, Sequences

CONSTANTS
  Vee, Dot, Other,    \* the symbols of a tag that are no digit
  Tags,               \* tags the latest release may have
  MaxComponentDigits, \* kMaxComponentDigits
  Current             \* COAX_VERSION, as parsed: major, minor, patch

ASSUME UpdateAssumption ==
  /\ \A t \in Tags : t \in Seq((0 .. 9) \cup {Vee, Dot, Other})
  /\ Dot \notin 0 .. 9
  /\ MaxComponentDigits \in Nat \ {0} /\ Current \in [1 .. 3 -> Nat]

VARIABLES
  tag,                \* of the latest release
  update_thread,      \* update_thread_: "Asking", "Writing" its result,
                      \* "Written", "Ended" or "Joined"
  update_result,      \* update_result_, at most one member
  update_done,        \* update_done_
  update_available,   \* update_available_, at most one member
  dismissed,          \* update_dismissed_
  closed,             \* shutdown has joined the thread
  told                \* history: the feed could be read

updateVars == <<tag, update_thread, update_result, update_done, update_available,
                dismissed, closed, told>>

Digits == 0 .. 9

UpdateInit ==
  /\ tag \in Tags
  /\ update_thread = "Asking" /\ update_result = {} /\ update_done = FALSE
  /\ update_available = {} /\ dismissed = FALSE /\ closed = FALSE /\ told = FALSE

-----------------------------------------------------------------------------
(* core/version.cpp.  A position is that of the next symbol to be read.    *)

IsAt(text, pos, symbol) == pos \in DOMAIN text /\ text[pos] = symbol

\* Past the digits that begin at pos.
EndOfDigits(text, pos) ==
  CHOOSE end \in pos .. Len(text) + 1 :
    /\ \A i \in pos .. end - 1 : text[i] \in Digits
    /\ end \in DOMAIN text => text[end] \notin Digits

\* Mutant: an empty run of digits reads as 0.
MayBeEmpty(count) == count <= MaxComponentDigits
IsComponent(count) == count \in 1 .. MaxComponentDigits

Malformed == [ok |-> FALSE, pos |-> 0, parts |-> << >>]

\* The value of the first digits from pos on.
Values(text, pos, end) ==
  LET value[n \in 0 .. end - pos] ==
        IF n = 0 THEN 0 ELSE value[n - 1] * 10 + text[pos + n - 1]
  IN  value

ReadComponent(text, read) ==
  LET end   == EndOfDigits(text, read.pos)
      count == end - read.pos
  IN  IF IsComponent(count)
      THEN [ok |-> TRUE, pos |-> end,
            parts |-> Append(read.parts, Values(text, read.pos, end)[count])]
      ELSE Malformed

\* A dot calls for a component; without one the reading is at its end.
ReadNext(text, read) ==
  IF read.ok /\ IsAt(text, read.pos, Dot)
  THEN ReadComponent(text, [read EXCEPT !.pos = @ + 1])
  ELSE read

\* Mutant: what trails the version is not looked at.
EndsAnywhere(text, read) == TRUE
EndsText(text, read) == read.pos = Len(text) + 1

\* parse_version: {} or the version.
ParseVersion(text) ==
  LET start == [ok |-> TRUE, pos |-> IF IsAt(text, 1, Vee) THEN 2 ELSE 1, parts |-> << >>]
      major == ReadComponent(text, start)
      read  == ReadNext(text, ReadNext(text, major))
  IN  IF read.ok /\ EndsText(text, read)
      THEN {[i \in 1 .. 3 |-> IF i \in DOMAIN read.parts THEN read.parts[i] ELSE 0]}
      ELSE {}

\* Mutant: another release is taken for a newer one.
OtherVersion(a, b) == a # b
\* The order of the members.
NewerVersion(a, b) ==
  \E i \in 1 .. 3 : a[i] > b[i] /\ \A j \in 1 .. i - 1 : a[j] = b[j]

IsUpdateAvailable(text) == \E v \in ParseVersion(text) : NewerVersion(v, Current)

-----------------------------------------------------------------------------
(* The thread: check_for_update, then the result and the flag.             *)

Ask ==
  /\ update_thread = "Asking" /\ update_thread' = "Writing"
  /\ told' \in BOOLEAN
  /\ UNCHANGED <<tag, update_result, update_done, update_available, dismissed, closed>>

WriteResult ==
  /\ update_thread = "Writing" /\ update_thread' = "Written"
  /\ update_result' = IF told /\ IsUpdateAvailable(tag) THEN {tag} ELSE {}
  /\ UNCHANGED <<tag, update_done, update_available, dismissed, closed, told>>

RaiseFlag ==
  /\ update_thread = "Written" /\ update_thread' = "Ended" /\ update_done' = TRUE
  /\ UNCHANGED <<tag, update_result, update_available, dismissed, closed, told>>

-----------------------------------------------------------------------------
(* The UI thread.                                                          *)

\* Mutant: the flag is read and left up.
FlagLeftUp ==
  /\ ~closed /\ update_done
  /\ update_thread \in {"Ended", "Joined"} /\ update_thread' = "Joined"
  /\ update_available' = update_result /\ update_result' = {}
  /\ UNCHANGED <<tag, update_done, dismissed, closed, told>>

\* A flag that is up is taken down, the thread joined, its result moved.
FinishUpdateCheck ==
  /\ ~closed /\ update_done /\ update_done' = FALSE
  /\ update_thread \in {"Ended", "Joined"} /\ update_thread' = "Joined"
  /\ update_available' = update_result /\ update_result' = {}
  /\ UNCHANGED <<tag, dismissed, closed, told>>

\* "Download" and "Later" of the banner.
DismissBanner ==
  /\ ~closed /\ update_available # {} /\ ~dismissed /\ dismissed' = TRUE
  /\ UNCHANGED <<tag, update_thread, update_result, update_done, update_available, closed, told>>

\* shutdown joins the thread.
CloseUpdate ==
  /\ ~closed /\ update_thread \in {"Ended", "Joined"} /\ closed' = TRUE
  /\ update_thread' = "Joined"
  /\ UNCHANGED <<tag, update_result, update_done, update_available, dismissed, told>>

UpdateNext ==
  \/ Ask \/ WriteResult \/ RaiseFlag
  \/ FinishUpdateCheck \/ DismissBanner \/ CloseUpdate

UpdateSpec == UpdateInit /\ [][UpdateNext]_updateVars

-----------------------------------------------------------------------------
(* Properties.                                                             *)

\* The tag is in one place at a time, and the flag is up only after the
\* thread has written its result.
UpdateTypeOK ==
  /\ update_thread \in {"Asking", "Writing", "Written", "Ended", "Joined"}
  /\ update_result \cup update_available \subseteq {tag}
  /\ update_result = {} \/ update_available = {}
  /\ update_done => update_thread \in {"Ended", "Joined"}

\* What core/version.hpp calls a release: after an optional v one to three
\* numbers, separated by dots, and nothing else.
BodyAt(text)    == IF 1 \in DOMAIN text /\ text[1] = Vee THEN 2 ELSE 1
Dots(text, i)   == Cardinality({j \in BodyAt(text) .. i : text[j] = Dot})
PartAt(text, n) == {i \in BodyAt(text) .. Len(text) : text[i] \in Digits /\ Dots(text, i) = n - 1}

\* The number that the n-th part is, after each symbol of the text.
Numbers(text, n) ==
  LET number[i \in 0 .. Len(text)] ==
        IF i = 0 THEN 0
        ELSE IF i \in PartAt(text, n) THEN number[i - 1] * 10 + text[i] ELSE number[i - 1]
  IN  number
NumberAt(text, n) == Numbers(text, n)[Len(text)]

IsRelease(text) ==
  LET count == Dots(text, Len(text)) + 1
  IN  /\ count <= 3 /\ \A i \in BodyAt(text) .. Len(text) : text[i] \in Digits \cup {Dot}
      /\ \A n \in 1 .. count : Cardinality(PartAt(text, n)) \in 1 .. MaxComponentDigits

IsNewRelease(text) ==
  /\ IsRelease(text)
  /\ \E n \in 1 .. 3 : /\ NumberAt(text, n) > Current[n]
                      /\ \A m \in 1 .. n - 1 : NumberAt(text, m) = Current[m]

(* Once the thread's answer has been taken, the notice is there exactly    *)
(* when the feed told of a plain release that is newer, whole and compared *)
(* number by number: never a pre-release, a tag that cannot be read, the   *)
(* version that runs or an older one; and no later frame, whichever way it *)
(* is drawn, loses it to the result that has been moved away.              *)
OffersTheNewRelease ==
  /\ update_available \subseteq {t \in {tag} : told /\ IsNewRelease(t)}
  /\ update_thread = "Joined" /\ ~closed /\ told /\ IsNewRelease(tag) =>
       update_available = {tag}
=============================================================================
