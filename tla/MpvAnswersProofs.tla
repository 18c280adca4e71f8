-------------------------- MODULE MpvAnswersProofs --------------------------
(***************************************************************************)
(* The player and libmpv: nothing that the session waits for is lost.      *)
(*                                                                         *)
(* The answer to the load to play is always somewhere.  Its request waits for *)
(* a reply, or its entry for a start or an end; what is awaited is in libmpv, *)
(* in one of its commands or in a message of its mail; and a message that is *)
(* handled leads on to the next, or tells the outcome (AnswersInv).  A message *)
(* is lost only when the queue is full, and then libmpv says so.           *)
(*                                                                         *)
(* The steps are those of libmpv, which moves what is awaited from its places *)
(* into the mail; those of the turn, which takes the head of the mail to the *)
(* adapter; and those of the viewer, who turns to another load.            *)
(***************************************************************************)
EXTENDS MpvPlayerProofs

-----------------------------------------------------------------------------
(* The inductive invariant, on top of that of the player (MpvInv).         *)

\* The mail holds a message about the entry behind the given place.
Coming(kind, e, i) ==
  \E j \in DOMAIN mpv.mail : j > i /\ mpv.mail[j].kind = kind /\ mpv.mail[j].entry = e

\* What the mail says before the given place: a redirect has inserted the
\* entry, it has started, or it was accepted for a request that is awaited.
InsertedBefore(e, i) ==
  \E j \in DOMAIN mpv.mail : j < i /\ mpv.mail[j].kind = "End" /\ e \in mpv.mail[j].inserted
StartedBefore(e, i) ==
  \E j \in DOMAIN mpv.mail : j < i /\ mpv.mail[j].kind = "Start" /\ mpv.mail[j].entry = e
AcceptedBefore(e, i) ==
  \E j \in DOMAIN mpv.mail :
    /\ j < i /\ mpv.mail[j].kind = "Reply" /\ mpv.mail[j].accepted /\ mpv.mail[j].entry = e
    /\ mpv.mail[j].request \in DOMAIN adapter.requests

\* The entry is of the load to play; the adapter waits for it or has it.
Owned(e) == mpv.owner[e] = target
Known(e) == e \in DOMAIN adapter.pending \cup DOMAIN adapter.entries

\* A request that the adapter awaits has its command or its reply under way.
RequestsAnswered ==
  /\ adapter.retired \cap DOMAIN adapter.requests = {}
  /\ \A r \in DOMAIN adapter.requests :
       \/ \E k \in DOMAIN mpv.commands :
            mpv.commands[k].kind = "loadfile" /\ mpv.commands[k].request = r
       \/ \E i \in DOMAIN mpv.mail : mpv.mail[i].kind = "Reply" /\ mpv.mail[i].request = r

\* Replies come in the order of their requests, after those of every entry the
\* adapter knows and before those of every command.
RepliesInOrder ==
  \A i \in DOMAIN mpv.mail : mpv.mail[i].kind = "Reply" =>
    /\ mpv.mail[i].request \in DOMAIN issued
    /\ \A j \in DOMAIN mpv.mail : j > i /\ mpv.mail[j].kind = "Reply" =>
         mpv.mail[i].request < mpv.mail[j].request
    /\ \A k \in DOMAIN mpv.commands : mpv.commands[k].kind = "loadfile" =>
         mpv.mail[i].request < mpv.commands[k].request
    /\ \A e : Known(e) => Before(mpv.owner[e], issued[mpv.mail[i].request])

\* The command of the load to play is the last one, and it is gone once the
\* load has an entry.
LastCommand ==
  Playing =>
    /\ \A k \in DOMAIN mpv.commands :
         mpv.commands[k].kind = "loadfile" /\ mpv.commands[k].request = Len(issued) =>
           k = Len(mpv.commands)
    /\ \A e \in DOMAIN mpv.owner : Owned(e) => mpv.commands = << >>

\* A backend that has failed has been reported.
FailureIsTold == Playing /\ adapter.failureReported => "BackendFailed" \in reported

\* An event is lost only to a full queue, and a shutdown is said of a backend
\* that is down.
LossIsKnown ==
  /\ mpv.choked => mpv.lossy
  /\ \A i \in DOMAIN mpv.mail : mpv.mail[i].kind = "Shutdown" => mpv.state # "Up"

\* An entry whose end is in the mail is nowhere in libmpv and in no message
\* behind.
EndsOnce ==
  /\ mpv.lingering # NoEntry => mpv.lingering \notin {mpv.playing, mpv.upNext}
  /\ \A i \in DOMAIN mpv.mail : mpv.mail[i].kind = "End" =>
       LET e == mpv.mail[i].entry
       IN  /\ e \notin {mpv.upNext, mpv.playing, mpv.lingering}
           /\ ~Coming("Start", e, i) /\ ~Coming("End", e, i)

\* An entry taken for started has had its first start told.
StartIsTold == \A e \in adapter.started : Owned(e) => "FirstStart" \in reported

\* What a message says will start or end is in libmpv or behind in the mail.
StartComes(e, i) == mpv.upNext = e \/ Coming("Start", e, i)
EndComes(e, i)   == e \in {mpv.upNext, mpv.playing} \/ Coming("End", e, i)

\* A message about the load to play has what comes next under way: the start of
\* an accepted entry, the end of a started one, the entry a redirect goes on with.
LeadsOn(m, i) ==
  /\ m.kind = "Reply" /\ m.accepted /\ Owned(m.entry) => StartComes(m.entry, i)
  /\ m.kind = "Start" /\ Owned(m.entry) => EndComes(m.entry, i)
  /\ m.kind = "End" /\ Owned(m.entry) =>
       /\ m.reason = "Redirect" => m.inserted # {}
       /\ \A n \in m.inserted : EndComes(n, i)

\* What the adapter waits for comes, and so does what each message leads to.
Continues ==
  /\ \A e \in DOMAIN adapter.pending : Owned(e) => StartComes(e, 0)
  /\ \A e \in DOMAIN adapter.entries : Owned(e) => EndComes(e, 0)
  /\ \A i \in DOMAIN mpv.mail : LeadsOn(mpv.mail[i], i)

\* The load was refused on the spot, its request is awaited, or the adapter knows
\* an entry of it.
AnswerComes ==
  \/ \E i \in DOMAIN adapter.events :
       adapter.events[i].kind = "LoadRejected" /\ adapter.events[i].load = target
  \/ Len(issued) \in DOMAIN adapter.requests
  \/ \E e : Known(e) /\ Owned(e)

\* A backend that has not failed owes the session the outcome of the load.
Unanswered ==
  Playing /\ mpv.state = "Up" /\ ~mpv.choked /\ reported \cap Outcomes = {}

\* What is owed is under way.
TargetAnswered == Unanswered => AnswerComes /\ Continues

\* While no event is lost and no load is dropped, every entry that the adapter
\* waits for starts.
StartsFollow ==
  ~mpv.lossy /\ ~mpv.skipped =>
    /\ \A e \in DOMAIN adapter.pending : StartComes(e, 0)
    /\ \A i \in DOMAIN mpv.mail :
         /\ mpv.mail[i].kind = "Reply" /\ mpv.mail[i].accepted
         /\ mpv.mail[i].request \in DOMAIN adapter.requests
         => StartComes(mpv.mail[i].entry, i)

\* The adapter knows the entry, or has started it, by the time it handles the
\* message at the place.
Acquainted(e, i) == Known(e) \/ InsertedBefore(e, i) \/ AcceptedBefore(e, i)
Admitted(e, i) == e \in DOMAIN adapter.entries \/ InsertedBefore(e, i) \/ StartedBefore(e, i)

\* The backend runs and has lost no event.
Calm == Playing /\ mpv.state = "Up" /\ ~mpv.lossy

\* A message about an entry of the load to play comes when the adapter knows it.
Introduced(m, i) ==
  /\ m.kind = "Start" /\ Owned(m.entry) => Acquainted(m.entry, i)
  /\ m.kind = "End" /\ m.inserted # {} /\ Owned(m.entry) => Admitted(m.entry, i)

\* Meanwhile the adapter learns of each entry of the load to play before its
\* events, and the first start is told or still to come.
EntriesKnown ==
  Calm =>
    /\ \A k \in DOMAIN mpv.commands :
         mpv.commands[k].kind = "loadfile" /\ mpv.commands[k].request = Len(issued) =>
           Len(issued) \in DOMAIN adapter.requests
    /\ mpv.upNext # NoEntry /\ Owned(mpv.upNext) =>
         Acquainted(mpv.upNext, Len(mpv.mail) + 1)
    /\ mpv.playing # NoEntry /\ Owned(mpv.playing) =>
         /\ Admitted(mpv.playing, Len(mpv.mail) + 1)
         /\ Coming("Start", mpv.playing, 0) \/ current_entry = mpv.playing
         /\ mpv.restarted /\ ~mpv.skipped =>
              "FirstStart" \in reported \/ Coming("Restart", mpv.playing, 0)
    /\ \A i \in DOMAIN mpv.mail : Introduced(mpv.mail[i], i)

\* What is known of requests, replies and ends.
MailInv ==
  /\ RequestsAnswered /\ RepliesInOrder /\ LastCommand /\ FailureIsTold /\ LossIsKnown
  /\ EndsOnce /\ StartIsTold

\* The inductive invariant.
AnswersInv == MailInv /\ TargetAnswered /\ StartsFollow /\ EntriesKnown

\* No load is the one that says there is none.
LEMMA NoTargetIsNoLoad == NoTarget \notin Loads
<1>1. \A l \in Loads : l.generation >= 1
  BY MpvAssumption DEF Loads, Load
<1>2. NoTarget.generation = 0
  BY DEF NoTarget, Load
<1> QED BY <1>1, <1>2

\* What the adapter's correlations are about.
LEMMA KnownFacts ==
  ASSUME MpvInv
  PROVE  /\ \A e : Known(e) => e \in DOMAIN mpv.owner /\ e \in Nat \ {0}
                              /\ mpv.owner[e].generation \notin stopped
         /\ \A e \in DOMAIN adapter.entries : adapter.entries[e] = mpv.owner[e]
         /\ \A e \in DOMAIN adapter.pending : adapter.pending[e] = mpv.owner[e]
         /\ \A r \in DOMAIN adapter.requests : /\ r \in DOMAIN issued
                                               /\ adapter.requests[r] = issued[r]
                                               /\ issued[r].generation \notin stopped
         /\ adapter.started \subseteq DOMAIN adapter.entries
         /\ adapter.retired \subseteq DOMAIN issued
BY InvFacts DEF AdapterSound, Credits, Known

\* What a message about an entry is about.
LEMMA MailFacts ==
  ASSUME MpvInv, NEW i \in DOMAIN mpv.mail
  PROVE  /\ i \in Nat /\ i >= 1 /\ i <= Len(mpv.mail) /\ mpv.mail[i] \in Messages
         /\ mpv.mail[i].kind = "Reply" /\ mpv.mail[i].accepted =>
              /\ mpv.mail[i].entry \in DOMAIN mpv.owner /\ mpv.mail[i].request \in DOMAIN issued
              /\ mpv.owner[mpv.mail[i].entry] = issued[mpv.mail[i].request]
         /\ mpv.mail[i].kind \in {"Start", "Restart", "Log", "End"} =>
              mpv.mail[i].entry \in DOMAIN mpv.owner /\ mpv.mail[i].entry \in Nat \ {0}
         /\ mpv.mail[i].kind = "End" => \A n \in mpv.mail[i].inserted :
              n \in DOMAIN mpv.owner /\ mpv.owner[n] = mpv.owner[mpv.mail[i].entry]
BY InvFacts DEF MessageSound, Marks

\* The load to play is the last one issued.
LEMMA TargetFacts ==
  ASSUME MpvInv, Playing
  PROVE  /\ target \in Loads /\ Len(issued) \in DOMAIN issued /\ target = issued[Len(issued)]
         /\ \A r \in DOMAIN issued : issued[r] = target => r = Len(issued)
         /\ \A r \in DOMAIN issued : ~Before(target, issued[r])
<1>1. /\ target \in Loads /\ issued # << >> /\ target = issued[Len(issued)]
      /\ issued \in Seq(Loads)
      /\ \A i, j \in DOMAIN issued : i < j => Before(issued[i], issued[j])
  BY DEF MpvInv, IssuedInOrder, Playing
<1>2. ASSUME NEW r \in DOMAIN issued
      PROVE  (issued[r] = target => r = Len(issued)) /\ ~Before(target, issued[r])
  <2>1. r = Len(issued) \/ r < Len(issued)
    BY <1>1
  <2>2. issued[r] \in Loads /\ Len(issued) \in DOMAIN issued
    BY <1>1
  <2>3. CASE r < Len(issued)
    <3>1. Before(issued[r], target)
      BY <1>1, <2>2, <2>3
    <3> QED BY <1>1, <2>2, <3>1, LoadOrder DEF NotAfter
  <2>4. CASE r = Len(issued)
    BY <1>1, <2>4, LoadOrder
  <2> QED BY <2>1, <2>3, <2>4
<1> QED BY <1>1, <1>2

\* The entries of the load to play are the last ones.
LEMMA LastOwned ==
  ASSUME MpvInv, NEW e \in DOMAIN mpv.owner, Owned(e)
  PROVE  Playing /\ \A d \in DOMAIN mpv.owner : d > e => Owned(d)
<1>1. mpv.owner \in Seq(Loads) /\ issued \in Seq(Loads) /\ mpv.owner # << >>
  BY InvFacts
<1>2. Playing
  BY <1>1, NoTargetIsNoLoad DEF Owned, Playing
<1>3. ASSUME NEW d \in DOMAIN mpv.owner, d > e PROVE Owned(d)
  <2>1. NotAfter(mpv.owner[e], mpv.owner[d]) /\ NotAfter(mpv.owner[d], issued[Len(issued)])
    BY <1>1, <1>3 DEF MpvInv, OwnersInOrder
  <2>2. mpv.owner[d] \in Loads /\ target \in Loads /\ target = issued[Len(issued)]
    BY <1>1, <1>2, TargetFacts
  <2> QED BY <2>1, <2>2, LoadOrder DEF Owned
<1> QED BY <1>2, <1>3

\* Behind an entry of the load to play that plays there is none.
LEMMA PlayingOwned ==
  ASSUME MpvInv, mpv.playing # NoEntry, Owned(mpv.playing)
  PROVE  /\ mpv.upNext = NoEntry /\ mpv.playing = Len(mpv.owner)
         /\ mpv.playing \in DOMAIN mpv.owner /\ Playing
<1>1. /\ mpv.owner \in Seq(Loads) /\ mpv.playing \in 0 .. Len(mpv.owner)
      /\ mpv.upNext \in 0 .. Len(mpv.owner)
  BY InvFacts
<1>2. mpv.playing \in DOMAIN mpv.owner
  BY <1>1 DEF NoEntry
<1>3. Playing /\ \A d \in DOMAIN mpv.owner : d > mpv.playing => Owned(d)
  BY <1>2, LastOwned
<1>4. \A e \in DOMAIN mpv.owner : e > mpv.playing => ~Owned(e)
  BY DEF MpvInv, LastPlays, Owned
<1>5. mpv.upNext = NoEntry
  BY <1>1, <1>3, <1>4 DEF MpvInv, LastPlays, NoEntry
<1> QED BY <1>2, <1>3, <1>5 DEF MpvInv, LastPlays

\* With nothing left in libmpv or in its mail, the session has been told.
LEMMA NothingIsLostHolds ==
  ASSUME MpvInv, AnswersInv PROVE NothingIsLost
<1>1. SilenceIsExplained
  <2> SUFFICES ASSUME Playing, Quiet, reported \cap Outcomes = {} PROVE FALSE
    BY DEF SilenceIsExplained
  <2>1. AnswerComes /\ Continues
    BY DEF AnswersInv, TargetAnswered, Unanswered, Quiet
  <2>2. DOMAIN mpv.mail = {} /\ DOMAIN mpv.commands = {} /\ DOMAIN adapter.events = {}
    BY DEF Quiet
  <2>3. Len(issued) \notin DOMAIN adapter.requests
    BY <2>2 DEF AnswersInv, MailInv, RequestsAnswered
  <2>4. ~Known(NoEntry)
    BY KnownFacts DEF NoEntry
  <2>5. ASSUME NEW e, Known(e), Owned(e) PROVE FALSE
    <3>1. StartComes(e, 0) \/ EndComes(e, 0)
      BY <2>1, <2>5 DEF Continues, Known
    <3> QED BY <2>2, <2>4, <2>5, <3>1 DEF StartComes, EndComes, Coming, Quiet
  <2> QED BY <2>1, <2>2, <2>3, <2>5 DEF AnswerComes
<1>2. FirstStartReportedInOrder
  <2> SUFFICES ASSUME Showing, ~mpv.lossy, ~mpv.skipped PROVE "FirstStart" \in reported
    BY DEF FirstStartReportedInOrder
  <2>1. Owned(mpv.playing) /\ mpv.playing # NoEntry /\ mpv.state = "Up" /\ mpv.restarted
        /\ DOMAIN mpv.mail = {}
    BY DEF Showing, Owned
  <2>2. Calm
    BY <2>1, PlayingOwned DEF Calm
  <2> QED BY <2>1, <2>2 DEF AnswersInv, EntriesKnown, Coming
<1> QED BY <1>1, <1>2 DEF NothingIsLost

-----------------------------------------------------------------------------
(* A step of libmpv posts at most one event.                               *)

\* The event is the last of the mail, or it was lost.
Posts(event) ==
  \/ mpv'.mail = Append(mpv.mail, event) /\ mpv'.choked = mpv.choked /\ mpv'.lossy = mpv.lossy
  \/ mpv'.mail = mpv.mail /\ mpv'.choked = TRUE /\ mpv'.lossy = TRUE

\* It takes the last place of the mail.
Posted(event) ==
  /\ Len(mpv'.mail) = Len(mpv.mail) + 1 /\ DOMAIN mpv'.mail = 1 .. Len(mpv.mail) + 1
  /\ mpv'.mail[Len(mpv.mail) + 1] = event

\* What posting leaves of the mail: all of it, and the event unless it was lost.
LEMMA PostedMail ==
  ASSUME MpvInv, NEW event, Posts(event)
  PROVE  /\ mpv.mail \in Seq(Messages) /\ DOMAIN mpv.mail = 1 .. Len(mpv.mail)
         /\ Len(mpv.mail) \in Nat
         /\ \A i \in DOMAIN mpv.mail : i \in DOMAIN mpv'.mail /\ mpv'.mail[i] = mpv.mail[i]
         /\ Posted(event) \/ (mpv'.mail = mpv.mail /\ mpv'.choked = TRUE /\ mpv'.lossy = TRUE)
         /\ \A i \in DOMAIN mpv'.mail : i \in DOMAIN mpv.mail \/ (Posted(event) /\ i = Len(mpv.mail) + 1)
         /\ mpv.choked => mpv'.choked
         /\ mpv.lossy => mpv'.lossy
<1>1. mpv.mail \in Seq(Messages)
  BY InvFacts
<1>2. CASE mpv'.mail = Append(mpv.mail, event) /\ mpv'.choked = mpv.choked /\ mpv'.lossy = mpv.lossy
  BY <1>1, <1>2 DEF Posted
<1>3. CASE mpv'.mail = mpv.mail /\ mpv'.choked = TRUE /\ mpv'.lossy = TRUE
  BY <1>1, <1>3
<1> QED BY <1>2, <1>3 DEF Posts

\* What the mail said it still says, and no more than the event besides.
LEMMA PostsSay ==
  ASSUME MpvInv, NEW event, Posts(event), adapter' = adapter
  PROVE  /\ \A kind, e, i : Coming(kind, e, i) => Coming(kind, e, i)'
         /\ \A kind, e, i : Coming(kind, e, i)' =>
              Coming(kind, e, i) \/ (event.kind = kind /\ event.entry = e)
         /\ Posted(event) => \A i \in 0 .. Len(mpv.mail) : Coming(event.kind, event.entry, i)'
         /\ \A e, i : InsertedBefore(e, i) => InsertedBefore(e, i)'
         /\ \A e, i : StartedBefore(e, i) => StartedBefore(e, i)'
         /\ \A e, i : AcceptedBefore(e, i) => AcceptedBefore(e, i)'
<1>1. /\ mpv.mail \in Seq(Messages) /\ DOMAIN mpv.mail = 1 .. Len(mpv.mail)
      /\ Len(mpv.mail) \in Nat
      /\ \A i \in DOMAIN mpv.mail : i \in DOMAIN mpv'.mail /\ mpv'.mail[i] = mpv.mail[i]
      /\ \A i \in DOMAIN mpv'.mail : i \in DOMAIN mpv.mail \/ (Posted(event) /\ i = Len(mpv.mail) + 1)
  BY PostedMail
<1>2. \A kind, e, i : Coming(kind, e, i) => Coming(kind, e, i)'
  BY <1>1 DEF Coming
<1>3. \A kind, e, i : Coming(kind, e, i)' =>
        Coming(kind, e, i) \/ (event.kind = kind /\ event.entry = e)
  BY <1>1 DEF Coming, Posted
<1>4. Posted(event) => \A i \in 0 .. Len(mpv.mail) : Coming(event.kind, event.entry, i)'
  BY <1>1 DEF Coming, Posted
<1>5. \A e, i : InsertedBefore(e, i) => InsertedBefore(e, i)'
  BY <1>1 DEF InsertedBefore
<1>6. \A e, i : StartedBefore(e, i) => StartedBefore(e, i)'
  BY <1>1 DEF StartedBefore
<1>7. \A e, i : AcceptedBefore(e, i) => AcceptedBefore(e, i)'
  BY <1>1 DEF AcceptedBefore
<1> QED BY <1>2, <1>3, <1>4, <1>5, <1>6, <1>7

\* Entries accepted are those there were, and their loads the same.
LEMMA OwnedGrows ==
  ASSUME MpvInv, MpvCore, Grows(mpv.owner, mpv'.owner)
  PROVE  /\ \A e \in DOMAIN mpv.owner : e \in DOMAIN mpv'.owner /\ mpv'.owner[e] = mpv.owner[e]
         /\ \A e \in DOMAIN mpv.owner : Owned(e)' <=> Owned(e)
         /\ generation' = generation /\ target' = target /\ adapter' = adapter
         /\ issued' = issued /\ stopped' = stopped /\ current_entry' = current_entry
         /\ reported' = reported
         /\ \A e : Known(e)' <=> Known(e)
<1>1. /\ generation' = generation /\ target' = target /\ adapter' = adapter
      /\ issued' = issued /\ stopped' = stopped /\ current_entry' = current_entry
  BY DEF MpvCore, playerVars
<1>2. reported' = reported
  <2>1. Range(<< >>) = {}
    BY DEF Range
  <2> QED BY <1>1, <2>1 DEF MpvCore, Deliver
<1>3. mpv.owner \in Seq(Loads) /\ mpv'.owner \in Seq(Loads)
  BY InvFacts DEF Grows
<1>4. \A e \in DOMAIN mpv.owner : e \in DOMAIN mpv'.owner /\ mpv'.owner[e] = mpv.owner[e]
  BY <1>3 DEF Grows
<1> QED BY <1>1, <1>2, <1>4 DEF Owned, Known

\* How an event moves an entry between the places of libmpv: what leaves a
\* place is told, and what comes to one was in another or is new.
Carries(event) ==
  LET places    == {mpv.upNext, mpv.playing, mpv.lingering}
      newPlaces == {mpv'.upNext, mpv'.playing, mpv'.lingering}
  IN  /\ \A e \in newPlaces : e \in places \/ e = NoEntry \/ e > Len(mpv.owner)
      /\ mpv'.lingering # NoEntry => mpv'.lingering \notin {mpv'.playing, mpv'.upNext}
      /\ event.kind \in {"Start", "End"} => event.entry \in places
      /\ event.kind = "End" => event.entry \notin newPlaces
      /\ event.kind = "Start" =>
           /\ event.entry = mpv.upNext /\ mpv.upNext # NoEntry /\ event.entry = mpv'.playing
      /\ event.kind = "End" =>
           /\ event.reason = "Redirect" => event.inserted # {}
           /\ \A n \in event.inserted : n = mpv'.upNext
      /\ event.kind = "End" /\ event.inserted # {} =>
           event.entry = mpv.playing /\ mpv.playing # NoEntry
      /\ event.kind = "Shutdown" => mpv'.state # "Up"

\* What was to start or plays does so still, or the event says what became of it.
Moves(event) ==
  /\ mpv.upNext # NoEntry =>
       mpv'.upNext = mpv.upNext \/ (event.kind = "Start" /\ event.entry = mpv.upNext)
  /\ mpv.playing # NoEntry /\ Owned(mpv.playing) =>
       mpv'.playing = mpv.playing \/ (event.kind = "End" /\ event.entry = mpv.playing)
  /\ mpv'.upNext # NoEntry =>
       mpv'.upNext = mpv.upNext \/ (event.kind = "End" /\ mpv'.upNext \in event.inserted)
  /\ mpv'.playing # NoEntry =>
       \/ event.kind = "Start" /\ event.entry = mpv'.playing /\ mpv'.restarted = FALSE
       \/ /\ mpv'.playing = mpv.playing
          /\ mpv'.restarted = mpv.restarted \/ (event.kind = "Restart" /\ event.entry = mpv.playing)

\* A step of libmpv that runs no command.
Runs(event) ==
  /\ MpvCore /\ event \in Messages /\ event.kind # "Reply" /\ Posts(event)
  /\ Grows(mpv.owner, mpv'.owner) /\ mpv'.commands = mpv.commands
  /\ mpv'.skipped = mpv.skipped
  /\ \A e \in DOMAIN mpv'.owner : e \in DOMAIN mpv.owner \/
       (mpv.playing # NoEntry /\ mpv'.owner[e] = mpv.owner[mpv.playing])
  /\ Carries(event) /\ Moves(event)

\* A step that runs no command keeps what is known of requests, replies and ends.
LEMMA RunKeepsMail ==
  ASSUME MpvInv, MpvInv', AnswersInv, NEW event, Runs(event)
  PROVE  MailInv'
<1> USE DEF Runs
<1>1. /\ \A e \in DOMAIN mpv.owner : e \in DOMAIN mpv'.owner /\ mpv'.owner[e] = mpv.owner[e]
      /\ \A e \in DOMAIN mpv.owner : Owned(e)' <=> Owned(e)
      /\ target' = target /\ adapter' = adapter /\ issued' = issued /\ reported' = reported
      /\ \A e : Known(e)' <=> Known(e)
  BY OwnedGrows
<1>2. /\ DOMAIN mpv.mail = 1 .. Len(mpv.mail) /\ Len(mpv.mail) \in Nat
      /\ \A i \in DOMAIN mpv.mail : i \in DOMAIN mpv'.mail /\ mpv'.mail[i] = mpv.mail[i]
      /\ Posted(event) \/ (mpv'.mail = mpv.mail /\ mpv'.choked = TRUE /\ mpv'.lossy = TRUE)
      /\ \A i \in DOMAIN mpv'.mail :
           i \in DOMAIN mpv.mail \/ (i = Len(mpv.mail) + 1 /\ mpv'.mail[i] = event)
      /\ mpv.lossy => mpv'.lossy
  BY PostedMail DEF Posted
<1>3. RequestsAnswered'
  BY <1>1, <1>2 DEF AnswersInv, MailInv, RequestsAnswered
<1>4. RepliesInOrder'
  <2>1. \A e : Known(e) => mpv'.owner[e] = mpv.owner[e]
    BY <1>1, KnownFacts
  <2>2. \A i \in DOMAIN mpv'.mail : mpv'.mail[i].kind = "Reply" =>
          i \in DOMAIN mpv.mail /\ mpv'.mail[i] = mpv.mail[i]
    BY <1>2
  <2> QED BY <1>1, <2>1, <2>2 DEF AnswersInv, MailInv, RepliesInOrder
<1>5. LastCommand'
  <2> SUFFICES ASSUME Playing PROVE
        /\ \A k \in DOMAIN mpv.commands :
             mpv.commands[k].kind = "loadfile" /\ mpv.commands[k].request = Len(issued) =>
               k = Len(mpv.commands)
        /\ \A e \in DOMAIN mpv'.owner : mpv'.owner[e] = target => mpv.commands = << >>
    BY <1>1 DEF LastCommand, Playing, Owned
  <2>1. mpv.playing # NoEntry => mpv.playing \in DOMAIN mpv.owner
    BY InvFacts DEF NoEntry
  <2> QED BY <1>1, <2>1 DEF AnswersInv, MailInv, LastCommand, Owned
<1>6. FailureIsTold'
  BY <1>1 DEF AnswersInv, MailInv, FailureIsTold, Playing
<1>7. LossIsKnown'
  <2>1. mpv'.choked => mpv'.lossy
    BY DEF AnswersInv, MailInv, LossIsKnown, Posts
  <2>2. \A i \in DOMAIN mpv'.mail : mpv'.mail[i].kind = "Shutdown" => mpv'.state # "Up"
    BY <1>2 DEF AnswersInv, MailInv, LossIsKnown, MpvCore, Carries
  <2> QED BY <2>1, <2>2 DEF LossIsKnown
<1>8. EndsOnce'
  <2>1. mpv'.lingering # NoEntry => mpv'.lingering \notin {mpv'.playing, mpv'.upNext}
    BY DEF Carries
  <2>2. ASSUME NEW i \in DOMAIN mpv'.mail, mpv'.mail[i].kind = "End", NEW e, e = mpv'.mail[i].entry
        PROVE  /\ e \notin {mpv'.upNext, mpv'.playing, mpv'.lingering}
               /\ ~Coming("Start", e, i)' /\ ~Coming("End", e, i)'
    <3>1. CASE i \in DOMAIN mpv.mail
      <4>1. /\ mpv.mail[i].kind = "End" /\ mpv.mail[i].entry = e
        BY <1>2, <2>2, <3>1
      <4>2. /\ e \notin {mpv.upNext, mpv.playing, mpv.lingering}
            /\ ~Coming("Start", e, i) /\ ~Coming("End", e, i)
        BY <3>1, <4>1 DEF AnswersInv, MailInv, EndsOnce
      <4>3. e \in DOMAIN mpv.owner /\ e \in Nat \ {0} /\ mpv.owner \in Seq(Loads)
        BY <3>1, <4>1, MailFacts, InvFacts
      <4>4. ~(event.kind \in {"Start", "End"} /\ event.entry = e)
        BY <4>2 DEF Carries
      <4>5. e \notin {mpv'.upNext, mpv'.playing, mpv'.lingering}
        BY <4>2, <4>3 DEF Carries, NoEntry
      <4> QED BY <1>1, <4>2, <4>4, <4>5, PostsSay
    <3>2. CASE i \notin DOMAIN mpv.mail
      <4>1. i = Len(mpv.mail) + 1 /\ mpv'.mail[i] = event
        BY <1>2, <3>2
      <4>2. \A j \in DOMAIN mpv'.mail : ~(j > i)
        BY <1>2, <4>1
      <4> QED BY <2>2, <4>1, <4>2 DEF Coming, Carries
    <3> QED BY <3>1, <3>2
  <2> QED BY <2>1, <2>2 DEF EndsOnce
<1>9. StartIsTold'
  BY <1>1, KnownFacts DEF AnswersInv, MailInv, StartIsTold, Known
<1> QED BY <1>3, <1>4, <1>5, <1>6, <1>7, <1>8, <1>9 DEF MailInv

\* What would start or end still does.
LEMMA RunsOn ==
  ASSUME MpvInv, NEW event, Runs(event), Posted(event)
  PROVE  /\ \A e \in Nat \ {0}, i \in 0 .. Len(mpv.mail) : StartComes(e, i) => StartComes(e, i)'
         /\ \A e \in DOMAIN mpv.owner, i \in 0 .. Len(mpv.mail) :
              Owned(e) /\ EndComes(e, i) => EndComes(e, i)'
<1> USE DEF Runs
<1>1. adapter' = adapter
  BY OwnedGrows
<1>2. /\ \A kind, e, i : Coming(kind, e, i) => Coming(kind, e, i)'
      /\ \A i \in 0 .. Len(mpv.mail) : Coming(event.kind, event.entry, i)'
  BY <1>1, PostsSay
<1>3. /\ mpv.playing \in 0 .. Len(mpv.owner) /\ mpv.owner \in Seq(Loads)
      /\ mpv.upNext \in 0 .. Len(mpv.owner)
  BY InvFacts
<1>4. ASSUME NEW e \in Nat \ {0}, NEW i \in 0 .. Len(mpv.mail), StartComes(e, i)
      PROVE  StartComes(e, i)'
  <2>1. CASE mpv.upNext = e
    BY <1>2, <1>4, <2>1 DEF StartComes, Moves, NoEntry
  <2>2. CASE Coming("Start", e, i)
    BY <1>2, <2>2 DEF StartComes
  <2> QED BY <1>4, <2>1, <2>2 DEF StartComes
<1>5. ASSUME NEW e \in DOMAIN mpv.owner, NEW i \in 0 .. Len(mpv.mail), Owned(e), EndComes(e, i)
      PROVE  EndComes(e, i)'
  <2>1. CASE mpv.upNext = e
    BY <1>2, <1>3, <1>5, <2>1 DEF EndComes, Moves, Carries, NoEntry
  <2>2. CASE mpv.playing = e
    BY <1>2, <1>3, <1>5, <2>2 DEF EndComes, Moves, NoEntry
  <2>3. CASE Coming("End", e, i)
    BY <1>2, <2>3 DEF EndComes
  <2> QED BY <1>5, <2>1, <2>2, <2>3 DEF EndComes
<1> QED BY <1>4, <1>5

\* An event that was lost leaves nothing to show.
LEMMA LostShowsNothing ==
  ASSUME mpv'.choked = TRUE, mpv'.lossy = TRUE
  PROVE  TargetAnswered' /\ StartsFollow' /\ EntriesKnown'
BY DEF TargetAnswered, Unanswered, StartsFollow, EntriesKnown, Calm

\* A step that runs no command keeps the answer under way: what leaves libmpv is
\* in the mail, or the loss of it is known.
LEMMA RunKeepsAnswers ==
  ASSUME MpvInv, MpvInv', AnswersInv, NEW event, Runs(event)
  PROVE  AnswersInv'
<1> USE DEF Runs
<1>1. /\ \A e \in DOMAIN mpv.owner : e \in DOMAIN mpv'.owner /\ mpv'.owner[e] = mpv.owner[e]
      /\ \A e \in DOMAIN mpv.owner : Owned(e)' <=> Owned(e)
      /\ target' = target /\ adapter' = adapter /\ issued' = issued /\ reported' = reported
      /\ current_entry' = current_entry
      /\ \A e : Known(e)' <=> Known(e)
  BY OwnedGrows
<1>2. MailInv'
  BY RunKeepsMail
<1>3. CASE mpv'.choked = TRUE /\ mpv'.lossy = TRUE
  BY <1>2, <1>3, LostShowsNothing DEF AnswersInv
<1>4. CASE Posted(event)
  <2>1. /\ DOMAIN mpv.mail = 1 .. Len(mpv.mail) /\ Len(mpv.mail) \in Nat
        /\ \A i \in DOMAIN mpv.mail : i \in DOMAIN mpv'.mail /\ mpv'.mail[i] = mpv.mail[i]
        /\ \A i \in DOMAIN mpv'.mail : i \in DOMAIN mpv.mail \/ i = Len(mpv.mail) + 1
        /\ mpv'.mail[Len(mpv.mail) + 1] = event /\ Len(mpv'.mail) = Len(mpv.mail) + 1
        /\ Len(mpv.mail) + 1 \in DOMAIN mpv'.mail
        /\ mpv.choked => mpv'.choked
        /\ mpv.lossy => mpv'.lossy
    <3>1. /\ DOMAIN mpv.mail = 1 .. Len(mpv.mail) /\ Len(mpv.mail) \in Nat
          /\ \A i \in DOMAIN mpv.mail : i \in DOMAIN mpv'.mail /\ mpv'.mail[i] = mpv.mail[i]
          /\ mpv.choked => mpv'.choked
          /\ mpv.lossy => mpv'.lossy
      BY PostedMail
    <3> QED BY <1>4, <3>1 DEF Posted
  <2>2. /\ \A e \in Nat \ {0}, i \in 0 .. Len(mpv.mail) : StartComes(e, i) => StartComes(e, i)'
        /\ \A e \in DOMAIN mpv.owner, i \in 0 .. Len(mpv.mail) :
             Owned(e) /\ EndComes(e, i) => EndComes(e, i)'
    BY <1>4, RunsOn
  <2>3. /\ \A kind, e, i : Coming(kind, e, i) => Coming(kind, e, i)'
        /\ \A i \in 0 .. Len(mpv.mail) : Coming(event.kind, event.entry, i)'
        /\ \A e, i : InsertedBefore(e, i) => InsertedBefore(e, i)'
        /\ \A e, i : StartedBefore(e, i) => StartedBefore(e, i)'
        /\ \A e, i : AcceptedBefore(e, i) => AcceptedBefore(e, i)'
    BY <1>1, <1>4, PostsSay
  <2>4. /\ mpv.playing \in 0 .. Len(mpv.owner) /\ mpv.owner \in Seq(Loads)
        /\ mpv.upNext \in 0 .. Len(mpv.owner) /\ DOMAIN mpv.owner \subseteq Nat \ {0}
    BY InvFacts
  <2>5. mpv.state = "Up"
    BY DEF MpvCore
  <2>6. event.kind \in {"Start", "End"} => event.entry \in DOMAIN mpv.owner
    <3>1. event.kind \in {"Start", "End"} => event.entry \in DOMAIN mpv'.owner
      <4>1. MessageSound(event, mpv'.owner, issued)
        BY <1>1, <2>1 DEF MpvInv, MailSound
      <4> QED BY <4>1 DEF MessageSound, Marks
    <3>2. mpv'.owner \in Seq(Loads) /\ mpv.lingering \in 0 .. Len(mpv.owner)
      BY InvFacts DEF Grows
    <3> QED BY <2>4, <3>1, <3>2 DEF Carries
  <2>7. TargetAnswered'
    <3> SUFFICES ASSUME Unanswered' PROVE AnswerComes' /\ Continues'
      BY DEF TargetAnswered
    <3>1. Unanswered
      BY <1>1, <2>1, <2>5 DEF Unanswered, Playing
    <3>2. AnswerComes /\ Continues
      BY <3>1 DEF AnswersInv, TargetAnswered
    <3>3. AnswerComes'
      <4>1. \A e : Known(e) /\ Owned(e) => Known(e)' /\ Owned(e)'
        BY <1>1, KnownFacts
      <4> QED BY <1>1, <3>2, <4>1 DEF AnswerComes
    <3>4. /\ \A e \in DOMAIN adapter'.pending : Owned(e)' => StartComes(e, 0)'
          /\ \A e \in DOMAIN adapter'.entries : Owned(e)' => EndComes(e, 0)'
      <4>1. \A e \in DOMAIN adapter.pending \cup DOMAIN adapter.entries :
              e \in DOMAIN mpv.owner /\ e \in Nat \ {0}
        BY KnownFacts DEF Known
      <4>2. 0 \in 0 .. Len(mpv.mail)
        BY <2>1
      <4> QED BY <1>1, <2>2, <3>2, <4>1, <4>2 DEF Continues
    <3>5. ASSUME NEW i \in DOMAIN mpv'.mail, NEW m, m = mpv'.mail[i] PROVE LeadsOn(m, i)'
      <4>1. CASE i \in DOMAIN mpv.mail
        <5>1. LeadsOn(m, i) /\ m = mpv.mail[i] /\ i \in 0 .. Len(mpv.mail)
          BY <2>1, <3>2, <3>5, <4>1 DEF Continues
        <5>2. /\ m.kind = "Reply" /\ m.accepted => m.entry \in DOMAIN mpv.owner
              /\ m.kind \in {"Start", "End"} => m.entry \in DOMAIN mpv.owner
              /\ m.kind = "End" => \A n \in m.inserted :
                   n \in DOMAIN mpv.owner /\ mpv.owner[n] = mpv.owner[m.entry]
          BY <4>1, <5>1, MailFacts
        <5> QED BY <1>1, <2>2, <2>4, <5>1, <5>2 DEF LeadsOn, Owned
      <4>2. CASE i = Len(mpv.mail) + 1
        <5>1. m = event
          BY <2>1, <3>5, <4>2
        <5>2. event.kind = "Start" => EndComes(event.entry, i)'
          BY DEF Carries, EndComes
        <5>3. event.kind = "End" =>
                /\ event.reason = "Redirect" => event.inserted # {}
                /\ \A n \in event.inserted : EndComes(n, i)'
          BY DEF Carries, EndComes
        <5> QED BY <5>1, <5>2, <5>3 DEF LeadsOn
      <4> QED BY <2>1, <3>5, <4>1, <4>2
    <3> QED BY <3>3, <3>4, <3>5 DEF Continues
  <2>8. StartsFollow'
    <3> SUFFICES ASSUME ~mpv'.lossy, ~mpv'.skipped
                 PROVE  /\ \A e \in DOMAIN adapter.pending : StartComes(e, 0)'
                        /\ \A i \in DOMAIN mpv'.mail :
                             /\ mpv'.mail[i].kind = "Reply" /\ mpv'.mail[i].accepted
                             /\ mpv'.mail[i].request \in DOMAIN adapter.requests
                             => \E e : e = mpv'.mail[i].entry /\ StartComes(e, i)'
      BY <1>1 DEF StartsFollow
    <3>1. ~mpv.lossy /\ ~mpv.skipped
      BY <2>1
    <3>2. \A e \in DOMAIN adapter.pending : e \in Nat \ {0} /\ StartComes(e, 0)
      BY <3>1, KnownFacts DEF AnswersInv, StartsFollow, Known
    <3>3. 0 \in 0 .. Len(mpv.mail)
      BY <2>1
    <3>4. ASSUME NEW i \in DOMAIN mpv'.mail, mpv'.mail[i].kind = "Reply", mpv'.mail[i].accepted,
                 mpv'.mail[i].request \in DOMAIN adapter.requests
          PROVE  \E e : e = mpv'.mail[i].entry /\ StartComes(e, i)'
      <4>1. i \in DOMAIN mpv.mail /\ mpv'.mail[i] = mpv.mail[i] /\ i \in 0 .. Len(mpv.mail)
        BY <2>1, <3>4
      <4>2. mpv.mail[i].entry \in Nat \ {0}
        BY <2>4, <3>4, <4>1, MailFacts
      <4>3. StartComes(mpv.mail[i].entry, i)
        BY <3>1, <3>4, <4>1 DEF AnswersInv, StartsFollow
      <4> QED BY <2>2, <4>1, <4>2, <4>3
    <3> QED BY <2>2, <3>2, <3>3, <3>4
  <2>9. EntriesKnown'
    <3> SUFFICES ASSUME Calm' PROVE EntriesKnown'
      BY DEF EntriesKnown
    <3>1. Calm
      BY <1>1, <2>1, <2>5 DEF Calm, Playing
    <3>2. EntriesKnown
      BY DEF AnswersInv
    <3>3. \A k \in DOMAIN mpv'.commands :
            mpv'.commands[k].kind = "loadfile" /\ mpv'.commands[k].request = Len(issued') =>
              Len(issued') \in DOMAIN adapter'.requests
      BY <1>1, <3>1, <3>2 DEF EntriesKnown
    <3>4. /\ \A e, i : Acquainted(e, i) => Acquainted(e, i)'
          /\ \A e, i : Admitted(e, i) => Admitted(e, i)'
      <4>1. \A e, i : Acquainted(e, i) => Acquainted(e, i)'
        BY <1>1, <2>3 DEF Acquainted
      <4>2. \A e, i : Admitted(e, i) => Admitted(e, i)'
        BY <1>1, <2>3 DEF Admitted
      <4> QED BY <4>1, <4>2
    <3>5. /\ \A e, i, j : Acquainted(e, i) /\ i <= j /\ i \in Nat /\ j \in Nat => Acquainted(e, j)
          /\ \A e, i, j : Admitted(e, i) /\ i <= j /\ i \in Nat /\ j \in Nat => Admitted(e, j)
      <4>1. DOMAIN mpv.mail \subseteq Nat
        BY <2>1
      <4> QED BY <4>1 DEF Acquainted, Admitted, InsertedBefore, StartedBefore, AcceptedBefore
    <3>6. ASSUME NEW n, n = Len(mpv'.mail) + 1, NEW e, e = mpv'.upNext, e # NoEntry, Owned(e)'
          PROVE  Acquainted(e, n)'
      <4>1. n = Len(mpv.mail) + 2 /\ n \in Nat
        BY <2>1, <3>6
      <4>2. CASE e = mpv.upNext
        <5>1. Owned(e)
          BY <1>1, <2>4, <3>6, <4>2 DEF NoEntry
        <5>2. Acquainted(e, Len(mpv.mail) + 1)
          BY <3>1, <3>2, <3>6, <4>2, <5>1 DEF EntriesKnown
        <5> QED BY <2>1, <3>4, <3>5, <4>1, <5>2
      <4>3. CASE event.kind = "End" /\ e \in event.inserted
        <5>1. InsertedBefore(e, n)'
          BY <2>1, <4>1, <4>3 DEF InsertedBefore
        <5> QED BY <5>1 DEF Acquainted
      <4> QED BY <3>6, <4>2, <4>3 DEF Moves
    <3>7. ASSUME NEW n, n = Len(mpv'.mail) + 1, NEW p, p = mpv'.playing, p # NoEntry, Owned(p)'
          PROVE  /\ Admitted(p, n)'
                 /\ Coming("Start", p, 0)' \/ current_entry' = p
                 /\ mpv'.restarted /\ ~mpv'.skipped =>
                      "FirstStart" \in reported' \/ Coming("Restart", p, 0)'
      <4>1. n = Len(mpv.mail) + 2 /\ n \in Nat /\ 0 \in 0 .. Len(mpv.mail)
        BY <2>1, <3>7
      <4>2. CASE event.kind = "Start" /\ event.entry = p /\ mpv'.restarted = FALSE
        <5>1. StartedBefore(p, n)'
          BY <2>1, <4>1, <4>2 DEF StartedBefore
        <5>2. Coming("Start", p, 0)'
          BY <2>3, <4>1, <4>2
        <5> QED BY <4>2, <5>1, <5>2 DEF Admitted
      <4>3. CASE /\ p = mpv.playing
                 /\ mpv'.restarted = mpv.restarted \/ (event.kind = "Restart" /\ event.entry = p)
        <5>1. Owned(p)
          BY <1>1, <2>4, <3>7, <4>3 DEF NoEntry
        <5>2. /\ Admitted(p, Len(mpv.mail) + 1)
              /\ Coming("Start", p, 0) \/ current_entry = p
              /\ mpv.restarted /\ ~mpv.skipped =>
                   "FirstStart" \in reported \/ Coming("Restart", p, 0)
          BY <3>1, <3>2, <3>7, <4>3, <5>1 DEF EntriesKnown
        <5>3. Admitted(p, n)'
          <6>1. Len(mpv.mail) + 1 <= n /\ Len(mpv.mail) + 1 \in Nat
            BY <2>1, <4>1
          <6>2. Admitted(p, n)
            BY <3>5, <4>1, <5>2, <6>1
          <6> QED BY <3>4, <6>2
        <5>4. CASE mpv'.restarted = mpv.restarted
          BY <1>1, <2>3, <5>2, <5>3, <5>4
        <5>5. CASE event.kind = "Restart" /\ event.entry = p
          BY <1>1, <2>3, <4>1, <5>2, <5>3, <5>5
        <5> QED BY <4>3, <5>4, <5>5
      <4> QED BY <3>7, <4>2, <4>3 DEF Moves
    <3>8. ASSUME NEW i \in DOMAIN mpv'.mail, NEW m, m = mpv'.mail[i] PROVE Introduced(m, i)'
      <4>1. CASE i \in DOMAIN mpv.mail
        <5>1. Introduced(m, i) /\ m = mpv.mail[i]
          BY <2>1, <3>1, <3>2, <3>8, <4>1 DEF EntriesKnown
        <5>2. m.kind \in {"Start", "End"} => m.entry \in DOMAIN mpv.owner
          BY <4>1, <5>1, MailFacts
        <5> QED BY <1>1, <3>4, <5>1, <5>2 DEF Introduced
      <4>2. CASE i = Len(mpv.mail) + 1
        <5>1. m = event
          BY <2>1, <3>8, <4>2
        <5>2. ASSUME event.kind = "Start", Owned(event.entry)' PROVE Acquainted(event.entry, i)'
          <6>1. event.entry = mpv.upNext /\ mpv.upNext # NoEntry /\ Owned(mpv.upNext)
            BY <1>1, <2>6, <5>2 DEF Carries
          <6>2. Acquainted(event.entry, i)
            BY <3>1, <3>2, <4>2, <6>1 DEF EntriesKnown
          <6> QED BY <3>4, <6>2
        <5>3. ASSUME event.kind = "End", event.inserted # {}, Owned(event.entry)'
              PROVE  Admitted(event.entry, i)'
          <6>1. event.entry = mpv.playing /\ mpv.playing # NoEntry /\ Owned(mpv.playing)
            BY <1>1, <2>6, <5>3 DEF Carries
          <6>2. Admitted(event.entry, i)
            BY <3>1, <3>2, <4>2, <6>1 DEF EntriesKnown
          <6> QED BY <3>4, <6>2
        <5> QED BY <5>1, <5>2, <5>3 DEF Introduced
      <4> QED BY <2>1, <3>8, <4>1, <4>2
    <3> QED BY <3>3, <3>6, <3>7, <3>8 DEF EntriesKnown
  <2> QED BY <1>2, <2>7, <2>8, <2>9 DEF AnswersInv
<1> QED BY <1>3, <1>4, PostedMail

\* What an event that is posted, and one that is lost, change of libmpv.
LEMMA PostSays ==
  ASSUME NEW m, IsMpv(m), NEW event, m.mail = mpv.mail, m.choked = mpv.choked, m.lossy = mpv.lossy
  PROVE  LET p == Post(m, event)
         IN  /\ IsMpv(p) /\ p.skipped = m.skipped /\ p.state = m.state /\ p.commands = m.commands
             /\ p.upNext = m.upNext /\ p.playing = m.playing /\ p.restarted = m.restarted
             /\ p.lingering = m.lingering /\ p.owner = m.owner
             /\ \/ /\ p.mail = Append(mpv.mail, event)
                   /\ p.choked = mpv.choked /\ p.lossy = mpv.lossy
                \/ p.mail = mpv.mail /\ p.choked = TRUE /\ p.lossy = TRUE
BY DEF IsMpv, MpvFields, Post

\* The places of libmpv, for the steps that move entries between them.
LEMMA PlaceFacts ==
  ASSUME MpvInv
  PROVE  /\ IsMpv(mpv) /\ mpv.owner \in Seq(Loads) /\ Len(mpv.owner) \in Nat
         /\ DOMAIN mpv.owner = 1 .. Len(mpv.owner)
         /\ mpv.upNext \in 0 .. Len(mpv.owner) /\ mpv.playing \in 0 .. Len(mpv.owner)
         /\ mpv.lingering \in 0 .. Len(mpv.owner)
         /\ mpv.upNext # 0 => mpv.upNext = Len(mpv.owner) /\ mpv.playing < mpv.upNext
         /\ mpv.playing # 0 /\ Owned(mpv.playing) => mpv.upNext = 0
BY InvFacts, PlayingOwned DEF MpvInv, LastPlays, NoEntry

\* Steps that accept no entry keep the loads of all.
LEMMA OwnersStay ==
  ASSUME MpvInv, mpv'.owner = mpv.owner
  PROVE  /\ Grows(mpv.owner, mpv'.owner)
         /\ \A e \in DOMAIN mpv'.owner : e \in DOMAIN mpv.owner \/
              (mpv.playing # NoEntry /\ mpv'.owner[e] = mpv.owner[mpv.playing])
BY InvFacts DEF Grows

\* The next entry starts.
LEMMA MpvStartsRuns ==
  ASSUME MpvInv, AnswersInv, MpvStarts PROVE \E event : Runs(event)
<1> DEFINE m == [mpv EXCEPT !.upNext = NoEntry, !.playing = mpv.upNext,
                            !.lingering = mpv.playing, !.restarted = FALSE]
           event == About("Start", mpv.upNext)
<1>1. /\ IsMpv(m) /\ m.upNext = 0 /\ m.playing = mpv.upNext /\ m.restarted = FALSE
      /\ m.lingering = mpv.playing /\ m.skipped = mpv.skipped
      /\ m.owner = mpv.owner /\ m.commands = mpv.commands /\ m.mail = mpv.mail
      /\ m.choked = mpv.choked /\ m.lossy = mpv.lossy
  BY PlaceFacts DEF IsMpv, MpvFields, NoEntry
<1>2. mpv' = Post(m, event) /\ mpv.upNext # 0 /\ mpv.lingering = 0 /\ MpvCore
  BY DEF MpvStarts, NoEntry
<1>3. mpv.upNext \in Nat /\ "Start" \in Marks
  BY PlaceFacts DEF Marks
<1>4. event \in Messages /\ event.kind = "Start" /\ event.entry = mpv.upNext
  BY <1>3, AboutSound
<1> HIDE DEF m, event
<1>5. /\ mpv'.upNext = 0 /\ mpv'.playing = mpv.upNext /\ mpv'.restarted = FALSE
      /\ mpv'.lingering = mpv.playing /\ mpv'.owner = mpv.owner
      /\ mpv'.commands = mpv.commands /\ mpv'.skipped = mpv.skipped
      /\ Posts(event)
  <2> DEFINE p == Post(m, event)
  <2>1. /\ p.skipped = m.skipped /\ p.commands = m.commands
        /\ p.upNext = m.upNext /\ p.playing = m.playing /\ p.restarted = m.restarted
        /\ p.lingering = m.lingering /\ p.owner = m.owner
        /\ \/ /\ p.mail = Append(mpv.mail, event)
              /\ p.choked = mpv.choked /\ p.lossy = mpv.lossy
           \/ p.mail = mpv.mail /\ p.choked = TRUE /\ p.lossy = TRUE
    BY <1>1, PostSays
  <2>2. mpv' = p
    BY <1>2
  <2> HIDE DEF p
  <2> QED BY <1>1, <2>1, <2>2 DEF Posts
<1>6. Carries(event)
  BY <1>2, <1>4, <1>5, PlaceFacts DEF Carries, NoEntry
<1>7. Moves(event)
  BY <1>2, <1>4, <1>5, PlaceFacts DEF Moves, NoEntry
<1> QED BY <1>2, <1>4, <1>5, <1>6, <1>7, OwnersStay DEF Runs

\* The end of an entry that another one has replaced.
LEMMA MpvEndsReplacedRuns ==
  ASSUME MpvInv, AnswersInv, MpvEndsReplaced PROVE \E event : Runs(event)
<1> DEFINE m == [mpv EXCEPT !.lingering = NoEntry]
           event == EndOf(mpv.lingering, "Stop", {})
<1>1. /\ IsMpv(m) /\ m.upNext = mpv.upNext /\ m.playing = mpv.playing /\ m.restarted = mpv.restarted
      /\ m.lingering = 0 /\ m.skipped = mpv.skipped
      /\ m.owner = mpv.owner /\ m.commands = mpv.commands /\ m.mail = mpv.mail
      /\ m.choked = mpv.choked /\ m.lossy = mpv.lossy
  BY PlaceFacts DEF IsMpv, MpvFields, NoEntry
<1>2. mpv' = Post(m, event) /\ mpv.lingering # 0 /\ MpvCore
  BY DEF MpvEndsReplaced, NoEntry
<1>3. /\ event \in Messages /\ event.kind = "End" /\ event.entry = mpv.lingering
      /\ event.inserted = {} /\ event.reason # "Redirect"
  <2>1. mpv.lingering \in Nat
    BY PlaceFacts
  <2>2. event.reason = "Stop"
    BY DEF EndOf
  <2> QED BY <2>1, <2>2, EndSound
<1> HIDE DEF m, event
<1>4. /\ mpv'.upNext = mpv.upNext /\ mpv'.playing = mpv.playing /\ mpv'.restarted = mpv.restarted
      /\ mpv'.lingering = 0 /\ mpv'.owner = mpv.owner
      /\ mpv'.commands = mpv.commands /\ mpv'.skipped = mpv.skipped
      /\ Posts(event)
  BY <1>1, <1>2, PostSays DEF Posts
<1>5. mpv.lingering \notin {mpv.playing, mpv.upNext}
  BY <1>2 DEF AnswersInv, MailInv, EndsOnce, NoEntry
<1>6. Carries(event)
  BY <1>2, <1>3, <1>4, <1>5, PlaceFacts DEF Carries, NoEntry
<1>7. Moves(event)
  BY <1>2, <1>3, <1>4, PlaceFacts DEF Moves, NoEntry
<1> QED BY <1>2, <1>3, <1>4, <1>6, <1>7, OwnersStay DEF Runs

\* The playing entry ends.
LEMMA MpvEndsRuns ==
  ASSUME MpvInv, AnswersInv, MpvEnds PROVE \E event : Runs(event)
<1> DEFINE reason == IF mpv.upNext = NoEntry THEN "Ended" ELSE "Stop"
           m == [mpv EXCEPT !.playing = NoEntry]
           event == EndOf(mpv.playing, reason, {})
<1>1. /\ IsMpv(m) /\ m.upNext = mpv.upNext /\ m.playing = 0 /\ m.restarted = mpv.restarted
      /\ m.lingering = mpv.lingering /\ m.skipped = mpv.skipped
      /\ m.owner = mpv.owner /\ m.commands = mpv.commands /\ m.mail = mpv.mail
      /\ m.choked = mpv.choked /\ m.lossy = mpv.lossy
  BY PlaceFacts DEF IsMpv, MpvFields, NoEntry
<1>2. mpv' = Post(m, event) /\ mpv.playing # 0 /\ MpvCore
  BY DEF MpvEnds, NoEntry
<1>3. /\ event \in Messages /\ event.kind = "End" /\ event.entry = mpv.playing
      /\ event.inserted = {} /\ event.reason # "Redirect"
  <2>1. mpv.playing \in Nat /\ reason \in {"Ended", "Stop", "Redirect"} /\ reason # "Redirect"
    BY PlaceFacts
  <2>2. event.reason = reason
    BY DEF EndOf
  <2> HIDE DEF reason
  <2> QED BY <2>1, <2>2, EndSound
<1> HIDE DEF m, event
<1>4. /\ mpv'.upNext = mpv.upNext /\ mpv'.playing = 0 /\ mpv'.restarted = mpv.restarted
      /\ mpv'.lingering = mpv.lingering /\ mpv'.owner = mpv.owner
      /\ mpv'.commands = mpv.commands /\ mpv'.skipped = mpv.skipped
      /\ Posts(event)
  BY <1>1, <1>2, PostSays DEF Posts
<1>5. mpv.lingering # 0 => mpv.lingering \notin {mpv.playing, mpv.upNext}
  BY DEF AnswersInv, MailInv, EndsOnce, NoEntry
<1>6. Carries(event)
  BY <1>2, <1>3, <1>4, <1>5, PlaceFacts DEF Carries, NoEntry
<1>7. Moves(event)
  BY <1>2, <1>3, <1>4, PlaceFacts DEF Moves, NoEntry
<1> QED BY <1>2, <1>3, <1>4, <1>6, <1>7, OwnersStay DEF Runs

\* The playing entry redirects to a new one of its load.
LEMMA MpvRedirectsRuns ==
  ASSUME MpvInv, AnswersInv, MpvRedirects PROVE \E event : Runs(event)
<1> DEFINE n == Len(mpv.owner) + 1
           m == [mpv EXCEPT !.playing = NoEntry, !.upNext = NewEntry,
                            !.owner = Append(@, @[mpv.playing])]
           event == EndOf(mpv.playing, "Redirect", {n})
<1>1. /\ IsMpv(m) /\ m.upNext = n /\ m.playing = 0 /\ m.restarted = mpv.restarted
      /\ m.lingering = mpv.lingering /\ m.skipped = mpv.skipped
      /\ m.owner = Append(mpv.owner, mpv.owner[mpv.playing])
      /\ m.commands = mpv.commands /\ m.mail = mpv.mail
      /\ m.choked = mpv.choked /\ m.lossy = mpv.lossy
  BY PlaceFacts DEF IsMpv, MpvFields, NoEntry, NewEntry
<1>2. mpv' = Post(m, event) /\ mpv.playing # 0 /\ mpv.upNext = 0 /\ MpvCore
  BY DEF MpvRedirects, NoEntry, NewEntry
<1>3. /\ event \in Messages /\ event.kind = "End" /\ event.entry = mpv.playing
      /\ event.inserted = {n} /\ event.reason = "Redirect"
  <2>1. mpv.playing \in Nat /\ {n} \in SUBSET Nat
    BY PlaceFacts
  <2>2. event.reason = "Redirect"
    BY DEF EndOf
  <2> QED BY <2>1, <2>2, EndSound
<1> HIDE DEF m, event
<1>4. /\ mpv'.upNext = n /\ mpv'.playing = 0 /\ mpv'.restarted = mpv.restarted
      /\ mpv'.lingering = mpv.lingering /\ mpv'.owner = Append(mpv.owner, mpv.owner[mpv.playing])
      /\ mpv'.commands = mpv.commands /\ mpv'.skipped = mpv.skipped
      /\ Posts(event)
  BY <1>1, <1>2, PostSays DEF Posts
<1>5. mpv.lingering # 0 => mpv.lingering \notin {mpv.playing, mpv.upNext}
  BY DEF AnswersInv, MailInv, EndsOnce, NoEntry
<1>6. Carries(event)
  BY <1>2, <1>3, <1>4, <1>5, PlaceFacts DEF Carries, NoEntry
<1>7. Moves(event)
  BY <1>2, <1>3, <1>4, PlaceFacts DEF Moves, NoEntry
<1>8. Grows(mpv.owner, mpv'.owner)
  BY <1>2, <1>4, PlaceFacts DEF Grows
<1>9. \A e \in DOMAIN mpv'.owner : e \in DOMAIN mpv.owner \/
        (mpv.playing # NoEntry /\ mpv'.owner[e] = mpv.owner[mpv.playing])
  BY <1>2, <1>4, PlaceFacts DEF NoEntry
<1> QED BY <1>2, <1>3, <1>4, <1>6, <1>7, <1>8, <1>9 DEF Runs

\* The playing entry restarts.
LEMMA MpvRestartsRuns ==
  ASSUME MpvInv, AnswersInv, MpvRestarts PROVE \E event : Runs(event)
<1> DEFINE m == [mpv EXCEPT !.restarted = TRUE]
           event == About("Restart", mpv.playing)
<1>1. /\ IsMpv(m) /\ m.upNext = mpv.upNext /\ m.playing = mpv.playing
      /\ m.lingering = mpv.lingering /\ m.skipped = mpv.skipped
      /\ m.owner = mpv.owner /\ m.commands = mpv.commands /\ m.mail = mpv.mail
      /\ m.choked = mpv.choked /\ m.lossy = mpv.lossy
  BY PlaceFacts DEF IsMpv, MpvFields
<1>2. mpv' = Post(m, event) /\ mpv.playing # 0 /\ MpvCore
  BY DEF MpvRestarts, NoEntry
<1>3. mpv.playing \in Nat /\ "Restart" \in Marks
  BY PlaceFacts DEF Marks
<1>4. event \in Messages /\ event.kind = "Restart" /\ event.entry = mpv.playing
  BY <1>3, AboutSound
<1> HIDE DEF m, event
<1>5. /\ mpv'.upNext = mpv.upNext /\ mpv'.playing = mpv.playing
      /\ mpv'.lingering = mpv.lingering /\ mpv'.owner = mpv.owner
      /\ mpv'.commands = mpv.commands /\ mpv'.skipped = mpv.skipped
      /\ Posts(event)
  BY <1>1, <1>2, PostSays DEF Posts
<1>6. mpv.lingering # 0 => mpv.lingering \notin {mpv.playing, mpv.upNext}
  BY DEF AnswersInv, MailInv, EndsOnce, NoEntry
<1>7. Carries(event)
  BY <1>2, <1>4, <1>5, <1>6, PlaceFacts DEF Carries, NoEntry
<1>8. Moves(event)
  BY <1>2, <1>4, <1>5, PlaceFacts DEF Moves, NoEntry
<1> QED BY <1>2, <1>4, <1>5, <1>7, <1>8, OwnersStay DEF Runs

\* A step that leaves every entry where it is, and tells of no start and no end.
LEMMA StillRuns ==
  ASSUME MpvInv, AnswersInv, MpvCore, NEW event \in Messages,
         event.kind \in {"Log", "Shutdown"}, event.kind = "Shutdown" => mpv'.state # "Up",
         Posts(event), mpv'.upNext = mpv.upNext, mpv'.playing = mpv.playing,
         mpv'.restarted = mpv.restarted, mpv'.lingering = mpv.lingering,
         mpv'.owner = mpv.owner, mpv'.commands = mpv.commands, mpv'.skipped = mpv.skipped
  PROVE  Runs(event)
<1>1. mpv.lingering # 0 => mpv.lingering \notin {mpv.playing, mpv.upNext}
  BY DEF AnswersInv, MailInv, EndsOnce, NoEntry
<1>2. Carries(event)
  BY <1>1, PlaceFacts DEF Carries, NoEntry
<1>3. Moves(event)
  BY PlaceFacts DEF Moves, NoEntry
<1> QED BY <1>2, <1>3, OwnersStay DEF Runs

\* A log line is written.
LEMMA MpvLogsRuns ==
  ASSUME MpvInv, AnswersInv, MpvLogs PROVE \E event : Runs(event)
<1> DEFINE event == About("Log", mpv.playing)
<1>1. IsMpv(mpv) /\ MpvCore /\ mpv' = Post(mpv, event)
  BY PlaceFacts DEF MpvLogs
<1>2. mpv.playing \in Nat /\ "Log" \in Marks
  BY PlaceFacts DEF Marks
<1>3. event \in Messages /\ event.kind = "Log"
  BY <1>2, AboutSound
<1> HIDE DEF event
<1>4. /\ Posts(event) /\ mpv'.upNext = mpv.upNext /\ mpv'.playing = mpv.playing
      /\ mpv'.restarted = mpv.restarted /\ mpv'.lingering = mpv.lingering
      /\ mpv'.owner = mpv.owner /\ mpv'.commands = mpv.commands /\ mpv'.skipped = mpv.skipped
  BY <1>1, PostSays DEF Posts
<1>5. Runs(event)
  BY <1>1, <1>3, <1>4, StillRuns
<1> QED BY <1>5

\* libmpv shuts down, and does not run any more.
LEMMA MpvShutsDownRuns ==
  ASSUME MpvInv, AnswersInv, MpvShutsDown PROVE \E event : Runs(event)
<1> DEFINE p == Post(mpv, Nothing)
<1>1. IsMpv(mpv) /\ MpvCore /\ mpv' = [p EXCEPT !.state = "Down"]
  BY PlaceFacts DEF MpvShutsDown, Nothing
<1>2. Nothing \in Messages /\ Nothing.kind = "Shutdown"
  BY NothingSound
<1>3. /\ IsMpv(p) /\ p.skipped = mpv.skipped /\ p.commands = mpv.commands
      /\ p.upNext = mpv.upNext /\ p.playing = mpv.playing /\ p.restarted = mpv.restarted
      /\ p.lingering = mpv.lingering /\ p.owner = mpv.owner
      /\ \/ /\ p.mail = Append(mpv.mail, Nothing)
            /\ p.choked = mpv.choked /\ p.lossy = mpv.lossy
         \/ p.mail = mpv.mail /\ p.choked = TRUE /\ p.lossy = TRUE
  BY <1>1, PostSays
<1> HIDE DEF p
<1>4. /\ mpv'.upNext = mpv.upNext /\ mpv'.playing = mpv.playing /\ mpv'.state = "Down"
      /\ mpv'.restarted = mpv.restarted /\ mpv'.lingering = mpv.lingering
      /\ mpv'.owner = mpv.owner /\ mpv'.commands = mpv.commands /\ mpv'.skipped = mpv.skipped
      /\ mpv'.mail = p.mail /\ mpv'.choked = p.choked /\ mpv'.lossy = p.lossy
  BY <1>1, <1>3 DEF IsMpv, MpvFields
<1>5. Posts(Nothing)
  BY <1>3, <1>4 DEF Posts
<1>6. Runs(Nothing)
  BY <1>1, <1>2, <1>4, <1>5, StillRuns
<1> QED BY <1>6

-----------------------------------------------------------------------------
(* libmpv runs a command.  No entry of the load to play exists as long as  *)
(* there is one.                                                           *)

\* As long as a command waits, the load to play has no entry.
LEMMA NoneOwned ==
  ASSUME MpvInv, AnswersInv, mpv.commands # << >>
  PROVE  \A e \in DOMAIN mpv.owner : ~Owned(e)
BY LastOwned DEF AnswersInv, MailInv, LastCommand

\* libmpv adds the message to its mail, and takes the first of its commands.
Answers(event) ==
  /\ MpvCore /\ mpv.commands # << >> /\ mpv'.commands = Tail(mpv.commands)
  /\ mpv'.mail = Append(mpv.mail, event)
  /\ mpv'.choked = mpv.choked /\ mpv'.lossy = mpv.lossy
  /\ mpv'.playing = mpv.playing /\ mpv'.lingering = mpv.lingering
  /\ mpv'.restarted = mpv.restarted

\* The commands that are left.
LEMMA TailCommands ==
  ASSUME MpvInv, mpv.commands # << >>, mpv'.commands = Tail(mpv.commands)
  PROVE  /\ 1 \in DOMAIN mpv.commands /\ Head(mpv.commands) = mpv.commands[1]
         /\ Len(mpv.commands) \in Nat /\ Len(mpv'.commands) = Len(mpv.commands) - 1
         /\ DOMAIN mpv.commands \subseteq Nat
         /\ \A k \in DOMAIN mpv'.commands :
              /\ k + 1 \in DOMAIN mpv.commands /\ mpv'.commands[k] = mpv.commands[k + 1]
              /\ k \in Nat /\ k + 1 > 1
         /\ \A k \in DOMAIN mpv.commands : k = 1 \/
              (k - 1 \in DOMAIN mpv'.commands /\ mpv'.commands[k - 1] = mpv.commands[k])
         /\ Len(mpv.commands) = 1 => mpv'.commands = << >>
<1> DEFINE queue == mpv.commands
           rest == Tail(queue)
<1>1. queue \in Seq(MpvCommands) /\ queue # << >> /\ mpv'.commands = rest
  BY InvFacts
<1> HIDE DEF queue
<1>2. /\ 1 \in DOMAIN queue /\ Head(queue) = queue[1] /\ Len(queue) \in Nat
      /\ Len(rest) = Len(queue) - 1 /\ DOMAIN queue = 1 .. Len(queue)
      /\ DOMAIN rest = 1 .. Len(queue) - 1
  BY <1>1
<1>3. \A k \in DOMAIN rest : rest[k] = queue[k + 1]
  BY <1>1, <1>2
<1>4. Len(queue) = 1 => rest = << >>
  BY <1>1, <1>2
<1> HIDE DEF rest
<1>5. \A k \in DOMAIN rest : k + 1 \in DOMAIN queue /\ k \in Nat /\ k + 1 > 1
  BY <1>2
<1>6. \A k \in DOMAIN queue : k = 1 \/ (k - 1 \in DOMAIN rest /\ rest[k - 1] = queue[k])
  BY <1>2, <1>3
<1> QED BY <1>1, <1>2, <1>3, <1>4, <1>5, <1>6 DEF queue

\* A loadfile is accepted or refused.
RepliesTo(request, accepted, entry) ==
  /\ Answers(Reply(request, accepted, entry))
  /\ mpv.commands[1].kind = "loadfile" /\ mpv.commands[1].request = request
  /\ IF accepted
     THEN /\ entry = Len(mpv.owner) + 1 /\ mpv'.upNext = entry
          /\ mpv'.owner = Append(mpv.owner, issued[request])
          /\ ~mpv'.skipped => ~mpv.skipped /\ mpv.upNext = NoEntry
     ELSE /\ mpv'.upNext = mpv.upNext /\ mpv'.owner = mpv.owner
          /\ mpv'.skipped = mpv.skipped

\* What is known of a reply.
LEMMA RepliesFacts ==
  ASSUME MpvInv, AnswersInv, NEW request, NEW accepted \in BOOLEAN, NEW entry,
         RepliesTo(request, accepted, entry)
  PROVE  LET reply == Reply(request, accepted, entry)
         IN  /\ Posts(reply) /\ Posted(reply)
             /\ reply.kind = "Reply" /\ reply.request = request /\ reply.accepted = accepted
             /\ reply.entry = entry
             /\ request \in DOMAIN issued /\ request \in Nat
             /\ Grows(mpv.owner, mpv'.owner)
             /\ \A e \in DOMAIN mpv'.owner : e \in DOMAIN mpv.owner \/
                  (accepted /\ e = entry /\ e \notin DOMAIN mpv.owner
                   /\ mpv'.owner[e] = issued[request] /\ mpv'.upNext = e)
             /\ \A e : Known(e) => Before(mpv.owner[e], issued[request])
<1> DEFINE reply == Reply(request, accepted, entry)
<1>1. /\ mpv.mail \in Seq(Messages) /\ mpv'.mail = Append(mpv.mail, reply)
      /\ mpv'.choked = mpv.choked /\ mpv'.lossy = mpv.lossy
  BY InvFacts DEF RepliesTo, Answers
<1>2. /\ reply.kind = "Reply" /\ reply.request = request /\ reply.accepted = accepted
      /\ reply.entry = entry
  BY DEF Reply
<1> HIDE DEF reply
<1>3. Posts(reply) /\ Posted(reply)
  BY <1>1 DEF Posts, Posted
<1>4. 1 \in DOMAIN mpv.commands /\ mpv.commands[1].kind = "loadfile" /\ mpv.commands[1].request = request
  BY TailCommands DEF RepliesTo, Answers
<1>5. /\ request \in DOMAIN issued
      /\ \A e \in DOMAIN mpv.owner : Before(mpv.owner[e], issued[request])
  BY <1>4 DEF MpvInv, OwnersInOrder
<1>6. issued \in Seq(Loads) /\ mpv.owner \in Seq(Loads) /\ issued[request] \in Loads
      /\ request \in Nat
  BY <1>5, InvFacts
<1>7. CASE accepted
  <2>1. mpv'.owner = Append(mpv.owner, issued[request]) /\ entry = Len(mpv.owner) + 1
        /\ mpv'.upNext = entry
    BY <1>7 DEF RepliesTo
  <2>2. Grows(mpv.owner, mpv'.owner)
    BY <1>6, <2>1 DEF Grows
  <2>3. \A e \in DOMAIN mpv'.owner : e \in DOMAIN mpv.owner \/
          (e = entry /\ e \notin DOMAIN mpv.owner /\ mpv'.owner[e] = issued[request])
    BY <1>6, <2>1
  <2> QED BY <1>2, <1>3, <1>5, <1>6, <1>7, <2>1, <2>2, <2>3, KnownFacts DEF reply
<1>8. CASE ~accepted
  <2>1. mpv'.owner = mpv.owner
    BY <1>8 DEF RepliesTo
  <2> QED BY <1>2, <1>3, <1>5, <1>6, <2>1, KnownFacts DEF Grows, reply
<1> QED BY <1>7, <1>8

\* A reply keeps what is known of requests, replies and ends: it settles the
\* first command, so it comes behind all other replies.
LEMMA ReplyKeepsMail ==
  ASSUME MpvInv, MpvInv', AnswersInv, NEW request, NEW accepted \in BOOLEAN, NEW entry,
         RepliesTo(request, accepted, entry)
  PROVE  MailInv'
<1> DEFINE reply == Reply(request, accepted, entry)
<1>1. /\ Posts(reply) /\ Posted(reply)
      /\ reply.kind = "Reply" /\ reply.request = request /\ reply.accepted = accepted
      /\ reply.entry = entry /\ request \in DOMAIN issued /\ request \in Nat
      /\ Grows(mpv.owner, mpv'.owner)
      /\ \A e \in DOMAIN mpv'.owner : e \in DOMAIN mpv.owner \/
           (e = entry /\ mpv'.owner[e] = issued[request] /\ mpv'.upNext = e)
      /\ \A e : Known(e) => Before(mpv.owner[e], issued[request])
  BY RepliesFacts
<1> HIDE DEF reply
<1>2. /\ MpvCore /\ mpv.commands # << >> /\ mpv'.commands = Tail(mpv.commands)
      /\ mpv'.choked = mpv.choked /\ mpv'.lossy = mpv.lossy
      /\ mpv'.playing = mpv.playing /\ mpv'.lingering = mpv.lingering
      /\ 1 \in DOMAIN mpv.commands
      /\ mpv.commands[1].kind = "loadfile" /\ mpv.commands[1].request = request
  BY TailCommands DEF RepliesTo, Answers
<1>3. /\ \A e \in DOMAIN mpv.owner : e \in DOMAIN mpv'.owner /\ mpv'.owner[e] = mpv.owner[e]
      /\ \A e \in DOMAIN mpv.owner : Owned(e)' <=> Owned(e)
      /\ target' = target /\ adapter' = adapter /\ issued' = issued /\ reported' = reported
      /\ \A e : Known(e)' <=> Known(e)
  BY <1>1, <1>2, OwnedGrows
<1>4. /\ DOMAIN mpv.mail = 1 .. Len(mpv.mail) /\ Len(mpv.mail) \in Nat
      /\ \A i \in DOMAIN mpv.mail : i \in DOMAIN mpv'.mail /\ mpv'.mail[i] = mpv.mail[i]
      /\ \A i \in DOMAIN mpv'.mail : i \in DOMAIN mpv.mail \/ i = Len(mpv.mail) + 1
      /\ mpv'.mail[Len(mpv.mail) + 1] = reply /\ Len(mpv.mail) + 1 \in DOMAIN mpv'.mail
      /\ DOMAIN mpv'.mail = 1 .. Len(mpv.mail) + 1
  <2>1. /\ DOMAIN mpv.mail = 1 .. Len(mpv.mail) /\ Len(mpv.mail) \in Nat
        /\ \A i \in DOMAIN mpv.mail : i \in DOMAIN mpv'.mail /\ mpv'.mail[i] = mpv.mail[i]
    BY <1>1, PostedMail
  <2> QED BY <1>1, <2>1 DEF Posted
<1>5. /\ DOMAIN mpv.commands \subseteq Nat /\ Len(mpv'.commands) = Len(mpv.commands) - 1
      /\ Len(mpv.commands) \in Nat
      /\ \A k \in DOMAIN mpv'.commands :
           /\ k + 1 \in DOMAIN mpv.commands /\ mpv'.commands[k] = mpv.commands[k + 1]
           /\ k \in Nat /\ k + 1 > 1
      /\ \A k \in DOMAIN mpv.commands : k = 1 \/
           (k - 1 \in DOMAIN mpv'.commands /\ mpv'.commands[k - 1] = mpv.commands[k])
      /\ Len(mpv.commands) = 1 => mpv'.commands = << >>
  BY <1>2, TailCommands
<1>6. RequestsAnswered'
  <2>1. ASSUME NEW r \in DOMAIN adapter.requests
        PROVE  \/ \E k \in DOMAIN mpv'.commands :
                    mpv'.commands[k].kind = "loadfile" /\ mpv'.commands[k].request = r
               \/ \E i \in DOMAIN mpv'.mail :
                    mpv'.mail[i].kind = "Reply" /\ mpv'.mail[i].request = r
    <3>1. CASE \E k \in DOMAIN mpv.commands :
                 mpv.commands[k].kind = "loadfile" /\ mpv.commands[k].request = r
      <4>1. PICK k \in DOMAIN mpv.commands :
              mpv.commands[k].kind = "loadfile" /\ mpv.commands[k].request = r
        BY <3>1
      <4>2. CASE k = 1
        BY <1>1, <1>2, <1>4, <4>1, <4>2
      <4>3. CASE k # 1
        BY <1>5, <4>1, <4>3
      <4> QED BY <4>2, <4>3
    <3>2. CASE \E i \in DOMAIN mpv.mail : mpv.mail[i].kind = "Reply" /\ mpv.mail[i].request = r
      BY <1>4, <3>2
    <3> QED BY <3>1, <3>2 DEF AnswersInv, MailInv, RequestsAnswered
  <2> QED BY <1>3, <2>1 DEF AnswersInv, MailInv, RequestsAnswered
<1>7. RepliesInOrder'
  <2>1. \A e : Known(e) => mpv'.owner[e] = mpv.owner[e]
    BY <1>3, KnownFacts
  <2>2. ASSUME NEW i \in DOMAIN mpv'.mail, mpv'.mail[i].kind = "Reply"
        PROVE  /\ mpv'.mail[i].request \in DOMAIN issued
               /\ \A j \in DOMAIN mpv'.mail : j > i /\ mpv'.mail[j].kind = "Reply" =>
                    mpv'.mail[i].request < mpv'.mail[j].request
               /\ \A k \in DOMAIN mpv'.commands : mpv'.commands[k].kind = "loadfile" =>
                    mpv'.mail[i].request < mpv'.commands[k].request
               /\ \A e : Known(e) => Before(mpv.owner[e], issued[mpv'.mail[i].request])
    <3>1. CASE i \in DOMAIN mpv.mail
      <4>1. mpv'.mail[i] = mpv.mail[i]
        BY <1>4, <3>1
      <4>2. /\ mpv.mail[i].request \in DOMAIN issued
            /\ \A j \in DOMAIN mpv.mail : j > i /\ mpv.mail[j].kind = "Reply" =>
                 mpv.mail[i].request < mpv.mail[j].request
            /\ \A k \in DOMAIN mpv.commands : mpv.commands[k].kind = "loadfile" =>
                 mpv.mail[i].request < mpv.commands[k].request
            /\ \A e : Known(e) => Before(mpv.owner[e], issued[mpv.mail[i].request])
        BY <2>2, <3>1, <4>1 DEF AnswersInv, MailInv, RepliesInOrder
      <4>3. \A j \in DOMAIN mpv'.mail : j > i /\ mpv'.mail[j].kind = "Reply" =>
              mpv.mail[i].request < mpv'.mail[j].request
        BY <1>1, <1>2, <1>4, <4>2
      <4> QED BY <1>5, <4>1, <4>2, <4>3
    <3>2. CASE i = Len(mpv.mail) + 1
      <4>1. mpv'.mail[i] = reply
        BY <1>4, <3>2
      <4>2. \A k \in DOMAIN mpv'.commands : mpv'.commands[k].kind = "loadfile" =>
              request < mpv'.commands[k].request
        BY <1>2, <1>5 DEF MpvInv, OwnersInOrder
      <4>3. \A j \in DOMAIN mpv'.mail : ~(j > i)
        BY <1>4, <3>2
      <4> QED BY <1>1, <4>1, <4>2, <4>3
    <3> QED BY <1>4, <3>1, <3>2
  <2> QED BY <1>3, <2>1, <2>2 DEF RepliesInOrder
<1>8. LastCommand'
  <2> SUFFICES ASSUME Playing PROVE
        /\ \A k \in DOMAIN mpv'.commands :
             mpv'.commands[k].kind = "loadfile" /\ mpv'.commands[k].request = Len(issued) =>
               k = Len(mpv'.commands)
        /\ \A e \in DOMAIN mpv'.owner : mpv'.owner[e] = target => mpv'.commands = << >>
    BY <1>3 DEF LastCommand, Playing, Owned
  <2>1. \A k \in DOMAIN mpv.commands :
          mpv.commands[k].kind = "loadfile" /\ mpv.commands[k].request = Len(issued) =>
            k = Len(mpv.commands)
    BY DEF AnswersInv, MailInv, LastCommand
  <2>2. \A k \in DOMAIN mpv'.commands :
          mpv'.commands[k].kind = "loadfile" /\ mpv'.commands[k].request = Len(issued) =>
            k = Len(mpv'.commands)
    BY <1>5, <2>1
  <2>3. \A e \in DOMAIN mpv'.owner : mpv'.owner[e] = target => mpv'.commands = << >>
    <3>1. \A e \in DOMAIN mpv.owner : mpv'.owner[e] # target
      BY <1>2, <1>3, NoneOwned DEF Owned
    <3>2. issued[request] = target => mpv'.commands = << >>
      <4>1. issued[request] = target => request = Len(issued)
        BY <1>1, TargetFacts
      <4> QED BY <1>2, <1>5, <2>1, <4>1
    <3> QED BY <1>1, <3>1, <3>2
  <2> QED BY <2>2, <2>3
<1>9. FailureIsTold'
  BY <1>3 DEF AnswersInv, MailInv, FailureIsTold, Playing
<1>10. LossIsKnown'
  BY <1>1, <1>2, <1>4 DEF AnswersInv, MailInv, LossIsKnown, MpvCore
<1>11. EndsOnce'
  <2>1. mpv'.upNext = mpv.upNext \/ mpv'.upNext = Len(mpv.owner) + 1
    BY DEF RepliesTo
  <2>2. mpv'.lingering # NoEntry => mpv'.lingering \notin {mpv'.playing, mpv'.upNext}
    BY <1>2, <2>1, PlaceFacts DEF AnswersInv, MailInv, EndsOnce, NoEntry
  <2>3. ASSUME NEW i \in DOMAIN mpv'.mail, mpv'.mail[i].kind = "End", NEW e, e = mpv'.mail[i].entry
        PROVE  /\ e \notin {mpv'.upNext, mpv'.playing, mpv'.lingering}
               /\ ~Coming("Start", e, i)' /\ ~Coming("End", e, i)'
    <3>1. i \in DOMAIN mpv.mail /\ mpv.mail[i].kind = "End" /\ mpv.mail[i].entry = e
      BY <1>1, <1>4, <2>3
    <3>2. /\ e \notin {mpv.upNext, mpv.playing, mpv.lingering}
          /\ ~Coming("Start", e, i) /\ ~Coming("End", e, i)
      BY <3>1 DEF AnswersInv, MailInv, EndsOnce
    <3>3. e \in DOMAIN mpv.owner
      BY <3>1, MailFacts
    <3>4. e \notin {mpv'.upNext, mpv'.playing, mpv'.lingering}
      BY <1>2, <2>1, <3>2, <3>3, PlaceFacts
    <3>5. ~Coming("Start", e, i)' /\ ~Coming("End", e, i)'
      BY <1>1, <1>3, <3>2, PostsSay
    <3> QED BY <3>4, <3>5
  <2> QED BY <2>2, <2>3 DEF EndsOnce
<1>12. StartIsTold'
  BY <1>3, KnownFacts DEF AnswersInv, MailInv, StartIsTold, Known
<1> QED BY <1>6, <1>7, <1>8, <1>9, <1>10, <1>11, <1>12 DEF MailInv

\* A reply keeps the answer under way: an accepted load is the next entry.
LEMMA ReplyKeepsAnswers ==
  ASSUME MpvInv, MpvInv', AnswersInv, NEW request, NEW accepted \in BOOLEAN, NEW entry,
         RepliesTo(request, accepted, entry)
  PROVE  AnswersInv'
<1> DEFINE reply == Reply(request, accepted, entry)
<1>1. /\ Posts(reply) /\ Posted(reply)
      /\ reply.kind = "Reply" /\ reply.request = request /\ reply.accepted = accepted
      /\ reply.entry = entry /\ request \in DOMAIN issued /\ request \in Nat
      /\ Grows(mpv.owner, mpv'.owner)
      /\ \A e \in DOMAIN mpv'.owner : e \in DOMAIN mpv.owner \/
           (accepted /\ e = entry /\ e \notin DOMAIN mpv.owner
            /\ mpv'.owner[e] = issued[request] /\ mpv'.upNext = e)
  BY RepliesFacts
<1> HIDE DEF reply
<1>2. /\ MpvCore /\ mpv.commands # << >> /\ mpv'.commands = Tail(mpv.commands)
      /\ mpv'.choked = mpv.choked /\ mpv'.lossy = mpv.lossy
      /\ mpv'.playing = mpv.playing /\ mpv'.lingering = mpv.lingering
      /\ mpv.state = "Up"
      /\ 1 \in DOMAIN mpv.commands
      /\ mpv.commands[1].kind = "loadfile" /\ mpv.commands[1].request = request
  BY TailCommands DEF RepliesTo, Answers, MpvCore
<1>3. /\ \A e \in DOMAIN mpv.owner : e \in DOMAIN mpv'.owner /\ mpv'.owner[e] = mpv.owner[e]
      /\ target' = target /\ adapter' = adapter /\ issued' = issued /\ reported' = reported
      /\ \A e : Known(e)' <=> Known(e)
  BY <1>1, <1>2, OwnedGrows
<1>4. /\ DOMAIN mpv.mail = 1 .. Len(mpv.mail) /\ Len(mpv.mail) \in Nat
      /\ \A i \in DOMAIN mpv.mail : i \in DOMAIN mpv'.mail /\ mpv'.mail[i] = mpv.mail[i]
      /\ \A i \in DOMAIN mpv'.mail : i \in DOMAIN mpv.mail \/ i = Len(mpv.mail) + 1
      /\ mpv'.mail[Len(mpv.mail) + 1] = reply /\ Len(mpv.mail) + 1 \in DOMAIN mpv'.mail
      /\ Len(mpv'.mail) = Len(mpv.mail) + 1
  <2>1. /\ DOMAIN mpv.mail = 1 .. Len(mpv.mail) /\ Len(mpv.mail) \in Nat
        /\ \A i \in DOMAIN mpv.mail : i \in DOMAIN mpv'.mail /\ mpv'.mail[i] = mpv.mail[i]
    BY <1>1, PostedMail
  <2> QED BY <1>1, <2>1 DEF Posted
<1>5. \A e \in DOMAIN mpv.owner : ~Owned(e) /\ ~Owned(e)'
  BY <1>1, <1>2, OwnedGrows, NoneOwned
<1>6. \A i \in DOMAIN mpv.mail :
        /\ mpv.mail[i].kind = "Reply" /\ mpv.mail[i].accepted =>
             mpv.mail[i].entry \in DOMAIN mpv.owner
        /\ mpv.mail[i].kind \in {"Start", "End"} => mpv.mail[i].entry \in DOMAIN mpv.owner
  BY MailFacts
<1>7. MailInv'
  BY ReplyKeepsMail
<1>8. \A kind, e, i : Coming(kind, e, i) => Coming(kind, e, i)'
  BY <1>1, <1>3, PostsSay
<1>9. accepted => mpv'.upNext = entry
  BY DEF RepliesTo
<1>10. TargetAnswered'
  <2> SUFFICES ASSUME Unanswered' PROVE AnswerComes' /\ Continues'
    BY DEF TargetAnswered
  <2>1. AnswerComes
    BY <1>2, <1>3 DEF Unanswered, Playing, AnswersInv, TargetAnswered
  <2>2. AnswerComes'
    BY <1>3, <1>5, <2>1, KnownFacts DEF AnswerComes
  <2>3. /\ \A e \in DOMAIN adapter'.pending : Owned(e)' => StartComes(e, 0)'
        /\ \A e \in DOMAIN adapter'.entries : Owned(e)' => EndComes(e, 0)'
    BY <1>3, <1>5, KnownFacts DEF Known
  <2>4. ASSUME NEW i \in DOMAIN mpv'.mail, NEW m, m = mpv'.mail[i] PROVE LeadsOn(m, i)'
    <3>1. CASE i \in DOMAIN mpv.mail
      <4>1. /\ m.kind = "Reply" /\ m.accepted => m.entry \in DOMAIN mpv.owner
            /\ m.kind \in {"Start", "End"} => m.entry \in DOMAIN mpv.owner
        BY <1>4, <1>6, <2>4, <3>1
      <4> QED BY <1>5, <4>1 DEF LeadsOn
    <3>2. CASE i = Len(mpv.mail) + 1
      <4>1. m.kind = "Reply" /\ (m.accepted => StartComes(m.entry, i)')
        BY <1>1, <1>4, <1>9, <2>4, <3>2 DEF StartComes
      <4> QED BY <4>1 DEF LeadsOn
    <3> QED BY <1>4, <2>4, <3>1, <3>2
  <2> QED BY <2>2, <2>3, <2>4 DEF Continues
<1>11. StartsFollow'
  <2> SUFFICES ASSUME ~mpv'.lossy, ~mpv'.skipped
               PROVE  /\ \A e \in DOMAIN adapter.pending : StartComes(e, 0)'
                      /\ \A i \in DOMAIN mpv'.mail :
                           /\ mpv'.mail[i].kind = "Reply" /\ mpv'.mail[i].accepted
                           /\ mpv'.mail[i].request \in DOMAIN adapter.requests
                           => \E e : e = mpv'.mail[i].entry /\ StartComes(e, i)'
    BY <1>3 DEF StartsFollow
  <2>1. ~mpv.lossy /\ ~mpv.skipped /\ (mpv'.upNext = mpv.upNext \/ mpv.upNext = 0)
    BY <1>2 DEF RepliesTo, NoEntry
  <2>2. \A e \in Nat \ {0} : \A i : StartComes(e, i) => StartComes(e, i)'
    BY <1>8, <2>1 DEF StartComes
  <2>3. \A e \in DOMAIN adapter.pending : e \in Nat \ {0} /\ StartComes(e, 0)
    BY <2>1, KnownFacts DEF AnswersInv, StartsFollow, Known
  <2>4. ASSUME NEW i \in DOMAIN mpv'.mail, mpv'.mail[i].kind = "Reply", mpv'.mail[i].accepted,
               mpv'.mail[i].request \in DOMAIN adapter.requests
        PROVE  \E e : e = mpv'.mail[i].entry /\ StartComes(e, i)'
    <3>1. CASE i \in DOMAIN mpv.mail
      <4>1. mpv'.mail[i] = mpv.mail[i]
        BY <1>4, <3>1
      <4>2. mpv.mail[i].entry \in Nat \ {0}
        BY <1>6, <2>4, <3>1, <4>1, PlaceFacts
      <4>3. StartComes(mpv.mail[i].entry, i)
        BY <2>1, <2>4, <3>1, <4>1 DEF AnswersInv, StartsFollow
      <4> QED BY <2>2, <4>1, <4>2, <4>3
    <3>2. CASE i = Len(mpv.mail) + 1
      BY <1>1, <1>4, <1>9, <2>4, <3>2 DEF StartComes
    <3> QED BY <1>4, <3>1, <3>2
  <2> QED BY <2>2, <2>3, <2>4
<1>12. EntriesKnown'
  <2> SUFFICES ASSUME Calm' PROVE EntriesKnown'
    BY DEF EntriesKnown
  <2>1. Calm /\ EntriesKnown /\ Playing
    BY <1>2, <1>3 DEF Calm, Playing, AnswersInv
  <2>2. \A k \in DOMAIN mpv.commands :
          mpv.commands[k].kind = "loadfile" /\ mpv.commands[k].request = Len(issued) =>
            Len(issued) \in DOMAIN adapter.requests
    BY <2>1 DEF EntriesKnown
  <2>3. \A k \in DOMAIN mpv'.commands :
          mpv'.commands[k].kind = "loadfile" /\ mpv'.commands[k].request = Len(issued') =>
            Len(issued') \in DOMAIN adapter'.requests
    BY <1>2, <1>3, <2>2, TailCommands
  <2>4. ASSUME NEW n, n = Len(mpv'.mail) + 1, NEW e, e = mpv'.upNext, e # NoEntry, Owned(e)'
        PROVE  Acquainted(e, n)'
    <3>1. e \in DOMAIN mpv'.owner
      BY <2>4, InvFacts DEF MpvInv, MpvTypeOK, NoEntry
    <3>2. accepted /\ e = entry /\ issued[request] = target
      BY <1>1, <1>3, <1>5, <2>4, <3>1 DEF Owned
    <3>3. request \in DOMAIN adapter.requests
      <4>1. request = Len(issued)
        BY <1>1, <2>1, <3>2, TargetFacts
      <4> QED BY <1>2, <2>2, <4>1
    <3>4. AcceptedBefore(e, n)'
      <4> DEFINE j == Len(mpv.mail) + 1
      <4>1. j \in DOMAIN mpv'.mail /\ mpv'.mail[j] = reply /\ j < n
        BY <1>4, <2>4
      <4>2. reply.request \in DOMAIN adapter'.requests
        BY <1>1, <1>3, <3>3
      <4> HIDE DEF j
      <4> QED BY <1>1, <3>2, <4>1, <4>2 DEF AcceptedBefore
    <3> QED BY <3>4 DEF Acquainted
  <2>5. mpv'.playing # NoEntry => mpv'.playing \in DOMAIN mpv.owner /\ ~Owned(mpv.playing)'
    BY <1>2, <1>5, PlaceFacts DEF NoEntry
  <2>6. ~(mpv'.playing # NoEntry /\ mpv'.owner[mpv'.playing] = target')
    BY <1>2, <2>5 DEF Owned
  <2>7. ASSUME NEW i \in DOMAIN mpv'.mail, NEW m, m = mpv'.mail[i] PROVE Introduced(m, i)'
    <3>1. CASE i \in DOMAIN mpv.mail
      BY <1>4, <1>5, <1>6, <2>7, <3>1 DEF Introduced
    <3>2. CASE i = Len(mpv.mail) + 1
      BY <1>1, <1>4, <2>7, <3>2 DEF Introduced
    <3> QED BY <1>4, <2>7, <3>1, <3>2
  <2> QED BY <2>3, <2>4, <2>6, <2>7 DEF EntriesKnown, Owned
<1> QED BY <1>7, <1>10, <1>11, <1>12 DEF AnswersInv

\* A loadfile is refused.
LEMMA MpvRefusesLoadAnswers ==
  ASSUME MpvInv, MpvInv', AnswersInv, MpvRefusesLoad PROVE AnswersInv'
<1> DEFINE request == Head(mpv.commands).request
           reply == Reply(request, FALSE, NoEntry)
<1>1. /\ mpv.commands # << >> /\ MpvCore /\ Head(mpv.commands).kind = "loadfile"
      /\ mpv' = [mpv EXCEPT !.commands = Tail(@), !.mail = Append(@, reply)]
  BY DEF MpvRefusesLoad, Pending
<1> HIDE DEF reply
<1>2. /\ mpv'.commands = Tail(mpv.commands) /\ mpv'.mail = Append(mpv.mail, reply)
      /\ mpv'.choked = mpv.choked /\ mpv'.lossy = mpv.lossy
      /\ mpv'.playing = mpv.playing /\ mpv'.lingering = mpv.lingering
      /\ mpv'.restarted = mpv.restarted /\ mpv'.upNext = mpv.upNext
      /\ mpv'.owner = mpv.owner /\ mpv'.skipped = mpv.skipped
  BY <1>1, PlaceFacts DEF IsMpv, MpvFields
<1>3. Head(mpv.commands) = mpv.commands[1]
  BY <1>1, InvFacts
<1>4. RepliesTo(request, FALSE, NoEntry)
  BY <1>1, <1>2, <1>3 DEF RepliesTo, Answers, reply
<1> HIDE DEF request
<1> QED BY <1>4, ReplyKeepsAnswers

\* A loadfile is accepted, and takes the place of an entry that has not started.
LEMMA MpvAcceptsLoadAnswers ==
  ASSUME MpvInv, MpvInv', AnswersInv, MpvAcceptsLoad PROVE AnswersInv'
<1> DEFINE request == Head(mpv.commands).request
           entry == Len(mpv.owner) + 1
           skips == mpv.skipped \/ mpv.upNext # NoEntry
           reply == Reply(request, TRUE, entry)
<1>1. /\ mpv.commands # << >> /\ MpvCore /\ Head(mpv.commands).kind = "loadfile"
      /\ mpv' = [mpv EXCEPT !.commands = Tail(@), !.upNext = entry, !.skipped = skips,
                            !.owner = Append(@, issued[request]), !.mail = Append(@, reply)]
  BY DEF MpvAcceptsLoad, Pending, NewEntry
<1> HIDE DEF reply, skips
<1>2. /\ mpv'.commands = Tail(mpv.commands) /\ mpv'.mail = Append(mpv.mail, reply)
      /\ mpv'.choked = mpv.choked /\ mpv'.lossy = mpv.lossy
      /\ mpv'.playing = mpv.playing /\ mpv'.lingering = mpv.lingering
      /\ mpv'.restarted = mpv.restarted /\ mpv'.upNext = entry
      /\ mpv'.owner = Append(mpv.owner, issued[request]) /\ mpv'.skipped = skips
  BY <1>1, PlaceFacts DEF IsMpv, MpvFields
<1>3. Head(mpv.commands) = mpv.commands[1]
  BY <1>1, InvFacts
<1>4. ~mpv'.skipped => ~mpv.skipped /\ mpv.upNext = NoEntry
  BY <1>2 DEF skips
<1>5. RepliesTo(request, TRUE, entry)
  BY <1>1, <1>2, <1>3, <1>4 DEF RepliesTo, Answers, reply
<1> HIDE DEF request, entry
<1> QED BY <1>5, ReplyKeepsAnswers

\* libmpv runs a stop command: it forgets the next entry, and ends what plays.
Idles ==
  /\ MpvCore /\ mpv.commands # << >> /\ mpv'.commands = Tail(mpv.commands)
  /\ mpv.commands[1].kind = "stop"
  /\ mpv'.upNext = NoEntry /\ mpv'.playing = NoEntry /\ mpv'.lingering = mpv.lingering
  /\ mpv'.owner = mpv.owner
  /\ ~mpv'.skipped => ~mpv.skipped /\
       (mpv.upNext = NoEntry \/ mpv.owner[mpv.upNext].generation \in stopped)
  /\ \/ mpv.playing # NoEntry /\ Posts(EndOf(mpv.playing, "Stop", {}))
     \/ /\ mpv'.mail = mpv.mail
        /\ mpv'.choked = mpv.choked /\ mpv'.lossy = mpv.lossy

\* What the mail says after a stop.
LEMMA IdlesSay ==
  ASSUME MpvInv, Idles
  PROVE  /\ DOMAIN mpv.mail \subseteq Nat
         /\ \A i \in DOMAIN mpv.mail : i \in DOMAIN mpv'.mail /\ mpv'.mail[i] = mpv.mail[i]
         /\ \A i \in DOMAIN mpv'.mail : i \in DOMAIN mpv.mail \/
              /\ \A j \in DOMAIN mpv'.mail : ~(j > i)
              /\ mpv'.mail[i].kind = "End" /\ mpv'.mail[i].entry = mpv.playing
              /\ mpv'.mail[i].reason = "Stop"
              /\ mpv'.mail[i].inserted = {} /\ mpv.playing # NoEntry
         /\ mpv.choked => mpv'.choked
         /\ mpv.lossy => mpv'.lossy
         /\ (mpv.choked => mpv.lossy) => (mpv'.choked => mpv'.lossy)
         /\ \A kind, e, i : Coming(kind, e, i) => Coming(kind, e, i)'
         /\ \A kind, e, i : Coming(kind, e, i)' =>
              Coming(kind, e, i) \/ (kind = "End" /\ e = mpv.playing /\ mpv.playing # NoEntry)
<1>1. CASE mpv.playing # NoEntry /\ Posts(EndOf(mpv.playing, "Stop", {}))
  <2> DEFINE end == EndOf(mpv.playing, "Stop", {})
  <2>1. /\ Posts(end) /\ end.kind = "End" /\ end.entry = mpv.playing /\ end.inserted = {}
        /\ end.reason = "Stop" /\ mpv.playing # NoEntry
    BY <1>1 DEF EndOf
  <2> HIDE DEF end
  <2>2. adapter' = adapter
    BY DEF Idles, MpvCore
  <2>3. /\ DOMAIN mpv.mail = 1 .. Len(mpv.mail) /\ Len(mpv.mail) \in Nat
        /\ \A i \in DOMAIN mpv.mail : i \in DOMAIN mpv'.mail /\ mpv'.mail[i] = mpv.mail[i]
        /\ \A i \in DOMAIN mpv'.mail : i \in DOMAIN mpv.mail \/ (Posted(end) /\ i = Len(mpv.mail) + 1)
        /\ mpv.choked => mpv'.choked
        /\ mpv.lossy => mpv'.lossy
    BY <2>1, PostedMail
  <2>4. \A i \in DOMAIN mpv'.mail : i \in DOMAIN mpv.mail \/
          (mpv'.mail[i] = end /\ \A j \in DOMAIN mpv'.mail : ~(j > i))
    BY <2>3 DEF Posted
  <2>5. (mpv.choked => mpv.lossy) => (mpv'.choked => mpv'.lossy)
    BY <2>1 DEF Posts
  <2>6. /\ \A kind, e, i : Coming(kind, e, i) => Coming(kind, e, i)'
        /\ \A kind, e, i : Coming(kind, e, i)' =>
             Coming(kind, e, i) \/ (end.kind = kind /\ end.entry = e)
    BY <2>1, <2>2, PostsSay
  <2> QED BY <2>1, <2>3, <2>4, <2>5, <2>6
<1>2. CASE /\ mpv'.mail = mpv.mail
           /\ mpv'.choked = mpv.choked /\ mpv'.lossy = mpv.lossy
  <2>1. DOMAIN mpv.mail \subseteq Nat
    BY MailFacts
  <2> QED BY <1>2, <2>1 DEF Coming
<1> QED BY <1>1, <1>2 DEF Idles

\* A stop keeps what is known of requests, replies and ends.
LEMMA IdleKeepsMail ==
  ASSUME MpvInv, MpvInv', AnswersInv, Idles PROVE MailInv'
<1>1. /\ MpvCore /\ mpv.commands # << >> /\ mpv'.commands = Tail(mpv.commands)
      /\ mpv.commands[1].kind = "stop"
      /\ mpv'.upNext = 0 /\ mpv'.playing = 0 /\ mpv'.lingering = mpv.lingering
      /\ mpv'.owner = mpv.owner
  BY DEF Idles, NoEntry
<1>2. /\ \A e \in DOMAIN mpv.owner : ~Owned(e) /\ ~Owned(e)'
      /\ target' = target /\ adapter' = adapter /\ issued' = issued /\ reported' = reported
      /\ stopped' = stopped /\ \A e : Known(e)' <=> Known(e)
  BY <1>1, OwnersStay, OwnedGrows, NoneOwned
<1>3. /\ DOMAIN mpv.mail \subseteq Nat
      /\ \A i \in DOMAIN mpv.mail : i \in DOMAIN mpv'.mail /\ mpv'.mail[i] = mpv.mail[i]
      /\ \A i \in DOMAIN mpv'.mail : i \in DOMAIN mpv.mail \/
           /\ \A j \in DOMAIN mpv'.mail : ~(j > i)
           /\ mpv'.mail[i].kind = "End" /\ mpv'.mail[i].entry = mpv.playing
           /\ mpv.playing # NoEntry
      /\ (mpv.choked => mpv.lossy) => (mpv'.choked => mpv'.lossy)
      /\ \A kind, e, i : Coming(kind, e, i)' =>
           Coming(kind, e, i) \/ (kind = "End" /\ e = mpv.playing /\ mpv.playing # NoEntry)
  BY IdlesSay
<1>4. /\ DOMAIN mpv.commands \subseteq Nat /\ Len(mpv'.commands) = Len(mpv.commands) - 1
      /\ Len(mpv.commands) \in Nat
      /\ \A k \in DOMAIN mpv'.commands :
           /\ k + 1 \in DOMAIN mpv.commands /\ mpv'.commands[k] = mpv.commands[k + 1]
           /\ k \in Nat
      /\ \A k \in DOMAIN mpv.commands : k = 1 \/
           (k - 1 \in DOMAIN mpv'.commands /\ mpv'.commands[k - 1] = mpv.commands[k])
  BY <1>1, TailCommands
<1>5. RequestsAnswered'
  <2>1. ASSUME NEW r \in DOMAIN adapter.requests
        PROVE  \/ \E k \in DOMAIN mpv'.commands :
                    mpv'.commands[k].kind = "loadfile" /\ mpv'.commands[k].request = r
               \/ \E i \in DOMAIN mpv'.mail :
                    mpv'.mail[i].kind = "Reply" /\ mpv'.mail[i].request = r
    <3>1. CASE \E k \in DOMAIN mpv.commands :
                 mpv.commands[k].kind = "loadfile" /\ mpv.commands[k].request = r
      <4>1. PICK k \in DOMAIN mpv.commands :
              mpv.commands[k].kind = "loadfile" /\ mpv.commands[k].request = r
        BY <3>1
      <4>2. k # 1
        BY <1>1, <4>1
      <4> QED BY <1>4, <4>1, <4>2
    <3>2. CASE \E i \in DOMAIN mpv.mail : mpv.mail[i].kind = "Reply" /\ mpv.mail[i].request = r
      BY <1>3, <3>2
    <3> QED BY <3>1, <3>2 DEF AnswersInv, MailInv, RequestsAnswered
  <2> QED BY <1>2, <2>1 DEF AnswersInv, MailInv, RequestsAnswered
<1>6. RepliesInOrder'
  <2>1. ASSUME NEW i \in DOMAIN mpv'.mail, mpv'.mail[i].kind = "Reply"
        PROVE  /\ mpv'.mail[i].request \in DOMAIN issued
               /\ \A j \in DOMAIN mpv'.mail : j > i /\ mpv'.mail[j].kind = "Reply" =>
                    mpv'.mail[i].request < mpv'.mail[j].request
               /\ \A k \in DOMAIN mpv'.commands : mpv'.commands[k].kind = "loadfile" =>
                    mpv'.mail[i].request < mpv'.commands[k].request
               /\ \A e : Known(e) => Before(mpv.owner[e], issued[mpv'.mail[i].request])
    <3>1. i \in DOMAIN mpv.mail /\ mpv'.mail[i] = mpv.mail[i]
      BY <1>3, <2>1
    <3>2. /\ mpv.mail[i].request \in DOMAIN issued
          /\ \A j \in DOMAIN mpv.mail : j > i /\ mpv.mail[j].kind = "Reply" =>
               mpv.mail[i].request < mpv.mail[j].request
          /\ \A k \in DOMAIN mpv.commands : mpv.commands[k].kind = "loadfile" =>
               mpv.mail[i].request < mpv.commands[k].request
          /\ \A e : Known(e) => Before(mpv.owner[e], issued[mpv.mail[i].request])
      BY <2>1, <3>1 DEF AnswersInv, MailInv, RepliesInOrder
    <3>3. \A j \in DOMAIN mpv'.mail : j > i /\ mpv'.mail[j].kind = "Reply" =>
            mpv.mail[i].request < mpv'.mail[j].request
      BY <1>3, <3>2
    <3> QED BY <1>4, <3>1, <3>2, <3>3
  <2> QED BY <1>1, <1>2, <2>1 DEF RepliesInOrder
<1>7. LastCommand'
  <2>1. Playing => \A k \in DOMAIN mpv'.commands :
          mpv'.commands[k].kind = "loadfile" /\ mpv'.commands[k].request = Len(issued) =>
            k = Len(mpv'.commands)
    BY <1>4 DEF AnswersInv, MailInv, LastCommand
  <2> QED BY <1>1, <1>2, <2>1 DEF LastCommand, Playing
<1>8. FailureIsTold'
  BY <1>2 DEF AnswersInv, MailInv, FailureIsTold, Playing
<1>9. LossIsKnown'
  <2>1. mpv'.choked => mpv'.lossy
    BY <1>3 DEF AnswersInv, MailInv, LossIsKnown
  <2>2. mpv.state = "Up"
    BY <1>1 DEF MpvCore
  <2>3. \A i \in DOMAIN mpv'.mail : mpv'.mail[i].kind # "Shutdown"
    BY <1>3, <2>2 DEF AnswersInv, MailInv, LossIsKnown
  <2> QED BY <2>1, <2>3 DEF LossIsKnown
<1>10. EndsOnce'
  <2>1. mpv.playing # 0 => mpv.lingering # mpv.playing
    BY DEF AnswersInv, MailInv, EndsOnce, NoEntry
  <2>2. ASSUME NEW i \in DOMAIN mpv'.mail, mpv'.mail[i].kind = "End", NEW e, e = mpv'.mail[i].entry
        PROVE  /\ e \notin {mpv'.upNext, mpv'.playing, mpv'.lingering}
               /\ ~Coming("Start", e, i)' /\ ~Coming("End", e, i)'
    <3>1. CASE i \in DOMAIN mpv.mail
      <4>1. mpv.mail[i].kind = "End" /\ mpv.mail[i].entry = e
        BY <1>3, <2>2, <3>1
      <4>2. /\ e \notin {mpv.upNext, mpv.playing, mpv.lingering}
            /\ ~Coming("Start", e, i) /\ ~Coming("End", e, i)
        BY <3>1, <4>1 DEF AnswersInv, MailInv, EndsOnce
      <4>3. e \in Nat \ {0}
        BY <3>1, <4>1, MailFacts
      <4>4. ~Coming("Start", e, i)' /\ ~Coming("End", e, i)'
        BY <1>3, <4>2
      <4> QED BY <1>1, <4>2, <4>3, <4>4
    <3>2. CASE i \notin DOMAIN mpv.mail
      <4>1. /\ e = mpv.playing /\ mpv.playing # 0
            /\ \A j \in DOMAIN mpv'.mail : ~(j > i)
        BY <1>3, <2>2, <3>2 DEF NoEntry
      <4> QED BY <1>1, <2>1, <4>1 DEF Coming
    <3> QED BY <3>1, <3>2
  <2>3. mpv'.lingering # NoEntry => mpv'.lingering \notin {mpv'.playing, mpv'.upNext}
    BY <1>1 DEF NoEntry
  <2> QED BY <2>2, <2>3 DEF EndsOnce
<1>11. StartIsTold'
  <2>1. \A e \in adapter.started : e \in DOMAIN mpv.owner
    BY KnownFacts DEF Known
  <2> QED BY <1>2, <2>1 DEF StartIsTold
<1> QED BY <1>5, <1>6, <1>7, <1>8, <1>9, <1>10, <1>11 DEF MailInv

\* A stop keeps the answer under way: the load to play has no entry yet.
LEMMA IdleKeepsAnswers ==
  ASSUME MpvInv, MpvInv', AnswersInv, Idles PROVE AnswersInv'
<1>1. /\ MpvCore /\ mpv.commands # << >> /\ mpv'.commands = Tail(mpv.commands)
      /\ mpv'.upNext = 0 /\ mpv'.playing = 0 /\ mpv'.owner = mpv.owner /\ mpv.state = "Up"
      /\ ~mpv'.skipped => ~mpv.skipped /\
           (mpv.upNext = 0 \/ mpv.owner[mpv.upNext].generation \in stopped)
  BY DEF Idles, NoEntry, MpvCore
<1>2. /\ \A e \in DOMAIN mpv.owner : ~Owned(e) /\ ~Owned(e)'
      /\ target' = target /\ adapter' = adapter /\ issued' = issued /\ reported' = reported
      /\ stopped' = stopped /\ \A e : Known(e)' <=> Known(e)
  BY <1>1, OwnersStay, OwnedGrows, NoneOwned
<1>3. /\ \A i \in DOMAIN mpv.mail : i \in DOMAIN mpv'.mail /\ mpv'.mail[i] = mpv.mail[i]
      /\ \A i \in DOMAIN mpv'.mail : i \in DOMAIN mpv.mail \/
           (mpv'.mail[i].kind = "End" /\ mpv'.mail[i].entry = mpv.playing /\ mpv.playing # NoEntry)
      /\ mpv.choked => mpv'.choked
      /\ mpv.lossy => mpv'.lossy
      /\ \A kind, e, i : Coming(kind, e, i) => Coming(kind, e, i)'
  BY IdlesSay
<1>4. \A i \in DOMAIN mpv'.mail :
        /\ mpv'.mail[i].kind = "Reply" /\ mpv'.mail[i].accepted =>
             mpv'.mail[i].entry \in DOMAIN mpv.owner
        /\ mpv'.mail[i].kind \in {"Start", "End"} => mpv'.mail[i].entry \in DOMAIN mpv.owner
  BY <1>3, MailFacts, PlaceFacts DEF NoEntry
<1>5. TargetAnswered'
  <2> SUFFICES ASSUME Unanswered' PROVE AnswerComes' /\ Continues'
    BY DEF TargetAnswered
  <2>1. AnswerComes
    BY <1>1, <1>2, <1>3 DEF Unanswered, Playing, AnswersInv, TargetAnswered
  <2>2. AnswerComes'
    BY <1>2, <2>1, KnownFacts DEF AnswerComes
  <2>3. /\ \A e \in DOMAIN adapter'.pending : Owned(e)' => StartComes(e, 0)'
        /\ \A e \in DOMAIN adapter'.entries : Owned(e)' => EndComes(e, 0)'
    BY <1>2, KnownFacts DEF Known
  <2>4. ASSUME NEW i \in DOMAIN mpv'.mail, NEW m, m = mpv'.mail[i] PROVE LeadsOn(m, i)'
    BY <1>2, <1>4, <2>4 DEF LeadsOn
  <2> QED BY <2>2, <2>3, <2>4 DEF Continues
<1>6. StartsFollow'
  <2> SUFFICES ASSUME ~mpv'.lossy, ~mpv'.skipped
               PROVE  /\ \A e \in DOMAIN adapter.pending : StartComes(e, 0)'
                      /\ \A i \in DOMAIN mpv'.mail :
                           /\ mpv'.mail[i].kind = "Reply" /\ mpv'.mail[i].accepted
                           /\ mpv'.mail[i].request \in DOMAIN adapter.requests
                           => \E e : e = mpv'.mail[i].entry /\ StartComes(e, i)'
    BY <1>2 DEF StartsFollow
  <2>1. /\ ~mpv.lossy /\ ~mpv.skipped
        /\ mpv.upNext = 0 \/ mpv.owner[mpv.upNext].generation \in stopped
    BY <1>1, <1>3
  <2>2. ASSUME NEW e \in Nat \ {0}, mpv.owner[e].generation \notin stopped, NEW i, StartComes(e, i)
        PROVE  StartComes(e, i)'
    BY <1>3, <2>1, <2>2 DEF StartComes
  <2>3. \A e \in DOMAIN adapter.pending : StartComes(e, 0)'
    BY <2>1, <2>2, KnownFacts DEF AnswersInv, StartsFollow, Known
  <2>4. ASSUME NEW i \in DOMAIN mpv'.mail, mpv'.mail[i].kind = "Reply", mpv'.mail[i].accepted,
               mpv'.mail[i].request \in DOMAIN adapter.requests
        PROVE  \E e : e = mpv'.mail[i].entry /\ StartComes(e, i)'
    <3>1. i \in DOMAIN mpv.mail /\ mpv'.mail[i] = mpv.mail[i]
      BY <1>3, <2>4
    <3>2. /\ mpv.mail[i].entry \in Nat \ {0}
          /\ mpv.owner[mpv.mail[i].entry].generation \notin stopped
      <4>1. /\ mpv.mail[i].entry \in DOMAIN mpv.owner
            /\ mpv.owner[mpv.mail[i].entry] = issued[mpv.mail[i].request]
        BY <2>4, <3>1, MailFacts
      <4>2. issued[mpv.mail[i].request].generation \notin stopped
        BY <2>4, <3>1, KnownFacts
      <4> QED BY <4>1, <4>2, PlaceFacts
    <3>3. StartComes(mpv.mail[i].entry, i)
      BY <2>1, <2>4, <3>1 DEF AnswersInv, StartsFollow
    <3> QED BY <2>2, <3>1, <3>2, <3>3
  <2> QED BY <2>3, <2>4
<1>7. EntriesKnown'
  <2> SUFFICES ASSUME Calm' PROVE EntriesKnown'
    BY DEF EntriesKnown
  <2>1. Calm
    BY <1>1, <1>2, <1>3 DEF Calm, Playing
  <2>2. \A k \in DOMAIN mpv.commands :
          mpv.commands[k].kind = "loadfile" /\ mpv.commands[k].request = Len(issued) =>
            Len(issued) \in DOMAIN adapter.requests
    BY <2>1 DEF EntriesKnown, AnswersInv
  <2>3. \A k \in DOMAIN mpv'.commands :
          mpv'.commands[k].kind = "loadfile" /\ mpv'.commands[k].request = Len(issued') =>
            Len(issued') \in DOMAIN adapter'.requests
    BY <1>1, <1>2, <2>2, TailCommands
  <2>4. ASSUME NEW i \in DOMAIN mpv'.mail, NEW m, m = mpv'.mail[i] PROVE Introduced(m, i)'
    BY <1>2, <1>4, <2>4 DEF Introduced
  <2> QED BY <1>1, <2>3, <2>4 DEF EntriesKnown, NoEntry
<1> QED BY <1>5, <1>6, <1>7, IdleKeepsMail DEF AnswersInv

\* The stop command runs.
LEMMA MpvStopsAnswers ==
  ASSUME MpvInv, MpvInv', AnswersInv, MpvStops PROVE AnswersInv'
<1> DEFINE commands == Tail(mpv.commands)
           skips == mpv.skipped \/ (mpv.upNext # NoEntry
                                    /\ mpv.owner[mpv.upNext].generation \notin stopped)
           idle == [mpv EXCEPT !.commands = commands, !.upNext = NoEntry,
                               !.playing = NoEntry, !.skipped = skips]
           end == EndOf(mpv.playing, "Stop", {})
<1>1. /\ MpvCore /\ mpv.commands # << >> /\ Head(mpv.commands).kind = "stop"
      /\ mpv' = IF mpv.playing = NoEntry THEN idle ELSE Post(idle, end)
  BY DEF MpvStops, Pending
<1>2. ~skips => ~mpv.skipped /\
        (mpv.upNext = NoEntry \/ mpv.owner[mpv.upNext].generation \in stopped)
  OBVIOUS
<1> HIDE DEF skips, commands
<1>3. /\ IsMpv(idle) /\ idle.commands = commands /\ idle.mail = mpv.mail
      /\ idle.upNext = NoEntry /\ idle.playing = NoEntry /\ idle.lingering = mpv.lingering
      /\ idle.owner = mpv.owner /\ idle.skipped = skips
      /\ idle.choked = mpv.choked /\ idle.lossy = mpv.lossy
  BY PlaceFacts DEF IsMpv, MpvFields
<1> HIDE DEF idle, end
<1>4. LET p == Post(idle, end)
      IN  /\ p.skipped = idle.skipped /\ p.commands = idle.commands
          /\ p.upNext = idle.upNext /\ p.playing = idle.playing
          /\ p.lingering = idle.lingering /\ p.owner = idle.owner
          /\ \/ /\ p.mail = Append(mpv.mail, end)
                /\ p.choked = mpv.choked /\ p.lossy = mpv.lossy
             \/ p.mail = mpv.mail /\ p.choked = TRUE /\ p.lossy = TRUE
  BY <1>3, PostSays
<1>5. Head(mpv.commands) = mpv.commands[1]
  BY <1>1, InvFacts
<1>6. CASE mpv.playing = NoEntry
  BY <1>1, <1>2, <1>3, <1>5, <1>6, IdleKeepsAnswers DEF Idles, commands
<1>7. CASE mpv.playing # NoEntry
  <2>1. mpv' = Post(idle, end)
    BY <1>1, <1>7
  <2>2. Posts(end)
    BY <1>4, <2>1 DEF Posts
  <2> QED BY <1>1, <1>2, <1>3, <1>4, <1>5, <1>7, <2>1, <2>2, IdleKeepsAnswers DEF Idles, commands, end
<1> QED BY <1>6, <1>7

-----------------------------------------------------------------------------
(* What each operation of the adapter changes of what it awaits and knows. *)

\* What reply settles: the request is not awaited any more, and the entry that
\* an accepted one names is.
LEMMA ReplyChanges ==
  ASSUME NEW a, IsAdapter(a), NEW request, NEW accepted, NEW entry
  PROVE  LET b == CommandResult(a, request, accepted, entry)
             kind == IF accepted THEN "LoadAccepted" ELSE "LoadRejected"
         IN  /\ b.entries = a.entries /\ b.started = a.started
             /\ b.failureReported = a.failureReported /\ b.retired \subseteq a.retired
             /\ request \in a.retired =>
                  b.requests = a.requests /\ b.pending = a.pending /\ b.events = a.events
             /\ request \notin a.retired /\ request \notin DOMAIN a.requests => b = a
             /\ request \notin a.retired /\ request \in DOMAIN a.requests =>
                  /\ DOMAIN b.requests = DOMAIN a.requests \ {request}
                  /\ accepted => DOMAIN b.pending = DOMAIN a.pending \cup {entry}
                  /\ ~accepted => b.pending = a.pending
                  /\ b.events = Append(a.events, Event(kind, a.requests[request]))
<1> DEFINE b == CommandResult(a, request, accepted, entry)
           load == a.requests[request]
           kind == IF accepted THEN "LoadAccepted" ELSE "LoadRejected"
<1>1. CASE request \in a.retired
  <2>1. /\ b.requests = a.requests /\ b.pending = a.pending /\ b.entries = a.entries
        /\ b.retired = a.retired \ {request} /\ b.started = a.started
        /\ b.events = a.events
    BY <1>1 DEF IsAdapter, AdapterFields, CommandResult
  <2>2. b.failureReported = a.failureReported
    BY <1>1 DEF IsAdapter, AdapterFields, CommandResult
  <2> HIDE DEF b
  <2> QED BY <1>1, <2>1, <2>2 DEF b
<1>2. CASE request \notin a.retired /\ request \notin DOMAIN a.requests
  BY <1>2 DEF CommandResult
<1>3. CASE request \notin a.retired /\ request \in DOMAIN a.requests
  <2>1. /\ b.requests = Without(a.requests, {request})
        /\ b.pending = IF accepted THEN Put(a.pending, entry, load) ELSE a.pending
        /\ b.entries = a.entries /\ b.retired = a.retired /\ b.started = a.started
        /\ b.events = Append(a.events, Event(kind, load))
    BY <1>3 DEF IsAdapter, AdapterFields, CommandResult, Journal
  <2>2. b.failureReported = a.failureReported
    BY <1>3 DEF IsAdapter, AdapterFields, CommandResult, Journal
  <2> HIDE DEF b, load, kind
  <2>3. /\ DOMAIN Without(a.requests, {request}) = DOMAIN a.requests \ {request}
        /\ DOMAIN Put(a.pending, entry, load) = DOMAIN a.pending \cup {entry}
    BY DEF Without, Restrict, Put
  <2> QED BY <1>3, <2>1, <2>2, <2>3 DEF b, load, kind
<1> QED BY <1>1, <1>2, <1>3

\* An accepted start makes its entry a known one.
LEMMA StartChanges ==
  ASSUME NEW a, IsAdapter(a), NEW entry
  PROVE  LET b == StartFile(a, entry)
         IN  /\ ~AcceptsStart(a, entry) => b = a
             /\ AcceptsStart(a, entry) =>
                  /\ b.requests = a.requests /\ b.retired = a.retired
                  /\ b.failureReported = a.failureReported /\ b.events = a.events
                  /\ DOMAIN b.pending = DOMAIN a.pending \ {entry}
                  /\ DOMAIN b.entries = DOMAIN a.entries \cup {entry}
                  /\ b.started = a.started \ {entry}
<1> DEFINE b == StartFile(a, entry)
<1>1. CASE ~AcceptsStart(a, entry)
  BY <1>1 DEF StartFile
<1>2. CASE AcceptsStart(a, entry) /\ entry \in DOMAIN a.pending
  <2>1. /\ b.requests = a.requests /\ b.retired = a.retired /\ b.events = a.events
        /\ b.pending = Without(a.pending, {entry})
        /\ b.entries = Put(a.entries, entry, a.pending[entry])
        /\ b.started = a.started \ {entry}
    BY <1>2 DEF IsAdapter, AdapterFields, StartFile
  <2>2. b.failureReported = a.failureReported
    BY <1>2 DEF IsAdapter, AdapterFields, StartFile
  <2> HIDE DEF b
  <2>3. /\ DOMAIN Without(a.pending, {entry}) = DOMAIN a.pending \ {entry}
        /\ DOMAIN Put(a.entries, entry, a.pending[entry]) = DOMAIN a.entries \cup {entry}
    BY DEF Without, Restrict, Put
  <2> QED BY <1>2, <2>1, <2>2, <2>3 DEF b
<1>3. CASE AcceptsStart(a, entry) /\ entry \notin DOMAIN a.pending
  <2>1. /\ b.requests = a.requests /\ b.retired = a.retired /\ b.events = a.events
        /\ b.pending = a.pending /\ b.entries = a.entries
        /\ b.started = a.started \ {entry}
    BY <1>3 DEF IsAdapter, AdapterFields, StartFile
  <2>2. b.failureReported = a.failureReported
    BY <1>3 DEF IsAdapter, AdapterFields, StartFile
  <2>3. entry \in DOMAIN a.entries
    BY <1>3 DEF AcceptsStart
  <2> HIDE DEF b
  <2> QED BY <1>3, <2>1, <2>2, <2>3 DEF b
<1> QED BY <1>1, <1>2, <1>3

\* A restart changes what has started, and tells it.
LEMMA RestartChanges ==
  ASSUME NEW a, IsAdapter(a), NEW entry
  PROVE  LET b == PlaybackRestart(a, entry)
         IN  /\ ~IsFirstStart(a, entry) => b = a
             /\ b.requests = a.requests /\ b.retired = a.retired
             /\ b.failureReported = a.failureReported
             /\ b.pending = a.pending /\ b.entries = a.entries
             /\ IsFirstStart(a, entry) =>
                  /\ b.started = a.started \cup {entry}
                  /\ b.events = Append(a.events, Event("FirstStart", a.entries[entry]))
<1> DEFINE b == PlaybackRestart(a, entry)
<1>1. CASE ~IsFirstStart(a, entry)
  BY <1>1 DEF PlaybackRestart
<1>2. CASE IsFirstStart(a, entry)
  <2>1. /\ b.requests = a.requests /\ b.retired = a.retired
        /\ b.pending = a.pending /\ b.entries = a.entries
        /\ b.started = a.started \cup {entry}
        /\ b.events = Append(a.events, Event("FirstStart", a.entries[entry]))
    BY <1>2 DEF IsAdapter, AdapterFields, PlaybackRestart, Journal
  <2>2. b.failureReported = a.failureReported
    BY <1>2 DEF IsAdapter, AdapterFields, PlaybackRestart, Journal
  <2> HIDE DEF b
  <2> QED BY <1>2, <2>1, <2>2 DEF b
<1> QED BY <1>1, <1>2

\* An end takes its entry away, brings what it inserts, and is told of the load
\* the entry is of.
LEMMA EndChanges ==
  ASSUME NEW a, NEW requested, NEW owned, NEW silenced, AdapterSound(a, requested, owned, silenced),
         owned \in Seq(Loads), NEW entry, NEW reason, NEW inserted
  PROVE  LET b == EndFile(a, entry, reason, inserted)
         IN  /\ entry \notin DOMAIN a.entries => b = a
             /\ b.requests = a.requests /\ b.retired = a.retired /\ b.pending = a.pending
             /\ b.failureReported = a.failureReported
             /\ entry \in DOMAIN a.entries =>
                  /\ DOMAIN b.entries = (DOMAIN a.entries \cup inserted) \ {entry}
                  /\ b.started = a.started \ {entry}
                  /\ \E kind \in {"Stopped", reason} :
                       /\ b.events = Append(a.events, Event(kind, owned[entry]))
                       /\ entry \in DOMAIN a.stops => kind = "Stopped"
<1> DEFINE b == EndFile(a, entry, reason, inserted)
           load == a.entries[entry]
           inherited == Inherits(a.entries, inserted, load)
<1>1. CASE entry \notin DOMAIN a.entries
  BY <1>1 DEF EndFile
<1>2. CASE entry \in DOMAIN a.entries
  <2>1. /\ b.requests = a.requests /\ b.pending = a.pending /\ b.retired = a.retired
        /\ b.entries = Without(inherited, {entry}) /\ b.started = a.started \ {entry}
        /\ b.events = Append(a.events, EndReport(a, entry, reason))
    BY <1>2 DEF AdapterSound, IsAdapter, AdapterFields, EndFile
  <2>2. b.failureReported = a.failureReported
    BY <1>2 DEF AdapterSound, IsAdapter, AdapterFields, EndFile
  <2>3. entry \in DOMAIN owned /\ load = owned[entry] /\ load \in Loads
    BY <1>2 DEF AdapterSound, Credits
  <2> HIDE DEF b, load
  <2>4. DOMAIN Without(inherited, {entry}) = (DOMAIN a.entries \cup inserted) \ {entry}
    BY DEF Without, Restrict, Inherits
  <2> HIDE DEF inherited
  <2>5. \E kind \in {"Stopped", reason} :
          /\ EndReport(a, entry, reason) = Event(kind, load)
          /\ entry \in DOMAIN a.stops => kind = "Stopped"
    <3>1. CASE entry \in DOMAIN a.stops
      <4>1. a.stops[entry] = load.generation
        BY <2>3, <3>1 DEF AdapterSound
      <4>2. [load EXCEPT !.generation = a.stops[entry]] = load
        BY <2>3, <4>1 DEF Loads, Load
      <4>3. EndReport(a, entry, reason) = Event("Stopped", load)
        BY <3>1, <4>2 DEF EndReport, load
      <4> QED BY <4>3
    <3>2. CASE entry \notin DOMAIN a.stops
      <4>1. EndReport(a, entry, reason) = Event(reason, load)
        BY <3>2 DEF EndReport, load
      <4> QED BY <3>2, <4>1
    <3> QED BY <3>1, <3>2
  <2> QED BY <1>2, <2>1, <2>2, <2>3, <2>4, <2>5 DEF b
<1> QED BY <1>1, <1>2

\* A backend that fails leaves nothing awaited and nothing known.
LEMMA FailureChanges ==
  ASSUME NEW a, IsAdapter(a), NEW load
  PROVE  LET b == BackendFailed(a, load)
         IN  /\ a.failureReported => b = a
             /\ ~a.failureReported =>
                  /\ DOMAIN b.requests = {} /\ DOMAIN b.pending = {} /\ DOMAIN b.entries = {}
                  /\ b.started = {} /\ b.retired = {}
                  /\ b.events = Append(a.events, Event("BackendFailed", load))
<1> DEFINE b == BackendFailed(a, load)
<1>1. CASE a.failureReported
  BY <1>1 DEF BackendFailed
<1>2. CASE ~a.failureReported
  <2>1. /\ b.requests = Empty /\ b.pending = Empty /\ b.entries = Empty
        /\ b.retired = {} /\ b.started = {}
        /\ b.events = Append(a.events, Event("BackendFailed", load))
    BY <1>2 DEF IsAdapter, AdapterFields, BackendFailed, ClearCorrelations,
                Journal, FreshAdapter
  <2> HIDE DEF b
  <2> QED BY <1>2, <2>1 DEF b, Empty
<1> QED BY <1>1, <1>2

\* An exact failure changes the journal alone.
LEMMA ExactFailureChanges ==
  ASSUME NEW a, IsAdapter(a), NEW load
  PROVE  LET b == ExactFailure(a, load)
         IN  /\ b.requests = a.requests /\ b.pending = a.pending /\ b.entries = a.entries
             /\ b.retired = a.retired /\ b.started = a.started
             /\ b.failureReported = a.failureReported
             /\ b.events = Append(a.events, Event("ExactFailure", load))
BY DEF IsAdapter, AdapterFields, ExactFailure, Journal

\* A request that is refused is not awaited any more, and the journal says so.
LEMMA RefusalChanges ==
  ASSUME NEW a, IsAdapter(a), NEW request, request \notin a.retired,
         request \in DOMAIN a.requests
  PROVE  LET b == CommandRejectedImmediately(a, request)
         IN  /\ DOMAIN b.requests = DOMAIN a.requests \ {request}
             /\ b.pending = a.pending /\ b.entries = a.entries
             /\ b.retired = a.retired /\ b.started = a.started
             /\ b.failureReported = a.failureReported
             /\ b.events = Append(a.events, Event("LoadRejected", a.requests[request]))
<1> DEFINE b == CommandRejectedImmediately(a, request)
           load == a.requests[request]
<1>1. /\ b.requests = Without(a.requests, {request})
      /\ b.pending = a.pending /\ b.entries = a.entries
      /\ b.retired = a.retired /\ b.started = a.started
      /\ b.events = Append(a.events, Event("LoadRejected", load))
  BY DEF IsAdapter, AdapterFields, CommandRejectedImmediately, CommandResult, Journal
<1>2. b.failureReported = a.failureReported
  BY DEF IsAdapter, AdapterFields, CommandRejectedImmediately, CommandResult, Journal
<1> HIDE DEF b, load
<1>3. DOMAIN Without(a.requests, {request}) = DOMAIN a.requests \ {request}
  BY DEF Without, Restrict
<1> QED BY <1>1, <1>2, <1>3 DEF b, load

\* What is retired is neither awaited nor known any more, and the replies that
\* are still to come are remembered.
LEMMA RetirementChanges ==
  ASSUME NEW a, NEW requested, NEW owned, NEW silenced, AdapterSound(a, requested, owned, silenced),
         NEW g
  PROVE  LET b == RetireGeneration(a, g)
         IN  /\ DOMAIN b.requests = {r \in DOMAIN a.requests : requested[r].generation # g}
             /\ b.retired = a.retired \cup {r \in DOMAIN a.requests : requested[r].generation = g}
             /\ DOMAIN b.pending = {e \in DOMAIN a.pending : owned[e].generation # g}
             /\ DOMAIN b.entries = {e \in DOMAIN a.entries : owned[e].generation # g}
             /\ b.started \subseteq a.started
<1> DEFINE b == RetireGeneration(a, g)
<1>1. /\ b.requests = Without(a.requests, OfGeneration(a.requests, g))
      /\ b.pending = Without(a.pending, OfGeneration(a.pending, g))
      /\ b.entries = Without(a.entries, OfGeneration(a.entries, g))
      /\ b.retired = a.retired \cup OfGeneration(a.requests, g)
      /\ b.started = a.started \ OfGeneration(a.entries, g)
  BY DEF AdapterSound, IsAdapter, AdapterFields, RetireGeneration
<1> HIDE DEF b
<1>2. ASSUME NEW map, NEW loads, Credits(map, loads, silenced)
      PROVE  /\ OfGeneration(map, g) = {k \in DOMAIN map : loads[k].generation = g}
             /\ DOMAIN Without(map, OfGeneration(map, g)) =
                  {k \in DOMAIN map : loads[k].generation # g}
  BY <1>2 DEF Credits, Without, Restrict, OfGeneration
<1>3. /\ Credits(a.requests, requested, silenced) /\ Credits(a.pending, owned, silenced)
      /\ Credits(a.entries, owned, silenced)
  BY DEF AdapterSound
<1>4. /\ DOMAIN b.requests = {r \in DOMAIN a.requests : requested[r].generation # g}
      /\ b.retired = a.retired \cup {r \in DOMAIN a.requests : requested[r].generation = g}
  BY <1>1, <1>2, <1>3
<1>5. /\ DOMAIN b.pending = {e \in DOMAIN a.pending : owned[e].generation # g}
      /\ DOMAIN b.entries = {e \in DOMAIN a.entries : owned[e].generation # g}
  <2>1. DOMAIN Without(a.pending, OfGeneration(a.pending, g)) =
          {e \in DOMAIN a.pending : owned[e].generation # g}
    BY <1>3 DEF Credits, Without, Restrict, OfGeneration
  <2>2. DOMAIN Without(a.entries, OfGeneration(a.entries, g)) =
          {e \in DOMAIN a.entries : owned[e].generation # g}
    BY <1>3 DEF Credits, Without, Restrict, OfGeneration
  <2> QED BY <1>1, <2>1, <2>2
<1> QED BY <1>1, <1>4, <1>5 DEF b

\* A load that is tracked is awaited.
LEMMA TrackingChanges ==
  ASSUME NEW a, IsAdapter(a), NEW request, NEW load
  PROVE  LET b == TrackLoad(a, request, load)
         IN  /\ IsAdapter(b) /\ ~b.failureReported
             /\ DOMAIN b.requests = DOMAIN a.requests \cup {request} /\ b.requests[request] = load
             /\ b.pending = a.pending /\ b.entries = a.entries
             /\ b.retired = a.retired /\ b.started = a.started /\ b.events = a.events
<1> DEFINE b == TrackLoad(a, request, load)
<1>1. /\ IsAdapter(b) /\ b.requests = Put(a.requests, request, load)
      /\ b.pending = a.pending /\ b.entries = a.entries
      /\ b.retired = a.retired /\ b.started = a.started /\ b.events = a.events
  BY DEF IsAdapter, AdapterFields, TrackLoad
<1>2. ~b.failureReported
  BY DEF IsAdapter, AdapterFields, TrackLoad
<1> HIDE DEF b
<1>3. /\ DOMAIN Put(a.requests, request, load) = DOMAIN a.requests \cup {request}
      /\ Put(a.requests, request, load)[request] = load
  BY DEF Put
<1> QED BY <1>1, <1>2, <1>3 DEF b

-----------------------------------------------------------------------------
(* A turn of the player takes at most one message.                         *)

\* The first k messages of the mail are gone, and an overflow that was told.
Takes(k) ==
  /\ Consumes(k) /\ mpv'.state = mpv.state /\ mpv'.skipped = mpv.skipped
  /\ mpv'.lossy = mpv.lossy /\ (mpv'.choked => mpv.choked)
  /\ \A i \in DOMAIN mpv.mail : i > k => i - k \in DOMAIN mpv'.mail
  /\ k = 1 => 1 \in DOMAIN mpv.mail

\* The mail that a turn leaves is the rest of it.
LEMMA TakesMail ==
  ASSUME MpvInv, NEW k \in {0, 1}, Takes(k)
  PROVE  /\ k \in Nat /\ DOMAIN mpv.mail \subseteq Nat \ {0} /\ Len(mpv.mail) \in Nat
         /\ Len(mpv'.mail) = Len(mpv.mail) - k
         /\ \A i \in DOMAIN mpv'.mail :
              i \in Nat \ {0} /\ i + k \in DOMAIN mpv.mail /\ mpv'.mail[i] = mpv.mail[i + k]
         /\ \A i \in DOMAIN mpv.mail : i - k \in DOMAIN mpv'.mail \/ (k = 1 /\ i = 1)
<1> DEFINE old == mpv.mail
           new == mpv'.mail
<1>1. /\ old \in Seq(Messages) /\ new \in Seq(Messages)
      /\ \A i \in DOMAIN new : i + k \in DOMAIN old /\ new[i] = old[i + k]
      /\ \A i \in DOMAIN old : i > k => i - k \in DOMAIN new
      /\ k = 1 => 1 \in DOMAIN old
  BY InvFacts DEF Takes, Consumes
<1> HIDE DEF old, new
<1>2. /\ DOMAIN old = 1 .. Len(old) /\ Len(old) \in Nat
      /\ DOMAIN new = 1 .. Len(new) /\ Len(new) \in Nat
  BY <1>1
<1>3. Len(new) <= Len(old) - k
  <2>1. CASE Len(new) = 0
    BY <1>1, <1>2, <2>1
  <2>2. CASE Len(new) # 0
    <3>1. Len(new) \in DOMAIN new
      BY <1>2, <2>2
    <3>2. Len(new) + k \in DOMAIN old
      BY <1>1, <3>1
    <3> QED BY <1>2, <3>2
  <2> QED BY <2>1, <2>2
<1>4. Len(old) - k <= Len(new)
  <2>1. CASE Len(old) <= k
    BY <1>2, <2>1
  <2>2. CASE Len(old) > k
    <3>1. Len(old) \in DOMAIN old
      BY <1>2, <2>2
    <3>2. Len(old) - k \in DOMAIN new
      BY <1>1, <2>2, <3>1
    <3> QED BY <1>2, <3>2
  <2> QED BY <1>2, <2>1, <2>2
<1>5. Len(new) = Len(old) - k
  <2>1. \A m, n, d \in Nat : m <= n - d /\ n - d <= m => m = n - d
    OBVIOUS
  <2>2. Len(new) \in Nat /\ Len(old) \in Nat /\ k \in Nat
    BY <1>2
  <2> QED BY <1>3, <1>4, <2>1, <2>2
<1>6. \A i \in DOMAIN old : i - k \in DOMAIN new \/ (k = 1 /\ i = 1)
  BY <1>1, <1>2
<1>7. DOMAIN old \subseteq Nat \ {0} /\ DOMAIN new \subseteq Nat \ {0}
  BY <1>2
<1> QED BY <1>1, <1>2, <1>5, <1>6, <1>7 DEF old, new

\* What the mail said it still says, but for its head.
LEMMA TakesSay ==
  ASSUME MpvInv, NEW k \in {0, 1}, Takes(k)
  PROVE  /\ \A kind, e : \A i \in Nat : Coming(kind, e, i)' <=> Coming(kind, e, i + k)
         /\ \A kind, e : Coming(kind, e, 0) => Coming(kind, e, 0)' \/
              (k = 1 /\ mpv.mail[1].kind = kind /\ mpv.mail[1].entry = e)
         /\ \A e : \A i \in Nat : InsertedBefore(e, i + k) => InsertedBefore(e, i)' \/
              (k = 1 /\ mpv.mail[1].kind = "End" /\ e \in mpv.mail[1].inserted)
         /\ \A e : \A i \in Nat : StartedBefore(e, i + k) => StartedBefore(e, i)' \/
              (k = 1 /\ mpv.mail[1].kind = "Start" /\ mpv.mail[1].entry = e)
<1>1. /\ k \in Nat /\ DOMAIN mpv.mail \subseteq Nat \ {0}
      /\ \A i \in DOMAIN mpv'.mail :
           i \in Nat \ {0} /\ i + k \in DOMAIN mpv.mail /\ mpv'.mail[i] = mpv.mail[i + k]
      /\ \A i \in DOMAIN mpv.mail : i - k \in DOMAIN mpv'.mail \/ (k = 1 /\ i = 1)
  BY TakesMail
<1>2. \A i \in DOMAIN mpv.mail : (k = 1 /\ i = 1) \/
        (i - k \in DOMAIN mpv'.mail /\ mpv'.mail[i - k] = mpv.mail[i])
  BY <1>1
<1>3. ASSUME NEW kind, NEW e, NEW i \in Nat PROVE Coming(kind, e, i)' <=> Coming(kind, e, i + k)
  <2>1. ASSUME Coming(kind, e, i)' PROVE Coming(kind, e, i + k)
    <3>1. PICK j \in DOMAIN mpv'.mail :
            j > i /\ mpv'.mail[j].kind = kind /\ mpv'.mail[j].entry = e
      BY <2>1 DEF Coming
    <3>2. j + k > i + k /\ j + k \in DOMAIN mpv.mail /\ mpv.mail[j + k] = mpv'.mail[j]
      BY <1>1, <3>1
    <3> QED BY <3>1, <3>2 DEF Coming
  <2>2. ASSUME Coming(kind, e, i + k) PROVE Coming(kind, e, i)'
    <3>1. PICK j \in DOMAIN mpv.mail :
            j > i + k /\ mpv.mail[j].kind = kind /\ mpv.mail[j].entry = e
      BY <2>2 DEF Coming
    <3>2. j - k > i /\ j - k \in DOMAIN mpv'.mail /\ mpv'.mail[j - k] = mpv.mail[j]
      BY <1>1, <1>2, <3>1
    <3> QED BY <3>1, <3>2 DEF Coming
  <2> QED BY <2>1, <2>2
<1>4. ASSUME NEW kind, NEW e, Coming(kind, e, 0)
      PROVE  Coming(kind, e, 0)' \/ (k = 1 /\ mpv.mail[1].kind = kind /\ mpv.mail[1].entry = e)
  <2>1. PICK j \in DOMAIN mpv.mail : mpv.mail[j].kind = kind /\ mpv.mail[j].entry = e
    BY <1>4 DEF Coming
  <2>2. CASE j - k \in DOMAIN mpv'.mail /\ mpv'.mail[j - k] = mpv.mail[j]
    <3>1. j - k > 0
      BY <1>1, <2>2
    <3> QED BY <2>1, <2>2, <3>1 DEF Coming
  <2> QED BY <1>2, <2>1, <2>2
<1>5. ASSUME NEW e, NEW i \in Nat, InsertedBefore(e, i + k)
      PROVE  InsertedBefore(e, i)' \/ (k = 1 /\ mpv.mail[1].kind = "End" /\ e \in mpv.mail[1].inserted)
  <2>1. PICK j \in DOMAIN mpv.mail :
          j < i + k /\ mpv.mail[j].kind = "End" /\ e \in mpv.mail[j].inserted
    BY <1>5 DEF InsertedBefore
  <2>2. CASE j - k \in DOMAIN mpv'.mail /\ mpv'.mail[j - k] = mpv.mail[j]
    <3>1. j - k < i
      BY <1>1, <2>1
    <3> QED BY <2>1, <2>2, <3>1 DEF InsertedBefore
  <2> QED BY <1>2, <2>1, <2>2
<1>6. ASSUME NEW e, NEW i \in Nat, StartedBefore(e, i + k)
      PROVE  StartedBefore(e, i)' \/ (k = 1 /\ mpv.mail[1].kind = "Start" /\ mpv.mail[1].entry = e)
  <2>1. PICK j \in DOMAIN mpv.mail :
          j < i + k /\ mpv.mail[j].kind = "Start" /\ mpv.mail[j].entry = e
    BY <1>6 DEF StartedBefore
  <2>2. CASE j - k \in DOMAIN mpv'.mail /\ mpv'.mail[j - k] = mpv.mail[j]
    <3>1. j - k < i
      BY <1>1, <2>1
    <3> QED BY <2>1, <2>2, <3>1 DEF StartedBefore
  <2> QED BY <1>2, <2>1, <2>2
<1> QED BY <1>3, <1>4, <1>5, <1>6

\* What the head of the mail is about.
HeadStarts(k, e) == k = 1 /\ mpv.mail[1].kind = "Start" /\ mpv.mail[1].entry = e
HeadEnds(k, e)   == k = 1 /\ mpv.mail[1].kind = "End" /\ mpv.mail[1].entry = e
HeadAnswers(k, r) == k = 1 /\ mpv.mail[1].kind = "Reply" /\ mpv.mail[1].request = r
HeadAccepts(k, e) ==
  /\ k = 1 /\ mpv.mail[1].kind = "Reply" /\ mpv.mail[1].accepted /\ mpv.mail[1].entry = e
  /\ mpv.mail[1].request \in DOMAIN adapter.requests
HeadInserts(k, e) ==
  /\ k = 1 /\ mpv.mail[1].kind = "End" /\ e \in mpv.mail[1].inserted
  /\ mpv.mail[1].entry \in DOMAIN adapter.entries

\* The adapter a comes to wait for and to know no more than the head says.
Learns(a, k) ==
  /\ DOMAIN a.requests \subseteq DOMAIN adapter.requests
  /\ a.retired \cap DOMAIN a.requests = {}
  /\ \A r \in DOMAIN a.requests : ~HeadAnswers(k, r)
  /\ \A e \in DOMAIN a.pending :
       (e \in DOMAIN adapter.pending /\ ~HeadStarts(k, e)) \/ HeadAccepts(k, e)
  /\ \A e \in DOMAIN a.entries :
       \/ e \in DOMAIN adapter.entries /\ ~HeadEnds(k, e)
       \/ HeadStarts(k, e) /\ Known(e)
       \/ HeadInserts(k, e)
  /\ a.failureReported /\ Playing => adapter.failureReported \/ "BackendFailed" \in reported'
  /\ \A e \in a.started : e \in adapter.started \/ ~Owned(e) \/ "FirstStart" \in reported'

\* It forgets no more than the head answers, starts and ends.
Keeps(a, k) ==
  /\ \A r \in DOMAIN adapter.requests : r \in DOMAIN a.requests \/ HeadAnswers(k, r)
  /\ \A e \in DOMAIN adapter.pending : e \in DOMAIN a.pending \/ HeadStarts(k, e)
  /\ \A e \in DOMAIN adapter.entries : e \in DOMAIN a.entries \/ HeadEnds(k, e)
  /\ \A e : HeadStarts(k, e) /\ Known(e) => e \in DOMAIN a.entries /\ current_entry' = e
  /\ \A e : HeadAccepts(k, e) => e \in DOMAIN a.pending
  /\ \A e : HeadInserts(k, e) => e \in DOMAIN a.entries \/ HeadEnds(k, e)
  /\ current_entry' = current_entry \/ HeadStarts(k, current_entry')

\* What a turn leaves of the player and of libmpv.
LEMMA TurnFacts ==
  ASSUME MpvInv, NEW k \in {0, 1}, Takes(k), NEW a, Turn(a), IsAdapter(a)
  PROVE  /\ target' = target /\ issued' = issued /\ generation' = generation /\ stopped' = stopped
         /\ mpv'.owner = mpv.owner /\ mpv'.commands = mpv.commands
         /\ mpv'.upNext = mpv.upNext /\ mpv'.playing = mpv.playing
         /\ mpv'.lingering = mpv.lingering /\ mpv'.restarted = mpv.restarted
         /\ \A e : Owned(e)' <=> Owned(e)
         /\ adapter'.requests = a.requests /\ adapter'.pending = a.pending
         /\ adapter'.entries = a.entries /\ adapter'.retired = a.retired
         /\ adapter'.started = a.started /\ adapter'.failureReported = a.failureReported
         /\ adapter'.events = << >>
         /\ reported \subseteq reported'
         /\ \A i \in DOMAIN a.events : a.events[i].load = target => a.events[i].kind \in reported'
<1>1. /\ target' = target /\ issued' = issued /\ generation' = generation /\ stopped' = stopped
      /\ adapter' = Drain(a) /\ Deliver(a.events)
  BY DEF Turn
<1>2. /\ mpv'.owner = mpv.owner /\ mpv'.commands = mpv.commands
      /\ mpv'.upNext = mpv.upNext /\ mpv'.playing = mpv.playing
      /\ mpv'.lingering = mpv.lingering /\ mpv'.restarted = mpv.restarted
  BY DEF Takes, Consumes
<1>3. /\ adapter'.requests = a.requests /\ adapter'.pending = a.pending
      /\ adapter'.entries = a.entries /\ adapter'.retired = a.retired
      /\ adapter'.started = a.started /\ adapter'.failureReported = a.failureReported
      /\ adapter'.events = << >>
  BY <1>1 DEF Drain, IsAdapter, AdapterFields
<1>4. reported' = reported \cup {event.kind : event \in {e \in Range(a.events) : e.load = target}}
  BY <1>1 DEF Deliver
<1>5. \A i \in DOMAIN a.events : a.events[i] \in Range(a.events)
  BY DEF Range
<1> QED BY <1>1, <1>2, <1>3, <1>4, <1>5 DEF Owned

\* What is known of requests, replies and ends stays known.
LEMMA TurnKeepsMail ==
  ASSUME MpvInv, MpvInv', AnswersInv, NEW k \in {0, 1}, Takes(k), NEW a, Turn(a), IsAdapter(a),
         Learns(a, k)
  PROVE  MailInv'
<1>1. /\ target' = target /\ issued' = issued
      /\ mpv'.owner = mpv.owner /\ mpv'.commands = mpv.commands
      /\ mpv'.upNext = mpv.upNext /\ mpv'.playing = mpv.playing /\ mpv'.lingering = mpv.lingering
      /\ \A e : Owned(e)' <=> Owned(e)
      /\ adapter'.requests = a.requests /\ adapter'.pending = a.pending
      /\ adapter'.entries = a.entries /\ adapter'.retired = a.retired
      /\ adapter'.started = a.started /\ adapter'.failureReported = a.failureReported
      /\ reported \subseteq reported'
  BY TurnFacts
<1>2. /\ k \in Nat /\ DOMAIN mpv.mail \subseteq Nat \ {0}
      /\ \A i \in DOMAIN mpv'.mail :
           i \in Nat \ {0} /\ i + k \in DOMAIN mpv.mail /\ mpv'.mail[i] = mpv.mail[i + k]
      /\ \A i \in DOMAIN mpv.mail : i - k \in DOMAIN mpv'.mail \/ (k = 1 /\ i = 1)
  BY TakesMail
<1>3. /\ mpv'.state = mpv.state /\ mpv'.lossy = mpv.lossy /\ (mpv'.choked => mpv.choked)
      /\ (k = 1 => 1 \in DOMAIN mpv.mail)
  BY DEF Takes
<1>4. RequestsAnswered'
  <2>1. ASSUME NEW r \in DOMAIN a.requests
        PROVE  \/ \E j \in DOMAIN mpv.commands :
                    mpv.commands[j].kind = "loadfile" /\ mpv.commands[j].request = r
               \/ \E i \in DOMAIN mpv'.mail : mpv'.mail[i].kind = "Reply" /\ mpv'.mail[i].request = r
    <3>1. r \in DOMAIN adapter.requests /\ ~HeadAnswers(k, r)
      BY DEF Learns
    <3>2. CASE \E i \in DOMAIN mpv.mail : mpv.mail[i].kind = "Reply" /\ mpv.mail[i].request = r
      <4>1. PICK i \in DOMAIN mpv.mail : mpv.mail[i].kind = "Reply" /\ mpv.mail[i].request = r
        BY <3>2
      <4>2. i - k \in DOMAIN mpv'.mail
        BY <1>2, <3>1, <4>1 DEF HeadAnswers
      <4>3. mpv'.mail[i - k] = mpv.mail[i]
        BY <1>2, <4>2
      <4> QED BY <4>1, <4>2, <4>3
    <3> QED BY <3>1, <3>2 DEF AnswersInv, MailInv, RequestsAnswered
  <2> QED BY <1>1, <2>1 DEF RequestsAnswered, Learns
<1>5. RepliesInOrder'
  <2>1. ASSUME NEW i \in DOMAIN mpv'.mail, mpv'.mail[i].kind = "Reply", NEW m, m = mpv'.mail[i]
        PROVE  /\ m.request \in DOMAIN issued
               /\ \A j \in DOMAIN mpv'.mail : j > i /\ mpv'.mail[j].kind = "Reply" =>
                    m.request < mpv'.mail[j].request
               /\ \A j \in DOMAIN mpv.commands : mpv.commands[j].kind = "loadfile" =>
                    m.request < mpv.commands[j].request
               /\ \A e \in DOMAIN a.pending \cup DOMAIN a.entries :
                    Before(mpv.owner[e], issued[m.request])
    <3>1. i + k \in DOMAIN mpv.mail /\ m = mpv.mail[i + k] /\ i > 0 /\ m.kind = "Reply"
      BY <1>2, <2>1
    <3>2. /\ m.request \in DOMAIN issued
          /\ \A j \in DOMAIN mpv.mail : j > i + k /\ mpv.mail[j].kind = "Reply" =>
               m.request < mpv.mail[j].request
          /\ \A j \in DOMAIN mpv.commands : mpv.commands[j].kind = "loadfile" =>
               m.request < mpv.commands[j].request
          /\ \A e : Known(e) => Before(mpv.owner[e], issued[m.request])
      BY <3>1 DEF AnswersInv, MailInv, RepliesInOrder
    <3>3. \A j \in DOMAIN mpv'.mail : j > i /\ mpv'.mail[j].kind = "Reply" =>
            m.request < mpv'.mail[j].request
      <4>1. \A j \in DOMAIN mpv'.mail : j > i =>
              j + k > i + k /\ j + k \in DOMAIN mpv.mail /\ mpv'.mail[j] = mpv.mail[j + k]
        BY <1>2
      <4> QED BY <3>2, <4>1
    <3>4. ASSUME NEW e \in DOMAIN a.pending \cup DOMAIN a.entries
          PROVE  Before(mpv.owner[e], issued[m.request])
      <4>1. CASE Known(e)
        BY <3>2, <4>1
      <4>2. CASE HeadAccepts(k, e)
        <5>1. /\ 1 \in DOMAIN mpv.mail /\ mpv.mail[1].kind = "Reply"
              /\ mpv.owner[e] = issued[mpv.mail[1].request] /\ i + k > 1
              /\ mpv.mail[1].request \in DOMAIN issued
          BY <1>2, <1>3, <3>1, <4>2, MailFacts DEF HeadAccepts
        <5>2. mpv.mail[1].request < m.request
          BY <3>1, <5>1 DEF AnswersInv, MailInv, RepliesInOrder
        <5> QED BY <3>2, <5>1, <5>2 DEF MpvInv, IssuedInOrder
      <4>3. CASE HeadInserts(k, e)
        <5>1. /\ 1 \in DOMAIN mpv.mail
              /\ mpv.owner[e] = mpv.owner[mpv.mail[1].entry] /\ Known(mpv.mail[1].entry)
          BY <1>3, <4>3, MailFacts DEF HeadInserts, Known
        <5> QED BY <3>2, <5>1
      <4> QED BY <3>4, <4>1, <4>2, <4>3 DEF Learns, Known
    <3> QED BY <3>2, <3>3, <3>4
  <2> QED BY <1>1, <2>1 DEF RepliesInOrder, Known
<1>6. LastCommand'
  BY <1>1 DEF AnswersInv, MailInv, LastCommand, Playing
<1>7. FailureIsTold'
  BY <1>1 DEF AnswersInv, MailInv, FailureIsTold, Playing, Learns
<1>8. LossIsKnown'
  <2>1. \A i \in DOMAIN mpv'.mail : mpv'.mail[i].kind = "Shutdown" => mpv.state # "Up"
    BY <1>2 DEF AnswersInv, MailInv, LossIsKnown
  <2>2. mpv.choked => mpv.lossy
    BY DEF AnswersInv, MailInv, LossIsKnown
  <2> QED BY <1>3, <2>1, <2>2 DEF LossIsKnown
<1>9. EndsOnce'
  <2>1. ASSUME NEW i \in DOMAIN mpv'.mail, mpv'.mail[i].kind = "End", NEW e, e = mpv'.mail[i].entry
        PROVE  /\ e \notin {mpv'.upNext, mpv'.playing, mpv'.lingering}
               /\ ~Coming("Start", e, i)' /\ ~Coming("End", e, i)'
    <3>1. i + k \in DOMAIN mpv.mail /\ mpv.mail[i + k].kind = "End" /\ e = mpv.mail[i + k].entry
          /\ i \in Nat
      BY <1>2, <2>1
    <3>2. /\ e \notin {mpv.upNext, mpv.playing, mpv.lingering}
          /\ ~Coming("Start", e, i + k) /\ ~Coming("End", e, i + k)
      BY <3>1 DEF AnswersInv, MailInv, EndsOnce
    <3>3. \A kind : Coming(kind, e, i)' <=> Coming(kind, e, i + k)
      BY <3>1, TakesSay
    <3> QED BY <1>1, <3>2, <3>3
  <2>2. mpv'.lingering # NoEntry => mpv'.lingering \notin {mpv'.playing, mpv'.upNext}
    BY <1>1 DEF AnswersInv, MailInv, EndsOnce
  <2> QED BY <2>1, <2>2 DEF EndsOnce
<1>10. StartIsTold'
  BY <1>1 DEF AnswersInv, MailInv, StartIsTold, Learns
<1> QED BY <1>4, <1>5, <1>6, <1>7, <1>8, <1>9, <1>10 DEF MailInv

\* What was to come still comes.
LEMMA TurnContinues ==
  ASSUME MpvInv, MpvInv', AnswersInv, NEW k \in {0, 1}, Takes(k), NEW a, Turn(a), IsAdapter(a),
         Learns(a, k)
  PROVE  Continues => Continues'
<1> SUFFICES ASSUME Continues PROVE Continues'
  OBVIOUS
<1>1. /\ target' = target /\ mpv'.owner = mpv.owner
      /\ mpv'.upNext = mpv.upNext /\ mpv'.playing = mpv.playing
      /\ \A e : Owned(e)' <=> Owned(e)
      /\ adapter'.pending = a.pending /\ adapter'.entries = a.entries
  BY TurnFacts
<1>2. /\ k \in Nat
      /\ \A i \in DOMAIN mpv'.mail :
           i \in Nat \ {0} /\ i + k \in DOMAIN mpv.mail /\ mpv'.mail[i] = mpv.mail[i + k]
  BY TakesMail
<1>3. /\ \A kind, e : \A i \in Nat : Coming(kind, e, i + k) => Coming(kind, e, i)'
      /\ \A kind, e : Coming(kind, e, 0) => Coming(kind, e, 0)' \/
              (k = 1 /\ mpv.mail[1].kind = kind /\ mpv.mail[1].entry = e)
  BY TakesSay
<1>4. /\ \A e : \A i \in Nat : StartComes(e, i + k) => StartComes(e, i)'
      /\ \A e : \A i \in Nat : EndComes(e, i + k) => EndComes(e, i)'
  BY <1>1, <1>3 DEF StartComes, EndComes
<1>5. /\ \A e : StartComes(e, 0) /\ ~HeadStarts(k, e) => StartComes(e, 0)'
      /\ \A e : EndComes(e, 0) /\ ~HeadEnds(k, e) => EndComes(e, 0)'
  BY <1>1, <1>3 DEF StartComes, EndComes, HeadStarts, HeadEnds
<1>6. k = 1 => LeadsOn(mpv.mail[1], 1) /\ 1 \in DOMAIN mpv.mail
  BY DEF Takes, Continues
<1>7. k = 1 =>
        /\ \A e : StartComes(e, 1) => StartComes(e, 0)'
        /\ \A e : EndComes(e, 1) => EndComes(e, 0)'
  <2> HIDE DEF StartComes, EndComes
  <2> QED BY <1>4
<1>8. ASSUME NEW e \in DOMAIN a.pending, Owned(e) PROVE StartComes(e, 0)'
  <2>1. CASE e \in DOMAIN adapter.pending /\ ~HeadStarts(k, e)
    BY <1>5, <1>8, <2>1 DEF Continues
  <2>2. CASE HeadAccepts(k, e)
    BY <1>6, <1>7, <1>8, <2>2 DEF LeadsOn, HeadAccepts
  <2> QED BY <2>1, <2>2 DEF Learns
<1>9. ASSUME NEW e \in DOMAIN a.entries, Owned(e) PROVE EndComes(e, 0)'
  <2>1. CASE e \in DOMAIN adapter.entries /\ ~HeadEnds(k, e)
    BY <1>5, <1>9, <2>1 DEF Continues
  <2>2. CASE HeadStarts(k, e)
    BY <1>6, <1>7, <1>9, <2>2 DEF LeadsOn, HeadStarts
  <2>3. CASE HeadInserts(k, e)
    <3>1. Owned(mpv.mail[1].entry)
      BY <1>6, <1>9, <2>3, MailFacts DEF HeadInserts, Owned
    <3> QED BY <1>6, <1>7, <2>3, <3>1 DEF LeadsOn, HeadInserts
  <2> QED BY <2>1, <2>2, <2>3 DEF Learns
<1>10. ASSUME NEW i \in DOMAIN mpv'.mail, NEW m, m = mpv'.mail[i] PROVE LeadsOn(m, i)'
  <2>1. LeadsOn(m, i + k) /\ i \in Nat
    BY <1>2, <1>10 DEF Continues
  <2> QED BY <1>1, <1>4, <2>1 DEF LeadsOn
<1> QED BY <1>1, <1>8, <1>9, <1>10 DEF Continues

\* What the adapter waits for still starts.
LEMMA TurnStartsFollow ==
  ASSUME MpvInv, MpvInv', AnswersInv, NEW k \in {0, 1}, Takes(k), NEW a, Turn(a), IsAdapter(a),
         Learns(a, k)
  PROVE  StartsFollow'
<1>1. /\ mpv'.upNext = mpv.upNext /\ adapter'.requests = a.requests
      /\ adapter'.pending = a.pending
  BY TurnFacts
<1>2. /\ k \in Nat
      /\ \A i \in DOMAIN mpv'.mail :
           i \in Nat \ {0} /\ i + k \in DOMAIN mpv.mail /\ mpv'.mail[i] = mpv.mail[i + k]
  BY TakesMail
<1>3. /\ \A kind, e : \A i \in Nat : Coming(kind, e, i + k) => Coming(kind, e, i)'
      /\ \A kind, e : Coming(kind, e, 0) => Coming(kind, e, 0)' \/
              (k = 1 /\ mpv.mail[1].kind = kind /\ mpv.mail[1].entry = e)
  BY TakesSay
<1>4. /\ \A e : \A i \in Nat : StartComes(e, i + k) => StartComes(e, i)'
      /\ \A e : StartComes(e, 0) /\ ~HeadStarts(k, e) => StartComes(e, 0)'
  BY <1>1, <1>3 DEF StartComes, HeadStarts
<1> SUFFICES ASSUME ~mpv'.lossy, ~mpv'.skipped
             PROVE  /\ \A e \in DOMAIN a.pending : StartComes(e, 0)'
                    /\ \A i \in DOMAIN mpv'.mail :
                         /\ mpv'.mail[i].kind = "Reply" /\ mpv'.mail[i].accepted
                         /\ mpv'.mail[i].request \in DOMAIN a.requests
                         => \E e : e = mpv'.mail[i].entry /\ StartComes(e, i)'
  BY <1>1 DEF StartsFollow
<1>5. /\ \A e \in DOMAIN adapter.pending : StartComes(e, 0)
      /\ \A i \in DOMAIN mpv.mail :
           /\ mpv.mail[i].kind = "Reply" /\ mpv.mail[i].accepted
           /\ mpv.mail[i].request \in DOMAIN adapter.requests
           => StartComes(mpv.mail[i].entry, i)
  BY DEF Takes, AnswersInv, StartsFollow
<1>6. ASSUME NEW e \in DOMAIN a.pending PROVE StartComes(e, 0)'
  <2>1. CASE e \in DOMAIN adapter.pending /\ ~HeadStarts(k, e)
    BY <1>4, <1>5, <2>1
  <2>2. CASE HeadAccepts(k, e)
    <3>1. StartComes(e, 1) /\ k = 1
      BY <1>5, <2>2 DEF HeadAccepts, Takes
    <3>2. k = 1 => (StartComes(e, 1) => StartComes(e, 0)')
      <4> HIDE DEF StartComes
      <4> QED BY <1>4
    <3> QED BY <3>1, <3>2
  <2> QED BY <2>1, <2>2 DEF Learns
<1>7. ASSUME NEW i \in DOMAIN mpv'.mail, mpv'.mail[i].kind = "Reply", mpv'.mail[i].accepted,
             mpv'.mail[i].request \in DOMAIN a.requests
      PROVE  \E e : e = mpv'.mail[i].entry /\ StartComes(e, i)'
  <2>1. i \in Nat /\ i + k \in DOMAIN mpv.mail /\ mpv'.mail[i] = mpv.mail[i + k]
    BY <1>2
  <2>2. mpv'.mail[i].request \in DOMAIN adapter.requests
    BY <1>7 DEF Learns
  <2>3. StartComes(mpv.mail[i + k].entry, i + k)
    BY <1>5, <1>7, <2>1, <2>2
  <2> QED BY <1>4, <2>1, <2>3
<1> QED BY <1>6, <1>7

\* The adapter still knows each entry of the load to play before its events.
LEMMA TurnAcquaints ==
  ASSUME MpvInv, MpvInv', AnswersInv, Calm, NEW k \in {0, 1}, Takes(k), NEW a, Turn(a),
         IsAdapter(a), Learns(a, k), Keeps(a, k)
  PROVE  /\ \A e : \A i \in Nat : Owned(e) /\ ~HeadEnds(k, e) /\ Acquainted(e, i + k) =>
              Acquainted(e, i)'
         /\ \A e : \A i \in Nat : Owned(e) /\ ~HeadEnds(k, e) /\ Admitted(e, i + k) =>
              Admitted(e, i)'
<1>1. /\ adapter'.requests = a.requests /\ adapter'.pending = a.pending
      /\ adapter'.entries = a.entries
  BY TurnFacts
<1>2. /\ k \in Nat /\ DOMAIN mpv.mail \subseteq Nat \ {0}
      /\ \A i \in DOMAIN mpv'.mail : mpv'.mail[i] = mpv.mail[i + k]
      /\ \A i \in DOMAIN mpv.mail : i - k \in DOMAIN mpv'.mail \/ (k = 1 /\ i = 1)
      /\ k = 1 => 1 \in DOMAIN mpv.mail
  BY TakesMail DEF Takes
<1>3. k = 1 => Introduced(mpv.mail[1], 1)
  BY <1>2 DEF AnswersInv, EntriesKnown
<1>4. \A e : ~InsertedBefore(e, 1) /\ ~StartedBefore(e, 1) /\ ~AcceptedBefore(e, 1)
  <2>1. \A j \in DOMAIN mpv.mail : ~(j < 1)
    BY <1>2
  <2> QED BY <2>1 DEF InsertedBefore, StartedBefore, AcceptedBefore
<1>5. \A e : Known(e) /\ ~HeadEnds(k, e) => Known(e)'
  BY <1>1 DEF Known, Keeps
<1>6. ASSUME NEW e, NEW i \in Nat, Owned(e), ~HeadEnds(k, e), InsertedBefore(e, i + k)
      PROVE  InsertedBefore(e, i)' \/ e \in DOMAIN a.entries
  <2>1. CASE k = 1 /\ mpv.mail[1].kind = "End" /\ e \in mpv.mail[1].inserted
    <3>1. Owned(mpv.mail[1].entry) /\ mpv.mail[1].inserted # {}
      BY <1>2, <1>6, <2>1, MailFacts DEF Owned
    <3>2. Admitted(mpv.mail[1].entry, 1)
      BY <1>3, <2>1, <3>1 DEF Introduced
    <3>3. HeadInserts(k, e)
      BY <1>4, <2>1, <3>2 DEF Admitted, HeadInserts
    <3> QED BY <1>6, <3>3 DEF Keeps
  <2> QED BY <1>6, <2>1, TakesSay
<1>7. ASSUME NEW e, NEW i \in Nat, Owned(e), StartedBefore(e, i + k)
      PROVE  StartedBefore(e, i)' \/ e \in DOMAIN a.entries
  <2>1. CASE HeadStarts(k, e)
    <3>1. Acquainted(e, 1)
      BY <1>3, <1>7, <2>1 DEF Introduced, HeadStarts
    <3>2. Known(e)
      BY <1>4, <3>1 DEF Acquainted
    <3> QED BY <2>1, <3>2 DEF Keeps
  <2> QED BY <1>7, <2>1, TakesSay DEF HeadStarts
<1>8. ASSUME NEW e, NEW i \in Nat, AcceptedBefore(e, i + k)
      PROVE  AcceptedBefore(e, i)' \/ e \in DOMAIN a.pending
  <2>1. PICK j \in DOMAIN mpv.mail :
          /\ j < i + k /\ mpv.mail[j].kind = "Reply" /\ mpv.mail[j].accepted /\ mpv.mail[j].entry = e
          /\ mpv.mail[j].request \in DOMAIN adapter.requests
    BY <1>8 DEF AcceptedBefore
  <2>2. CASE k = 1 /\ j = 1
    <3>1. HeadAccepts(k, e)
      BY <2>1, <2>2 DEF HeadAccepts
    <3> QED BY <3>1 DEF Keeps
  <2>3. CASE ~(k = 1 /\ j = 1)
    <3>1. j - k \in DOMAIN mpv'.mail /\ j - k < i /\ mpv'.mail[j - k] = mpv.mail[j] /\ j > k
      BY <1>2, <2>1, <2>3
    <3>2. ~HeadAnswers(k, mpv.mail[j].request)
      <4> SUFFICES ASSUME HeadAnswers(k, mpv.mail[j].request) PROVE FALSE
        OBVIOUS
      <4>1. 1 \in DOMAIN mpv.mail /\ j > 1 /\ mpv.mail[1].kind = "Reply"
            /\ mpv.mail[1].request = mpv.mail[j].request
        BY <1>2, <3>1 DEF HeadAnswers
      <4>2. mpv.mail[1].request < mpv.mail[j].request /\ mpv.mail[1].request \in DOMAIN issued
        BY <2>1, <4>1 DEF AnswersInv, MailInv, RepliesInOrder
      <4>3. mpv.mail[1].request \in Nat
        BY <4>2, InvFacts
      <4> QED BY <4>1, <4>2, <4>3
    <3>3. mpv.mail[j].request \in DOMAIN a.requests
      BY <2>1, <3>2 DEF Keeps
    <3> QED BY <1>1, <2>1, <3>1, <3>3 DEF AcceptedBefore
  <2> QED BY <2>2, <2>3
<1>9. ASSUME NEW e, NEW i \in Nat, Owned(e), ~HeadEnds(k, e), Acquainted(e, i + k)
      PROVE  Acquainted(e, i)'
  <2>1. CASE Known(e)
    BY <1>5, <1>9, <2>1 DEF Acquainted
  <2>2. CASE InsertedBefore(e, i + k)
    BY <1>1, <1>6, <1>9, <2>2 DEF Acquainted, Known
  <2>3. CASE AcceptedBefore(e, i + k)
    BY <1>1, <1>8, <1>9, <2>3 DEF Acquainted, Known
  <2> QED BY <1>9, <2>1, <2>2, <2>3 DEF Acquainted
<1>10. ASSUME NEW e, NEW i \in Nat, Owned(e), ~HeadEnds(k, e), Admitted(e, i + k)
       PROVE  Admitted(e, i)'
  <2>1. CASE e \in DOMAIN adapter.entries
    BY <1>1, <1>10, <2>1 DEF Admitted, Keeps
  <2>2. CASE InsertedBefore(e, i + k)
    BY <1>1, <1>6, <1>10, <2>2 DEF Admitted
  <2>3. CASE StartedBefore(e, i + k)
    BY <1>1, <1>7, <1>10, <2>3 DEF Admitted
  <2> QED BY <1>10, <2>1, <2>2, <2>3 DEF Admitted
<1> QED BY <1>9, <1>10

\* The first start of what plays is told by a turn that takes its last restart.
RestartTold(k) ==
  /\ Calm /\ mpv.playing # NoEntry /\ Owned(mpv.playing) /\ mpv.restarted /\ ~mpv.skipped
  /\ k = 1 /\ mpv.mail[1].kind = "Restart" /\ mpv.mail[1].entry = mpv.playing
  => "FirstStart" \in reported' \/ Coming("Restart", mpv.playing, 0)'

\* What the adapter knows of the load to play, and the first start, outlive a turn.
LEMMA TurnEntriesKnown ==
  ASSUME MpvInv, MpvInv', AnswersInv, NEW k \in {0, 1}, Takes(k), NEW a, Turn(a),
         IsAdapter(a), Learns(a, k), Calm => Keeps(a, k), RestartTold(k)
  PROVE  EntriesKnown'
<1> SUFFICES ASSUME Calm' PROVE EntriesKnown'
  BY DEF EntriesKnown
<1>1. /\ target' = target /\ issued' = issued /\ mpv'.commands = mpv.commands
      /\ mpv'.owner = mpv.owner
      /\ mpv'.upNext = mpv.upNext /\ mpv'.playing = mpv.playing
      /\ mpv'.restarted = mpv.restarted
      /\ \A e : Owned(e)' <=> Owned(e)
      /\ adapter'.requests = a.requests /\ adapter'.pending = a.pending
      /\ adapter'.entries = a.entries /\ reported \subseteq reported'
  BY TurnFacts
<1>2. /\ k \in Nat /\ Len(mpv.mail) \in Nat /\ Len(mpv'.mail) = Len(mpv.mail) - k
      /\ \A i \in DOMAIN mpv'.mail :
           i \in Nat \ {0} /\ i + k \in DOMAIN mpv.mail /\ mpv'.mail[i] = mpv.mail[i + k]
  BY TakesMail
<1>3. /\ mpv'.state = mpv.state /\ mpv'.skipped = mpv.skipped /\ mpv'.lossy = mpv.lossy
      /\ k = 1 => 1 \in DOMAIN mpv.mail
  BY DEF Takes
<1>4. Calm /\ EntriesKnown /\ Keeps(a, k) /\ Playing
  BY <1>1, <1>3 DEF Calm, Playing, AnswersInv
<1>5. /\ \A e : \A i \in Nat : Owned(e) /\ ~HeadEnds(k, e) /\ Acquainted(e, i + k) =>
           Acquainted(e, i)'
      /\ \A e : \A i \in Nat : Owned(e) /\ ~HeadEnds(k, e) /\ Admitted(e, i + k) =>
           Admitted(e, i)'
  BY <1>4, TurnAcquaints
<1>6. \A kind, e : Coming(kind, e, 0) => Coming(kind, e, 0)' \/
        (k = 1 /\ mpv.mail[1].kind = kind /\ mpv.mail[1].entry = e)
  BY TakesSay
<1>7. \A e : HeadEnds(k, e) =>
        /\ e \notin {mpv.upNext, mpv.playing}
        /\ ~Coming("Start", e, 1) /\ ~Coming("End", e, 1)
  BY <1>3 DEF HeadEnds, AnswersInv, MailInv, EndsOnce
<1>8. ASSUME NEW j \in DOMAIN mpv'.commands, mpv'.commands[j].kind = "loadfile",
             mpv'.commands[j].request = Len(issued')
      PROVE  Len(issued') \in DOMAIN adapter'.requests
  <2>1. Len(issued) \in DOMAIN adapter.requests /\ Len(issued) \in Nat
    BY <1>1, <1>4, <1>8, InvFacts DEF EntriesKnown
  <2>2. ~HeadAnswers(k, Len(issued))
    <3> SUFFICES ASSUME HeadAnswers(k, Len(issued)) PROVE FALSE
      OBVIOUS
    <3>1. Len(issued) < mpv.commands[j].request
      BY <1>1, <1>3, <1>8 DEF HeadAnswers, AnswersInv, MailInv, RepliesInOrder
    <3> QED BY <1>1, <1>8, <2>1, <3>1
  <2> QED BY <1>1, <1>4, <2>1, <2>2 DEF Keeps
<1>9. /\ Len(mpv'.mail) + 1 \in Nat /\ Len(mpv'.mail) + 1 + k = Len(mpv.mail) + 1
  <2>1. Len(mpv'.mail) \in Nat
    BY InvFacts
  <2>2. \A m, n, d \in Nat : m = n - d => m + 1 \in Nat /\ m + 1 + d = n + 1
    OBVIOUS
  <2> QED BY <1>2, <2>1, <2>2
<1>10. ASSUME NEW n, n = Len(mpv'.mail) + 1, NEW e, e = mpv'.upNext, e # NoEntry, Owned(e)'
       PROVE  Acquainted(e, n)'
  <2>1. Owned(e) /\ Acquainted(e, n + k) /\ n \in Nat
    BY <1>1, <1>4, <1>9, <1>10 DEF EntriesKnown
  <2>2. ~HeadEnds(k, e)
    BY <1>1, <1>7, <1>10
  <2> QED BY <1>5, <2>1, <2>2
<1>11. ASSUME NEW n, n = Len(mpv'.mail) + 1, NEW p, p = mpv'.playing, p # NoEntry, Owned(p)'
       PROVE  /\ Admitted(p, n)'
              /\ Coming("Start", p, 0)' \/ current_entry' = p
              /\ mpv'.restarted /\ ~mpv'.skipped =>
                   "FirstStart" \in reported' \/ Coming("Restart", p, 0)'
  <2>1. /\ Owned(p) /\ Admitted(p, n + k) /\ n \in Nat
        /\ Coming("Start", p, 0) \/ current_entry = p
        /\ mpv.restarted /\ ~mpv.skipped => "FirstStart" \in reported \/ Coming("Restart", p, 0)
    BY <1>1, <1>4, <1>9, <1>11 DEF EntriesKnown
  <2>2. ~HeadEnds(k, p)
    BY <1>1, <1>7, <1>11
  <2>3. Admitted(p, n)'
    BY <1>5, <2>1, <2>2
  <2>4. Coming("Start", p, 0)' \/ current_entry' = p
    <3>1. CASE HeadStarts(k, p)
      <4>1. Introduced(mpv.mail[1], 1)
        BY <1>3, <1>4, <3>1 DEF HeadStarts, EntriesKnown
      <4>2. Acquainted(p, 1)
        BY <2>1, <3>1, <4>1 DEF Introduced, HeadStarts
      <4>3. \A j \in DOMAIN mpv.mail : ~(j < 1)
        BY TakesMail
      <4>4. Known(p)
        BY <4>2, <4>3 DEF Acquainted, InsertedBefore, AcceptedBefore
      <4> QED BY <1>4, <3>1, <4>4 DEF Keeps
    <3>2. CASE current_entry = p /\ HeadStarts(k, current_entry')
      <4>1. /\ 1 \in DOMAIN mpv.mail /\ mpv.mail[1].kind = "Start" /\ "Start" \in Marks
            /\ mpv.mail[1].entry = current_entry'
        BY <1>3, <3>2 DEF HeadStarts, Marks
      <4>2. current_entry < mpv.mail[1].entry
        BY <4>1 DEF MpvInv, StartsInOrder, Follows
      <4>3. mpv.mail[1].entry <= mpv.playing
        BY <1>1, <1>11, <4>1 DEF MpvInv, StartsInOrder, Reached
      <4>4. mpv.playing \in Nat /\ mpv.mail[1].entry \in Nat
        BY <4>1, MailFacts, PlaceFacts
      <4> QED BY <1>1, <1>11, <3>2, <4>2, <4>3, <4>4
    <3>3. CASE current_entry = p /\ current_entry' = current_entry
      BY <3>3
    <3>4. CASE Coming("Start", p, 0) /\ ~HeadStarts(k, p)
      BY <1>6, <3>4 DEF HeadStarts
    <3> QED BY <1>4, <2>1, <3>1, <3>2, <3>3, <3>4 DEF Keeps
  <2>5. mpv'.restarted /\ ~mpv'.skipped => "FirstStart" \in reported' \/ Coming("Restart", p, 0)'
    <3>1. CASE k = 1 /\ mpv.mail[1].kind = "Restart" /\ mpv.mail[1].entry = p
      BY <1>1, <1>3, <1>4, <1>11, <2>1, <3>1 DEF RestartTold
    <3>2. CASE ~(k = 1 /\ mpv.mail[1].kind = "Restart" /\ mpv.mail[1].entry = p)
      BY <1>1, <1>3, <1>6, <2>1, <3>2
    <3> QED BY <3>1, <3>2
  <2> QED BY <2>3, <2>4, <2>5
<1>12. ASSUME NEW i \in DOMAIN mpv'.mail, NEW m, m = mpv'.mail[i] PROVE Introduced(m, i)'
  <2>1. /\ Introduced(m, i + k) /\ i \in Nat /\ i + k \in DOMAIN mpv.mail
        /\ m = mpv.mail[i + k] /\ i + k > k
    BY <1>2, <1>4, <1>12 DEF EntriesKnown
  <2>2. m.kind \in {"Start", "End"} => ~HeadEnds(k, m.entry)
    <3> SUFFICES ASSUME m.kind \in {"Start", "End"}, HeadEnds(k, m.entry) PROVE FALSE
      OBVIOUS
    <3>1. ~Coming("Start", m.entry, 1) /\ ~Coming("End", m.entry, 1) /\ k = 1
      BY <1>7 DEF HeadEnds
    <3> QED BY <2>1, <3>1 DEF Coming
  <2> QED BY <1>1, <1>5, <2>1, <2>2 DEF Introduced
<1> QED BY <1>8, <1>10, <1>11, <1>12 DEF EntriesKnown

\* A turn that learns no more than the head of the mail says, and forgets no
\* more while the backend runs.
LEMMA TurnKeepsAnswers ==
  ASSUME MpvInv, MpvInv', AnswersInv, NEW k \in {0, 1}, Takes(k), NEW a, Turn(a),
         IsAdapter(a), Learns(a, k), Calm => Keeps(a, k), RestartTold(k),
         Unanswered' => Unanswered /\ AnswerComes'
  PROVE  AnswersInv'
<1>1. MailInv' /\ StartsFollow' /\ EntriesKnown'
  BY TurnKeepsMail, TurnStartsFollow, TurnEntriesKnown
<1>2. TargetAnswered'
  BY TurnContinues DEF TargetAnswered, AnswersInv
<1> QED BY <1>1, <1>2 DEF AnswersInv

\* The load to play is still answered for.
LEMMA TurnAnswers ==
  ASSUME MpvInv, MpvInv', AnswersInv, NEW k \in {0, 1}, Takes(k), NEW a, Turn(a),
         IsAdapter(a), Keeps(a, k), Unanswered, reported' \cap Outcomes = {},
         \A i \in DOMAIN adapter.events : \E j \in DOMAIN a.events : a.events[j] = adapter.events[i],
         /\ HeadAnswers(k, Len(issued)) /\ ~mpv.mail[1].accepted
         /\ Len(issued) \in DOMAIN adapter.requests
         => "LoadRejected" \in reported',
         \A e \in DOMAIN adapter.entries :
           HeadEnds(k, e) /\ Owned(e) /\ mpv.mail[1].reason # "Redirect" =>
             reported' \cap Outcomes # {}
  PROVE  AnswerComes'
<1>1. /\ target' = target /\ issued' = issued
      /\ \A e : Owned(e)' <=> Owned(e)
      /\ adapter'.requests = a.requests /\ adapter'.pending = a.pending
      /\ adapter'.entries = a.entries
      /\ \A i \in DOMAIN a.events : a.events[i].load = target => a.events[i].kind \in reported'
  BY TurnFacts
<1>2. AnswerComes /\ Continues /\ Playing
  BY DEF AnswersInv, TargetAnswered, Unanswered
<1>3. k = 1 => 1 \in DOMAIN mpv.mail
  BY DEF Takes
<1>4. \A e : e \in DOMAIN a.pending \cup DOMAIN a.entries /\ Owned(e) => AnswerComes'
  BY <1>1 DEF AnswerComes, Known
<1>5. CASE \E i \in DOMAIN adapter.events :
             adapter.events[i].kind = "LoadRejected" /\ adapter.events[i].load = target
  <2>1. "LoadRejected" \in reported'
    BY <1>1, <1>5
  <2> QED BY <2>1 DEF Outcomes
<1>6. CASE Len(issued) \in DOMAIN adapter.requests
  <2>1. CASE HeadAnswers(k, Len(issued))
    <3>1. mpv.mail[1].accepted
      BY <1>6, <2>1 DEF Outcomes
    <3>2. HeadAccepts(k, mpv.mail[1].entry)
      BY <1>6, <2>1, <3>1 DEF HeadAccepts, HeadAnswers
    <3>3. mpv.mail[1].entry \in DOMAIN a.pending
      BY <3>2 DEF Keeps
    <3>4. Owned(mpv.mail[1].entry)
      BY <1>2, <1>3, <2>1, <3>1, MailFacts, TargetFacts DEF HeadAnswers, Owned
    <3> QED BY <1>4, <3>3, <3>4
  <2>2. CASE ~HeadAnswers(k, Len(issued))
    BY <1>1, <1>6, <2>2 DEF Keeps, AnswerComes
  <2> QED BY <2>1, <2>2
<1>7. CASE \E e : Known(e) /\ Owned(e)
  <2>1. PICK e : Known(e) /\ Owned(e)
    BY <1>7
  <2>2. CASE e \in DOMAIN a.pending \cup DOMAIN a.entries
    BY <1>4, <2>1, <2>2
  <2>3. CASE e \in DOMAIN adapter.entries /\ HeadEnds(k, e)
    <3>1. /\ 1 \in DOMAIN mpv.mail /\ mpv.mail[1].kind = "End" /\ mpv.mail[1].entry = e
          /\ mpv.mail[1].reason = "Redirect"
      BY <1>3, <2>1, <2>3 DEF HeadEnds
    <3>2. LeadsOn(mpv.mail[1], 1)
      BY <1>2, <3>1 DEF Continues
    <3>3. mpv.mail[1].inserted # {} /\ \A n \in mpv.mail[1].inserted : EndComes(n, 1)
      BY <2>1, <3>1, <3>2 DEF LeadsOn
    <3>4. PICK n : n \in mpv.mail[1].inserted /\ EndComes(n, 1)
      BY <3>3
    <3>5. n # e
      <4>1. e \notin {mpv.upNext, mpv.playing, mpv.lingering} /\ ~Coming("End", e, 1)
        BY <3>1 DEF AnswersInv, MailInv, EndsOnce
      <4> QED BY <3>4, <4>1 DEF EndComes
    <3>6. HeadInserts(k, n)
      BY <2>3, <3>1, <3>4 DEF HeadInserts, HeadEnds
    <3>7. n \in DOMAIN a.entries
      BY <2>3, <3>5, <3>6 DEF Keeps, HeadEnds
    <3>8. Owned(n)
      BY <2>1, <3>1, <3>4, MailFacts DEF Owned
    <3> QED BY <1>4, <3>7, <3>8
  <2> QED BY <2>1, <2>2, <2>3 DEF Known, Keeps
<1> QED BY <1>2, <1>5, <1>6, <1>7 DEF AnswerComes

\* A turn after which the backend is what it was.
LEMMA PlainTurnAnswers ==
  ASSUME MpvInv, MpvInv', AnswersInv, NEW k \in {0, 1}, Takes(k), NEW a, Turn(a),
         IsAdapter(a), Learns(a, k), Keeps(a, k), RestartTold(k), mpv'.choked = mpv.choked,
         \A i \in DOMAIN adapter.events : \E j \in DOMAIN a.events : a.events[j] = adapter.events[i],
         /\ HeadAnswers(k, Len(issued)) /\ ~mpv.mail[1].accepted
         /\ Len(issued) \in DOMAIN adapter.requests /\ Playing
         => "LoadRejected" \in reported',
         \A e \in DOMAIN adapter.entries :
           HeadEnds(k, e) /\ Owned(e) /\ mpv.mail[1].reason # "Redirect" =>
             reported' \cap Outcomes # {}
  PROVE  AnswersInv'
<1>1. target' = target /\ reported \subseteq reported'
  BY TurnFacts
<1>2. mpv'.state = mpv.state
  BY DEF Takes
<1>3. Unanswered' => Unanswered /\ reported' \cap Outcomes = {} /\ Playing
  BY <1>1, <1>2 DEF Unanswered, Playing
<1>4. Unanswered' => AnswerComes'
  BY <1>3, TurnAnswers
<1> QED BY <1>3, <1>4, TurnKeepsAnswers

\* Taking the head of the mail.
LEMMA TakeTakes ==
  ASSUME MpvInv, mpv.mail # << >>, Take
  PROVE  /\ Takes(1) /\ mpv'.choked = mpv.choked
         /\ 1 \in DOMAIN mpv.mail /\ Head(mpv.mail) = mpv.mail[1] /\ mpv.mail[1] \in Messages
<1> DEFINE old == mpv.mail
           rest == Tail(mpv.mail)
<1>1. Consumes(1) /\ old \in Seq(Messages) /\ 1 \in DOMAIN old /\ Head(old) = old[1]
  BY TakeConsumes
<1>2. mpv' = [mpv EXCEPT !.mail = rest]
  BY DEF Take
<1>3. old # << >>
  OBVIOUS
<1>4. \A i \in DOMAIN old : i > 1 => i - 1 \in DOMAIN Tail(old)
  <2> HIDE DEF old
  <2> QED BY <1>1, <1>3
<1>5. \A i \in DOMAIN old : i > 1 => i - 1 \in DOMAIN rest
  BY <1>4
<1> HIDE DEF old, rest
<1>6. /\ mpv'.state = mpv.state /\ mpv'.skipped = mpv.skipped /\ mpv'.lossy = mpv.lossy
      /\ mpv'.choked = mpv.choked /\ mpv'.mail = rest
  BY <1>2, PlaceFacts DEF IsMpv, MpvFields
<1> QED BY <1>1, <1>5, <1>6 DEF Takes, old

\* What the heads of other kinds do not say.
LEMMA HeadFacts ==
  ASSUME NEW k
  PROVE  /\ \A e : HeadStarts(k, e) => k = 1 /\ mpv.mail[1].kind = "Start"
         /\ \A e : HeadEnds(k, e) => k = 1 /\ mpv.mail[1].kind = "End"
         /\ \A r : HeadAnswers(k, r) => k = 1 /\ mpv.mail[1].kind = "Reply"
         /\ \A e : HeadAccepts(k, e) => k = 1 /\ mpv.mail[1].kind = "Reply"
         /\ \A e : HeadInserts(k, e) => k = 1 /\ mpv.mail[1].kind = "End"
BY DEF HeadStarts, HeadEnds, HeadAnswers, HeadAccepts, HeadInserts

\* A turn whose head is neither a reply, a start nor an end, and that changes no
\* more than the journal.
LEMMA IdleTurnAnswers ==
  ASSUME MpvInv, MpvInv', AnswersInv, NEW k \in {0, 1}, Takes(k), NEW a, Turn(a),
         IsAdapter(a), k = 1 => mpv.mail[1].kind \notin {"Reply", "Start", "End"},
         a.requests = adapter.requests, a.pending = adapter.pending, a.entries = adapter.entries,
         a.retired = adapter.retired, a.failureReported = adapter.failureReported,
         \A e \in a.started : e \in adapter.started \/ ~Owned(e) \/ "FirstStart" \in reported',
         current_entry' = current_entry, RestartTold(k), mpv'.choked = mpv.choked,
         \A i \in DOMAIN adapter.events : \E j \in DOMAIN a.events : a.events[j] = adapter.events[i]
  PROVE  AnswersInv'
<1>1. /\ \A e : ~HeadStarts(k, e) /\ ~HeadEnds(k, e) /\ ~HeadAnswers(k, e)
      /\ \A e : ~HeadAccepts(k, e) /\ ~HeadInserts(k, e)
  BY HeadFacts
<1>2. Learns(a, k)
  BY <1>1 DEF Learns, AnswersInv, MailInv, RequestsAnswered
<1>3. Keeps(a, k)
  BY <1>1 DEF Keeps
<1> QED BY <1>1, <1>2, <1>3, PlainTurnAnswers

\* Nothing to pump.
LEMMA PumpNothingAnswers ==
  ASSUME MpvInv, MpvInv', AnswersInv, PumpNothing PROVE AnswersInv'
<1>1. Turn(adapter) /\ mpv' = mpv /\ current_entry' = current_entry
  BY DEF PumpNothing
<1>2. Takes(0)
  <2>1. Consumes(0)
    BY <1>1, InvFacts DEF Consumes
  <2>2. \A i \in DOMAIN mpv.mail : i - 0 \in DOMAIN mpv.mail
    BY InvFacts
  <2> QED BY <1>1, <2>1, <2>2 DEF Takes
<1>3. IsAdapter(adapter)
  BY InvFacts DEF AdapterSound
<1>4. RestartTold(0)
  BY DEF RestartTold
<1> QED BY <1>1, <1>2, <1>3, <1>4, IdleTurnAnswers

\* MPV_EVENT_LOG_MESSAGE.
LEMMA PumpLogAnswers ==
  ASSUME MpvInv, MpvInv', AnswersInv, PumpLog PROVE AnswersInv'
<1>1. /\ mpv.mail # << >> /\ Take /\ Head(mpv.mail).kind = "Log" /\ current_entry' = current_entry
      /\ Turn(adapter) \/ Turn(ExactFailure(adapter, target))
  BY DEF PumpLog, Received
<1>2. /\ Takes(1) /\ mpv'.choked = mpv.choked
      /\ mpv.mail[1].kind = "Log"
  BY <1>1, TakeTakes
<1>3. IsAdapter(adapter) /\ adapter.events \in Seq(Events)
  BY InvFacts DEF AdapterSound
<1>4. RestartTold(1)
  BY <1>2 DEF RestartTold
<1>5. CASE Turn(adapter)
  BY <1>1, <1>2, <1>3, <1>4, <1>5, IdleTurnAnswers
<1>6. CASE Turn(ExactFailure(adapter, target))
  <2> DEFINE a == ExactFailure(adapter, target)
             event == Event("ExactFailure", target)
  <2>1. /\ a.requests = adapter.requests /\ a.pending = adapter.pending
        /\ a.entries = adapter.entries
        /\ a.retired = adapter.retired /\ a.started = adapter.started
        /\ a.failureReported = adapter.failureReported
        /\ a.events = Append(adapter.events, event)
    BY <1>3, ExactFailureChanges
  <2>2. IsAdapter(a)
    BY <1>3 DEF IsAdapter, AdapterFields, ExactFailure, Journal
  <2>3. Turn(a)
    BY <1>6
  <2> HIDE DEF a, event
  <2>4. \A i \in DOMAIN adapter.events : \E j \in DOMAIN a.events : a.events[j] = adapter.events[i]
    BY <1>3, <2>1
  <2> QED BY <1>1, <1>2, <1>4, <2>1, <2>2, <2>3, <2>4, IdleTurnAnswers
<1> QED BY <1>1, <1>5, <1>6

\* A journal that has grown says what it said, and the event.
LEMMA JournalGrows ==
  ASSUME NEW journal \in Seq(Events), NEW event, NEW more, more = Append(journal, event)
  PROVE  /\ \A i \in DOMAIN journal : \E j \in DOMAIN more : more[j] = journal[i]
         /\ \E j \in DOMAIN more : more[j] = event
<1>1. /\ \A i \in DOMAIN journal : i \in DOMAIN more /\ more[i] = journal[i]
      /\ Len(journal) + 1 \in DOMAIN more /\ more[Len(journal) + 1] = event
  OBVIOUS
<1> QED BY <1>1

\* When the restart of what plays is handled and nothing else is under way, the
\* player credits it.
LEMMA RestartIsCredited ==
  ASSUME MpvInv, AnswersInv, Calm, mpv.playing # NoEntry, Owned(mpv.playing),
         ~mpv.skipped, 1 \in DOMAIN mpv.mail,
         mpv.mail[1].kind = "Restart", mpv.mail[1].entry = mpv.playing
  PROVE  /\ current_entry = mpv.playing /\ current_entry \in DOMAIN adapter.entries
         /\ adapter.entries[current_entry] = target
         /\ current_entry \notin adapter.started => IsFirstStart(adapter, current_entry)
<1> DEFINE p == mpv.playing
<1>1. /\ p # 0 /\ Owned(p) /\ mpv.mail[1].kind = "Restart" /\ mpv.mail[1].entry = p
      /\ mpv.upNext = 0 /\ p = Len(mpv.owner) /\ p \in DOMAIN mpv.owner /\ Playing
      /\ p \in Nat
  BY PlayingOwned, PlaceFacts DEF NoEntry
<1>2. /\ Admitted(p, Len(mpv.mail) + 1)
      /\ Coming("Start", p, 0) \/ current_entry = p
  BY DEF AnswersInv, EntriesKnown
<1> HIDE DEF p
<1>3. \A j \in DOMAIN mpv.mail : j = 1 \/ Follows(mpv.mail[j], p)
  <2>1. "Restart" \in Marks /\ \A j \in DOMAIN mpv.mail : j = 1 \/ 1 < j
    BY MailFacts DEF Marks
  <2> QED BY <1>1, <2>1 DEF MpvInv, StartsInOrder
<1>4. \A j \in DOMAIN mpv.mail : mpv.mail[j].kind = "Start" => p < mpv.mail[j].entry
  <2>1. "Start" \in Marks
    BY DEF Marks
  <2> QED BY <1>1, <1>3, <2>1 DEF Follows
<1>5. \A j \in DOMAIN mpv.mail : mpv.mail[j].kind = "End" => p \notin mpv.mail[j].inserted
  <2>1. ASSUME NEW j \in DOMAIN mpv.mail, mpv.mail[j].kind = "End", p \in mpv.mail[j].inserted
        PROVE  FALSE
    <3>1. p < p
      BY <1>1, <1>3, <2>1 DEF Follows
    <3> QED BY <1>1, <3>1
  <2> QED BY <2>1
<1>6. current_entry = p
  BY <1>1, <1>2, <1>4 DEF Coming
<1>7. p \in DOMAIN adapter.entries
  BY <1>1, <1>2, <1>4, <1>5 DEF Admitted, InsertedBefore, StartedBefore
<1>8. adapter.entries[p] = target /\ Known(p) /\ mpv.owner[p] = target
  BY <1>1, <1>7, KnownFacts DEF Known, Owned
<1>9. DOMAIN adapter.requests = {}
  <2> SUFFICES ASSUME NEW r \in DOMAIN adapter.requests PROVE FALSE
    OBVIOUS
  <2>1. mpv.commands = << >>
    BY <1>1 DEF AnswersInv, MailInv, LastCommand
  <2>2. PICK i \in DOMAIN mpv.mail : mpv.mail[i].kind = "Reply" /\ mpv.mail[i].request = r
    BY <2>1 DEF AnswersInv, MailInv, RequestsAnswered
  <2>3. r \in DOMAIN issued /\ Before(target, issued[r])
    BY <1>8, <2>2 DEF AnswersInv, MailInv, RepliesInOrder
  <2> QED BY <1>1, <2>3, TargetFacts
<1>10. DOMAIN adapter.pending = {}
  <2> SUFFICES ASSUME NEW e \in DOMAIN adapter.pending PROVE FALSE
    OBVIOUS
  <2>1. StartComes(e, 0)
    BY DEF AnswersInv, StartsFollow, Calm
  <2>2. e \in Nat \ {0} /\ e \in DOMAIN mpv.owner /\ e <= Len(mpv.owner)
    BY KnownFacts, PlaceFacts DEF Known
  <2>3. p < e
    BY <1>1, <1>4, <2>1, <2>2 DEF StartComes, Coming
  <2> QED BY <1>1, <2>2, <2>3
<1> QED BY <1>6, <1>7, <1>8, <1>9, <1>10 DEF IsFirstStart, HasPendingLoad, p

\* MPV_EVENT_PLAYBACK_RESTART: the first start of what plays is told by then.
LEMMA PumpRestartAnswers ==
  ASSUME MpvInv, MpvInv', AnswersInv, PumpRestart PROVE AnswersInv'
<1> DEFINE a == PlaybackRestart(adapter, current_entry)
<1>1. /\ mpv.mail # << >> /\ Take /\ Head(mpv.mail).kind = "Restart"
      /\ current_entry' = current_entry /\ Turn(a)
  BY DEF PumpRestart, Received
<1>2. /\ Takes(1) /\ mpv'.choked = mpv.choked /\ 1 \in DOMAIN mpv.mail
      /\ mpv.mail[1].kind = "Restart"
  BY <1>1, TakeTakes
<1>3. /\ AdapterSound(adapter, issued, mpv.owner, stopped) /\ IsAdapter(adapter)
      /\ adapter.events \in Seq(Events) /\ mpv.owner \in Seq(Loads)
  BY InvFacts DEF AdapterSound
<1>4. /\ a.requests = adapter.requests /\ a.retired = adapter.retired
      /\ a.failureReported = adapter.failureReported
      /\ a.pending = adapter.pending /\ a.entries = adapter.entries
      /\ ~IsFirstStart(adapter, current_entry) => a = adapter
      /\ IsFirstStart(adapter, current_entry) =>
           /\ a.started = adapter.started \cup {current_entry}
           /\ a.events = Append(adapter.events, Event("FirstStart", adapter.entries[current_entry]))
  BY <1>3, RestartChanges
<1>5. IsAdapter(a)
  <2>1. AdapterSound(a, issued, mpv.owner, stopped)
    BY <1>3, PlaybackRestartSound
  <2> QED BY <2>1 DEF AdapterSound
<1> HIDE DEF a
<1>6. /\ \A i \in DOMAIN a.events : a.events[i].load = target => a.events[i].kind \in reported'
      /\ reported \subseteq reported'
  BY <1>1, <1>2, <1>5, TurnFacts
<1>7. /\ \A i \in DOMAIN adapter.events : \E j \in DOMAIN a.events : a.events[j] = adapter.events[i]
      /\ IsFirstStart(adapter, current_entry) =>
           \E j \in DOMAIN a.events :
             a.events[j] = Event("FirstStart", adapter.entries[current_entry])
  BY <1>3, <1>4, JournalGrows
<1>8. IsFirstStart(adapter, current_entry) =>
        (adapter.entries[current_entry] = target => "FirstStart" \in reported')
  BY <1>6, <1>7 DEF Event
<1>9. \A e \in a.started : e \in adapter.started \/ ~Owned(e) \/ "FirstStart" \in reported'
  <2>1. IsFirstStart(adapter, current_entry) =>
          adapter.entries[current_entry] = mpv.owner[current_entry]
    BY KnownFacts DEF IsFirstStart
  <2> QED BY <1>4, <1>8, <2>1 DEF Owned
<1>10. RestartTold(1)
  <2> SUFFICES ASSUME Calm, mpv.playing # NoEntry, Owned(mpv.playing), ~mpv.skipped,
                      mpv.mail[1].entry = mpv.playing
               PROVE  "FirstStart" \in reported'
    BY DEF RestartTold
  <2>1. /\ current_entry = mpv.playing /\ adapter.entries[current_entry] = target
        /\ current_entry \notin adapter.started => IsFirstStart(adapter, current_entry)
    BY <1>2, RestartIsCredited
  <2>2. current_entry \in adapter.started => "FirstStart" \in reported
    BY <2>1 DEF AnswersInv, MailInv, StartIsTold
  <2> QED BY <1>6, <1>8, <2>1, <2>2
<1> QED BY <1>1, <1>2, <1>4, <1>5, <1>7, <1>9, <1>10, IdleTurnAnswers

\* MPV_EVENT_COMMAND_REPLY.
LEMMA PumpReplyAnswers ==
  ASSUME MpvInv, MpvInv', AnswersInv, PumpReply PROVE AnswersInv'
<1> DEFINE m == mpv.mail[1]
           a == CommandResult(adapter, m.request, m.accepted, m.entry)
           kind == IF m.accepted THEN "LoadAccepted" ELSE "LoadRejected"
<1>1. /\ mpv.mail # << >> /\ Take /\ Head(mpv.mail).kind = "Reply"
      /\ current_entry' = current_entry
      /\ Turn(CommandResult(adapter, Head(mpv.mail).request, Head(mpv.mail).accepted,
                            Head(mpv.mail).entry))
  BY DEF PumpReply, Received
<1>2. /\ Takes(1) /\ mpv'.choked = mpv.choked /\ 1 \in DOMAIN mpv.mail
      /\ m.kind = "Reply" /\ Turn(a)
  BY <1>1, TakeTakes
<1>3. /\ AdapterSound(adapter, issued, mpv.owner, stopped) /\ IsAdapter(adapter)
      /\ adapter.events \in Seq(Events) /\ issued \in Seq(Loads)
  BY InvFacts DEF AdapterSound
<1>4. IsAdapter(a)
  <2>1. m.accepted /\ m.request \in DOMAIN issued =>
          m.entry \in DOMAIN mpv.owner /\ mpv.owner[m.entry] = issued[m.request]
    BY <1>2, MailFacts
  <2>2. AdapterSound(a, issued, mpv.owner, stopped)
    BY <1>3, <2>1, CommandResultSound
  <2> QED BY <2>2 DEF AdapterSound
<1>5. adapter.retired \cap DOMAIN adapter.requests = {}
  BY DEF AnswersInv, MailInv, RequestsAnswered
<1>6. /\ a.entries = adapter.entries /\ a.started = adapter.started
      /\ a.failureReported = adapter.failureReported /\ a.retired \subseteq adapter.retired
      /\ m.request \notin DOMAIN adapter.requests =>
           a.requests = adapter.requests /\ a.pending = adapter.pending /\ a.events = adapter.events
      /\ m.request \in DOMAIN adapter.requests =>
           /\ DOMAIN a.requests = DOMAIN adapter.requests \ {m.request}
           /\ m.accepted => DOMAIN a.pending = DOMAIN adapter.pending \cup {m.entry}
           /\ ~m.accepted => a.pending = adapter.pending
           /\ a.events = Append(adapter.events, Event(kind, adapter.requests[m.request]))
  BY <1>3, <1>5, ReplyChanges
<1> HIDE DEF a, kind
<1>7. /\ \A e : ~HeadStarts(1, e) /\ ~HeadEnds(1, e)
      /\ \A e : ~HeadInserts(1, e)
      /\ \A r : HeadAnswers(1, r) <=> r = m.request
      /\ \A e : HeadAccepts(1, e) <=>
           m.accepted /\ m.entry = e /\ m.request \in DOMAIN adapter.requests
  BY <1>2 DEF HeadStarts, HeadEnds, HeadAnswers, HeadAccepts, HeadInserts
<1>8. Learns(a, 1)
  <2>1. /\ DOMAIN a.requests \subseteq DOMAIN adapter.requests
        /\ a.retired \cap DOMAIN a.requests = {}
        /\ \A r \in DOMAIN a.requests : ~HeadAnswers(1, r)
    BY <1>5, <1>6, <1>7
  <2>2. \A e \in DOMAIN a.pending :
          (e \in DOMAIN adapter.pending /\ ~HeadStarts(1, e)) \/ HeadAccepts(1, e)
    BY <1>6, <1>7
  <2> QED BY <1>6, <1>7, <2>1, <2>2 DEF Learns
<1>9. Keeps(a, 1)
  BY <1>1, <1>6, <1>7 DEF Keeps
<1>10. RestartTold(1)
  BY <1>2 DEF RestartTold
<1>11. /\ \A i \in DOMAIN adapter.events : \E j \in DOMAIN a.events : a.events[j] = adapter.events[i]
       /\ m.request \in DOMAIN adapter.requests =>
            \E j \in DOMAIN a.events : a.events[j] = Event(kind, adapter.requests[m.request])
  <2>1. CASE m.request \in DOMAIN adapter.requests
    <3> DEFINE event == Event(kind, adapter.requests[m.request])
    <3>1. a.events = Append(adapter.events, event)
      BY <1>6, <2>1
    <3> HIDE DEF event
    <3>2. \E j \in DOMAIN a.events : a.events[j] = event
      BY <1>3, <3>1, JournalGrows
    <3>3. \A i \in DOMAIN adapter.events :
            \E j \in DOMAIN a.events : a.events[j] = adapter.events[i]
      BY <1>3, <3>1, JournalGrows
    <3> QED BY <2>1, <3>2, <3>3 DEF event
  <2>2. CASE m.request \notin DOMAIN adapter.requests
    BY <1>6, <2>2
  <2> QED BY <2>1, <2>2
<1>12. ASSUME HeadAnswers(1, Len(issued)), ~m.accepted, Len(issued) \in DOMAIN adapter.requests,
              Playing
       PROVE  "LoadRejected" \in reported'
  <2>1. kind = "LoadRejected" /\ m.request = Len(issued) /\ adapter.requests[m.request] = target
    BY <1>7, <1>12, KnownFacts, TargetFacts DEF kind
  <2>2. \E j \in DOMAIN a.events : a.events[j] = Event("LoadRejected", target)
    BY <1>11, <1>12, <2>1
  <2> QED BY <1>2, <1>4, <2>2, TurnFacts DEF Event
<1> QED BY <1>2, <1>4, <1>7, <1>8, <1>9, <1>10, <1>11, <1>12, PlainTurnAnswers

\* MPV_EVENT_START_FILE.
LEMMA PumpStartFileAnswers ==
  ASSUME MpvInv, MpvInv', AnswersInv, PumpStartFile PROVE AnswersInv'
<1> DEFINE entry == mpv.mail[1].entry
           a == StartFile(adapter, entry)
<1>1. /\ mpv.mail # << >> /\ Take /\ Head(mpv.mail).kind = "Start"
      /\ Turn(StartFile(adapter, Head(mpv.mail).entry))
      /\ IF AcceptsStart(adapter, Head(mpv.mail).entry) THEN current_entry' = Head(mpv.mail).entry
         ELSE current_entry' = current_entry
  BY DEF PumpStartFile, Received
<1>2. /\ Takes(1) /\ mpv'.choked = mpv.choked /\ 1 \in DOMAIN mpv.mail
      /\ mpv.mail[1].kind = "Start" /\ Turn(a)
      /\ AcceptsStart(adapter, entry) => current_entry' = entry
      /\ ~AcceptsStart(adapter, entry) => current_entry' = current_entry
  BY <1>1, TakeTakes
<1>3. /\ AdapterSound(adapter, issued, mpv.owner, stopped) /\ IsAdapter(adapter)
  BY InvFacts DEF AdapterSound
<1>4. IsAdapter(a)
  <2>1. AdapterSound(a, issued, mpv.owner, stopped)
    BY <1>3, StartFileSound
  <2> QED BY <2>1 DEF AdapterSound
<1>5. AcceptsStart(adapter, entry) <=> Known(entry)
  BY DEF AcceptsStart, Known
<1>6. /\ ~Known(entry) => a = adapter
      /\ Known(entry) =>
           /\ a.requests = adapter.requests /\ a.retired = adapter.retired
           /\ a.failureReported = adapter.failureReported /\ a.events = adapter.events
           /\ DOMAIN a.pending = DOMAIN adapter.pending \ {entry}
           /\ DOMAIN a.entries = DOMAIN adapter.entries \cup {entry}
           /\ a.started = adapter.started \ {entry}
  BY <1>3, <1>5, StartChanges
<1> HIDE DEF a, entry
<1>7. /\ \A e : HeadStarts(1, e) <=> e = entry
      /\ \A e : ~HeadEnds(1, e) /\ ~HeadInserts(1, e) /\ ~HeadAccepts(1, e)
      /\ \A r : ~HeadAnswers(1, r)
  BY <1>2 DEF HeadStarts, HeadEnds, HeadAnswers, HeadAccepts, HeadInserts, entry
<1>8. Learns(a, 1)
  <2>1. adapter.retired \cap DOMAIN adapter.requests = {}
    BY DEF AnswersInv, MailInv, RequestsAnswered
  <2>2. CASE Known(entry)
    BY <1>6, <1>7, <2>1, <2>2 DEF Learns
  <2>3. CASE ~Known(entry)
    BY <1>6, <1>7, <2>1, <2>3 DEF Learns, Known
  <2> QED BY <2>2, <2>3
<1>9. Keeps(a, 1)
  <2>1. CASE Known(entry)
    BY <1>2, <1>5, <1>6, <1>7, <2>1 DEF Keeps
  <2>2. CASE ~Known(entry)
    BY <1>2, <1>5, <1>6, <1>7, <2>2 DEF Keeps
  <2> QED BY <2>1, <2>2
<1>10. RestartTold(1)
  BY <1>2 DEF RestartTold
<1>11. \A i \in DOMAIN adapter.events : \E j \in DOMAIN a.events : a.events[j] = adapter.events[i]
  BY <1>6
<1> QED BY <1>2, <1>4, <1>7, <1>8, <1>9, <1>10, <1>11, PlainTurnAnswers

\* MPV_EVENT_END_FILE: the end of the load to play is told, or a redirect goes
\* on with it.
LEMMA PumpEndFileAnswers ==
  ASSUME MpvInv, MpvInv', AnswersInv, PumpEndFile PROVE AnswersInv'
<1> DEFINE m == mpv.mail[1]
           a == EndFile(adapter, m.entry, m.reason, m.inserted)
<1>1. /\ mpv.mail # << >> /\ Take /\ Head(mpv.mail).kind = "End"
      /\ current_entry' = current_entry
      /\ Turn(EndFile(adapter, Head(mpv.mail).entry, Head(mpv.mail).reason,
                      Head(mpv.mail).inserted))
  BY DEF PumpEndFile, Received
<1>2. /\ Takes(1) /\ mpv'.choked = mpv.choked /\ 1 \in DOMAIN mpv.mail
      /\ m.kind = "End" /\ Turn(a) /\ m \in Messages
  BY <1>1, TakeTakes
<1>3. /\ AdapterSound(adapter, issued, mpv.owner, stopped) /\ IsAdapter(adapter)
      /\ adapter.events \in Seq(Events) /\ mpv.owner \in Seq(Loads)
  BY InvFacts DEF AdapterSound
<1>4. m.reason \in {"Ended", "Stop", "Redirect"}
  BY <1>2 DEF Messages, Marks
<1>5. IsAdapter(a)
  <2> DEFINE ended == m.entry
             reason == m.reason
             inserted == m.inserted
             b == EndFile(adapter, ended, reason, inserted)
  <2>1. /\ inserted \subseteq DOMAIN mpv.owner
        /\ \A n \in inserted : mpv.owner[n] = mpv.owner[ended]
        /\ reason \in {"Ended", "Stop", "Redirect"}
    BY <1>2, <1>4, MailFacts
  <2> HIDE DEF ended, reason, inserted
  <2>2. AdapterSound(b, issued, mpv.owner, stopped)
    BY <1>3, <2>1, EndFileSound
  <2> QED BY <2>2 DEF ended, reason, inserted, AdapterSound
<1>6. /\ a.requests = adapter.requests /\ a.retired = adapter.retired
      /\ a.pending = adapter.pending /\ a.failureReported = adapter.failureReported
      /\ m.entry \notin DOMAIN adapter.entries => a = adapter
      /\ m.entry \in DOMAIN adapter.entries =>
           /\ DOMAIN a.entries = (DOMAIN adapter.entries \cup m.inserted) \ {m.entry}
           /\ a.started = adapter.started \ {m.entry}
           /\ \E kind \in {"Stopped", m.reason} :
                a.events = Append(adapter.events, Event(kind, mpv.owner[m.entry]))
  <2> DEFINE ended == m.entry
             reason == m.reason
             inserted == m.inserted
             b == EndFile(adapter, ended, reason, inserted)
  <2> HIDE DEF ended, reason, inserted
  <2>1. /\ ended \notin DOMAIN adapter.entries => b = adapter
        /\ b.requests = adapter.requests /\ b.retired = adapter.retired
        /\ b.pending = adapter.pending
        /\ b.failureReported = adapter.failureReported
        /\ ended \in DOMAIN adapter.entries =>
             /\ DOMAIN b.entries = (DOMAIN adapter.entries \cup inserted) \ {ended}
             /\ b.started = adapter.started \ {ended}
             /\ \E kind \in {"Stopped", reason} :
                  /\ b.events = Append(adapter.events, Event(kind, mpv.owner[ended]))
                  /\ ended \in DOMAIN adapter.stops => kind = "Stopped"
    BY <1>3, EndChanges
  <2> QED BY <2>1 DEF ended, reason, inserted
<1> HIDE DEF a
<1>7. /\ \A e : HeadEnds(1, e) <=> e = m.entry
      /\ \A e : HeadInserts(1, e) <=> e \in m.inserted /\ m.entry \in DOMAIN adapter.entries
      /\ \A e : ~HeadStarts(1, e) /\ ~HeadAccepts(1, e)
      /\ \A r : ~HeadAnswers(1, r)
  BY <1>2 DEF HeadStarts, HeadEnds, HeadAnswers, HeadAccepts, HeadInserts
<1>8. Learns(a, 1)
  <2>1. adapter.retired \cap DOMAIN adapter.requests = {}
    BY DEF AnswersInv, MailInv, RequestsAnswered
  <2>2. CASE m.entry \in DOMAIN adapter.entries
    BY <1>6, <1>7, <2>1, <2>2 DEF Learns
  <2>3. CASE m.entry \notin DOMAIN adapter.entries
    BY <1>6, <1>7, <2>1, <2>3 DEF Learns
  <2> QED BY <2>2, <2>3
<1>9. Keeps(a, 1)
  <2>1. CASE m.entry \in DOMAIN adapter.entries
    BY <1>1, <1>6, <1>7, <2>1 DEF Keeps
  <2>2. CASE m.entry \notin DOMAIN adapter.entries
    BY <1>1, <1>6, <1>7, <2>2 DEF Keeps
  <2> QED BY <2>1, <2>2
<1>10. RestartTold(1)
  BY <1>2 DEF RestartTold
<1>11. \A i \in DOMAIN adapter.events : \E j \in DOMAIN a.events : a.events[j] = adapter.events[i]
  <2>1. CASE m.entry \in DOMAIN adapter.entries
    <3>1. PICK kind : a.events = Append(adapter.events, Event(kind, mpv.owner[m.entry]))
      BY <1>6, <2>1
    <3> QED BY <1>3, <3>1, JournalGrows
  <2>2. CASE m.entry \notin DOMAIN adapter.entries
    BY <1>6, <2>2
  <2> QED BY <2>1, <2>2
<1>12. ASSUME NEW e \in DOMAIN adapter.entries, HeadEnds(1, e), Owned(e), m.reason # "Redirect"
       PROVE  reported' \cap Outcomes # {}
  <2>1. e = m.entry /\ mpv.owner[m.entry] = target
    BY <1>7, <1>12 DEF Owned
  <2>2. PICK kind \in {"Stopped", m.reason} :
          a.events = Append(adapter.events, Event(kind, mpv.owner[m.entry]))
    BY <1>6, <1>12, <2>1
  <2>3. \E j \in DOMAIN a.events : a.events[j] = Event(kind, target)
    BY <1>3, <2>1, <2>2, JournalGrows
  <2>4. kind \in reported'
    BY <1>2, <1>5, <2>3, TurnFacts DEF Event
  <2>5. kind \in Outcomes
    BY <1>4, <1>12 DEF Outcomes
  <2> QED BY <2>4, <2>5
<1> QED BY <1>2, <1>5, <1>7, <1>8, <1>9, <1>10, <1>11, <1>12, PlainTurnAnswers

\* A turn that tells that the backend has failed.
LEMMA FailedTurnAnswers ==
  ASSUME MpvInv, MpvInv', AnswersInv, NEW k \in {0, 1}, Takes(k),
         Turn(BackendFailed(adapter, target)),
         k = 1 => mpv.mail[1].kind = "Shutdown", mpv.state # "Up" \/ mpv.lossy
  PROVE  AnswersInv'
<1> DEFINE a == BackendFailed(adapter, target)
           event == Event("BackendFailed", target)
<1>1. Turn(a) /\ event.kind = "BackendFailed" /\ event.load = target
  BY DEF Event
<1>2. /\ AdapterSound(adapter, issued, mpv.owner, stopped) /\ IsAdapter(adapter)
      /\ adapter.events \in Seq(Events) /\ adapter.failureReported \in BOOLEAN
      /\ target \in Loads \cup {NoTarget} /\ target.generation \notin stopped
  BY InvFacts DEF AdapterSound
<1>3. IsAdapter(a)
  <2>1. AdapterSound(a, issued, mpv.owner, stopped)
    BY <1>2, BackendFailedSound
  <2> QED BY <2>1 DEF AdapterSound
<1>4. /\ adapter.failureReported => a = adapter
      /\ ~adapter.failureReported =>
           /\ DOMAIN a.requests = {} /\ DOMAIN a.pending = {} /\ DOMAIN a.entries = {}
           /\ a.started = {} /\ a.retired = {}
           /\ a.events = Append(adapter.events, event)
  <2>1. LET b == BackendFailed(adapter, target)
        IN  /\ adapter.failureReported => b = adapter
            /\ ~adapter.failureReported =>
                 /\ DOMAIN b.requests = {} /\ DOMAIN b.pending = {} /\ DOMAIN b.entries = {}
                 /\ b.started = {} /\ b.retired = {}
                 /\ b.events = Append(adapter.events, Event("BackendFailed", target))
    BY <1>2, FailureChanges
  <2> QED BY <2>1
<1> HIDE DEF a, event
<1>5. target' = target /\ reported \subseteq reported'
      /\ \A i \in DOMAIN a.events : a.events[i].load = target => a.events[i].kind \in reported'
  BY <1>1, <1>3, TurnFacts
<1>6. ~adapter.failureReported => "BackendFailed" \in reported'
  <2> SUFFICES ASSUME ~adapter.failureReported PROVE "BackendFailed" \in reported'
    OBVIOUS
  <2>1. \E j \in DOMAIN a.events : a.events[j] = event
    BY <1>2, <1>4, JournalGrows
  <2> QED BY <1>1, <1>5, <2>1
<1>7. /\ \A e : ~HeadStarts(k, e) /\ ~HeadEnds(k, e) /\ ~HeadAccepts(k, e) /\ ~HeadInserts(k, e)
      /\ \A r : ~HeadAnswers(k, r)
  BY HeadFacts
<1>8. Learns(a, k)
  <2>1. adapter.retired \cap DOMAIN adapter.requests = {}
    BY DEF AnswersInv, MailInv, RequestsAnswered
  <2>2. CASE adapter.failureReported
    BY <1>4, <1>7, <2>1, <2>2 DEF Learns
  <2>3. CASE ~adapter.failureReported
    BY <1>4, <1>6, <2>3 DEF Learns
  <2> QED BY <2>2, <2>3
<1>9. ~Calm /\ RestartTold(k)
  BY DEF Calm, RestartTold
<1>10. ~Unanswered'
  <2>1. Playing => "BackendFailed" \in reported'
    BY <1>5, <1>6 DEF AnswersInv, MailInv, FailureIsTold
  <2> QED BY <1>5, <2>1 DEF Unanswered, Playing, Outcomes
<1> QED BY <1>1, <1>3, <1>8, <1>9, <1>10, TurnKeepsAnswers

\* MPV_EVENT_SHUTDOWN.
LEMMA PumpShutdownAnswers ==
  ASSUME MpvInv, MpvInv', AnswersInv, PumpShutdown PROVE AnswersInv'
<1>1. /\ mpv.mail # << >> /\ Take /\ Head(mpv.mail).kind = "Shutdown"
      /\ Turn(BackendFailed(adapter, target))
  BY DEF PumpShutdown, Received
<1>2. Takes(1) /\ mpv.mail[1].kind = "Shutdown" /\ 1 \in DOMAIN mpv.mail
  BY <1>1, TakeTakes
<1>3. mpv.state # "Up"
  BY <1>2 DEF AnswersInv, MailInv, LossIsKnown
<1> QED BY <1>1, <1>2, <1>3, FailedTurnAnswers

\* MPV_EVENT_QUEUE_OVERFLOW.
LEMMA PumpOverflowAnswers ==
  ASSUME MpvInv, MpvInv', AnswersInv, PumpOverflow PROVE AnswersInv'
<1>1. /\ mpv.choked /\ mpv.mail = << >> /\ mpv' = [mpv EXCEPT !.choked = FALSE]
      /\ Turn(BackendFailed(adapter, target))
  BY DEF PumpOverflow
<1>2. /\ IsMpv(mpv') /\ mpv'.commands = mpv.commands
      /\ mpv'.upNext = mpv.upNext /\ mpv'.playing = mpv.playing
      /\ mpv'.restarted = mpv.restarted /\ mpv'.lingering = mpv.lingering
      /\ mpv'.owner = mpv.owner /\ mpv'.mail = mpv.mail /\ mpv'.state = mpv.state
      /\ mpv'.skipped = mpv.skipped /\ mpv'.lossy = mpv.lossy /\ mpv'.choked = FALSE
  BY <1>1, PlaceFacts DEF IsMpv, MpvFields
<1>3. Takes(0)
  <2>1. mpv.mail \in Seq(Messages) /\ DOMAIN mpv.mail = {}
    BY <1>1
  <2> QED BY <1>2, <2>1 DEF Takes, Consumes
<1>4. mpv.lossy
  BY <1>1 DEF AnswersInv, MailInv, LossIsKnown
<1> QED BY <1>1, <1>3, <1>4, FailedTurnAnswers

-----------------------------------------------------------------------------
(* The viewer turns to another load, or to none.                           *)

\* libmpv and its mail are as they were, but for the commands: at most one more,
\* for a request that is awaited.  No entry belongs to the load to play.
Leaves ==
  /\ mpv'.mail = mpv.mail /\ mpv'.owner = mpv.owner /\ mpv'.state = mpv.state
  /\ mpv'.upNext = mpv.upNext /\ mpv'.playing = mpv.playing /\ mpv'.lingering = mpv.lingering
  /\ mpv'.skipped = mpv.skipped /\ mpv'.choked = mpv.choked /\ mpv'.lossy = mpv.lossy
  /\ \A e \in DOMAIN mpv.owner : mpv.owner[e] # target'
  /\ DOMAIN adapter'.pending \subseteq DOMAIN adapter.pending
  /\ DOMAIN adapter'.entries \subseteq DOMAIN adapter.entries
  /\ adapter'.started \subseteq adapter.started
  /\ adapter'.retired \cap DOMAIN adapter'.requests = {}
  /\ \A r \in DOMAIN issued : r \in DOMAIN issued' /\ issued'[r] = issued[r]
  /\ \A r \in DOMAIN adapter'.requests : r \in DOMAIN adapter.requests \/
       (r = Len(issued) + 1 /\ \E k \in DOMAIN mpv'.commands :
          mpv'.commands[k].kind = "loadfile" /\ mpv'.commands[k].request = r)
  /\ \A k \in DOMAIN mpv.commands :
       k \in DOMAIN mpv'.commands /\ mpv'.commands[k] = mpv.commands[k]
  /\ \A k \in DOMAIN mpv'.commands : mpv'.commands[k].kind = "loadfile" =>
       \/ k \in DOMAIN mpv.commands /\ mpv'.commands[k] = mpv.commands[k]
       \/ mpv'.commands[k].request = Len(issued) + 1

\* What is said of the mail is said of the same mail.
LEMMA LeavingKeepsMail ==
  ASSUME MpvInv, AnswersInv, Leaves
  PROVE  RequestsAnswered' /\ RepliesInOrder' /\ LossIsKnown' /\ EndsOnce' /\ StartIsTold'
<1> USE DEF Leaves
<1>1. issued \in Seq(Loads) /\ \A e : Known(e)' => Known(e)
  BY InvFacts DEF Known
<1>2. RequestsAnswered'
  <2> SUFFICES ASSUME NEW r \in DOMAIN adapter'.requests
               PROVE  \/ \E k \in DOMAIN mpv'.commands :
                           mpv'.commands[k].kind = "loadfile" /\ mpv'.commands[k].request = r
                      \/ \E i \in DOMAIN mpv'.mail :
                           mpv'.mail[i].kind = "Reply" /\ mpv'.mail[i].request = r
    BY DEF RequestsAnswered
  <2>1. CASE r \in DOMAIN adapter.requests
    <3>1. \/ \E k \in DOMAIN mpv.commands :
               mpv.commands[k].kind = "loadfile" /\ mpv.commands[k].request = r
          \/ \E i \in DOMAIN mpv.mail : mpv.mail[i].kind = "Reply" /\ mpv.mail[i].request = r
      BY <2>1 DEF AnswersInv, MailInv, RequestsAnswered
    <3> QED BY <3>1
  <2> QED BY <2>1
<1>3. RepliesInOrder'
  <2>1. ASSUME NEW i \in DOMAIN mpv.mail, mpv.mail[i].kind = "Reply"
        PROVE  /\ mpv.mail[i].request \in DOMAIN issued
               /\ mpv.mail[i].request < Len(issued) + 1
               /\ \A j \in DOMAIN mpv.mail : j > i /\ mpv.mail[j].kind = "Reply" =>
                    mpv.mail[i].request < mpv.mail[j].request
               /\ \A k \in DOMAIN mpv.commands : mpv.commands[k].kind = "loadfile" =>
                    mpv.mail[i].request < mpv.commands[k].request
               /\ \A e : Known(e) => Before(mpv.owner[e], issued[mpv.mail[i].request])
    <3>1. mpv.mail[i].request \in DOMAIN issued
      BY <2>1 DEF AnswersInv, MailInv, RepliesInOrder
    <3>2. mpv.mail[i].request < Len(issued) + 1
      BY <1>1, <3>1
    <3> QED BY <2>1, <3>1, <3>2 DEF AnswersInv, MailInv, RepliesInOrder
  <2> QED BY <1>1, <2>1 DEF RepliesInOrder
<1>4. LossIsKnown'
  BY DEF AnswersInv, MailInv, LossIsKnown
<1>5. EndsOnce'
  BY DEF AnswersInv, MailInv, EndsOnce, Coming
<1>6. StartIsTold'
  BY KnownFacts DEF StartIsTold, Owned, Known
<1> QED BY <1>2, <1>3, <1>4, <1>5, <1>6

\* Starts that the adapter waits for still come.
LEMMA LeavingKeepsStarts ==
  ASSUME MpvInv, AnswersInv, Leaves PROVE StartsFollow'
<1> USE DEF Leaves
<1> SUFFICES ASSUME ~mpv.lossy, ~mpv.skipped PROVE StartsFollow'
  BY DEF StartsFollow
<1>1. \A e, i : StartComes(e, i) => StartComes(e, i)'
  BY DEF StartComes, Coming
<1>2. ASSUME NEW i \in DOMAIN mpv.mail, mpv.mail[i].kind = "Reply",
             mpv.mail[i].request \in DOMAIN adapter'.requests
      PROVE  mpv.mail[i].request \in DOMAIN adapter.requests
  <2>1. mpv.mail[i].request \in DOMAIN issued
    BY <1>2 DEF AnswersInv, MailInv, RepliesInOrder
  <2>2. mpv.mail[i].request # Len(issued) + 1
    BY <2>1, InvFacts
  <2> QED BY <1>2, <2>2
<1>3. /\ \A e \in DOMAIN adapter.pending : StartComes(e, 0)
      /\ \A i \in DOMAIN mpv.mail :
           /\ mpv.mail[i].kind = "Reply" /\ mpv.mail[i].accepted
           /\ mpv.mail[i].request \in DOMAIN adapter.requests
           => StartComes(mpv.mail[i].entry, i)
  BY DEF AnswersInv, StartsFollow
<1> QED BY <1>1, <1>2, <1>3 DEF StartsFollow

\* What is owed to the load to play is owed to no entry.
LEMMA LeavingKeepsAnswers ==
  ASSUME MpvInv, AnswersInv, Leaves,
         \A k \in DOMAIN mpv'.commands :
           mpv'.commands[k].kind = "loadfile" /\ mpv'.commands[k].request = Len(issued') =>
             Len(issued') \in DOMAIN adapter'.requests
  PROVE  Continues' /\ EntriesKnown'
<1> USE DEF Leaves
<1>1. \A e \in DOMAIN mpv.owner : ~Owned(e)'
  BY DEF Owned
<1>2. \A i \in DOMAIN mpv.mail :
        mpv.mail[i].kind \in {"Start", "End"} \/ (mpv.mail[i].kind = "Reply" /\ mpv.mail[i].accepted)
          => ~Owned(mpv.mail[i].entry)'
  BY <1>1, MailFacts
<1>3. Continues'
  <2>1. \A e \in DOMAIN adapter'.pending \cup DOMAIN adapter'.entries : ~Owned(e)'
    BY <1>1, KnownFacts DEF Known
  <2>2. ASSUME NEW i \in DOMAIN mpv.mail, NEW m, m = mpv'.mail[i] PROVE LeadsOn(m, i)'
    BY <1>2, <2>2 DEF LeadsOn
  <2> QED BY <2>1, <2>2 DEF Continues
<1>4. EntriesKnown'
  <2>1. ASSUME NEW i \in DOMAIN mpv.mail, NEW m, m = mpv'.mail[i] PROVE Introduced(m, i)'
    BY <1>2, <2>1 DEF Introduced
  <2>2. /\ mpv'.upNext # NoEntry => mpv'.owner[mpv'.upNext] # target'
        /\ mpv'.playing # NoEntry => mpv'.owner[mpv'.playing] # target'
    BY <1>1, InvFacts DEF NoEntry, Owned
  <2> QED BY <2>1, <2>2 DEF EntriesKnown, Owned
<1> QED BY <1>3, <1>4

\* What issuing a load changes of what is awaited: the request, or the journal
\* says at once that it was refused.
LEMMA IssueChanges ==
  ASSUME issued \in Seq(Loads), NEW load, NEW a, IsAdapter(a), NEW m, IsMpv(m),
         IssueLoad(load, a, m), m.commands \in Seq(MpvCommands), a.events \in Seq(Events),
         Len(issued) + 1 \notin DOMAIN a.requests, Len(issued) + 1 \notin a.retired
  PROVE  LET request == Len(issued) + 1
             command == [kind |-> "loadfile", request |-> request]
         IN  /\ target' = load /\ issued' = Append(issued, load)
             /\ adapter'.pending = a.pending /\ adapter'.entries = a.entries
             /\ adapter'.started = a.started /\ adapter'.retired \subseteq a.retired
             /\ ~adapter'.failureReported
             /\ mpv'.mail = m.mail /\ mpv'.owner = m.owner /\ mpv'.state = m.state
             /\ mpv'.upNext = m.upNext /\ mpv'.playing = m.playing
             /\ mpv'.lingering = m.lingering /\ mpv'.skipped = m.skipped
             /\ mpv'.choked = m.choked /\ mpv'.lossy = m.lossy
             /\ \/ /\ DOMAIN adapter'.requests = DOMAIN a.requests \cup {request}
                   /\ mpv'.commands = Append(m.commands, command)
                \/ /\ DOMAIN adapter'.requests = DOMAIN a.requests
                   /\ \E j \in DOMAIN adapter'.events :
                        adapter'.events[j] = Event("LoadRejected", load)
                   /\ mpv'.commands = m.commands
<1> DEFINE request == Len(issued) + 1
           command == [kind |-> "loadfile", request |-> request]
           tracked == TrackLoad(a, request, load)
           refused == CommandRejectedImmediately(tracked, request)
<1>1. /\ target' = load /\ issued' = Append(issued, load)
      /\ \/ adapter' = tracked /\ mpv' = [m EXCEPT !.commands = Append(@, command)]
         \/ adapter' = refused /\ mpv' = m
  BY DEF IssueLoad
<1>2. /\ IsAdapter(tracked) /\ ~tracked.failureReported
      /\ DOMAIN tracked.requests = DOMAIN a.requests \cup {request}
      /\ tracked.requests[request] = load
      /\ tracked.pending = a.pending /\ tracked.entries = a.entries
      /\ tracked.retired = a.retired /\ tracked.started = a.started /\ tracked.events = a.events
  BY TrackingChanges
<1> HIDE DEF tracked, command
<1>3. /\ DOMAIN refused.requests = DOMAIN tracked.requests \ {request}
      /\ refused.pending = tracked.pending /\ refused.entries = tracked.entries
      /\ refused.retired = tracked.retired /\ refused.started = tracked.started
      /\ refused.failureReported = tracked.failureReported
      /\ refused.events = Append(tracked.events, Event("LoadRejected", tracked.requests[request]))
  BY <1>2, RefusalChanges
<1> HIDE DEF refused
<1>4. CASE adapter' = tracked /\ mpv' = [m EXCEPT !.commands = Append(@, command)]
  <2>1. /\ mpv'.mail = m.mail /\ mpv'.owner = m.owner /\ mpv'.state = m.state
        /\ mpv'.upNext = m.upNext /\ mpv'.playing = m.playing
        /\ mpv'.lingering = m.lingering /\ mpv'.skipped = m.skipped
        /\ mpv'.choked = m.choked /\ mpv'.lossy = m.lossy
        /\ mpv'.commands = Append(m.commands, command)
    BY <1>4 DEF IsMpv, MpvFields
  <2> QED BY <1>1, <1>2, <1>4, <2>1 DEF command
<1>5. CASE adapter' = refused /\ mpv' = m
  <2> DEFINE event == Event("LoadRejected", load)
  <2>1. /\ DOMAIN refused.requests = DOMAIN a.requests
        /\ refused.pending = a.pending /\ refused.events = Append(a.events, event)
    BY <1>2, <1>3
  <2> HIDE DEF event
  <2>2. \E j \in DOMAIN refused.events : refused.events[j] = event
    BY <2>1, JournalGrows
  <2> QED BY <1>1, <1>2, <1>3, <1>5, <2>1, <2>2 DEF event
<1> QED BY <1>1, <1>4, <1>5

\* A load issued to the running backend is awaited, or the journal has it
\* refused.
LEMMA IssueAnswers ==
  ASSUME MpvInv, MpvInv', AnswersInv, NEW load, IssuedTo(load, adapter, mpv),
         IssueLoad(load, adapter, mpv), load # target, Deliver(<< >>)
  PROVE  AnswersInv'
<1> DEFINE request == Len(issued) + 1
           command == [kind |-> "loadfile", request |-> request]
<1>1. /\ issued \in Seq(Loads) /\ mpv.commands \in Seq(MpvCommands) /\ mpv.owner \in Seq(Loads)
      /\ IsAdapter(adapter) /\ IsMpv(mpv) /\ adapter.events \in Seq(Events)
      /\ load \in Loads /\ \A i \in DOMAIN issued : Before(issued[i], load)
  BY InvFacts DEF IssuedTo, AdapterSound
<1>2. /\ request \notin DOMAIN issued /\ request \notin DOMAIN adapter.requests
      /\ request \notin adapter.retired
  BY <1>1, KnownFacts
<1>3. /\ target' = load /\ issued' = Append(issued, load)
      /\ adapter'.pending = adapter.pending /\ adapter'.entries = adapter.entries
      /\ adapter'.started = adapter.started /\ adapter'.retired \subseteq adapter.retired
      /\ ~adapter'.failureReported
      /\ mpv'.mail = mpv.mail /\ mpv'.owner = mpv.owner /\ mpv'.state = mpv.state
      /\ mpv'.upNext = mpv.upNext /\ mpv'.playing = mpv.playing
      /\ mpv'.lingering = mpv.lingering /\ mpv'.skipped = mpv.skipped
      /\ mpv'.choked = mpv.choked /\ mpv'.lossy = mpv.lossy
      /\ \/ /\ DOMAIN adapter'.requests = DOMAIN adapter.requests \cup {request}
            /\ mpv'.commands = Append(mpv.commands, command)
         \/ /\ DOMAIN adapter'.requests = DOMAIN adapter.requests
            /\ \E j \in DOMAIN adapter'.events :
                 adapter'.events[j] = Event("LoadRejected", load)
            /\ mpv'.commands = mpv.commands
  BY <1>1, <1>2, IssueChanges
<1>4. command.kind = "loadfile" /\ command.request = request
  OBVIOUS
<1> HIDE DEF command
<1>5. /\ Len(issued') = request
      /\ \A r \in DOMAIN issued : r \in DOMAIN issued' /\ issued'[r] = issued[r]
  BY <1>1, <1>3
<1>6. \A e \in DOMAIN mpv.owner : mpv.owner[e] # load
  <2> TAKE e \in DOMAIN mpv.owner
  <2>1. issued # << >> /\ NotAfter(mpv.owner[e], issued[Len(issued)])
    BY <1>1 DEF MpvInv, OwnersInOrder
  <2>2. Len(issued) \in DOMAIN issued /\ issued[Len(issued)] \in Loads /\ mpv.owner[e] \in Loads
    BY <1>1, <2>1
  <2>3. Before(issued[Len(issued)], load)
    BY <1>1, <2>2
  <2>4. Before(mpv.owner[e], load)
    BY <1>1, <2>1, <2>2, <2>3, LoadOrder
  <2> QED BY <1>1, <2>2, <2>4, LoadOrder
<1>7. /\ \A k \in DOMAIN mpv.commands :
           k \in DOMAIN mpv'.commands /\ mpv'.commands[k] = mpv.commands[k]
      /\ \A k \in DOMAIN mpv'.commands :
           \/ k \in DOMAIN mpv.commands /\ mpv'.commands[k] = mpv.commands[k]
           \/ /\ mpv'.commands[k] = command /\ k = Len(mpv'.commands)
              /\ request \in DOMAIN adapter'.requests
      /\ \A r \in DOMAIN adapter'.requests : r \in DOMAIN adapter.requests \/
           (r = request /\ \E k \in DOMAIN mpv'.commands : mpv'.commands[k] = command)
  <2>1. CASE mpv'.commands = mpv.commands /\ DOMAIN adapter'.requests = DOMAIN adapter.requests
    BY <2>1
  <2>2. CASE /\ mpv'.commands = Append(mpv.commands, command)
             /\ DOMAIN adapter'.requests = DOMAIN adapter.requests \cup {request}
    <3>1. /\ DOMAIN mpv'.commands = 1 .. Len(mpv.commands) + 1
          /\ Len(mpv'.commands) = Len(mpv.commands) + 1 /\ Len(mpv.commands) \in Nat
          /\ DOMAIN mpv.commands = 1 .. Len(mpv.commands)
          /\ mpv'.commands[Len(mpv.commands) + 1] = command
          /\ \A k \in DOMAIN mpv.commands : mpv'.commands[k] = mpv.commands[k]
      BY <1>1, <2>2
    <3> QED BY <2>2, <3>1
  <2> QED BY <1>3, <2>1, <2>2
<1>8. \A k \in DOMAIN mpv.commands : mpv.commands[k].kind = "loadfile" =>
        mpv.commands[k].request # request
  BY <1>2 DEF MpvInv, OwnersInOrder
<1>9. Leaves
  <2>1. adapter'.retired \cap DOMAIN adapter'.requests = {}
    <3>1. adapter.retired \cap DOMAIN adapter.requests = {}
      BY DEF AnswersInv, MailInv, RequestsAnswered
    <3> QED BY <1>2, <1>3, <3>1
  <2> QED BY <1>3, <1>4, <1>5, <1>6, <1>7, <2>1 DEF Leaves
<1>10. reported' = {}
  BY <1>3 DEF Deliver, Range
<1>11. LastCommand'
  <2>1. \A e \in DOMAIN mpv.owner : ~Owned(e)'
    BY <1>3, <1>6 DEF Owned
  <2>2. \A k \in DOMAIN mpv'.commands :
          mpv'.commands[k].kind = "loadfile" /\ mpv'.commands[k].request = request =>
            k = Len(mpv'.commands)
    BY <1>7, <1>8
  <2> QED BY <1>3, <1>5, <2>1, <2>2 DEF LastCommand
<1>12. MailInv'
  BY <1>3, <1>9, <1>11, LeavingKeepsMail DEF MailInv, FailureIsTold
<1>13. AnswerComes'
  <2>1. CASE DOMAIN adapter'.requests = DOMAIN adapter.requests \cup {request}
    BY <1>5, <2>1 DEF AnswerComes
  <2>2. CASE \E j \in DOMAIN adapter'.events : adapter'.events[j] = Event("LoadRejected", load)
    BY <1>3, <2>2 DEF AnswerComes, Event
  <2> QED BY <1>3, <2>1, <2>2
<1>14. Continues' /\ StartsFollow' /\ EntriesKnown'
  <2>1. \A k \in DOMAIN mpv'.commands :
          mpv'.commands[k].kind = "loadfile" /\ mpv'.commands[k].request = Len(issued') =>
            Len(issued') \in DOMAIN adapter'.requests
    BY <1>5, <1>7, <1>8
  <2> QED BY <1>9, <2>1, LeavingKeepsAnswers, LeavingKeepsStarts
<1> QED BY <1>12, <1>13, <1>14 DEF AnswersInv, TargetAnswered

\* A channel is chosen.
LEMMA PlayAnswers ==
  ASSUME MpvInv, MpvInv', AnswersInv, Play PROVE AnswersInv'
<1> DEFINE load == Load(generation + 1, 1)
<1>1. generation < MaxGeneration /\ IssueLoad(load, adapter, mpv) /\ Deliver(<< >>)
  BY DEF Play
<1>2. load # target /\ IssuedTo(load, adapter, mpv)
  BY <1>1, FirstLoad
<1> HIDE DEF load
<1> QED BY <1>1, <1>2, IssueAnswers

\* The channel is opened again on the same backend.
LEMMA ReopenAnswers ==
  ASSUME MpvInv, MpvInv', AnswersInv, Reopen PROVE AnswersInv'
<1> DEFINE load == [target EXCEPT !.load = @ + 1]
<1>1. /\ Playing /\ target.generation = generation /\ target.load < MaxLoad
      /\ IssueLoad(load, adapter, mpv) /\ Deliver(<< >>)
  BY DEF Reopen
<1>2. /\ load \in Loads /\ load # target /\ load.generation \notin stopped
      /\ \A i \in DOMAIN issued : Before(issued[i], load)
  BY <1>1, NextLoad
<1> HIDE DEF load
<1>3. IssuedTo(load, adapter, mpv)
  BY <1>2, InvFacts DEF IssuedTo, MpvInv, JournalRefuses
<1> QED BY <1>1, <1>2, <1>3, IssueAnswers

\* What a backend that was destroyed leaves: nothing awaited, nothing known.
LEMMA EmptyFacts ==
  /\ FreshMpv.state = "Up" /\ AbsentMpv.state = "Absent"
  /\ ~FreshMpv.choked /\ ~AbsentMpv.choked
  /\ DOMAIN FreshAdapter.requests = {} /\ DOMAIN FreshAdapter.pending = {}
  /\ DOMAIN FreshAdapter.entries = {} /\ FreshAdapter.started = {}
  /\ FreshAdapter.retired = {} /\ ~FreshAdapter.failureReported
BY DEF FreshMpv, AbsentMpv, FreshAdapter, Empty

\* A mail without messages says nothing that could be wrong.
LEMMA EmptyMailAnswers ==
  ASSUME mpv'.mail = << >>, mpv'.owner = << >>, mpv'.upNext = 0, mpv'.playing = 0,
         mpv'.lingering = 0, ~mpv'.choked, ~adapter'.failureReported,
         DOMAIN adapter'.pending = {}, DOMAIN adapter'.entries = {},
         adapter'.started = {}, adapter'.retired = {},
         \A r \in DOMAIN adapter'.requests : \E k \in DOMAIN mpv'.commands :
           mpv'.commands[k].kind = "loadfile" /\ mpv'.commands[k].request = r,
         \A k \in DOMAIN mpv'.commands : k = Len(mpv'.commands) /\
           Len(issued') \in DOMAIN adapter'.requests,
         Playing' /\ mpv'.state = "Up" => AnswerComes'
  PROVE  AnswersInv'
<1>1. MailInv'
  BY DEF MailInv, RequestsAnswered, RepliesInOrder, LastCommand, FailureIsTold, LossIsKnown,
         EndsOnce, StartIsTold, NoEntry
<1>2. TargetAnswered'
  BY DEF TargetAnswered, Unanswered, Continues
<1>3. StartsFollow' /\ EntriesKnown'
  BY DEF StartsFollow, EntriesKnown, NoEntry
<1> QED BY <1>1, <1>2, <1>3 DEF AnswersInv

\* The backend is made anew and has the load, or cannot be made.
LEMMA RecreateAnswers ==
  ASSUME MpvInv, AnswersInv, Recreate PROVE AnswersInv'
<1> DEFINE load == [target EXCEPT !.load = @ + 1]
           request == Len(issued) + 1
           command == [kind |-> "loadfile", request |-> request]
<1>1. \/ IssueLoad(load, FreshAdapter, FreshMpv)
      \/ adapter' = FreshAdapter /\ mpv' = AbsentMpv
  BY DEF Recreate
<1> HIDE DEF load
<1>2. CASE adapter' = FreshAdapter /\ mpv' = AbsentMpv
  BY <1>2, EmptyFacts, FreshFacts, EmptyMailAnswers
<1>3. CASE IssueLoad(load, FreshAdapter, FreshMpv)
  <2>1. /\ issued \in Seq(Loads) /\ IsAdapter(FreshAdapter)
        /\ FreshMpv.commands \in Seq(MpvCommands) /\ FreshAdapter.events \in Seq(Events)
        /\ request \notin DOMAIN FreshAdapter.requests /\ request \notin FreshAdapter.retired
        /\ IsMpv(FreshMpv)
    <3>1. IsAdapter(FreshAdapter)
      BY DEF IsAdapter, AdapterFields, FreshAdapter
    <3>2. FreshMpv.commands = << >> /\ FreshAdapter.events = << >> /\ IsMpv(FreshMpv)
      BY FreshFacts
    <3>3. request \notin DOMAIN FreshAdapter.requests /\ request \notin FreshAdapter.retired
      BY EmptyFacts
    <3> QED BY <3>1, <3>2, <3>3, InvFacts
  <2>2. /\ target' = load /\ issued' = Append(issued, load)
        /\ adapter'.pending = FreshAdapter.pending /\ adapter'.entries = FreshAdapter.entries
        /\ adapter'.started = FreshAdapter.started
        /\ adapter'.retired \subseteq FreshAdapter.retired
        /\ ~adapter'.failureReported
        /\ mpv'.mail = FreshMpv.mail /\ mpv'.owner = FreshMpv.owner /\ mpv'.state = FreshMpv.state
        /\ mpv'.upNext = FreshMpv.upNext /\ mpv'.playing = FreshMpv.playing
        /\ mpv'.lingering = FreshMpv.lingering /\ mpv'.skipped = FreshMpv.skipped
        /\ mpv'.choked = FreshMpv.choked /\ mpv'.lossy = FreshMpv.lossy
        /\ \/ /\ DOMAIN adapter'.requests = DOMAIN FreshAdapter.requests \cup {request}
              /\ mpv'.commands = Append(FreshMpv.commands, command)
           \/ /\ DOMAIN adapter'.requests = DOMAIN FreshAdapter.requests
              /\ \E j \in DOMAIN adapter'.events :
                   adapter'.events[j] = Event("LoadRejected", load)
              /\ mpv'.commands = FreshMpv.commands
    BY <1>3, <2>1, IssueChanges
  <2>3. command.kind = "loadfile" /\ command.request = request
    OBVIOUS
  <2> HIDE DEF command
  <2>4. Len(issued') = request
    BY <2>1, <2>2
  <2>5. CASE /\ DOMAIN adapter'.requests = DOMAIN FreshAdapter.requests \cup {request}
             /\ mpv'.commands = Append(FreshMpv.commands, command)
    <3>1. DOMAIN adapter'.requests = {request} /\ mpv'.commands = << command >>
      BY <2>5, EmptyFacts, FreshFacts
    <3>2. DOMAIN mpv'.commands = {1} /\ Len(mpv'.commands) = 1 /\ mpv'.commands[1] = command
      BY <3>1
    <3>3. AnswerComes'
      BY <2>4, <3>1 DEF AnswerComes
    <3> QED BY <2>2, <2>3, <2>4, <3>1, <3>2, <3>3, EmptyFacts, FreshFacts, EmptyMailAnswers
  <2>6. CASE /\ DOMAIN adapter'.requests = DOMAIN FreshAdapter.requests
             /\ \E j \in DOMAIN adapter'.events : adapter'.events[j] = Event("LoadRejected", load)
             /\ mpv'.commands = FreshMpv.commands
    <3>1. AnswerComes'
      BY <2>2, <2>6 DEF AnswerComes, Event
    <3>2. DOMAIN adapter'.requests = {} /\ DOMAIN mpv'.commands = {}
      BY <2>6, EmptyFacts, FreshFacts
    <3> QED BY <2>2, <3>1, <3>2, EmptyFacts, FreshFacts, EmptyMailAnswers
  <2> QED BY <2>2, <2>5, <2>6
<1> QED BY <1>1, <1>2, <1>3

\* The viewer stops: there is no load to play, and nothing of the channel is
\* awaited.
LEMMA StopAnswers ==
  ASSUME MpvInv, MpvInv', AnswersInv, Stop PROVE AnswersInv'
<1> DEFINE a == RetireGeneration(adapter, generation)
           command == [kind |-> "stop"]
<1>1. /\ adapter' = a /\ target' = NoTarget /\ issued' = issued
      /\ mpv' = mpv \/ mpv' = [mpv EXCEPT !.commands = Append(@, command)]
  BY DEF Stop
<1>2. /\ IsMpv(mpv) /\ mpv.commands \in Seq(MpvCommands) /\ mpv.owner \in Seq(Loads)
      /\ AdapterSound(adapter, issued, mpv.owner, stopped)
  BY InvFacts
<1>3. /\ DOMAIN a.requests = {r \in DOMAIN adapter.requests : issued[r].generation # generation}
      /\ a.retired = adapter.retired \cup
           {r \in DOMAIN adapter.requests : issued[r].generation = generation}
      /\ DOMAIN a.pending = {e \in DOMAIN adapter.pending : mpv.owner[e].generation # generation}
      /\ DOMAIN a.entries = {e \in DOMAIN adapter.entries : mpv.owner[e].generation # generation}
      /\ a.started \subseteq adapter.started
  BY <1>2, RetirementChanges
<1> HIDE DEF a
<1>4. command.kind # "loadfile"
  OBVIOUS
<1> HIDE DEF command
<1>5. /\ mpv'.mail = mpv.mail /\ mpv'.owner = mpv.owner /\ mpv'.state = mpv.state
      /\ mpv'.upNext = mpv.upNext /\ mpv'.playing = mpv.playing /\ mpv'.lingering = mpv.lingering
      /\ mpv'.skipped = mpv.skipped /\ mpv'.choked = mpv.choked /\ mpv'.lossy = mpv.lossy
      /\ mpv'.commands \in {mpv.commands, Append(mpv.commands, command)}
  BY <1>1, <1>2 DEF IsMpv, MpvFields
<1>6. /\ \A k \in DOMAIN mpv.commands :
           k \in DOMAIN mpv'.commands /\ mpv'.commands[k] = mpv.commands[k]
      /\ \A k \in DOMAIN mpv'.commands : mpv'.commands[k].kind = "loadfile" =>
           k \in DOMAIN mpv.commands /\ mpv'.commands[k] = mpv.commands[k]
  <2>1. CASE mpv'.commands = mpv.commands
    BY <2>1
  <2>2. CASE mpv'.commands = Append(mpv.commands, command)
    BY <1>2, <1>4, <2>2
  <2> QED BY <1>5, <2>1, <2>2
<1>7. Leaves
  <2>1. \A e \in DOMAIN mpv.owner : mpv.owner[e] # target'
    BY <1>1, <1>2, NoTargetIsNoLoad
  <2>2. adapter'.retired \cap DOMAIN adapter'.requests = {}
    <3>1. adapter.retired \cap DOMAIN adapter.requests = {}
      BY DEF AnswersInv, MailInv, RequestsAnswered
    <3> QED BY <1>1, <1>3, <3>1
  <2> QED BY <1>1, <1>3, <1>5, <1>6, <2>1, <2>2 DEF Leaves
<1>8. ~Playing'
  BY <1>1 DEF Playing
<1>9. MailInv'
  BY <1>7, <1>8, LeavingKeepsMail DEF MailInv, LastCommand, FailureIsTold
<1>10. StartsFollow'
  BY <1>7, LeavingKeepsStarts
<1> QED BY <1>8, <1>9, <1>10 DEF AnswersInv, TargetAnswered, Unanswered, EntriesKnown, Calm

\* A step that leaves all of this alone.
LEMMA AnswersKept ==
  ASSUME AnswersInv, target' = target, adapter' = adapter, current_entry' = current_entry,
         issued' = issued, mpv' = mpv, reported' = reported
  PROVE  AnswersInv'
<1>1. MailInv'
  BY DEF AnswersInv, MailInv, RequestsAnswered, RepliesInOrder, LastCommand, FailureIsTold,
         LossIsKnown, EndsOnce, StartIsTold, Coming, Owned, Known, Playing
<1>2. \A m, i : LeadsOn(m, i)' <=> LeadsOn(m, i)
  BY DEF LeadsOn, StartComes, EndComes, Coming, Owned
<1>3. TargetAnswered'
  BY <1>2 DEF AnswersInv, TargetAnswered, Unanswered, AnswerComes, Continues, StartComes, EndComes,
              Coming, Owned, Known, Playing
<1>4. StartsFollow'
  BY DEF AnswersInv, StartsFollow, StartComes, Coming
<1>5. \A m, i : Introduced(m, i)' <=> Introduced(m, i)
  BY DEF Introduced, Acquainted, Admitted, InsertedBefore, StartedBefore, AcceptedBefore, Known, Owned
<1>6. EntriesKnown'
  BY <1>5 DEF AnswersInv, EntriesKnown, Calm, Acquainted, Admitted, InsertedBefore, StartedBefore,
              AcceptedBefore, Coming, Known, Owned, Playing
<1> QED BY <1>1, <1>3, <1>4, <1>6 DEF AnswersInv

\* Every step keeps the answer under way.
LEMMA StepAnswers ==
  ASSUME MpvInv, MpvInv', AnswersInv, [Next]_vars PROVE AnswersInv'
<1>1. CASE UNCHANGED vars
  BY <1>1, AnswersKept DEF vars, playerVars
<1>2. CASE PlayWithoutBackend
  <2>1. /\ target' = target /\ adapter' = adapter /\ current_entry' = current_entry
        /\ issued' = issued /\ mpv' = mpv /\ Deliver(<< >>)
    BY <1>2 DEF PlayWithoutBackend, playerVars
  <2>2. reported' = reported
    BY <2>1 DEF Deliver, Range
  <2> QED BY <2>1, <2>2, AnswersKept
<1>3. CASE Play \/ Stop \/ Reopen \/ Recreate
  BY <1>3, PlayAnswers, StopAnswers, ReopenAnswers, RecreateAnswers
<1>4. CASE PumpNothing \/ PumpReply \/ PumpStartFile \/ PumpRestart \/ PumpEndFile
  BY <1>4, PumpNothingAnswers, PumpReplyAnswers, PumpStartFileAnswers, PumpRestartAnswers,
     PumpEndFileAnswers
<1>5. CASE PumpLog \/ PumpShutdown \/ PumpOverflow
  BY <1>5, PumpLogAnswers, PumpShutdownAnswers, PumpOverflowAnswers
<1>6. CASE MpvRefusesLoad \/ MpvAcceptsLoad \/ MpvStops
  BY <1>6, MpvRefusesLoadAnswers, MpvAcceptsLoadAnswers, MpvStopsAnswers
<1>7. CASE \/ MpvStarts \/ MpvEndsReplaced \/ MpvEnds \/ MpvRedirects \/ MpvRestarts
           \/ MpvLogs \/ MpvShutsDown
  <2>1. PICK event : Runs(event)
    BY <1>7, MpvStartsRuns, MpvEndsReplacedRuns, MpvEndsRuns, MpvRedirectsRuns, MpvRestartsRuns,
       MpvLogsRuns, MpvShutsDownRuns
  <2> QED BY <2>1, RunKeepsAnswers
<1> QED BY <1>1, <1>2, <1>3, <1>4, <1>5, <1>6, <1>7 DEF Next

\* Before the first channel nothing is owed.
LEMMA InitAnswers == Init => AnswersInv
<1> SUFFICES ASSUME Init PROVE AnswersInv
  OBVIOUS
<1>1. /\ ~Playing /\ adapter = FreshAdapter /\ mpv = FreshMpv
  BY DEF Init, Playing
<1>2. /\ DOMAIN mpv.mail = {} /\ mpv.upNext = 0 /\ mpv.playing = 0 /\ mpv.lingering = 0
      /\ ~mpv.choked /\ DOMAIN adapter.requests = {} /\ DOMAIN adapter.pending = {}
      /\ adapter.started = {} /\ adapter.retired = {}
  BY <1>1, FreshFacts, EmptyFacts
<1>3. MailInv
  BY <1>1, <1>2 DEF MailInv, RequestsAnswered, RepliesInOrder, LastCommand, FailureIsTold,
                    LossIsKnown, EndsOnce, StartIsTold, NoEntry
<1> QED BY <1>1, <1>2, <1>3 DEF AnswersInv, TargetAnswered, Unanswered, StartsFollow, EntriesKnown,
                                Calm

\* When libmpv is silent and idle, the session has been told what became of the
\* load to play: that it was refused, ended or lost its backend.  And when its
\* picture runs, with no event lost and no load dropped on the way, its first
\* start has been told: whatever was replaced, redirected, stopped or recreated
\* in between, the session need not wait for a stall to time out
\* (MpvPlayer::pump_events over PlayerEventAdapter).
THEOREM NothingIsEverLost == Spec => []NothingIsLost
<1>1. Init => AnswersInv
  BY InitAnswers
<1>2. MpvInv /\ MpvInv' /\ AnswersInv /\ [Next]_vars => AnswersInv'
  BY StepAnswers
<1>3. MpvInv /\ AnswersInv => NothingIsLost
  BY NothingIsLostHolds
<1> QED BY <1>1, <1>2, <1>3, InvHolds, PTL DEF Spec
=============================================================================
