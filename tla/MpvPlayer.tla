----------------------------- MODULE MpvPlayer -----------------------------
(***************************************************************************)
(* The load path of the player (player/mpv_player.cpp) over the event      *)
(* adapter, composed with libmpv: commands travel to it asynchronously,    *)
(* and it answers through one event queue that the UI thread pumps once    *)
(* per turn, handing the session what the adapter has journaled.  Between  *)
(* turns the UI thread plays, stops, reopens and recreates.                *)
(*                                                                         *)
(* A turn here handles one event.  A turn that handles several is a run of *)
(* such turns: libmpv may always have answered that late.                  *)
(*                                                                         *)
(* libmpv is external.  `mpv' is what the player may rely on: commands run *)
(* in order, a reply precedes the events of its entry, an entry's events   *)
(* lie between its start and its end, at most one entry plays, a redirect  *)
(* happens before playback, a full queue loses events and says so once it  *)
(* has been emptied.  The entry an event is about is known only where the  *)
(* client API tells it; mpv.owner and `issued' are for properties.         *)
(***************************************************************************)
EXTENDS PlayerEventAdapter

CONSTANTS
  QueueCapacity,        \* events libmpv queues before it loses some
  MaxGeneration,        \* bound: channels played
  MaxLoad,              \* bound: loads of a channel
  MaxRequests,          \* bound: loadfile commands
  MaxEntries            \* bound: playlist entries of one backend

ASSUME MpvAssumption ==
  /\ QueueCapacity \in Nat \ {0}
  /\ MaxGeneration \in Nat /\ MaxLoad \in Nat \ {0}
  /\ MaxRequests \in Nat /\ MaxEntries \in Nat

VARIABLES
  generation,           \* PlaybackSession::generation_, the latest channel
  target,               \* target_: the load the player is to play
  adapter,              \* events_
  current_entry,        \* current_entry_id_
  armed,                \* transport_log_armed_
  classified,           \* transport_classification_reported_
  issued,               \* request_sequence_, and the load of each request
  mpv,                  \* libmpv
  delivered,            \* what take_events returns in this step
  reported,             \* history: kinds of events delivered about target
  stopped               \* history: generations stopped by the viewer

playerVars == <<target, current_entry, armed, classified>>
vars == <<generation, playerVars, adapter, issued, mpv, delivered, reported,
          stopped>>

NoLoad     == 0                 \* load attempts start at 1
Load(g, n) == [generation |-> g, load |-> n]
NoTarget   == Load(0, NoLoad)   \* target_ without a value
Loads      == {Load(g, n) : g \in 1 .. MaxGeneration, n \in 1 .. MaxLoad}

Playing == target # NoTarget

AbsentMpv ==
  [state |-> "Absent",          \* mpv_ is null; else "Up", or "Down" once
                                \* libmpv has shut itself down
   commands |-> << >>, mail |-> << >>,
   upNext |-> NoEntry,          \* accepted, not started
   playing |-> NoEntry, restarted |-> FALSE,
   lingering |-> NoEntry,       \* replaced, its end not yet reported
   owner |-> << >>,             \* the load of each entry
   skipped |-> FALSE,           \* history: it has dropped an entry before its
                                \* start that the viewer has not stopped
   choked |-> FALSE, lossy |-> FALSE]

FreshMpv == [AbsentMpv EXCEPT !.state = "Up"]

Init ==
  /\ generation = 0 /\ target = NoTarget
  /\ adapter = FreshAdapter /\ current_entry = NoEntry
  /\ armed = FALSE /\ classified = FALSE
  /\ issued = << >> /\ mpv = FreshMpv
  /\ delivered = << >> /\ reported = {} /\ stopped = {}

-----------------------------------------------------------------------------
\* What the session is handed in this step.
Deliver(events) ==
  /\ delivered' = events
  /\ reported' = (IF target' = target THEN reported ELSE {}) \cup
       {event.kind : event \in {e \in Range(events) : e.load = target'}}

(* Commands of the UI thread.  issue_load may be refused on the spot.      *)

IssueLoad(load, a, m) ==
  /\ Len(issued) < MaxRequests
  /\ issued' = Append(issued, load)
  /\ target' = load
  /\ armed' = FALSE /\ classified' = FALSE
  /\ LET request == Len(issued) + 1
         tracked == TrackLoad(a, request, load)
     IN  \/ /\ adapter' = tracked
            /\ mpv' = [m EXCEPT !.commands = Append(@,
                         [kind |-> "loadfile", request |-> request])]
         \/ /\ adapter' = CommandRejectedImmediately(tracked, request)
            /\ mpv' = m

Play ==
  /\ generation < MaxGeneration /\ mpv.state # "Absent"
  /\ generation' = generation + 1
  /\ IssueLoad(Load(generation + 1, 1), adapter, mpv)
  /\ UNCHANGED <<current_entry, stopped>>
  /\ Deliver(<< >>)

\* A channel chosen while there is no backend leaves the target as it was.
PlayWithoutBackend ==
  /\ generation < MaxGeneration /\ mpv.state = "Absent"
  /\ generation' = generation + 1
  /\ UNCHANGED <<playerVars, adapter, issued, mpv, stopped>>
  /\ Deliver(<< >>)

Stop ==
  /\ Playing /\ target.generation = generation
  /\ adapter' = RetireGeneration(adapter, generation)
  /\ target' = NoTarget /\ current_entry' = NoEntry
  /\ armed' = FALSE /\ classified' = FALSE
  /\ mpv' = IF mpv.state = "Absent" THEN mpv
            ELSE [mpv EXCEPT !.commands = Append(@, [kind |-> "stop"])]
  /\ stopped' = stopped \cup {generation}
  /\ UNCHANGED <<generation, issued>>
  /\ Deliver(<< >>)

Reopen ==
  /\ Playing /\ target.generation = generation
  /\ mpv.state # "Absent" /\ target.load < MaxLoad
  /\ IssueLoad([target EXCEPT !.load = @ + 1], adapter, mpv)
  /\ UNCHANGED <<generation, current_entry, stopped>>
  /\ Deliver(<< >>)

\* The backend is destroyed first, and a new one may fail to initialize.
Recreate ==
  /\ Playing /\ target.generation = generation
  /\ target.load < MaxLoad
  /\ current_entry' = NoEntry
  /\ \/ IssueLoad([target EXCEPT !.load = @ + 1], FreshAdapter, FreshMpv)
     \/ /\ adapter' = FreshAdapter /\ mpv' = AbsentMpv
        /\ UNCHANGED <<target, armed, classified, issued>>
  /\ UNCHANGED <<generation, stopped>>
  /\ Deliver(<< >>)

-----------------------------------------------------------------------------
(* The UI thread's turn: pump, then take_events.                           *)

Turn(a) ==
  /\ UNCHANGED <<generation, target, issued, stopped>>
  /\ adapter' = Drain(a)
  /\ Deliver(a.events)

Received(kind) == mpv.mail # << >> /\ Head(mpv.mail).kind = kind

Take == mpv' = [mpv EXCEPT !.mail = Tail(@)]

\* Nothing to pump: a command refused on the spot is delivered all the same.
PumpNothing ==
  /\ mpv.mail = << >> /\ ~mpv.choked /\ adapter.events # << >>
  /\ Turn(adapter)
  /\ UNCHANGED <<mpv, current_entry, armed, classified>>

PumpReply ==
  /\ Received("Reply") /\ Take
  /\ LET reply == Head(mpv.mail)
     IN  Turn(CommandResult(adapter, reply.request, reply.accepted,
                            reply.entry))
  /\ UNCHANGED <<current_entry, armed, classified>>

PumpStartFile ==
  /\ Received("Start") /\ Take
  /\ LET entry == Head(mpv.mail).entry
     IN  /\ Turn(StartFile(adapter, entry))
         /\ IF AcceptsStart(adapter, entry)
            THEN current_entry' = entry /\ armed' = TRUE
            ELSE UNCHANGED <<current_entry, armed>>
  /\ UNCHANGED classified

\* The event does not say which entry restarted.
PumpRestart ==
  /\ Received("Restart") /\ Take
  /\ Turn(PlaybackRestart(adapter, current_entry))
  /\ UNCHANGED <<current_entry, armed, classified>>

PumpEndFile ==
  /\ Received("End") /\ Take
  /\ LET end == Head(mpv.mail)
     IN  Turn(EndFile(adapter, end.entry, end.reason, end.inserted))
  /\ UNCHANGED <<current_entry, armed, classified>>

\* Mutant: the generation of the active entry is not compared.
AttributedToAny == armed /\ Playing

\* classify_engine_message_attribution: the message names no entry.
Attributed ==
  /\ armed /\ Playing
  /\ target.generation \in ActiveGenerations(adapter)

\* A log line that classify_transport_log recognizes; others change nothing.
PumpLog ==
  /\ Received("Log") /\ Take
  /\ IF Attributed /\ ~classified
     THEN Turn(ExactFailure(adapter, target)) /\ classified' = TRUE
     ELSE Turn(adapter) /\ UNCHANGED classified
  /\ UNCHANGED <<current_entry, armed>>

PumpShutdown ==
  /\ Received("Shutdown") /\ Take
  /\ Turn(BackendFailed(adapter, target))
  /\ UNCHANGED <<current_entry, armed, classified>>

PumpOverflow ==
  /\ mpv.choked /\ mpv.mail = << >>
  /\ mpv' = [mpv EXCEPT !.choked = FALSE]
  /\ Turn(BackendFailed(adapter, target))
  /\ UNCHANGED <<current_entry, armed, classified>>

-----------------------------------------------------------------------------
(* libmpv.                                                                 *)

\* An event is lost when the queue is full; a reply has its place reserved.
Post(m, event) ==
  IF m.choked \/ Len(m.mail) >= QueueCapacity
  THEN [m EXCEPT !.choked = TRUE, !.lossy = TRUE]
  ELSE [m EXCEPT !.mail = Append(@, event)]

About(kind, entry) == [kind |-> kind, entry |-> entry]

EndOf(entry, reason, inserted) ==
  [kind |-> "End", entry |-> entry, reason |-> reason, inserted |-> inserted]

Reply(request, accepted, entry) ==
  [kind |-> "Reply", request |-> request, accepted |-> accepted,
   entry |-> entry]

NewEntry == Len(mpv.owner) + 1

\* A step of libmpv's core: nothing of the player changes.
MpvCore ==
  /\ mpv.state = "Up"
  /\ UNCHANGED <<generation, playerVars, adapter, issued, stopped>>
  /\ Deliver(<< >>)

Pending(kind) == mpv.commands # << >> /\ Head(mpv.commands).kind = kind

MpvRefusesLoad ==
  /\ MpvCore
  /\ Pending("loadfile")
  /\ mpv' = [mpv EXCEPT
       !.commands = Tail(@),
       !.mail = Append(@, Reply(Head(mpv.commands).request, FALSE, NoEntry))]

MpvAcceptsLoad ==
  /\ MpvCore
  /\ Pending("loadfile") /\ NewEntry <= MaxEntries
  /\ LET request == Head(mpv.commands).request
     IN  mpv' = [mpv EXCEPT
           !.commands = Tail(@),
           !.upNext = NewEntry,
           !.skipped = @ \/ mpv.upNext # NoEntry,
           !.owner = Append(@, issued[request]),
           !.mail = Append(@, Reply(request, TRUE, NewEntry))]

MpvStops ==
  /\ MpvCore
  /\ Pending("stop")
  /\ LET idle == [mpv EXCEPT
           !.commands = Tail(@), !.upNext = NoEntry, !.playing = NoEntry,
           !.skipped = @ \/ (/\ mpv.upNext # NoEntry
                             /\ mpv.owner[mpv.upNext].generation \notin stopped)]
     IN  mpv' = IF mpv.playing = NoEntry THEN idle
                ELSE Post(idle, EndOf(mpv.playing, "Stop", {}))

\* The start of a replacement may come before the end of what it replaces.
MpvStarts ==
  /\ MpvCore
  /\ mpv.upNext # NoEntry /\ mpv.lingering = NoEntry
  /\ mpv' = Post([mpv EXCEPT !.upNext = NoEntry, !.playing = mpv.upNext,
                             !.lingering = mpv.playing, !.restarted = FALSE],
                 About("Start", mpv.upNext))

MpvEndsReplaced ==
  /\ MpvCore
  /\ mpv.lingering # NoEntry
  /\ mpv' = Post([mpv EXCEPT !.lingering = NoEntry],
                 EndOf(mpv.lingering, "Stop", {}))

MpvEnds ==
  /\ MpvCore
  /\ mpv.playing # NoEntry
  /\ LET reason == IF mpv.upNext = NoEntry THEN "Ended" ELSE "Stop"
     IN  mpv' = Post([mpv EXCEPT !.playing = NoEntry],
                     EndOf(mpv.playing, reason, {}))

MpvRedirects ==
  /\ MpvCore
  /\ mpv.playing # NoEntry /\ ~mpv.restarted /\ mpv.upNext = NoEntry
  /\ NewEntry <= MaxEntries
  /\ mpv' = Post([mpv EXCEPT !.playing = NoEntry, !.upNext = NewEntry,
                             !.owner = Append(@, @[mpv.playing])],
                 EndOf(mpv.playing, "Redirect", {NewEntry}))

\* Bound: an event that repeats the one before it in the queue is not posted
\* again; the player handles a restart or a log line alike once or twice.
Fresh(event) ==
  LET n == Len(mpv.mail) IN n > 0 => mpv.mail[n] # event

MpvRestarts ==
  /\ MpvCore
  /\ mpv.playing # NoEntry /\ Fresh(About("Restart", mpv.playing))
  /\ mpv' = Post([mpv EXCEPT !.restarted = TRUE],
                 About("Restart", mpv.playing))

MpvLogs ==
  /\ MpvCore
  /\ mpv.playing # NoEntry /\ Fresh(About("Log", mpv.playing))
  /\ mpv' = Post(mpv, About("Log", mpv.playing))

MpvShutsDown ==
  /\ MpvCore
  /\ mpv' = [Post(mpv, [kind |-> "Shutdown"]) EXCEPT !.state = "Down"]

Next ==
  \/ Play \/ PlayWithoutBackend \/ Stop \/ Reopen \/ Recreate
  \/ PumpNothing \/ PumpReply \/ PumpStartFile \/ PumpRestart \/ PumpEndFile
  \/ PumpLog \/ PumpShutdown \/ PumpOverflow
  \/ MpvRefusesLoad \/ MpvAcceptsLoad \/ MpvStops \/ MpvStarts
  \/ MpvEndsReplaced \/ MpvEnds \/ MpvRedirects \/ MpvRestarts \/ MpvLogs
  \/ MpvShutsDown

Spec == Init /\ [][Next]_vars
-----------------------------------------------------------------------------
(* Properties.                                                             *)

EventKinds == {"LoadAccepted", "LoadRejected", "FirstStart", "Stopped",
               "Ended", "Stop", "Redirect", "BackendFailed", "ExactFailure"}

Events == [kind : EventKinds, load : Loads \cup {NoTarget}]

Requests == 1 .. Len(issued)
Entries  == 1 .. Len(mpv.owner)

\* Maps from some of the keys to values of the set.
PartialMap(map, keys, values) ==
  map \in [DOMAIN map -> values] /\ DOMAIN map \subseteq keys

\* Every variable has its type; the maps of the adapter hold requests and
\* entries that exist.
TypeOK ==
  /\ generation \in 0 .. MaxGeneration
  /\ target \in Loads \cup {NoTarget}
  /\ issued \in Seq(Loads) /\ mpv.owner \in Seq(Loads)
  /\ PartialMap(adapter.requests, Requests, Loads)
  /\ PartialMap(adapter.pending, Entries, Loads)
  /\ PartialMap(adapter.entries, Entries, Loads)
  /\ PartialMap(adapter.stops, DOMAIN adapter.entries, 1 .. MaxGeneration)
  /\ adapter.retired \subseteq Requests
  /\ adapter.started \subseteq DOMAIN adapter.entries
  /\ adapter.active \in DOMAIN adapter.entries \cup {NoEntry}
  /\ adapter.failureReported \in BOOLEAN
  /\ adapter.events \in Seq(Events)
  /\ current_entry \in Nat
  /\ {armed, classified} \subseteq BOOLEAN /\ delivered \in Seq(Events)
  /\ reported \subseteq EventKinds /\ stopped \subseteq 1 .. MaxGeneration

(* A request and a playlist entry are always credited with the very load   *)
(* that caused them, through late replies, redirects and replacements; so  *)
(* the end of a load given up is never taken for the end of the current    *)
(* one (the promise of player_event_adapter.hpp's two correlations).       *)
CorrelationSound ==
  /\ TypeOK
  /\ \A r \in DOMAIN adapter.requests : adapter.requests[r] = issued[r]
  /\ \A e \in DOMAIN adapter.pending : adapter.pending[e] = mpv.owner[e]
  /\ \A e \in DOMAIN adapter.entries : adapter.entries[e] = mpv.owner[e]

Delivers(event) == event \in Range(delivered')

(* What names no load is taken for the right one.  The first start of the  *)
(* load to be played is journaled once, and on a restart of an entry of    *)
(* that load: the late restart of a replaced entry is not taken for the    *)
(* first frame of its replacement (the fence of playback_restart).  (A     *)
(* load the viewer has left may be credited with a later one's restart;    *)
(* the session drops what is not about the current load.)  And a diagnosis *)
(* read from libmpv's log is charged to the channel that wrote the line,   *)
(* never to the one the viewer has since changed to.                       *)
EvidenceIsOwn ==
  [][LET owner == mpv.owner[Head(mpv.mail).entry] IN
     /\ Delivers(Event("FirstStart", target)) =>
          target = owner /\ "FirstStart" \notin reported
     /\ Delivers(Event("ExactFailure", target)) =>
          target.generation = owner.generation]_vars

(* Once the viewer has stopped a channel nothing about it is delivered any *)
(* more, whatever libmpv still answers: not a reply, a start, an end or a  *)
(* diagnosis (the fences of retire_generation).                            *)
StoppedStaysSilent ==
  \A event \in Range(delivered) : event.load.generation \notin stopped

(* What the session is told is about the load that caused it, and never    *)
(* about a channel that was stopped.                                       *)
EventsOfTheRightLoad == CorrelationSound /\ StoppedStaysSilent

Outcomes == {"LoadRejected", "Ended", "Stop", "Stopped", "BackendFailed"}

\* libmpv has nothing left to run, to play or to tell.
Quiet ==
  /\ mpv.state = "Up" /\ mpv.commands = << >> /\ mpv.mail = << >>
  /\ mpv.upNext = NoEntry /\ mpv.playing = NoEntry
  /\ mpv.lingering = NoEntry /\ ~mpv.choked /\ adapter.events = << >>

(* A load never disappears: when libmpv has fallen silent and idle, the    *)
(* load the player is to play has been refused, has ended or has lost its  *)
(* backend, and the journal has said so; the session need not wait for a   *)
(* stall timeout.                                                          *)
SilenceIsExplained ==
  Playing /\ Quiet => reported \cap Outcomes # {}

\* The target's entry plays and every event about it has been handled.
Showing ==
  /\ mpv.state = "Up" /\ mpv.commands = << >> /\ mpv.mail = << >>
  /\ mpv.upNext = NoEntry /\ mpv.playing # NoEntry /\ mpv.restarted
  /\ mpv.owner[mpv.playing] = target

(* When the target's picture is running and no event was lost, its first   *)
(* start has been journaled: without it the supervisor reports an open     *)
(* stall of a channel that plays.                                          *)
FirstStartReported ==
  Showing /\ ~mpv.lossy => "FirstStart" \in reported

(* The same as long as libmpv has started every load it accepted and the   *)
(* viewer did not stop: an event of a replaced, redirected or retired load *)
(* never costs the first start of a later one.                             *)
FirstStartReportedInOrder ==
  Showing /\ ~mpv.lossy /\ ~mpv.skipped => "FirstStart" \in reported

(* Nothing the session waits for is lost: neither the end of a load nor    *)
(* its first start.                                                        *)
NothingIsLost == SilenceIsExplained /\ FirstStartReportedInOrder

(* The diagnosis is charged to the load that wrote the line, also while    *)
(* one load of a channel replaces another (what playback_observability.hpp *)
(* says of the replacement window).                                        *)
DiagnosisOfOwnLoad ==
  [][Delivers(Event("ExactFailure", target)) =>
       target = mpv.owner[Head(mpv.mail).entry]]_vars

\* swapchain_publication_allowed, for a swap chain that is present.
PublicationAllowed == adapter.active # NoEntry

(* After Stop no swap chain can be attached until a channel is chosen      *)
(* again: a reconfiguration of the video output finds no active entry      *)
(* (what the comment on VIDEO_RECONFIG in pump says).                      *)
StoppedShowsNothing == ~Playing => ~PublicationAllowed
=============================================================================
