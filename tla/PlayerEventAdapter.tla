------------------------ MODULE PlayerEventAdapter ------------------------
(***************************************************************************)
(* The event adapter of the player (player/player_event_adapter.cpp) as a  *)
(* record and one operator per method, each giving the adapter's next      *)
(* state.  A load is correlated twice: from the request of its loadfile    *)
(* to the playlist entry in the reply, and from that entry to the events   *)
(* libmpv reports for it.  Property requests are in BufferPhase: the two   *)
(* correlations share the sequence of request ids and nothing else.        *)
(***************************************************************************)
EXTENDS Naturals, Sequences, FiniteSets, Functions, Subsequences

NoEntry == 0                    \* playlist entries start at 1

Empty == << >>                  \* a map with no keys

Without(map, keys) == Restrict(map, DOMAIN map \ keys)

Put(map, key, value) ==
  [k \in DOMAIN map \cup {key} |-> IF k = key THEN value ELSE map[k]]

\* The keys under which a map holds a load of the generation.
OfGeneration(map, g) == {k \in DOMAIN map : map[k].generation = g}

Event(kind, load) == [kind |-> kind, load |-> load]

\* The events about other generations, in their order.
Spared(events, g) ==
  MembersAt(events, {i \in DOMAIN events : events[i].load.generation # g})

FreshAdapter ==
  [requests |-> Empty,          \* load_requests_: request -> load
   pending  |-> Empty,          \* pending_entries_: entry -> load
   retired  |-> {},             \* retired_load_requests_
   entries  |-> Empty,          \* entries_: entry -> load
   stops    |-> Empty,          \* stop_intents_: entry -> generation
   started  |-> {},             \* entries whose first_started_ is true
   active   |-> NoEntry,        \* active_entry_
   failureReported |-> FALSE,   \* backend_failure_reported_
   events   |-> << >>]          \* events_, the journal

-----------------------------------------------------------------------------
Journal(a, kind, load) == [a EXCEPT !.events = Append(@, Event(kind, load))]

HasPendingLoad(a) == DOMAIN a.requests # {} \/ DOMAIN a.pending # {}

ActiveGenerations(a) ==         \* active_generation(): at most one member
  {a.entries[e].generation : e \in {a.active} \cap DOMAIN a.entries}

ClearCorrelations(a) ==
  [FreshAdapter EXCEPT !.failureReported = a.failureReported,
                       !.events = a.events]

TrackLoad(a, request, load) ==
  [a EXCEPT !.requests = Put(@, request, load), !.failureReported = FALSE]

\* Mutant: a settled request stays correlated.
RequestStays(a, request, accepted, entry) ==
  IF request \notin DOMAIN a.requests THEN a
  ELSE [Journal(a, IF accepted THEN "LoadAccepted" ELSE "LoadRejected",
                a.requests[request]) EXCEPT
          !.pending = IF accepted THEN Put(@, entry, a.requests[request])
                      ELSE @]

\* An accepted reply names the playlist entry; a rejected one does not.
CommandResult(a, request, accepted, entry) ==
  IF request \in a.retired
  THEN [a EXCEPT !.retired = @ \ {request}]
  ELSE IF request \notin DOMAIN a.requests THEN a
  ELSE LET load == a.requests[request]
           kind == IF accepted THEN "LoadAccepted" ELSE "LoadRejected"
       IN  [Journal(a, kind, load) EXCEPT
              !.pending = IF accepted THEN Put(@, entry, load) ELSE @,
              !.requests = Without(@, {request})]

CommandRejectedImmediately(a, request) ==
  CommandResult(a, request, FALSE, NoEntry)

AcceptsStart(a, entry) ==       \* what start_file returns
  entry \in DOMAIN a.pending \cup DOMAIN a.entries

\* The entry being replaced ends on purpose, on behalf of its own generation.
ReplacedStops(a) ==
  IF a.active \in DOMAIN a.entries
  THEN Put(a.stops, a.active, a.entries[a.active].generation)
  ELSE a.stops

\* Mutant: a start consumes the oldest pending load, by queue position.
StartByPosition(a, entry) ==
  IF ~AcceptsStart(a, entry) \/ DOMAIN a.pending = {} THEN a
  ELSE LET oldest == CHOOSE e \in DOMAIN a.pending :
                       \A other \in DOMAIN a.pending : e <= other
       IN  [a EXCEPT !.entries = Put(@, entry, a.pending[oldest]),
                     !.pending = Without(@, {oldest}),
                     !.started = @ \ {entry}, !.active = entry]

StartFile(a, entry) ==
  IF ~AcceptsStart(a, entry) THEN a
  ELSE LET begun == IF entry \in DOMAIN a.pending
                    THEN [a EXCEPT
                            !.stops = ReplacedStops(a),
                            !.entries = Put(@, entry, a.pending[entry]),
                            !.pending = Without(@, {entry})]
                    ELSE a
       IN  [begun EXCEPT !.started = @ \ {entry}, !.active = entry]

\* A restart is the first start of its entry's load unless a queued
\* replacement owns that edge.
IsFirstStart(a, entry) ==
  /\ entry \in DOMAIN a.entries
  /\ entry \notin a.started
  /\ ~HasPendingLoad(a)

\* Mutant: the start is not remembered.
RestartForgotten(a, entry) ==
  IF IsFirstStart(a, entry)
  THEN Journal(a, "FirstStart", a.entries[entry]) ELSE a

PlaybackRestart(a, entry) ==
  IF IsFirstStart(a, entry)
  THEN [Journal(a, "FirstStart", a.entries[entry]) EXCEPT
          !.started = @ \cup {entry}]
  ELSE a

\* Mutant: the load does not follow its redirect.
InheritsNothing(entries, inserted, load) == entries

\* The entries a redirect inserts inherit the load of the one it replaces.
Inherits(entries, inserted, load) ==
  [e \in DOMAIN entries \cup inserted |->
     IF e \in inserted THEN load ELSE entries[e]]

\* An end reports the intent of a stop where one was recorded.
EndReport(a, entry, reason) ==
  LET load == a.entries[entry]
  IN  IF entry \in DOMAIN a.stops
      THEN Event("Stopped", [load EXCEPT !.generation = a.stops[entry]])
      ELSE Event(reason, load)

EndFile(a, entry, reason, inserted) ==
  IF entry \notin DOMAIN a.entries THEN a
  ELSE [a EXCEPT
          !.events  = Append(@, EndReport(a, entry, reason)),
          !.entries = Without(Inherits(@, inserted, a.entries[entry]), {entry}),
          !.stops   = Without(@, {entry}),
          !.started = @ \ {entry},
          !.active  = IF @ = entry THEN NoEntry ELSE @]

BackendFailed(a, load) ==
  IF a.failureReported THEN a
  ELSE ClearCorrelations([Journal(a, "BackendFailed", load) EXCEPT
                            !.failureReported = TRUE])

\* authentication_rejected and transport_failure.
ExactFailure(a, load) == Journal(a, "ExactFailure", load)

\* Mutant: a loadfile that has not started survives the stop.
RetireStartedOnly(a, g) ==
  [a EXCEPT !.entries = Without(@, OfGeneration(@, g)),
            !.stops = Without(@, OfGeneration(a.entries, g)),
            !.started = @ \ OfGeneration(a.entries, g),
            !.active = IF @ \in OfGeneration(a.entries, g) THEN NoEntry ELSE @,
            !.events = Spared(@, g)]

RetireGeneration(a, g) ==
  LET requests == OfGeneration(a.requests, g)
      entries  == OfGeneration(a.entries, g)
  IN  [a EXCEPT
         !.retired  = @ \cup requests,
         !.requests = Without(@, requests),
         !.pending  = Without(@, OfGeneration(@, g)),
         !.entries  = Without(@, entries),
         !.stops    = Without(@, entries),
         !.started  = @ \ entries,
         !.active   = IF @ \in entries THEN NoEntry ELSE @,
         !.events   = Spared(@, g)]

Drain(a) == [a EXCEPT !.events = << >>]
=============================================================================
