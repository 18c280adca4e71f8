-------------------------- MODULE MpvPlayerProofs --------------------------
(***************************************************************************)
(* The player and libmpv, whatever the number of channels, loads, requests and *)
(* entries and the length of the queue: an event that the session is handed *)
(* about the load to play is about that load.                              *)
(*                                                                         *)
(* First, what each operation of the event adapter                         *)
(* (player/player_event_adapter.cpp) keeps: a correlation credits the load that *)
(* its request or its entry is of, nothing is kept or journaled about a    *)
(* generation that was retired, and each operation journals no more than it may. *)
(*                                                                         *)
(* Then the player.  An event names an entry or nothing at all; a restart and a *)
(* log line name nothing, and the player credits them to the entry it believes *)
(* to be current.  That this is right rests on the order of things.  Loads are *)
(* issued in order, entries are accepted in the order of their loads, and they *)
(* start in their order: what the player has taken for started, what is in the *)
(* mail and what plays.  So an entry of the load to play that the player   *)
(* believes in is not followed by one of another load.  And a first start is *)
(* told only once the load has nothing left that may start.                *)
(***************************************************************************)
EXTENDS MpvPlayer, SubsequenceProofs

AdapterFields == {"requests", "pending", "retired", "entries", "stops", "started", "active",
                  "failureReported", "events"}
IsAdapter(a) == a = [f \in AdapterFields |-> a[f]]

\* What a map holds is what the loads are.
Credits(map, loads, silenced) ==
  /\ map = [k \in DOMAIN map |-> loads[k]] /\ DOMAIN map \subseteq DOMAIN loads
  /\ \A k \in DOMAIN map : map[k].generation \notin silenced

JournalSound(a, silenced) ==
  /\ a.events \in Seq(Events)
  /\ \A i \in DOMAIN a.events : a.events[i].load.generation \notin silenced

\* The adapter, of the loads requested and those owning an entry.
AdapterSound(a, requested, owned, silenced) ==
  /\ IsAdapter(a)
  /\ Credits(a.requests, requested, silenced)
  /\ Credits(a.pending, owned, silenced)
  /\ Credits(a.entries, owned, silenced)
  /\ DOMAIN a.stops \subseteq DOMAIN a.entries
  /\ a.stops = [e \in DOMAIN a.stops |-> owned[e].generation]
  /\ a.retired \subseteq DOMAIN requested
  /\ a.started \subseteq DOMAIN a.entries
  /\ a.active \in DOMAIN a.entries \cup {NoEntry}
  /\ a.failureReported \in BOOLEAN
  /\ JournalSound(a, silenced)

\* Writing what a key is holds no more and no less than the key besides.
LEMMA PutCredits ==
  ASSUME NEW map, NEW loads, NEW silenced, Credits(map, loads, silenced),
         NEW key \in DOMAIN loads, loads[key].generation \notin silenced
  PROVE  /\ Credits(Put(map, key, loads[key]), loads, silenced)
         /\ DOMAIN Put(map, key, loads[key]) = DOMAIN map \cup {key}
BY DEF Credits, Put

\* A map with keys erased still credits what it holds.
LEMMA WithoutCredits ==
  ASSUME NEW map, NEW loads, NEW silenced, Credits(map, loads, silenced),
         NEW keys
  PROVE  /\ Credits(Without(map, keys), loads, silenced)
         /\ DOMAIN Without(map, keys) = DOMAIN map \ keys
BY DEF Credits, Without, Restrict

\* A journal takes one more event about a load that is not silenced.
LEMMA JournalKeeps ==
  ASSUME NEW a, NEW silenced, JournalSound(a, silenced), NEW event \in Events,
         event.load.generation \notin silenced, NEW b, b.events = Append(a.events, event)
  PROVE  JournalSound(b, silenced)
BY DEF JournalSound

\* A load is tracked from its request (track_load).
LEMMA TrackLoadSound ==
  ASSUME NEW a, NEW requested, NEW owned, NEW silenced, AdapterSound(a, requested, owned, silenced),
         NEW request \in DOMAIN requested, requested[request].generation \notin silenced
  PROVE  LET b == TrackLoad(a, request, requested[request])
         IN  /\ AdapterSound(b, requested, owned, silenced)
             /\ b.events = a.events /\ b.active = a.active /\ b.entries = a.entries
             /\ b.started = a.started
<1> DEFINE b == TrackLoad(a, request, requested[request])
<1>1. /\ IsAdapter(b) /\ b.requests = Put(a.requests, request, requested[request])
      /\ b.pending = a.pending /\ b.entries = a.entries /\ b.stops = a.stops
      /\ b.retired = a.retired /\ b.started = a.started /\ b.active = a.active
      /\ b.events = a.events
  BY DEF AdapterSound, IsAdapter, AdapterFields, TrackLoad
<1>2. b.failureReported \in BOOLEAN
  BY DEF AdapterSound, IsAdapter, AdapterFields, TrackLoad
<1> HIDE DEF b
<1>3. Credits(b.requests, requested, silenced)
  <2>1. Credits(a.requests, requested, silenced)
    BY DEF AdapterSound
  <2>2. b.requests = Put(a.requests, request, requested[request])
    BY <1>1
  <2>3. /\ Credits(Put(a.requests, request, requested[request]), requested, silenced)
    BY <2>1, PutCredits
  <2> QED BY <2>2, <2>3
<1> QED BY <1>1, <1>2, <1>3 DEF AdapterSound, JournalSound, b

\* What a reply changes of the adapter a, giving b.
ReplyEffect(a, b, accepted) ==
  /\ b.active = a.active /\ b.entries = a.entries /\ b.started = a.started
  /\ \/ b.events = a.events
     \/ \E kind \in {"LoadAccepted", "LoadRejected"}, load \in Loads :
          /\ b.events = Append(a.events, Event(kind, load))
          /\ ~accepted => kind = "LoadRejected"

\* A reply settles its request, and one that accepts it correlates the entry it
\* names with the load of the request (command_result).
LEMMA CommandResultSound ==
  ASSUME NEW a, NEW requested, NEW owned, NEW silenced, AdapterSound(a, requested, owned, silenced),
         requested \in Seq(Loads), NEW request, NEW accepted, NEW entry,
         accepted /\ request \in DOMAIN requested =>
           entry \in DOMAIN owned /\ owned[entry] = requested[request]
  PROVE  LET b == CommandResult(a, request, accepted, entry)
         IN  /\ AdapterSound(b, requested, owned, silenced)
             /\ ReplyEffect(a, b, accepted)
<1> DEFINE b == CommandResult(a, request, accepted, entry)
           load == a.requests[request]
           kind == IF accepted THEN "LoadAccepted" ELSE "LoadRejected"
<1>1. CASE request \in a.retired
  <2>1. /\ IsAdapter(b) /\ b.requests = a.requests
        /\ b.pending = a.pending /\ b.entries = a.entries /\ b.stops = a.stops
        /\ b.retired = a.retired \ {request} /\ b.started = a.started /\ b.active = a.active
        /\ b.events = a.events
    BY <1>1 DEF AdapterSound, IsAdapter, AdapterFields, CommandResult
  <2>2. b.failureReported \in BOOLEAN
    BY <1>1 DEF AdapterSound, IsAdapter, AdapterFields, CommandResult
  <2> HIDE DEF b
  <2> QED BY <2>1, <2>2 DEF AdapterSound, JournalSound, ReplyEffect, b
<1>2. CASE request \notin a.retired /\ request \notin DOMAIN a.requests
  <2>1. b = a
    BY <1>2 DEF CommandResult
  <2> QED BY <2>1 DEF ReplyEffect
<1>3. CASE request \notin a.retired /\ request \in DOMAIN a.requests
  <2>1. /\ IsAdapter(b) /\ b.requests = Without(a.requests, {request})
        /\ b.pending = IF accepted THEN Put(a.pending, entry, load) ELSE a.pending
        /\ b.entries = a.entries /\ b.stops = a.stops
        /\ b.retired = a.retired /\ b.started = a.started /\ b.active = a.active
        /\ b.events = Append(a.events, Event(kind, load))
    BY <1>3 DEF AdapterSound, IsAdapter, AdapterFields, CommandResult, Journal
  <2>2. b.failureReported \in BOOLEAN
    BY <1>3 DEF AdapterSound, IsAdapter, AdapterFields, CommandResult, Journal
  <2>3. /\ Credits(a.requests, requested, silenced)
        /\ Credits(a.pending, owned, silenced)
        /\ Credits(a.entries, owned, silenced)
    BY DEF AdapterSound
  <2>4. load = requested[request] /\ request \in DOMAIN requested /\ load \in Loads
        /\ load.generation \notin silenced
    BY <1>3, <2>3 DEF Credits
  <2> HIDE DEF b, load
  <2>5. Credits(b.requests, requested, silenced)
    <3>1. b.requests = Without(a.requests, {request})
      BY <2>1
    <3>2. /\ Credits(Without(a.requests, {request}), requested, silenced)
      BY <2>3, WithoutCredits
    <3> QED BY <3>1, <3>2
  <2>6. Credits(b.pending, owned, silenced)
    <3>1. CASE accepted
      <4>1. entry \in DOMAIN owned /\ owned[entry] = load
        BY <2>4, <3>1
      <4>2. b.pending = Put(a.pending, entry, load)
        BY <2>1, <3>1
      <4>3. /\ Credits(Put(a.pending, entry, owned[entry]), owned, silenced)
        BY <2>3, <2>4, <4>1, PutCredits
      <4> QED BY <4>1, <4>2, <4>3
    <3>2. CASE ~accepted
      BY <2>1, <2>3, <3>2
    <3> QED BY <3>1, <3>2
  <2>7. kind \in {"LoadAccepted", "LoadRejected"} /\ (~accepted => kind = "LoadRejected")
    OBVIOUS
  <2> HIDE DEF kind
  <2>8. JournalSound(b, silenced)
    <3>1. Event(kind, load) \in Events
      BY <2>4, <2>7 DEF Events, EventKinds, Event
    <3>2. Event(kind, load).load.generation \notin silenced
      BY <2>4 DEF Event
    <3> QED BY <2>1, <3>1, <3>2, JournalKeeps DEF AdapterSound
  <2>9. AdapterSound(b, requested, owned, silenced)
    BY <2>1, <2>2, <2>3, <2>5, <2>6, <2>8 DEF AdapterSound
  <2> QED BY <2>1, <2>4, <2>7, <2>9 DEF b, ReplyEffect
<1> QED BY <1>1, <1>2, <1>3

\* A start moves its entry from the pending ones to the active one, and a
\* replaced entry keeps the generation it is stopped for (start_file).
LEMMA StartFileSound ==
  ASSUME NEW a, NEW requested, NEW owned, NEW silenced, AdapterSound(a, requested, owned, silenced),
         NEW entry
  PROVE  LET b == StartFile(a, entry)
         IN  /\ AdapterSound(b, requested, owned, silenced)
             /\ b.events = a.events
             /\ b.active \in {a.active, entry}
             /\ DOMAIN b.entries \subseteq DOMAIN a.entries \cup {entry}
             /\ a.started \ {entry} \subseteq b.started
<1> DEFINE b == StartFile(a, entry)
<1>1. CASE ~AcceptsStart(a, entry)
  BY <1>1 DEF StartFile
<1>2. /\ Credits(a.pending, owned, silenced)
      /\ Credits(a.entries, owned, silenced)
  BY DEF AdapterSound
<1>3. CASE AcceptsStart(a, entry) /\ entry \in DOMAIN a.pending
  <2>1. /\ IsAdapter(b) /\ b.requests = a.requests
        /\ b.pending = Without(a.pending, {entry})
        /\ b.entries = Put(a.entries, entry, a.pending[entry]) /\ b.stops = ReplacedStops(a)
        /\ b.retired = a.retired /\ b.started = a.started \ {entry} /\ b.active = entry
        /\ b.events = a.events
    BY <1>3 DEF AdapterSound, IsAdapter, AdapterFields, StartFile
  <2>2. b.failureReported \in BOOLEAN
    BY <1>3 DEF AdapterSound, IsAdapter, AdapterFields, StartFile
  <2>3. /\ a.pending[entry] = owned[entry] /\ entry \in DOMAIN owned
        /\ a.pending[entry].generation \notin silenced
    BY <1>2, <1>3 DEF Credits
  <2> HIDE DEF b
  <2>4. /\ Credits(b.entries, owned, silenced)
        /\ DOMAIN b.entries = DOMAIN a.entries \cup {entry}
    BY <1>2, <2>1, <2>3, PutCredits
  <2>5. Credits(b.pending, owned, silenced)
    <3>1. b.pending = Without(a.pending, {entry})
      BY <2>1
    <3>2. /\ Credits(Without(a.pending, {entry}), owned, silenced)
      BY <1>2, WithoutCredits
    <3> QED BY <3>1, <3>2
  <2>6. /\ DOMAIN b.stops \subseteq DOMAIN a.entries
        /\ b.stops = [e \in DOMAIN b.stops |-> owned[e].generation]
    <3>1. CASE a.active \in DOMAIN a.entries
      BY <2>1, <3>1 DEF AdapterSound, ReplacedStops, Put, Credits
    <3>2. CASE a.active \notin DOMAIN a.entries
      BY <2>1, <3>2 DEF AdapterSound, ReplacedStops
    <3> QED BY <3>1, <3>2
  <2>7. AdapterSound(b, requested, owned, silenced)
    BY <2>1, <2>2, <2>4, <2>5, <2>6 DEF AdapterSound, JournalSound
  <2> QED BY <2>1, <2>4, <2>7 DEF b
<1>4. CASE AcceptsStart(a, entry) /\ entry \notin DOMAIN a.pending
  <2>1. /\ IsAdapter(b) /\ b.requests = a.requests
        /\ b.pending = a.pending /\ b.entries = a.entries /\ b.stops = a.stops
        /\ b.retired = a.retired /\ b.started = a.started \ {entry} /\ b.active = entry
        /\ b.events = a.events
    BY <1>4 DEF AdapterSound, IsAdapter, AdapterFields, StartFile
  <2>2. b.failureReported \in BOOLEAN
    BY <1>4 DEF AdapterSound, IsAdapter, AdapterFields, StartFile
  <2>3. entry \in DOMAIN a.entries
    BY <1>4 DEF AcceptsStart
  <2> HIDE DEF b
  <2>4. AdapterSound(b, requested, owned, silenced)
    BY <2>1, <2>2, <2>3 DEF AdapterSound, JournalSound
  <2> QED BY <2>1, <2>4 DEF b
<1> QED BY <1>1, <1>3, <1>4

\* What a restart changes of the adapter a, giving b.
RestartEffect(a, b, owned, entry) ==
  /\ b.active = a.active /\ b.entries = a.entries /\ a.started \subseteq b.started
  /\ \/ b.events = a.events
     \/ /\ b.events = Append(a.events, Event("FirstStart", owned[entry]))
        /\ entry \in DOMAIN a.entries \ a.started /\ entry \in b.started
        /\ entry \in DOMAIN owned

\* A restart journals nothing but the first start of its entry's load, and that
\* once (playback_restart).
LEMMA PlaybackRestartSound ==
  ASSUME NEW a, NEW requested, NEW owned, NEW silenced, AdapterSound(a, requested, owned, silenced),
         owned \in Seq(Loads), NEW entry
  PROVE  LET b == PlaybackRestart(a, entry)
         IN  /\ AdapterSound(b, requested, owned, silenced)
             /\ RestartEffect(a, b, owned, entry)
<1> DEFINE b == PlaybackRestart(a, entry)
<1>1. CASE ~IsFirstStart(a, entry)
  BY <1>1 DEF PlaybackRestart, RestartEffect
<1>2. CASE IsFirstStart(a, entry)
  <2>1. entry \in DOMAIN a.entries \ a.started
    BY <1>2 DEF IsFirstStart
  <2>2. /\ entry \in DOMAIN owned /\ a.entries[entry] = owned[entry]
        /\ owned[entry] \in Loads /\ owned[entry].generation \notin silenced
    BY <2>1 DEF AdapterSound, Credits
  <2>3. /\ IsAdapter(b) /\ b.requests = a.requests
        /\ b.pending = a.pending /\ b.entries = a.entries /\ b.stops = a.stops
        /\ b.retired = a.retired /\ b.started = a.started \cup {entry} /\ b.active = a.active
        /\ b.events = Append(a.events, Event("FirstStart", owned[entry]))
    BY <1>2, <2>2 DEF AdapterSound, IsAdapter, AdapterFields, PlaybackRestart, Journal
  <2>4. b.failureReported \in BOOLEAN
    BY <1>2 DEF AdapterSound, IsAdapter, AdapterFields, PlaybackRestart, Journal
  <2> HIDE DEF b
  <2>5. Event("FirstStart", owned[entry]) \in Events
    BY <2>2 DEF Events, EventKinds, Event
  <2>6. JournalSound(b, silenced)
    <3>1. Event("FirstStart", owned[entry]).load.generation \notin silenced
      BY <2>2 DEF Event
    <3> QED BY <2>3, <2>5, <3>1, JournalKeeps DEF AdapterSound
  <2>7. AdapterSound(b, requested, owned, silenced)
    BY <2>1, <2>3, <2>4, <2>6 DEF AdapterSound
  <2> QED BY <2>1, <2>2, <2>3, <2>7 DEF b, RestartEffect
<1> QED BY <1>1, <1>2

\* What an end changes of the adapter a, giving b.
EndEffect(a, b, inserted) ==
  /\ b.active \in {a.active, NoEntry}
  /\ DOMAIN b.entries \subseteq DOMAIN a.entries \cup inserted
  /\ \A e \in DOMAIN b.entries : e \in a.started => e \in b.started
  /\ \/ b.events = a.events
     \/ \E event \in Events : /\ b.events = Append(a.events, event)
                              /\ event.kind \notin {"FirstStart", "ExactFailure"}

\* An end is credited with the load of its entry, and what a redirect inserts
\* inherits that load, which is the load that owns it (end_file).
LEMMA EndFileSound ==
  ASSUME NEW a, NEW requested, NEW owned, NEW silenced, AdapterSound(a, requested, owned, silenced),
         owned \in Seq(Loads), NEW entry, NEW reason \in {"Ended", "Stop", "Redirect"},
         NEW inserted, inserted \subseteq DOMAIN owned,
         \A n \in inserted : owned[n] = owned[entry]
  PROVE  LET b == EndFile(a, entry, reason, inserted)
         IN  /\ AdapterSound(b, requested, owned, silenced)
             /\ EndEffect(a, b, inserted)
<1> DEFINE b == EndFile(a, entry, reason, inserted)
           load == a.entries[entry]
           inherited == Inherits(a.entries, inserted, load)
<1>1. CASE entry \notin DOMAIN a.entries
  BY <1>1 DEF EndFile, EndEffect
<1>2. CASE entry \in DOMAIN a.entries
  <2>1. /\ IsAdapter(b) /\ b.requests = a.requests
        /\ b.pending = a.pending /\ b.entries = Without(inherited, {entry})
        /\ b.stops = Without(a.stops, {entry})
        /\ b.retired = a.retired /\ b.started = a.started \ {entry}
        /\ b.active = IF a.active = entry THEN NoEntry ELSE a.active
        /\ b.events = Append(a.events, EndReport(a, entry, reason))
    BY <1>2 DEF AdapterSound, IsAdapter, AdapterFields, EndFile
  <2>2. b.failureReported \in BOOLEAN
    BY <1>2 DEF AdapterSound, IsAdapter, AdapterFields, EndFile
  <2>3. Credits(a.entries, owned, silenced)
    BY DEF AdapterSound
  <2>4. /\ entry \in DOMAIN owned /\ load = owned[entry] /\ load \in Loads
        /\ load.generation \notin silenced
    BY <1>2, <2>3 DEF Credits
  <2> HIDE DEF b, load
  <2>5. Credits(inherited, owned, silenced) /\ DOMAIN inherited = DOMAIN a.entries \cup inserted
    <3>1. \A n \in inserted : owned[n] = load
      BY <2>4
    <3>2. /\ Credits(Inherits(a.entries, inserted, load), owned, silenced)
          /\ DOMAIN Inherits(a.entries, inserted, load) = DOMAIN a.entries \cup inserted
      <4>1. load.generation \notin silenced
        BY <2>4
      <4>2. inserted \subseteq DOMAIN owned
        OBVIOUS
      <4> HIDE DEF inherited
      <4> QED BY <2>3, <3>1, <4>1, <4>2 DEF Inherits, Credits
    <3> QED BY <3>2
  <2> HIDE DEF inherited
  <2>6. /\ Credits(Without(inherited, {entry}), owned, silenced)
        /\ DOMAIN Without(inherited, {entry}) = DOMAIN inherited \ {entry}
    BY <2>5, WithoutCredits
  <2>7. /\ Credits(b.entries, owned, silenced)
        /\ DOMAIN b.entries = (DOMAIN a.entries \cup inserted) \ {entry}
    BY <2>1, <2>5, <2>6
  <2>8. /\ DOMAIN b.stops = DOMAIN a.stops \ {entry}
        /\ b.stops = [e \in DOMAIN b.stops |-> owned[e].generation]
    BY <2>1 DEF AdapterSound, Without, Restrict
  <2>9. /\ EndReport(a, entry, reason) \in Events
        /\ EndReport(a, entry, reason).kind \notin {"FirstStart", "ExactFailure"}
        /\ EndReport(a, entry, reason).load.generation \notin silenced
    <3>1. CASE entry \in DOMAIN a.stops
      <4>1. a.stops[entry] = load.generation
        BY <2>4, <3>1 DEF AdapterSound
      <4>2. [load EXCEPT !.generation = a.stops[entry]] = load
        BY <2>4, <4>1 DEF Loads, Load
      <4>3. EndReport(a, entry, reason) = Event("Stopped", load)
        BY <3>1, <4>2 DEF EndReport, load
      <4> QED BY <2>4, <4>3 DEF Event, Events, EventKinds
    <3>2. CASE entry \notin DOMAIN a.stops
      <4>1. EndReport(a, entry, reason) = Event(reason, load)
        BY <3>2 DEF EndReport, load
      <4> QED BY <2>4, <4>1 DEF Event, Events, EventKinds
    <3> QED BY <3>1, <3>2
  <2>10. JournalSound(b, silenced)
    BY <2>1, <2>9, JournalKeeps DEF AdapterSound
  <2>11. AdapterSound(b, requested, owned, silenced)
    BY <2>1, <2>2, <2>7, <2>8, <2>10 DEF AdapterSound
  <2> QED BY <2>1, <2>7, <2>9, <2>11 DEF b, EndEffect
<1> QED BY <1>1, <1>2

\* A failed backend is told once, and takes every correlation with it
\* (backend_failed).
LEMMA BackendFailedSound ==
  ASSUME NEW a, NEW requested, NEW owned, NEW silenced, AdapterSound(a, requested, owned, silenced),
         NEW load \in Loads \cup {NoTarget}, load.generation \notin silenced
  PROVE  LET b == BackendFailed(a, load)
         IN  /\ AdapterSound(b, requested, owned, silenced)
             /\ b.active \in {a.active, NoEntry}
             /\ DOMAIN b.entries \subseteq DOMAIN a.entries
             /\ \A e \in DOMAIN b.entries : e \in a.started => e \in b.started
             /\ b.events \in {a.events, Append(a.events, Event("BackendFailed", load))}
             /\ Event("BackendFailed", load) \in Events
<1> DEFINE b == BackendFailed(a, load)
<1>1. Event("BackendFailed", load) \in Events
  BY DEF Events, EventKinds, Event
<1>2. CASE a.failureReported
  BY <1>1, <1>2 DEF BackendFailed
<1>3. CASE ~a.failureReported
  <2>1. /\ IsAdapter(b) /\ b.requests = Empty /\ b.pending = Empty /\ b.entries = Empty
        /\ b.stops = Empty /\ b.retired = {} /\ b.started = {} /\ b.active = NoEntry
        /\ b.events = Append(a.events, Event("BackendFailed", load))
    BY <1>3 DEF AdapterSound, IsAdapter, AdapterFields, BackendFailed, ClearCorrelations,
                Journal, FreshAdapter
  <2>2. b.failureReported \in BOOLEAN
    BY <1>3 DEF AdapterSound, IsAdapter, AdapterFields, BackendFailed, ClearCorrelations,
                Journal, FreshAdapter
  <2> HIDE DEF b
  <2>3. JournalSound(b, silenced)
    <3>1. Event("BackendFailed", load).load.generation \notin silenced
      BY DEF Event
    <3> QED BY <1>1, <2>1, <3>1, JournalKeeps DEF AdapterSound
  <2>4. AdapterSound(b, requested, owned, silenced)
    BY <2>1, <2>2, <2>3 DEF AdapterSound, Credits, Empty
  <2> QED BY <1>1, <2>1, <2>4 DEF b, Empty
<1> QED BY <1>2, <1>3

\* The exact failure a log line is classified as is journaled about the load it
\* is given, and changes nothing else (MpvPlayer::pump_events hands it the
\* target).
LEMMA ExactFailureSound ==
  ASSUME NEW a, NEW requested, NEW owned, NEW silenced, AdapterSound(a, requested, owned, silenced),
         NEW load \in Loads, load.generation \notin silenced
  PROVE  LET b == ExactFailure(a, load)
         IN  /\ AdapterSound(b, requested, owned, silenced)
             /\ b.active = a.active /\ b.entries = a.entries /\ b.started = a.started
             /\ b.events = Append(a.events, Event("ExactFailure", load))
             /\ Event("ExactFailure", load) \in Events
<1> DEFINE b == ExactFailure(a, load)
<1>1. Event("ExactFailure", load) \in Events /\ Event("ExactFailure", load).load = load
  BY DEF Events, EventKinds, Event
<1>2. /\ IsAdapter(b) /\ b.requests = a.requests
      /\ b.pending = a.pending /\ b.entries = a.entries /\ b.stops = a.stops
      /\ b.retired = a.retired /\ b.started = a.started /\ b.active = a.active
      /\ b.events = Append(a.events, Event("ExactFailure", load))
  BY DEF AdapterSound, IsAdapter, AdapterFields, ExactFailure, Journal
<1>3. b.failureReported \in BOOLEAN
  BY DEF AdapterSound, IsAdapter, AdapterFields, ExactFailure, Journal
<1> HIDE DEF b
<1>4. JournalSound(b, silenced)
  BY <1>1, <1>2, JournalKeeps DEF AdapterSound
<1>5. AdapterSound(b, requested, owned, silenced)
  BY <1>2, <1>3, <1>4 DEF AdapterSound
<1> QED BY <1>1, <1>2, <1>5 DEF b

\* What a stop spares of the journal was there, about other generations.
LEMMA SparedAreOthers ==
  ASSUME NEW events \in Seq(Events), NEW g
  PROVE  /\ Spared(events, g) \in Seq(Events)
         /\ \A i \in DOMAIN Spared(events, g) : \E j \in DOMAIN events :
              /\ Spared(events, g)[i] = events[j]
              /\ Spared(events, g)[i].load.generation # g
<1> DEFINE kept == {i \in DOMAIN events : events[i].load.generation # g}
<1>1. kept \in SUBSET DOMAIN events /\ \A j \in kept : events[j].load.generation # g
  OBVIOUS
<1>2. Spared(events, g) = MembersAt(events, kept)
  BY DEF Spared
<1> HIDE DEF kept
<1> QED BY <1>1, <1>2, MembersStay

\* Every event of a journal was in the other.
Within(journal, other) ==
  \A i \in DOMAIN journal : \E j \in DOMAIN other : journal[i] = other[j]

\* The fences a stop raises leave neither a correlation of the generation nor
\* an event about it (retire_generation).
LEMMA RetireGenerationSound ==
  ASSUME NEW a, NEW requested, NEW owned, NEW silenced, AdapterSound(a, requested, owned, silenced),
         NEW g
  PROVE  LET b == RetireGeneration(a, g)
         IN  /\ AdapterSound(b, requested, owned, silenced \cup {g})
             /\ b.active \in {a.active, NoEntry}
             /\ Within(b.events, a.events)
<1> DEFINE b == RetireGeneration(a, g)
           kept == Spared(a.events, g)
<1>1. /\ IsAdapter(b)
      /\ b.requests = Without(a.requests, OfGeneration(a.requests, g))
      /\ b.pending = Without(a.pending, OfGeneration(a.pending, g))
      /\ b.entries = Without(a.entries, OfGeneration(a.entries, g))
      /\ b.stops = Without(a.stops, OfGeneration(a.entries, g))
      /\ b.retired = a.retired \cup OfGeneration(a.requests, g)
      /\ b.started = a.started \ OfGeneration(a.entries, g)
      /\ b.active = IF a.active \in OfGeneration(a.entries, g) THEN NoEntry ELSE a.active
      /\ b.events = kept
  BY DEF AdapterSound, IsAdapter, AdapterFields, RetireGeneration
<1>2. b.failureReported \in BOOLEAN
  BY DEF AdapterSound, IsAdapter, AdapterFields, RetireGeneration
<1>3. ASSUME NEW map, NEW loads, Credits(map, loads, silenced)
      PROVE  LET left == Without(map, OfGeneration(map, g))
             IN  /\ Credits(left, loads, silenced \cup {g})
                 /\ DOMAIN left = DOMAIN map \ OfGeneration(map, g)
  BY <1>3 DEF Credits, Without, Restrict, OfGeneration
<1>4. /\ kept \in Seq(Events)
      /\ \A i \in DOMAIN kept : \E j \in DOMAIN a.events :
           kept[i] = a.events[j] /\ kept[i].load.generation # g
  <2>1. a.events \in Seq(Events)
    BY DEF AdapterSound, JournalSound
  <2> QED BY <2>1, SparedAreOthers
<1> HIDE DEF b, kept
<1>5. JournalSound(b, silenced \cup {g})
  BY <1>1, <1>4 DEF AdapterSound, JournalSound
<1>6. /\ Credits(a.requests, requested, silenced) /\ Credits(a.pending, owned, silenced)
      /\ Credits(a.entries, owned, silenced)
  BY DEF AdapterSound
<1>7. Credits(b.requests, requested, silenced \cup {g}) /\ Credits(b.pending, owned, silenced \cup {g})
  <2>1. Credits(Without(a.requests, OfGeneration(a.requests, g)), requested, silenced \cup {g})
    BY <1>3, <1>6
  <2>2. Credits(Without(a.pending, OfGeneration(a.pending, g)), owned, silenced \cup {g})
    BY <1>3, <1>6
  <2>3. /\ b.requests = Without(a.requests, OfGeneration(a.requests, g))
        /\ b.pending = Without(a.pending, OfGeneration(a.pending, g))
    BY <1>1
  <2> QED BY <2>1, <2>2, <2>3
<1>8. /\ Credits(b.entries, owned, silenced \cup {g})
      /\ DOMAIN b.entries = DOMAIN a.entries \ OfGeneration(a.entries, g)
  BY <1>1, <1>3, <1>6
<1>9. /\ DOMAIN b.stops = DOMAIN a.stops \ OfGeneration(a.entries, g)
      /\ b.stops = [e \in DOMAIN b.stops |-> owned[e].generation]
  BY <1>1 DEF AdapterSound, Without, Restrict
<1>10. b.retired \subseteq DOMAIN requested
  BY <1>1, <1>6 DEF AdapterSound, OfGeneration, Credits
<1>11. AdapterSound(b, requested, owned, silenced \cup {g})
  BY <1>1, <1>2, <1>5, <1>7, <1>8, <1>9, <1>10 DEF AdapterSound
<1>12. Within(b.events, a.events)
  BY <1>1, <1>4 DEF Within
<1> QED BY <1>1, <1>11, <1>12 DEF b

\* What was credited stays credited while loads are issued and accepted.
LEMMA AdapterKeeps ==
  ASSUME NEW a, NEW requested, NEW owned, NEW silenced, AdapterSound(a, requested, owned, silenced),
         NEW asked, NEW has, DOMAIN requested \subseteq DOMAIN asked, DOMAIN owned \subseteq DOMAIN has,
         \A r \in DOMAIN requested : asked[r] = requested[r],
         \A e \in DOMAIN owned : has[e] = owned[e]
  PROVE  AdapterSound(a, asked, has, silenced)
<1>1. /\ Credits(a.requests, asked, silenced) /\ Credits(a.pending, has, silenced)
      /\ Credits(a.entries, has, silenced)
  BY DEF AdapterSound, Credits
<1>2. a.stops = [e \in DOMAIN a.stops |-> has[e].generation]
  BY DEF AdapterSound, Credits
<1> QED BY <1>1, <1>2 DEF AdapterSound

\* Taking the events empties the journal and nothing else
\* (PlayerEventAdapter::drain).
LEMMA DrainSound ==
  ASSUME NEW a, NEW requested, NEW owned, NEW silenced, AdapterSound(a, requested, owned, silenced)
  PROVE  LET b == Drain(a)
         IN  /\ AdapterSound(b, requested, owned, silenced)
             /\ b.active = a.active /\ b.entries = a.entries /\ b.started = a.started
             /\ b.events = << >>
<1> DEFINE b == Drain(a)
<1>1. /\ IsAdapter(b) /\ b.requests = a.requests
      /\ b.pending = a.pending /\ b.entries = a.entries /\ b.stops = a.stops
      /\ b.retired = a.retired /\ b.started = a.started /\ b.active = a.active
      /\ b.events = << >>
  BY DEF AdapterSound, IsAdapter, AdapterFields, Drain
<1>2. b.failureReported \in BOOLEAN
  BY DEF AdapterSound, IsAdapter, AdapterFields, Drain
<1> HIDE DEF b
<1>3. AdapterSound(b, requested, owned, silenced)
  BY <1>1, <1>2 DEF AdapterSound, JournalSound
<1> QED BY <1>1, <1>3 DEF b

-----------------------------------------------------------------------------
(* The inductive invariant.                                                *)

\* One load is issued before another.
Before(l, k) ==
  l.generation < k.generation \/ (l.generation = k.generation /\ l.load < k.load)
NotAfter(l, k) == Before(l, k) \/ l = k

\* Loads are issued in order, and the one to play is the last of them.
IssuedInOrder ==
  /\ generation \in 0 .. MaxGeneration
  /\ target \in Loads \cup {NoTarget} /\ issued \in Seq(Loads)
  /\ \A i, j \in DOMAIN issued : i < j => Before(issued[i], issued[j])
  /\ \A i \in DOMAIN issued : issued[i].generation <= generation
  /\ target # NoTarget => issued # << >> /\ target = issued[Len(issued)]
  /\ stopped \subseteq 1 .. generation /\ target.generation \notin stopped

MpvFields == {"state", "commands", "mail", "upNext", "playing", "restarted", "lingering",
              "owner", "skipped", "choked", "lossy"}
IsMpv(m) == m = [f \in MpvFields |-> m[f]]

MpvCommands == [kind : {"loadfile"}, request : Nat] \cup [kind : {"stop"}]

Marks == {"Start", "Restart", "Log"}

Messages ==
  [kind : {"Reply"}, request : Nat, accepted : BOOLEAN, entry : Nat]
  \cup [kind : Marks, entry : Nat]
  \cup [kind : {"End"}, entry : Nat, reason : {"Ended", "Stop", "Redirect"}, inserted : SUBSET Nat]
  \cup [kind : {"Shutdown"}]

MpvTypeOK ==
  /\ IsMpv(mpv) /\ mpv.owner \in Seq(Loads)
  /\ mpv.commands \in Seq(MpvCommands) /\ mpv.mail \in Seq(Messages)
  /\ mpv.upNext \in 0 .. Len(mpv.owner) /\ mpv.playing \in 0 .. Len(mpv.owner)
  /\ mpv.lingering \in 0 .. Len(mpv.owner)
  /\ current_entry \in Nat

\* Entries are accepted in the order their loads were issued, and what is
\* still to be accepted was issued after all of them.
OwnersInOrder ==
  /\ \A d, e \in DOMAIN mpv.owner : d < e => NotAfter(mpv.owner[d], mpv.owner[e])
  /\ mpv.owner # << >> =>
       /\ issued # << >>
       /\ \A e \in DOMAIN mpv.owner : NotAfter(mpv.owner[e], issued[Len(issued)])
  /\ \A k \in DOMAIN mpv.commands : mpv.commands[k].kind = "loadfile" =>
       /\ mpv.commands[k].request \in DOMAIN issued
       /\ \A e \in DOMAIN mpv.owner : Before(mpv.owner[e], issued[mpv.commands[k].request])
       /\ \A l \in DOMAIN mpv.commands : l > k /\ mpv.commands[l].kind = "loadfile" =>
            mpv.commands[k].request < mpv.commands[l].request

\* The next entry is the last one; what plays is the last of its load.
LastPlays ==
  /\ mpv.upNext # NoEntry => mpv.upNext = Len(mpv.owner) /\ mpv.playing < mpv.upNext
  /\ mpv.playing # NoEntry =>
       /\ mpv.upNext = NoEntry => mpv.playing = Len(mpv.owner)
       /\ \A e \in DOMAIN mpv.owner :
            e > mpv.playing => mpv.owner[e] # mpv.owner[mpv.playing]

\* What a message says of requests and entries is so.
MessageSound(m, owner, asked) ==
  /\ m.kind = "Reply" /\ m.accepted =>
       /\ m.entry \in DOMAIN owner /\ m.request \in DOMAIN asked
       /\ owner[m.entry] = asked[m.request]
  /\ m.kind \in Marks => m.entry \in DOMAIN owner
  /\ m.kind = "End" =>
       /\ m.entry \in DOMAIN owner
       /\ \A n \in m.inserted : n \in DOMAIN owner /\ owner[n] = owner[m.entry]
MailSound == \A i \in DOMAIN mpv.mail : MessageSound(mpv.mail[i], mpv.owner, issued)

\* libmpv has started the entry, and no other one than what plays since.
Reached(m, e) ==
  /\ e <= Len(m.owner)
  /\ m.playing # NoEntry => e <= m.playing
  /\ m.upNext # NoEntry => e < m.upNext

\* A message of libmpv's after it has started the entry.
Follows(m, e) ==
  /\ m.kind \in Marks => e <= m.entry /\ (m.kind = "Start" => e < m.entry)
  /\ m.kind = "End" => \A n \in m.inserted : e < n

\* Entries start in their order: what the player has taken for started, what
\* is in the mail and what plays.
StartsInOrder ==
  /\ \A i, j \in DOMAIN mpv.mail : i < j /\ mpv.mail[i].kind \in Marks =>
       Follows(mpv.mail[j], mpv.mail[i].entry)
  /\ \A i \in DOMAIN mpv.mail : mpv.mail[i].kind \in Marks => Reached(mpv, mpv.mail[i].entry)
  /\ Reached(mpv, current_entry) /\ Reached(mpv, adapter.active)
  /\ \A i \in DOMAIN mpv.mail :
       Follows(mpv.mail[i], current_entry) /\ Follows(mpv.mail[i], adapter.active)

\* An entry that has restarted is not redirected any more.
RestartLast(m, r) ==
  /\ \A e \in DOMAIN m.owner : e > r => m.owner[e] # m.owner[r]
  /\ m.playing = r => m.restarted = TRUE
RestartIsLast ==
  \A i \in DOMAIN mpv.mail :
    mpv.mail[i].kind = "Restart" => RestartLast(mpv, mpv.mail[i].entry)

\* Between turns the journal holds refusals only.
JournalRefuses ==
  \A i \in DOMAIN adapter.events : adapter.events[i].kind = "LoadRejected"

\* libmpv will not start the load to play any more.
NothingToStart ==
  /\ \A k \in DOMAIN mpv.commands : mpv.commands[k].kind = "loadfile" =>
       issued[mpv.commands[k].request] # target
  /\ \A i \in DOMAIN mpv.mail :
       /\ mpv.mail[i].kind = "Start" => mpv.owner[mpv.mail[i].entry] # target
       /\ mpv.mail[i].kind = "End" => \A n \in mpv.mail[i].inserted : mpv.owner[n] # target
  /\ mpv.upNext # NoEntry => mpv.owner[mpv.upNext] # target
  /\ mpv.playing # NoEntry /\ mpv.owner[mpv.playing] = target => mpv.restarted = TRUE

\* Nothing is left that could be taken for a first start of the load to play.
NoFirstStartLeft ==
  /\ NothingToStart
  /\ current_entry \in DOMAIN adapter.entries /\ mpv.owner[current_entry] = target =>
       current_entry \in adapter.started

FirstStartIsOver == "FirstStart" \in reported => NoFirstStartLeft

Flags == armed \in BOOLEAN /\ classified \in BOOLEAN

ToldTypeOK == delivered \in Seq(Events) /\ reported \subseteq EventKinds /\ Flags

AdapterInv == AdapterSound(adapter, issued, mpv.owner, stopped)

MpvInv ==
  /\ IssuedInOrder /\ MpvTypeOK /\ OwnersInOrder /\ LastPlays /\ MailSound /\ StartsInOrder
  /\ RestartIsLast /\ AdapterInv /\ JournalRefuses /\ FirstStartIsOver /\ ToldTypeOK
  /\ StoppedStaysSilent

\* The order in which loads are issued is linear, with "no load" before all of
\* them.
LEMMA LoadOrder ==
  ASSUME NEW l \in Loads \cup {NoTarget}, NEW k \in Loads \cup {NoTarget},
         NEW j \in Loads \cup {NoTarget}
  PROVE  /\ NotAfter(l, k) /\ NotAfter(k, j) => NotAfter(l, j)
         /\ Before(l, k) /\ NotAfter(k, j) => Before(l, j)
         /\ NotAfter(l, k) /\ Before(k, j) => Before(l, j)
         /\ NotAfter(l, k) /\ NotAfter(k, l) => l = k
         /\ Before(l, k) => NotAfter(l, k) /\ l # k /\ ~NotAfter(k, l)
         /\ NotAfter(l, k) => l.generation <= k.generation
<1>1. \A x \in Loads \cup {NoTarget} :
        x = [generation |-> x.generation, load |-> x.load] /\ x.generation \in Nat /\ x.load \in Nat
  BY MpvAssumption DEF Loads, Load, NoTarget, NoLoad
<1>2. l = k <=> l.generation = k.generation /\ l.load = k.load
  BY <1>1
<1>3. l.generation \in Nat /\ k.generation \in Nat /\ j.generation \in Nat
      /\ l.load \in Nat /\ k.load \in Nat /\ j.load \in Nat
  BY <1>1
<1>4. k = j <=> k.generation = j.generation /\ k.load = j.load
  BY <1>1
<1>5. l = j <=> l.generation = j.generation /\ l.load = j.load
  BY <1>1
<1> QED BY <1>2, <1>3, <1>4, <1>5 DEF Before, NotAfter

\* Posting an event changes the mail alone, and a full queue loses the event.
LEMMA PostFields ==
  ASSUME NEW m, IsMpv(m), NEW event
  PROVE  LET p == Post(m, event)
         IN  /\ IsMpv(p) /\ p.state = m.state /\ p.commands = m.commands
             /\ p.upNext = m.upNext /\ p.playing = m.playing /\ p.restarted = m.restarted
             /\ p.lingering = m.lingering /\ p.owner = m.owner
             /\ p.mail \in {m.mail, Append(m.mail, event)}
BY DEF IsMpv, MpvFields, Post

\* The player as it is constructed: nothing issued, nothing correlated.
LEMMA InitSound ==
  ASSUME Init PROVE MpvInv
<1>1. IsAdapter(FreshAdapter)
  BY DEF IsAdapter, AdapterFields, FreshAdapter
<1>2. FreshAdapter.failureReported \in BOOLEAN
  BY DEF FreshAdapter
<1>3. AdapterInv
  BY <1>1, <1>2 DEF Init, AdapterInv, AdapterSound, FreshAdapter, Credits, JournalSound, Empty
<1>4. IsMpv(FreshMpv)
  BY DEF IsMpv, MpvFields, FreshMpv, AbsentMpv
<1>5. /\ FreshMpv.owner = << >> /\ FreshMpv.mail = << >> /\ FreshMpv.commands = << >>
      /\ FreshMpv.upNext = 0 /\ FreshMpv.playing = 0 /\ FreshMpv.lingering = 0
  BY DEF FreshMpv, AbsentMpv, NoEntry
<1>6. MpvTypeOK
  BY <1>4, <1>5 DEF Init, MpvTypeOK, NoEntry
<1>7. IssuedInOrder
  BY MpvAssumption DEF Init, IssuedInOrder, NoTarget, Load
<1>8. OwnersInOrder /\ LastPlays /\ MailSound /\ RestartIsLast
  BY <1>5 DEF Init, OwnersInOrder, LastPlays, MailSound, RestartIsLast, NoEntry
<1>9. StartsInOrder
  BY <1>5 DEF Init, StartsInOrder, Reached, Follows, NoEntry, FreshAdapter
<1>10. JournalRefuses /\ FirstStartIsOver
  BY DEF Init, JournalRefuses, FirstStartIsOver, FreshAdapter
<1>11. ToldTypeOK
  <2>1. delivered \in Seq(Events) /\ reported \subseteq EventKinds
    BY DEF Init
  <2>2. Flags
    BY DEF Init, Flags
  <2> QED BY <2>1, <2>2 DEF ToldTypeOK
<1>12. StoppedStaysSilent
  BY DEF Init, StoppedStaysSilent, Range
<1> QED BY <1>3, <1>6, <1>7, <1>8, <1>9, <1>10, <1>11, <1>12 DEF MpvInv

\* What a run checks of the adapter follows from the invariant.
LEMMA InvIsSound ==
  ASSUME MpvInv PROVE EventsOfTheRightLoad
<1> USE DEF MpvInv
<1>1. /\ issued \in Seq(Loads) /\ mpv.owner \in Seq(Loads)
      /\ target \in Loads \cup {NoTarget} /\ generation \in 0 .. MaxGeneration
      /\ stopped \subseteq 1 .. MaxGeneration
  BY MpvAssumption DEF IssuedInOrder, MpvTypeOK
<1>2. /\ Credits(adapter.requests, issued, stopped)
      /\ Credits(adapter.pending, mpv.owner, stopped)
      /\ Credits(adapter.entries, mpv.owner, stopped)
  BY DEF AdapterInv, AdapterSound
<1>3. /\ PartialMap(adapter.requests, Requests, Loads)
      /\ PartialMap(adapter.pending, Entries, Loads)
      /\ PartialMap(adapter.entries, Entries, Loads)
  BY <1>1, <1>2 DEF PartialMap, Requests, Entries, Credits
<1>4. \A load \in Loads : load.generation \in 1 .. MaxGeneration
  BY DEF Loads, Load
<1>5. /\ adapter.stops = [e \in DOMAIN adapter.stops |-> mpv.owner[e].generation]
      /\ DOMAIN adapter.stops \subseteq DOMAIN adapter.entries
      /\ DOMAIN adapter.entries \subseteq DOMAIN mpv.owner
  BY <1>2 DEF AdapterInv, AdapterSound, Credits
<1>6. PartialMap(adapter.stops, DOMAIN adapter.entries, 1 .. MaxGeneration)
  BY <1>1, <1>4, <1>5 DEF PartialMap
<1>7. /\ adapter.retired \subseteq Requests
      /\ adapter.started \subseteq DOMAIN adapter.entries
      /\ adapter.active \in DOMAIN adapter.entries \cup {NoEntry}
      /\ adapter.events \in Seq(Events)
  BY <1>1 DEF AdapterInv, AdapterSound, JournalSound, Requests
<1>8. adapter.failureReported \in BOOLEAN
  BY DEF AdapterInv, AdapterSound
<1>9. {armed, classified} \subseteq BOOLEAN
  BY DEF ToldTypeOK, Flags
<1>10. /\ current_entry \in Nat /\ delivered \in Seq(Events) /\ reported \subseteq EventKinds
  BY DEF ToldTypeOK, MpvTypeOK
<1>11. TypeOK
  BY <1>1, <1>3, <1>6, <1>7, <1>8, <1>9, <1>10 DEF TypeOK
<1>12. CorrelationSound
  BY <1>2, <1>11 DEF CorrelationSound, Credits
<1> QED BY <1>12 DEF EventsOfTheRightLoad

\* What the session is handed: at most one event besides the refusals that
\* waited in the journal.
LEMMA DeliverSound ==
  ASSUME NEW events, Deliver(events), MpvInv, target' = target, stopped' = stopped,
         events \in Seq(Events),
         \A i \in DOMAIN events : events[i].load.generation \notin stopped
  PROVE  /\ delivered' \in Seq(Events) /\ reported' \subseteq EventKinds
         /\ StoppedStaysSilent'
         /\ reported \subseteq reported'
         /\ \A kind \in reported' \ reported :
              \E i \in DOMAIN events : events[i].kind = kind /\ events[i].load = target
<1>1. \A e \in Range(events) : \E i \in DOMAIN events : e = events[i]
  BY DEF Range
<1>2. delivered' = events
  BY DEF Deliver
<1>3. reported' = reported \cup
        {event.kind : event \in {e \in Range(events) : e.load = target}}
  BY DEF Deliver
<1>4. \A i \in DOMAIN events : events[i].kind \in EventKinds
  <2>1. \A i \in DOMAIN events : events[i] \in Events
    OBVIOUS
  <2>2. \A e \in Events : e.kind \in EventKinds
    BY DEF Events
  <2> QED BY <2>1, <2>2
<1>5. reported \subseteq EventKinds
  BY DEF MpvInv, ToldTypeOK
<1> QED BY <1>1, <1>2, <1>3, <1>4, <1>5 DEF StoppedStaysSilent

\* The first k messages of the mail are gone, and nothing else of libmpv has changed.
Consumes(k) ==
  /\ IsMpv(mpv') /\ mpv'.commands = mpv.commands
  /\ mpv'.upNext = mpv.upNext /\ mpv'.playing = mpv.playing
  /\ mpv'.restarted = mpv.restarted
  /\ mpv'.lingering = mpv.lingering /\ mpv'.owner = mpv.owner
  /\ mpv'.mail \in Seq(Messages)
  /\ \A i \in DOMAIN mpv'.mail : i + k \in DOMAIN mpv.mail /\ mpv'.mail[i] = mpv.mail[i + k]

\* Taking the head of the mail leaves the rest of libmpv as it was.
LEMMA TakeConsumes ==
  ASSUME MpvInv, mpv.mail # << >>, Take
  PROVE  /\ Consumes(1) /\ mpv.mail \in Seq(Messages)
         /\ 1 \in DOMAIN mpv.mail /\ Head(mpv.mail) = mpv.mail[1]
<1>1. IsMpv(mpv) /\ mpv.mail \in Seq(Messages) /\ mpv.mail # << >>
  BY DEF MpvInv, MpvTypeOK
<1>2. /\ IsMpv(mpv') /\ mpv'.commands = mpv.commands
      /\ mpv'.upNext = mpv.upNext /\ mpv'.playing = mpv.playing
      /\ mpv'.restarted = mpv.restarted
      /\ mpv'.lingering = mpv.lingering /\ mpv'.owner = mpv.owner
      /\ mpv'.mail = Tail(mpv.mail)
  BY <1>1 DEF Take, IsMpv, MpvFields
<1> QED BY <1>1, <1>2 DEF Consumes

\* A turn of pump_events whose adapter journals at most one event keeps what
\* does not tell starts apart, and hands the session that event and refusals
\* only.
LEMMA TurnSound ==
  ASSUME MpvInv, NEW k \in {0, 1}, Consumes(k), NEW a, Turn(a),
         AdapterSound(a, issued, mpv.owner, stopped),
         NEW event, a.events \in {adapter.events, Append(adapter.events, event)},
         current_entry' \in Nat, Flags'
  PROVE  /\ IssuedInOrder' /\ MpvTypeOK' /\ OwnersInOrder' /\ LastPlays' /\ MailSound'
         /\ RestartIsLast' /\ AdapterInv' /\ JournalRefuses' /\ ToldTypeOK' /\ StoppedStaysSilent'
         /\ adapter'.active = a.active /\ adapter'.entries = a.entries
         /\ adapter'.started = a.started
         /\ reported \subseteq reported'
         /\ \A kind \in reported' \ reported :
              kind = "LoadRejected" \/ (kind = event.kind /\ event.load = target)
         /\ \A e \in Range(delivered') : e.kind = "LoadRejected" \/ e = event
<1>1. /\ generation' = generation /\ target' = target /\ issued' = issued /\ stopped' = stopped
      /\ adapter' = Drain(a) /\ Deliver(a.events)
  BY DEF Turn
<1>2. IssuedInOrder'
  BY <1>1 DEF MpvInv, IssuedInOrder
<1>3. /\ mpv'.commands = mpv.commands /\ mpv'.upNext = mpv.upNext /\ mpv'.playing = mpv.playing
      /\ mpv'.restarted = mpv.restarted /\ mpv'.lingering = mpv.lingering
      /\ mpv'.owner = mpv.owner /\ IsMpv(mpv') /\ mpv'.mail \in Seq(Messages)
  BY DEF Consumes
<1>4. MpvTypeOK'
  BY <1>3 DEF MpvInv, MpvTypeOK
<1>5. OwnersInOrder'
  BY <1>1, <1>3 DEF MpvInv, OwnersInOrder
<1>6. LastPlays'
  BY <1>3 DEF MpvInv, LastPlays
<1>7. MailSound'
  <2>1. \A i \in DOMAIN mpv.mail : MessageSound(mpv.mail[i], mpv.owner, issued)
    BY DEF MpvInv, MailSound
  <2>2. \A i \in DOMAIN mpv'.mail : MessageSound(mpv'.mail[i], mpv.owner, issued)
    BY <2>1 DEF Consumes
  <2> QED BY <1>1, <1>3, <2>2 DEF MailSound
<1>8. RestartIsLast'
  <2>1. \A i \in DOMAIN mpv'.mail :
          mpv'.mail[i].kind = "Restart" => RestartLast(mpv, mpv'.mail[i].entry)
    BY DEF Consumes, MpvInv, RestartIsLast
  <2>2. \A r : RestartLast(mpv, r) => RestartLast(mpv', r)
    BY <1>3 DEF RestartLast
  <2> QED BY <2>1, <2>2 DEF RestartIsLast
<1>9. /\ AdapterSound(adapter', issued, mpv.owner, stopped)
      /\ adapter'.active = a.active /\ adapter'.entries = a.entries
      /\ adapter'.started = a.started /\ adapter'.events = << >>
  BY <1>1, DrainSound
<1>10. AdapterInv' /\ JournalRefuses'
  BY <1>1, <1>3, <1>9 DEF AdapterInv, JournalRefuses
<1>11. a.events \in Seq(Events)
       /\ \A i \in DOMAIN a.events : a.events[i].load.generation \notin stopped
  BY DEF AdapterSound, JournalSound
<1>12. /\ delivered' \in Seq(Events) /\ reported' \subseteq EventKinds
       /\ StoppedStaysSilent'
       /\ reported \subseteq reported'
       /\ \A kind \in reported' \ reported :
            \E i \in DOMAIN a.events : a.events[i].kind = kind /\ a.events[i].load = target
  BY <1>1, <1>11, DeliverSound
<1>13. ToldTypeOK'
  BY <1>12 DEF ToldTypeOK
<1>14. \A i \in DOMAIN a.events : a.events[i].kind = "LoadRejected" \/ a.events[i] = event
  <2>1. /\ adapter.events \in Seq(Events)
        /\ \A i \in DOMAIN adapter.events : adapter.events[i].kind = "LoadRejected"
    BY DEF MpvInv, AdapterInv, AdapterSound, JournalSound, JournalRefuses
  <2>2. CASE a.events = adapter.events
    BY <2>1, <2>2
  <2>3. CASE a.events = Append(adapter.events, event)
    BY <2>1, <2>3
  <2> QED BY <2>2, <2>3
<1>15. delivered' = a.events
  BY <1>1 DEF Deliver
<1>16. \A e \in Range(delivered') : e.kind = "LoadRejected" \/ e = event
  BY <1>14, <1>15 DEF Range
<1>17. \A kind \in reported' \ reported :
         kind = "LoadRejected" \/ (kind = event.kind /\ event.load = target)
  BY <1>12, <1>14
<1> QED BY <1>2, <1>4, <1>5, <1>6, <1>7, <1>8, <1>9, <1>10, <1>12, <1>13, <1>16, <1>17

\* A turn takes for started what was, nothing, or the entry of the start it handles.
LEMMA TurnStartsInOrder ==
  ASSUME MpvInv, NEW k \in {0, 1}, Consumes(k),
         \A e \in {current_entry', adapter'.active} :
           \/ e \in {current_entry, adapter.active, NoEntry}
           \/ /\ k = 1 /\ 1 \in DOMAIN mpv.mail /\ mpv.mail[1].kind = "Start"
              /\ e = mpv.mail[1].entry
  PROVE  StartsInOrder'
<1>1. /\ mpv'.upNext = mpv.upNext /\ mpv'.playing = mpv.playing /\ mpv'.owner = mpv.owner
      /\ mpv'.mail \in Seq(Messages) /\ mpv.mail \in Seq(Messages) /\ mpv.owner \in Seq(Loads)
      /\ mpv.playing \in Nat /\ mpv.upNext \in Nat
      /\ \A i \in DOMAIN mpv'.mail : i + k \in DOMAIN mpv.mail /\ mpv'.mail[i] = mpv.mail[i + k]
  BY DEF Consumes, MpvInv, MpvTypeOK
<1>2. \A e : Reached(mpv', e) <=> Reached(mpv, e)
  BY <1>1 DEF Reached
<1>3. /\ \A i, j \in DOMAIN mpv'.mail : i < j /\ mpv'.mail[i].kind \in Marks =>
           Follows(mpv'.mail[j], mpv'.mail[i].entry)
      /\ \A i \in DOMAIN mpv'.mail : mpv'.mail[i].kind \in Marks => Reached(mpv, mpv'.mail[i].entry)
  <2>1. /\ \A i, j \in DOMAIN mpv.mail : i < j /\ mpv.mail[i].kind \in Marks =>
             Follows(mpv.mail[j], mpv.mail[i].entry)
        /\ \A i \in DOMAIN mpv.mail : mpv.mail[i].kind \in Marks => Reached(mpv, mpv.mail[i].entry)
    BY DEF MpvInv, StartsInOrder
  <2>2. \A i, j \in DOMAIN mpv'.mail : i < j => i + k < j + k
    BY <1>1
  <2> QED BY <1>1, <2>1, <2>2
<1>4. ASSUME NEW e \in {current_entry', adapter'.active}
      PROVE  Reached(mpv, e) /\ \A i \in DOMAIN mpv'.mail : Follows(mpv'.mail[i], e)
  <2>1. CASE e \in {current_entry, adapter.active}
    BY <1>1, <2>1 DEF MpvInv, StartsInOrder
  <2>2. CASE e = NoEntry
    <3>1. Reached(mpv, e)
      BY <1>1, <2>2 DEF Reached, NoEntry
    <3>2. \A i \in DOMAIN mpv.mail : Follows(mpv.mail[i], e)
      BY <1>1, <2>2 DEF Follows, NoEntry, MpvInv, MailSound, MessageSound, Marks
    <3> QED BY <1>1, <3>1, <3>2
  <2>3. CASE /\ k = 1 /\ 1 \in DOMAIN mpv.mail /\ mpv.mail[1].kind = "Start"
             /\ e = mpv.mail[1].entry
    <3>1. "Start" \in Marks
      BY DEF Marks
    <3>2. Reached(mpv, e) /\ \A j \in DOMAIN mpv.mail : 1 < j => Follows(mpv.mail[j], e)
      BY <2>3, <3>1 DEF MpvInv, StartsInOrder
    <3> QED BY <1>1, <2>3, <3>2
  <2> QED BY <1>4, <2>1, <2>2, <2>3
<1>5. \A m, e : Follows(m, e)' <=> Follows(m, e)
  BY DEF Follows
<1> HIDE DEF Follows, Reached
<1> QED BY <1>2, <1>3, <1>4, <1>5 DEF StartsInOrder

\* A turn that takes for started no entry of the load to play, but those the
\* adapter knows to have started, leaves no first start of it.
LEMMA TurnLeavesNone ==
  ASSUME MpvInv, NEW k \in {0, 1}, Consumes(k), target' = target, issued' = issued,
         NothingToStart,
         current_entry' \in DOMAIN adapter'.entries /\ mpv.owner[current_entry'] = target =>
           current_entry' \in adapter'.started
  PROVE  NoFirstStartLeft'
<1>1. /\ mpv'.commands = mpv.commands /\ mpv'.upNext = mpv.upNext /\ mpv'.playing = mpv.playing
      /\ mpv'.restarted = mpv.restarted /\ mpv'.owner = mpv.owner
      /\ \A i \in DOMAIN mpv'.mail : i + k \in DOMAIN mpv.mail /\ mpv'.mail[i] = mpv.mail[i + k]
  BY DEF Consumes
<1> QED BY <1>1 DEF NoFirstStartLeft, NothingToStart

\* What every turn leaves of the invariant but the two parts about starts.
TurnInv ==
  /\ IssuedInOrder /\ MpvTypeOK /\ OwnersInOrder /\ LastPlays /\ MailSound
  /\ RestartIsLast /\ AdapterInv /\ JournalRefuses /\ ToldTypeOK /\ StoppedStaysSilent

\* The step delivers neither a first start nor a diagnosis.
NoEvidence ==
  \A e \in Range(delivered') : e.kind \notin {"FirstStart", "ExactFailure"}

\* A turn that journals no first start.
LEMMA PlainTurn ==
  ASSUME MpvInv, NEW k \in {0, 1}, Consumes(k), NEW a, Turn(a),
         AdapterSound(a, issued, mpv.owner, stopped),
         NEW event, a.events \in {adapter.events, Append(adapter.events, event)},
         event.kind # "FirstStart",
         current_entry' \in Nat, Flags',
         \A e \in {current_entry', a.active} :
           \/ e \in {current_entry, adapter.active, NoEntry}
           \/ /\ k = 1 /\ 1 \in DOMAIN mpv.mail /\ mpv.mail[1].kind = "Start"
              /\ e = mpv.mail[1].entry,
         NoFirstStartLeft =>
           (current_entry' \in DOMAIN a.entries /\ mpv.owner[current_entry'] = target =>
              current_entry' \in a.started)
  PROVE  MpvInv' /\ \A e \in Range(delivered') : e.kind = "LoadRejected" \/ e = event
<1>1. /\ IssuedInOrder' /\ MpvTypeOK' /\ OwnersInOrder' /\ LastPlays' /\ MailSound'
      /\ RestartIsLast' /\ AdapterInv' /\ JournalRefuses' /\ ToldTypeOK' /\ StoppedStaysSilent'
      /\ adapter'.active = a.active /\ adapter'.entries = a.entries
      /\ adapter'.started = a.started
      /\ reported \subseteq reported'
      /\ \A kind \in reported' \ reported :
           kind = "LoadRejected" \/ (kind = event.kind /\ event.load = target)
      /\ \A e \in Range(delivered') : e.kind = "LoadRejected" \/ e = event
  BY TurnSound
<1>2. StartsInOrder'
  BY <1>1, TurnStartsInOrder
<1>3. FirstStartIsOver'
  <2> SUFFICES ASSUME "FirstStart" \in reported' PROVE NoFirstStartLeft'
    BY DEF FirstStartIsOver
  <2>1. "FirstStart" \in reported
    BY <1>1
  <2>2. NoFirstStartLeft
    BY <2>1 DEF MpvInv, FirstStartIsOver
  <2>3. target' = target /\ issued' = issued
    BY DEF Turn
  <2> QED BY <1>1, <2>2, <2>3, TurnLeavesNone DEF NoFirstStartLeft
<1> QED BY <1>1, <1>2, <1>3 DEF MpvInv

\* What the step lemmas use of the invariant.
LEMMA InvFacts ==
  ASSUME MpvInv
  PROVE  /\ AdapterSound(adapter, issued, mpv.owner, stopped)
         /\ adapter.events \in Seq(Events)
         /\ IsMpv(mpv) /\ mpv.mail \in Seq(Messages) /\ mpv.commands \in Seq(MpvCommands)
         /\ mpv.owner \in Seq(Loads) /\ issued \in Seq(Loads)
         /\ mpv.upNext \in 0 .. Len(mpv.owner) /\ mpv.playing \in 0 .. Len(mpv.owner)
         /\ mpv.lingering \in 0 .. Len(mpv.owner)
         /\ current_entry \in Nat /\ target \in Loads \cup {NoTarget}
         /\ target.generation \notin stopped
         /\ \A i \in DOMAIN mpv.mail : MessageSound(mpv.mail[i], mpv.owner, issued)
BY DEF MpvInv, AdapterInv, AdapterSound, JournalSound, MpvTypeOK, IssuedInOrder, MailSound

\* A turn with an empty queue hands over what the journal holds.
LEMMA PumpNothingSound ==
  ASSUME MpvInv, PumpNothing PROVE MpvInv' /\ NoEvidence
<1>1. /\ Turn(adapter) /\ mpv' = mpv /\ current_entry' = current_entry
  BY DEF PumpNothing
<1>2. Flags'
  BY DEF PumpNothing, MpvInv, ToldTypeOK, Flags
<1>3. Consumes(0)
  BY <1>1, InvFacts DEF Consumes
<1> DEFINE event == Event("LoadRejected", target)
<1>4. event.kind = "LoadRejected"
  BY DEF Event
<1>5. /\ AdapterSound(adapter, issued, mpv.owner, stopped) /\ current_entry \in Nat
  BY InvFacts
<1> HIDE DEF event
<1>6. NoFirstStartLeft =>
        (current_entry' \in DOMAIN adapter.entries /\ mpv.owner[current_entry'] = target =>
           current_entry' \in adapter.started)
  BY <1>1 DEF NoFirstStartLeft
<1>7. MpvInv' /\ \A e \in Range(delivered') : e.kind = "LoadRejected" \/ e = event
  BY <1>1, <1>2, <1>3, <1>4, <1>5, <1>6, PlainTurn
<1> QED BY <1>4, <1>7 DEF NoEvidence

\* MPV_EVENT_COMMAND_REPLY: a reply says nothing of starts.
LEMMA PumpReplySound ==
  ASSUME MpvInv, PumpReply PROVE MpvInv' /\ NoEvidence
<1> DEFINE reply == Head(mpv.mail)
           a == CommandResult(adapter, reply.request, reply.accepted, reply.entry)
<1>1. /\ Turn(a) /\ Take /\ current_entry' = current_entry
      /\ mpv.mail # << >> /\ reply.kind = "Reply"
  BY DEF PumpReply, Received
<1>2. Flags'
  BY DEF PumpReply, MpvInv, ToldTypeOK, Flags
<1>3. Consumes(1) /\ 1 \in DOMAIN mpv.mail /\ reply = mpv.mail[1]
  BY <1>1, TakeConsumes
<1>4. AdapterSound(adapter, issued, mpv.owner, stopped) /\ issued \in Seq(Loads)
      /\ current_entry \in Nat
  BY InvFacts
<1>6. reply.accepted /\ reply.request \in DOMAIN issued =>
        reply.entry \in DOMAIN mpv.owner /\ mpv.owner[reply.entry] = issued[reply.request]
  <2>1. MessageSound(reply, mpv.owner, issued)
    BY <1>3, InvFacts
  <2> QED BY <1>1, <2>1 DEF MessageSound
<1>7. /\ AdapterSound(a, issued, mpv.owner, stopped)
      /\ a.active = adapter.active /\ a.entries = adapter.entries /\ a.started = adapter.started
      /\ \/ a.events = adapter.events
         \/ \E kind \in {"LoadAccepted", "LoadRejected"}, load \in Loads :
              a.events = Append(adapter.events, Event(kind, load))
  BY <1>4, <1>6, CommandResultSound DEF ReplyEffect
<1>8. PICK event : /\ a.events \in {adapter.events, Append(adapter.events, event)}
                   /\ event.kind \in {"LoadAccepted", "LoadRejected"}
  <2>1. CASE a.events = adapter.events
    <3>1. Event("LoadRejected", target).kind = "LoadRejected"
      BY DEF Event
    <3> QED BY <2>1, <3>1
  <2>2. CASE \E kind \in {"LoadAccepted", "LoadRejected"}, load \in Loads :
               a.events = Append(adapter.events, Event(kind, load))
    <3>1. PICK kind \in {"LoadAccepted", "LoadRejected"}, load \in Loads :
               a.events = Append(adapter.events, Event(kind, load))
      BY <2>2
    <3>2. Event(kind, load).kind = kind
      BY DEF Event
    <3> QED BY <3>1, <3>2
  <2> QED BY <1>7, <2>1, <2>2
<1> HIDE DEF a
<1>9. NoFirstStartLeft =>
        (current_entry' \in DOMAIN a.entries /\ mpv.owner[current_entry'] = target =>
           current_entry' \in a.started)
  BY <1>1, <1>7 DEF NoFirstStartLeft
<1>10. MpvInv' /\ \A e \in Range(delivered') : e.kind = "LoadRejected" \/ e = event
  BY <1>1, <1>2, <1>3, <1>4, <1>7, <1>8, <1>9, PlainTurn
<1> QED BY <1>8, <1>10 DEF NoEvidence

\* What is known of the event a turn receives.
LEMMA ReceivedFacts ==
  ASSUME MpvInv, NEW kind, Received(kind), Take
  PROVE  /\ Consumes(1) /\ 1 \in DOMAIN mpv.mail /\ Head(mpv.mail) = mpv.mail[1]
         /\ mpv.mail[1].kind = kind /\ mpv.mail[1] \in Messages
         /\ MessageSound(mpv.mail[1], mpv.owner, issued)
BY TakeConsumes, InvFacts DEF Received

\* MPV_EVENT_START_FILE: the entry may become the current one and the active
\* one.
LEMMA PumpStartFileSound ==
  ASSUME MpvInv, PumpStartFile PROVE MpvInv' /\ NoEvidence
<1> DEFINE entry == Head(mpv.mail).entry
           a == StartFile(adapter, entry)
           event == Event("LoadRejected", target)
<1>1. /\ Turn(a) /\ Take /\ Received("Start")
      /\ IF AcceptsStart(adapter, entry) THEN current_entry' = entry
         ELSE current_entry' = current_entry
  BY DEF PumpStartFile
<1>2. Flags'
  <2>1. armed' \in BOOLEAN
    BY DEF PumpStartFile, MpvInv, ToldTypeOK, Flags
  <2>2. classified' \in BOOLEAN
    BY DEF PumpStartFile, MpvInv, ToldTypeOK, Flags
  <2> QED BY <2>1, <2>2 DEF Flags
<1>3. /\ Consumes(1) /\ 1 \in DOMAIN mpv.mail /\ mpv.mail[1].kind = "Start"
      /\ entry = mpv.mail[1].entry /\ MessageSound(mpv.mail[1], mpv.owner, issued)
  BY <1>1, ReceivedFacts
<1>4. AdapterSound(adapter, issued, mpv.owner, stopped) /\ mpv.owner \in Seq(Loads)
      /\ current_entry \in Nat
  BY InvFacts
<1>5. entry \in DOMAIN mpv.owner /\ entry \in Nat
  BY <1>3, <1>4 DEF MessageSound, Marks
<1>6. /\ AdapterSound(a, issued, mpv.owner, stopped)
      /\ a.active \in {adapter.active, entry} /\ a.events = adapter.events
  BY <1>4, StartFileSound
<1>7. event.kind = "LoadRejected"
  BY DEF Event
<1>8. ASSUME NoFirstStartLeft, current_entry' \in DOMAIN a.entries,
             mpv.owner[current_entry'] = target
      PROVE  current_entry' \in a.started
  <2>1. mpv.owner[entry] # target
    BY <1>3, <1>8 DEF NoFirstStartLeft, NothingToStart
  <2>2. ~AcceptsStart(adapter, entry) /\ current_entry' = current_entry
    BY <1>1, <1>8, <2>1
  <2>3. a = adapter
    BY <2>2 DEF StartFile
  <2> QED BY <1>8, <2>2, <2>3 DEF NoFirstStartLeft
<1> HIDE DEF a, entry, event
<1>9. current_entry' \in {current_entry, entry} /\ current_entry' \in Nat
  BY <1>1, <1>4, <1>5
<1>10. MpvInv' /\ \A e \in Range(delivered') : e.kind = "LoadRejected" \/ e = event
  BY <1>1, <1>2, <1>3, <1>6, <1>7, <1>8, <1>9, PlainTurn
<1> QED BY <1>7, <1>10 DEF NoEvidence

\* MPV_EVENT_END_FILE: an end is no evidence of playback, and what a redirect
\* inserts is of the load that ended.
LEMMA PumpEndFileSound ==
  ASSUME MpvInv, PumpEndFile PROVE MpvInv' /\ NoEvidence
<1> DEFINE end == Head(mpv.mail)
           a == EndFile(adapter, end.entry, end.reason, end.inserted)
<1>1. /\ Turn(a) /\ Take /\ Received("End") /\ current_entry' = current_entry
  BY DEF PumpEndFile
<1>2. Flags'
  BY DEF PumpEndFile, MpvInv, ToldTypeOK, Flags
<1>3. /\ Consumes(1) /\ 1 \in DOMAIN mpv.mail /\ mpv.mail[1].kind = "End"
      /\ end = mpv.mail[1] /\ MessageSound(mpv.mail[1], mpv.owner, issued)
      /\ mpv.mail[1] \in Messages
  BY <1>1, ReceivedFacts
<1>4. AdapterSound(adapter, issued, mpv.owner, stopped) /\ mpv.owner \in Seq(Loads)
      /\ current_entry \in Nat
  BY InvFacts
<1>5. /\ end.inserted \subseteq DOMAIN mpv.owner
      /\ \A n \in end.inserted : mpv.owner[n] = mpv.owner[end.entry]
  BY <1>3 DEF MessageSound
<1>6. end.reason \in {"Ended", "Stop", "Redirect"}
  BY <1>3 DEF Messages, Marks
<1> HIDE DEF end
<1>7. /\ AdapterSound(a, issued, mpv.owner, stopped)
      /\ a.active \in {adapter.active, NoEntry}
      /\ DOMAIN a.entries \subseteq DOMAIN adapter.entries \cup end.inserted
      /\ \A e \in DOMAIN a.entries : e \in adapter.started => e \in a.started
      /\ \/ a.events = adapter.events
         \/ \E event \in Events : /\ a.events = Append(adapter.events, event)
                                  /\ event.kind \notin {"FirstStart", "ExactFailure"}
  <2> DEFINE entry == end.entry
             reason == end.reason
             inserted == end.inserted
             b == EndFile(adapter, entry, reason, inserted)
  <2>1. /\ inserted \subseteq DOMAIN mpv.owner
        /\ \A n \in inserted : mpv.owner[n] = mpv.owner[entry]
        /\ reason \in {"Ended", "Stop", "Redirect"}
    BY <1>5, <1>6
  <2> HIDE DEF entry, reason, inserted
  <2>2. /\ AdapterSound(b, issued, mpv.owner, stopped)
        /\ EndEffect(adapter, b, inserted)
    BY <1>4, <2>1, EndFileSound
  <2> QED BY <2>2 DEF entry, reason, inserted, EndEffect
<1> HIDE DEF a
<1>8. PICK event : /\ a.events \in {adapter.events, Append(adapter.events, event)}
                   /\ event.kind \notin {"FirstStart", "ExactFailure"}
  <2>1. Event("LoadRejected", target).kind = "LoadRejected"
    BY DEF Event
  <2> QED BY <1>7, <2>1
<1>9. ASSUME NoFirstStartLeft, current_entry' \in DOMAIN a.entries,
             mpv.owner[current_entry'] = target
      PROVE  current_entry' \in a.started
  <2>1. \A n \in end.inserted : mpv.owner[n] # target
    BY <1>3, <1>9 DEF NoFirstStartLeft, NothingToStart
  <2>2. current_entry \in DOMAIN adapter.entries /\ mpv.owner[current_entry] = target
    BY <1>1, <1>7, <1>9, <2>1
  <2>3. current_entry \in adapter.started
    BY <1>9, <2>2 DEF NoFirstStartLeft
  <2> QED BY <1>1, <1>7, <1>9, <2>3
<1>10. MpvInv' /\ \A e \in Range(delivered') : e.kind = "LoadRejected" \/ e = event
  BY <1>1, <1>2, <1>3, <1>4, <1>7, <1>8, <1>9, PlainTurn
<1> QED BY <1>8, <1>10 DEF NoEvidence

\* A backend that fails takes every entry with it.
LEMMA FailedTurnSound ==
  ASSUME MpvInv, NEW k \in {0, 1}, Consumes(k), Turn(BackendFailed(adapter, target)),
         UNCHANGED <<current_entry, armed, classified>>
  PROVE  MpvInv' /\ NoEvidence
<1> DEFINE a == BackendFailed(adapter, target)
           event == Event("BackendFailed", target)
<1>1. Flags'
  BY DEF MpvInv, ToldTypeOK, Flags
<1>2. /\ AdapterSound(adapter, issued, mpv.owner, stopped) /\ current_entry \in Nat
      /\ target \in Loads \cup {NoTarget} /\ target.generation \notin stopped
  BY InvFacts
<1>3. /\ AdapterSound(a, issued, mpv.owner, stopped)
      /\ a.active \in {adapter.active, NoEntry}
      /\ DOMAIN a.entries \subseteq DOMAIN adapter.entries
      /\ \A e \in DOMAIN a.entries : e \in adapter.started => e \in a.started
      /\ a.events \in {adapter.events, Append(adapter.events, event)}
  BY <1>2, BackendFailedSound
<1>4. event.kind = "BackendFailed" /\ Turn(a)
  BY DEF Event
<1> HIDE DEF a, event
<1>5. NoFirstStartLeft =>
        (current_entry' \in DOMAIN a.entries /\ mpv.owner[current_entry'] = target =>
           current_entry' \in a.started)
  BY <1>3 DEF NoFirstStartLeft
<1>6. MpvInv' /\ \A e \in Range(delivered') : e.kind = "LoadRejected" \/ e = event
  BY <1>1, <1>2, <1>3, <1>4, <1>5, PlainTurn
<1> QED BY <1>4, <1>6 DEF NoEvidence

\* MPV_EVENT_SHUTDOWN: the backend has failed.
LEMMA PumpShutdownSound ==
  ASSUME MpvInv, PumpShutdown PROVE MpvInv' /\ NoEvidence
<1>1. Consumes(1)
  BY ReceivedFacts DEF PumpShutdown
<1>2. Turn(BackendFailed(adapter, target)) /\ UNCHANGED <<current_entry, armed, classified>>
  BY DEF PumpShutdown
<1> QED BY <1>1, <1>2, FailedTurnSound

\* MPV_EVENT_QUEUE_OVERFLOW: events were lost, so the backend has failed.
LEMMA PumpOverflowSound ==
  ASSUME MpvInv, PumpOverflow PROVE MpvInv' /\ NoEvidence
<1>1. Consumes(0)
  <2>1. mpv' = [mpv EXCEPT !.choked = FALSE]
    BY DEF PumpOverflow
  <2>2. /\ IsMpv(mpv') /\ mpv'.commands = mpv.commands
        /\ mpv'.upNext = mpv.upNext /\ mpv'.playing = mpv.playing
        /\ mpv'.restarted = mpv.restarted
        /\ mpv'.lingering = mpv.lingering /\ mpv'.owner = mpv.owner
        /\ mpv'.mail = mpv.mail
    BY <2>1, InvFacts DEF IsMpv, MpvFields
  <2> QED BY <2>2, InvFacts DEF Consumes
<1>2. Turn(BackendFailed(adapter, target)) /\ UNCHANGED <<current_entry, armed, classified>>
  BY DEF PumpOverflow
<1> QED BY <1>1, <1>2, FailedTurnSound

\* The restart libmpv reports when the player believes in an entry of the load
\* to play is of that load, and nothing of it starts any more.
LEMMA RestartOfTarget ==
  ASSUME MpvInv, Received("Restart"), current_entry \in DOMAIN mpv.owner,
         mpv.owner[current_entry] = target
  PROVE  /\ mpv.owner[Head(mpv.mail).entry] = target
         /\ NothingToStart
<1> DEFINE e == mpv.mail[1].entry
<1>1. /\ mpv.mail \in Seq(Messages) /\ mpv.owner \in Seq(Loads) /\ issued \in Seq(Loads)
      /\ 1 \in DOMAIN mpv.mail /\ Head(mpv.mail) = mpv.mail[1]
      /\ mpv.mail[1].kind = "Restart" /\ "Restart" \in Marks
      /\ mpv.playing \in Nat /\ mpv.upNext \in Nat /\ mpv.commands \in Seq(MpvCommands)
  BY InvFacts DEF Received, Marks
<1>2. e \in DOMAIN mpv.owner /\ current_entry <= e
  BY <1>1, InvFacts DEF MessageSound, MpvInv, StartsInOrder, Follows
<1>3. /\ mpv.owner[e] \in Loads /\ target \in Loads /\ issued # << >>
      /\ target = issued[Len(issued)]
      /\ NotAfter(mpv.owner[current_entry], mpv.owner[e])
      /\ NotAfter(mpv.owner[e], target)
  <2>1. mpv.owner[e] \in Loads /\ target \in Loads /\ target # NoTarget
    <3>1. NoTarget \notin Loads
      <4>1. \A l \in Loads : l.generation >= 1
        BY MpvAssumption DEF Loads, Load
      <4>2. NoTarget.generation = 0
        BY DEF NoTarget, Load
      <4> QED BY <4>1, <4>2
    <3> QED BY <1>1, <1>2, <3>1
  <2>2. issued # << >> /\ target = issued[Len(issued)]
    BY <2>1 DEF MpvInv, IssuedInOrder
  <2>3. NotAfter(mpv.owner[e], target)
    BY <1>1, <1>2, <2>2 DEF MpvInv, OwnersInOrder
  <2>4. NotAfter(mpv.owner[current_entry], mpv.owner[e])
    <3>1. CASE current_entry = e
      BY <3>1 DEF NotAfter
    <3>2. CASE current_entry < e
      BY <1>2, <3>2 DEF MpvInv, OwnersInOrder
    <3> QED BY <1>1, <1>2, <3>1, <3>2
  <2> QED BY <2>1, <2>2, <2>3, <2>4
<1>4. mpv.owner[e] = target
  BY <1>3, LoadOrder
<1>5. /\ \A d \in DOMAIN mpv.owner : d > e => mpv.owner[d] # target
      /\ mpv.playing = e => mpv.restarted = TRUE
  BY <1>1, <1>4 DEF MpvInv, RestartIsLast, RestartLast
<1>6. /\ Reached(mpv, e)
      /\ \A j \in DOMAIN mpv.mail : 1 < j => Follows(mpv.mail[j], e)
  BY <1>1 DEF MpvInv, StartsInOrder
<1> HIDE DEF e
<1>7. ASSUME NEW k \in DOMAIN mpv.commands, mpv.commands[k].kind = "loadfile"
      PROVE  issued[mpv.commands[k].request] # target
  <2>1. /\ mpv.commands[k].request \in DOMAIN issued
        /\ Before(mpv.owner[e], issued[mpv.commands[k].request])
    BY <1>2, <1>7 DEF MpvInv, OwnersInOrder
  <2> QED BY <1>1, <1>3, <1>4, <2>1, LoadOrder
<1>8. ASSUME NEW i \in DOMAIN mpv.mail
      PROVE  /\ mpv.mail[i].kind = "Start" => mpv.owner[mpv.mail[i].entry] # target
             /\ mpv.mail[i].kind = "End" => \A n \in mpv.mail[i].inserted : mpv.owner[n] # target
  <2>1. CASE i = 1
    BY <1>1, <2>1
  <2>2. CASE i # 1
    <3>1. Follows(mpv.mail[i], e) /\ MessageSound(mpv.mail[i], mpv.owner, issued)
      BY <1>1, <1>6, <2>2, InvFacts
    <3> QED BY <1>2, <1>5, <3>1 DEF Follows, MessageSound, Marks
  <2> QED BY <2>1, <2>2
<1>9. mpv.upNext # NoEntry => mpv.owner[mpv.upNext] # target
  BY <1>2, <1>5, <1>6, InvFacts DEF Reached, NoEntry
<1>10. mpv.playing # NoEntry /\ mpv.owner[mpv.playing] = target => mpv.restarted = TRUE
  BY <1>2, <1>5, <1>6, InvFacts DEF Reached, NoEntry
<1> QED BY <1>1, <1>4, <1>7, <1>8, <1>9, <1>10 DEF NothingToStart, e

\* The action of EvidenceIsOwn.
Own ==
  LET owner == mpv.owner[Head(mpv.mail).entry] IN
  /\ Delivers(Event("FirstStart", target)) =>
       target = owner /\ "FirstStart" \notin reported
  /\ Delivers(Event("ExactFailure", target)) =>
       target.generation = owner.generation

\* A step that delivers no evidence delivers none of another load.
LEMMA NoneIsOwn == ASSUME NoEvidence PROVE Own
BY DEF NoEvidence, Own, Delivers, Event

\* MPV_EVENT_PLAYBACK_RESTART: the first start that is told of the load to play
\* is of an entry of that load.
LEMMA PumpRestartSound ==
  ASSUME MpvInv, PumpRestart PROVE MpvInv' /\ Own
<1> DEFINE a == PlaybackRestart(adapter, current_entry)
           load == mpv.owner[current_entry]
<1>1. /\ Turn(a) /\ Take /\ Received("Restart") /\ current_entry' = current_entry
  BY DEF PumpRestart
<1>2. Flags'
  BY DEF PumpRestart, MpvInv, ToldTypeOK, Flags
<1>3. Consumes(1)
  BY <1>1, ReceivedFacts
<1>4. AdapterSound(adapter, issued, mpv.owner, stopped) /\ mpv.owner \in Seq(Loads)
      /\ current_entry \in Nat
  BY InvFacts
<1>5. /\ AdapterSound(a, issued, mpv.owner, stopped)
      /\ a.active = adapter.active /\ a.entries = adapter.entries
      /\ adapter.started \subseteq a.started
      /\ \/ a.events = adapter.events
         \/ /\ a.events = Append(adapter.events, Event("FirstStart", load))
            /\ current_entry \in DOMAIN adapter.entries \ adapter.started
            /\ current_entry \in a.started
            /\ current_entry \in DOMAIN mpv.owner
  <2>1. /\ AdapterSound(a, issued, mpv.owner, stopped)
        /\ RestartEffect(adapter, a, mpv.owner, current_entry)
    BY <1>4, PlaybackRestartSound
  <2> HIDE DEF a
  <2> QED BY <2>1 DEF RestartEffect
<1> HIDE DEF a
<1>6. CASE a.events = adapter.events
  <2> DEFINE event == Event("LoadRejected", target)
  <2>1. event.kind = "LoadRejected"
    BY DEF Event
  <2> HIDE DEF event
  <2>2. NoFirstStartLeft =>
          (current_entry' \in DOMAIN a.entries /\ mpv.owner[current_entry'] = target =>
             current_entry' \in a.started)
    BY <1>1, <1>5 DEF NoFirstStartLeft
  <2>3. MpvInv' /\ \A e \in Range(delivered') : e.kind = "LoadRejected" \/ e = event
    BY <1>1, <1>2, <1>3, <1>4, <1>5, <1>6, <2>1, <2>2, PlainTurn
  <2> QED BY <2>1, <2>3, NoneIsOwn DEF NoEvidence
<1>7. CASE /\ a.events = Append(adapter.events, Event("FirstStart", load))
           /\ current_entry \in DOMAIN adapter.entries \ adapter.started
           /\ current_entry \in a.started
           /\ current_entry \in DOMAIN mpv.owner
  <2> DEFINE event == Event("FirstStart", load)
  <2>1. event.kind = "FirstStart" /\ event.load = load
    BY DEF Event
  <2>2. a.events \in {adapter.events, Append(adapter.events, event)}
    BY <1>7
  <2> HIDE DEF event
  <2>3. /\ IssuedInOrder' /\ MpvTypeOK' /\ OwnersInOrder' /\ LastPlays' /\ MailSound'
        /\ RestartIsLast' /\ AdapterInv' /\ JournalRefuses' /\ ToldTypeOK' /\ StoppedStaysSilent'
        /\ adapter'.active = a.active /\ adapter'.entries = a.entries
        /\ adapter'.started = a.started
        /\ reported \subseteq reported'
        /\ \A kind \in reported' \ reported :
             kind = "LoadRejected" \/ (kind = event.kind /\ event.load = target)
        /\ \A e \in Range(delivered') : e.kind = "LoadRejected" \/ e = event
    BY <1>1, <1>2, <1>3, <1>4, <1>5, <2>2, TurnSound
  <2>4. StartsInOrder'
    BY <1>1, <1>3, <1>5, <2>3, TurnStartsInOrder
  <2>5. FirstStartIsOver'
    <3> SUFFICES ASSUME "FirstStart" \in reported' PROVE NoFirstStartLeft'
      BY DEF FirstStartIsOver
    <3>1. NothingToStart
      <4>1. CASE "FirstStart" \in reported
        BY <4>1 DEF MpvInv, FirstStartIsOver, NoFirstStartLeft
      <4>2. CASE "FirstStart" \notin reported
        <5>1. load = target
          BY <2>1, <2>3, <4>2
        <5> QED BY <1>1, <1>7, <5>1, RestartOfTarget
      <4> QED BY <4>1, <4>2
    <3>2. target' = target /\ issued' = issued
      BY <1>1 DEF Turn
    <3> QED BY <1>1, <1>3, <1>7, <2>3, <3>1, <3>2, TurnLeavesNone
  <2>6. Own
    <3>1. CASE load = target
      <4>1. mpv.owner[Head(mpv.mail).entry] = target
        BY <1>1, <1>7, <3>1, RestartOfTarget
      <4>2. "FirstStart" \notin reported
        BY <1>7, <3>1 DEF MpvInv, FirstStartIsOver, NoFirstStartLeft
      <4> QED BY <4>1, <4>2 DEF Own
    <3>2. CASE load # target
      <4>1. ~Delivers(Event("FirstStart", target))
        BY <2>1, <2>3, <3>2 DEF Delivers, Event
      <4>2. ~Delivers(Event("ExactFailure", target))
        BY <2>1, <2>3 DEF Delivers, Event
      <4> QED BY <4>1, <4>2 DEF Own
    <3> QED BY <3>1, <3>2
  <2> QED BY <2>3, <2>4, <2>5, <2>6 DEF MpvInv
<1> QED BY <1>5, <1>6, <1>7

\* The log line libmpv writes while an entry of the channel to play is active
\* comes from an entry of that channel.
LEMMA LineOfTarget ==
  ASSUME MpvInv, Received("Log"), Attributed
  PROVE  /\ mpv.owner[Head(mpv.mail).entry].generation = target.generation
         /\ target \in Loads
<1> DEFINE e == mpv.mail[1].entry
           f == adapter.active
<1>1. /\ mpv.mail \in Seq(Messages) /\ mpv.owner \in Seq(Loads) /\ issued \in Seq(Loads)
      /\ 1 \in DOMAIN mpv.mail /\ Head(mpv.mail) = mpv.mail[1]
      /\ mpv.mail[1].kind = "Log" /\ "Log" \in Marks
      /\ target \in Loads \cup {NoTarget} /\ target # NoTarget
  BY InvFacts DEF Received, Marks, Attributed, Playing
<1>2. f \in DOMAIN adapter.entries /\ adapter.entries[f].generation = target.generation
  BY DEF Attributed, ActiveGenerations
<1>3. f \in DOMAIN mpv.owner /\ adapter.entries[f] = mpv.owner[f]
  BY <1>2, InvFacts DEF AdapterSound, Credits
<1>4. e \in DOMAIN mpv.owner /\ f <= e
  BY <1>1, InvFacts DEF MessageSound, MpvInv, StartsInOrder, Follows
<1> HIDE DEF e, f
<1>5. /\ mpv.owner[e] \in Loads /\ mpv.owner[f] \in Loads
      /\ NotAfter(mpv.owner[f], mpv.owner[e]) /\ NotAfter(mpv.owner[e], target)
  <2>1. issued # << >> /\ target = issued[Len(issued)]
    BY <1>1 DEF MpvInv, IssuedInOrder
  <2>2. NotAfter(mpv.owner[e], target)
    BY <1>1, <1>4, <2>1 DEF MpvInv, OwnersInOrder
  <2>3. NotAfter(mpv.owner[f], mpv.owner[e])
    <3>1. CASE f = e
      BY <3>1 DEF NotAfter
    <3>2. CASE f < e
      BY <1>3, <1>4, <3>2 DEF MpvInv, OwnersInOrder
    <3> QED BY <1>1, <1>3, <1>4, <3>1, <3>2
  <2> QED BY <1>1, <1>3, <1>4, <2>2, <2>3
<1>6. /\ mpv.owner[f].generation <= mpv.owner[e].generation
      /\ mpv.owner[e].generation <= target.generation
  BY <1>1, <1>5, LoadOrder
<1>7. mpv.owner[f].generation \in Nat /\ mpv.owner[e].generation \in Nat
  <2>1. \A l \in Loads : l.generation \in Nat
    BY MpvAssumption DEF Loads, Load
  <2> QED BY <1>5, <2>1
<1>8. mpv.owner[e].generation = target.generation
  BY <1>2, <1>3, <1>6, <1>7
<1> QED BY <1>1, <1>8 DEF e

\* MPV_EVENT_LOG_MESSAGE: the exact failure that is told of the load to play
\* was written about its own channel.
LEMMA PumpLogSound ==
  ASSUME MpvInv, PumpLog PROVE MpvInv' /\ Own
<1>1. /\ Take /\ Received("Log") /\ current_entry' = current_entry
      /\ IF Attributed /\ ~classified THEN Turn(ExactFailure(adapter, target))
                                      ELSE Turn(adapter)
  BY DEF PumpLog
<1>2. Flags'
  <2>1. armed' \in BOOLEAN
    BY DEF PumpLog, MpvInv, ToldTypeOK, Flags
  <2>2. classified' \in BOOLEAN
    BY DEF PumpLog, MpvInv, ToldTypeOK, Flags
  <2> QED BY <2>1, <2>2 DEF Flags
<1>3. Consumes(1)
  BY <1>1, ReceivedFacts
<1>4. /\ AdapterSound(adapter, issued, mpv.owner, stopped)
      /\ current_entry \in Nat /\ target.generation \notin stopped
  BY InvFacts
<1>5. CASE ~(Attributed /\ ~classified)
  <2> DEFINE event == Event("LoadRejected", target)
  <2>1. event.kind = "LoadRejected"
    BY DEF Event
  <2>2. Turn(adapter)
    BY <1>1, <1>5
  <2> HIDE DEF event
  <2>3. NoFirstStartLeft =>
          (current_entry' \in DOMAIN adapter.entries /\ mpv.owner[current_entry'] = target =>
             current_entry' \in adapter.started)
    BY <1>1 DEF NoFirstStartLeft
  <2>4. MpvInv' /\ \A e \in Range(delivered') : e.kind = "LoadRejected" \/ e = event
    BY <1>1, <1>2, <1>3, <1>4, <2>1, <2>2, <2>3, PlainTurn
  <2> QED BY <2>1, <2>4, NoneIsOwn DEF NoEvidence
<1>6. CASE Attributed /\ ~classified
  <2> DEFINE a == ExactFailure(adapter, target)
             event == Event("ExactFailure", target)
  <2>1. event.kind = "ExactFailure" /\ Turn(a)
    BY <1>1, <1>6 DEF Event
  <2>2. /\ mpv.owner[Head(mpv.mail).entry].generation = target.generation
        /\ target \in Loads
    BY <1>1, <1>6, LineOfTarget
  <2>3. /\ AdapterSound(a, issued, mpv.owner, stopped)
        /\ a.active = adapter.active /\ a.entries = adapter.entries
        /\ a.started = adapter.started
        /\ a.events = Append(adapter.events, event)
    BY <1>4, <2>2, ExactFailureSound
  <2> HIDE DEF a, event
  <2>4. NoFirstStartLeft =>
          (current_entry' \in DOMAIN a.entries /\ mpv.owner[current_entry'] = target =>
             current_entry' \in a.started)
    BY <1>1, <2>3 DEF NoFirstStartLeft
  <2>5. MpvInv' /\ \A e \in Range(delivered') : e.kind = "LoadRejected" \/ e = event
    BY <1>1, <1>2, <1>3, <1>4, <2>1, <2>3, <2>4, PlainTurn
  <2>6. ~Delivers(Event("FirstStart", target))
    BY <2>1, <2>5 DEF Delivers, Event
  <2> QED BY <2>2, <2>5, <2>6 DEF Own
<1> QED BY <1>5, <1>6

-----------------------------------------------------------------------------
\* libmpv may accept a load, and what it has accepted it keeps.
Grows(owned, has) ==
  /\ has \in Seq(Loads) /\ Len(owned) <= Len(has)
  /\ \A e \in 1 .. Len(owned) : has[e] = owned[e]

\* A step of libmpv that posts at most one event keeps the invariant if the
\* event follows all the player may have seen of starts, if what has restarted
\* stays the last entry of its load, and if it starts nothing of the load to
\* play once that has restarted.
LEMMA CoreStep ==
  ASSUME MpvInv, MpvCore,
         NEW event \in Messages, mpv'.mail \in {mpv.mail, Append(mpv.mail, event)},
         IsMpv(mpv'), Grows(mpv.owner, mpv'.owner),
         \/ mpv'.commands = mpv.commands
         \/ mpv.commands # << >> /\ mpv'.commands = Tail(mpv.commands),
         mpv'.upNext \in 0 .. Len(mpv'.owner), mpv'.playing \in 0 .. Len(mpv'.owner),
         mpv'.lingering \in 0 .. Len(mpv'.owner),
         OwnersInOrder', LastPlays',
         MessageSound(event, mpv'.owner, issued),
         \A x \in 0 .. Len(mpv.owner) :
           Reached(mpv, x) => Reached(mpv', x) /\ Follows(event, x),
         event.kind \in Marks => Reached(mpv', event.entry),
         \A r \in DOMAIN mpv.owner :
           Reached(mpv, r) /\ RestartLast(mpv, r) => RestartLast(mpv', r),
         event.kind = "Restart" => RestartLast(mpv', event.entry),
         NothingToStart =>
           /\ event.kind = "Start" => mpv'.owner[event.entry] # target
           /\ event.kind = "End" => \A n \in event.inserted : mpv'.owner[n] # target
           /\ mpv'.upNext # NoEntry => mpv'.owner[mpv'.upNext] # target
           /\ mpv'.playing # NoEntry /\ mpv'.owner[mpv'.playing] = target =>
                mpv'.restarted = TRUE
  PROVE  MpvInv' /\ NoEvidence
<1>1. /\ generation' = generation /\ target' = target /\ current_entry' = current_entry
      /\ adapter' = adapter /\ issued' = issued /\ stopped' = stopped
      /\ delivered' = << >>
  BY DEF MpvCore, playerVars, Deliver
<1>2. Flags'
  BY DEF MpvCore, playerVars, MpvInv, ToldTypeOK, Flags
<1>3. Range(delivered') = {}
  BY <1>1 DEF Range
<1>4. reported' = reported
  BY <1>1, <1>3 DEF MpvCore, Deliver
<1>5. /\ AdapterSound(adapter, issued, mpv.owner, stopped)
      /\ mpv.mail \in Seq(Messages) /\ mpv.commands \in Seq(MpvCommands)
      /\ mpv.owner \in Seq(Loads) /\ current_entry \in Nat
  BY InvFacts
<1>6. IssuedInOrder' /\ JournalRefuses'
  BY <1>1 DEF MpvInv, IssuedInOrder, JournalRefuses
<1>7. /\ mpv'.mail \in Seq(Messages)
      /\ \A i \in DOMAIN mpv'.mail :
           \/ i \in DOMAIN mpv.mail /\ mpv'.mail[i] = mpv.mail[i]
           \/ /\ mpv'.mail[i] = event
              /\ \A j \in DOMAIN mpv'.mail : j <= i
  <2>1. CASE mpv'.mail = mpv.mail
    BY <1>5, <2>1
  <2>2. CASE mpv'.mail = Append(mpv.mail, event)
    BY <1>5, <2>2
  <2> QED BY <2>1, <2>2
<1>8. /\ mpv'.owner \in Seq(Loads) /\ DOMAIN mpv.owner \subseteq DOMAIN mpv'.owner
      /\ \A e \in DOMAIN mpv.owner : mpv'.owner[e] = mpv.owner[e]
      /\ DOMAIN mpv.owner \subseteq 0 .. Len(mpv.owner)
  BY <1>5 DEF Grows
<1>9. /\ mpv'.commands \in Seq(MpvCommands)
      /\ \A k \in DOMAIN mpv'.commands :
           \E l \in DOMAIN mpv.commands : mpv'.commands[k] = mpv.commands[l]
  <2>1. CASE mpv'.commands = mpv.commands
    BY <1>5, <2>1
  <2>2. CASE mpv.commands # << >> /\ mpv'.commands = Tail(mpv.commands)
    <3>1. /\ mpv'.commands \in Seq(MpvCommands)
          /\ \A k \in DOMAIN mpv'.commands :
               k + 1 \in DOMAIN mpv.commands /\ mpv'.commands[k] = mpv.commands[k + 1]
      BY <1>5, <2>2
    <3> QED BY <3>1
  <2> QED BY <2>1, <2>2
<1>10. MpvTypeOK'
  BY <1>1, <1>5, <1>7, <1>9 DEF MpvTypeOK, Grows
<1>11. MailSound'
  <2>1. \A i \in DOMAIN mpv.mail : MessageSound(mpv.mail[i], mpv'.owner, issued)
    <3>1. \A i \in DOMAIN mpv.mail : MessageSound(mpv.mail[i], mpv.owner, issued)
      BY InvFacts
    <3> QED BY <1>8, <3>1 DEF MessageSound
  <2>2. \A i \in DOMAIN mpv'.mail : MessageSound(mpv'.mail[i], mpv'.owner, issued)
    BY <1>7, <2>1
  <2> QED BY <1>1, <2>2 DEF MailSound
<1>12. StartsInOrder'
  <2>1. /\ Reached(mpv, current_entry) /\ Reached(mpv, adapter.active)
        /\ \A i \in DOMAIN mpv.mail :
             Follows(mpv.mail[i], current_entry) /\ Follows(mpv.mail[i], adapter.active)
    BY DEF MpvInv, StartsInOrder
  <2>2. current_entry \in 0 .. Len(mpv.owner) /\ adapter.active \in 0 .. Len(mpv.owner)
    <3>1. DOMAIN adapter.entries \subseteq DOMAIN mpv.owner
      BY <1>5 DEF AdapterSound, Credits
    <3>2. adapter.active \in DOMAIN mpv.owner \cup {0}
      BY <1>5, <3>1 DEF AdapterSound, NoEntry
    <3>3. current_entry <= Len(mpv.owner)
      BY <2>1 DEF Reached
    <3> QED BY <1>5, <3>2, <3>3
  <2>3. /\ Reached(mpv', current_entry) /\ Reached(mpv', adapter.active)
        /\ \A i \in DOMAIN mpv'.mail :
             Follows(mpv'.mail[i], current_entry) /\ Follows(mpv'.mail[i], adapter.active)
    BY <1>7, <2>1, <2>2
  <2>4. /\ \A i, j \in DOMAIN mpv.mail : i < j /\ mpv.mail[i].kind \in Marks =>
             Follows(mpv.mail[j], mpv.mail[i].entry)
        /\ \A i \in DOMAIN mpv.mail :
             mpv.mail[i].kind \in Marks => Reached(mpv, mpv.mail[i].entry)
    BY DEF MpvInv, StartsInOrder
  <2>5. \A i \in DOMAIN mpv.mail :
          mpv.mail[i].kind \in Marks =>
            /\ mpv.mail[i].entry \in 0 .. Len(mpv.owner)
            /\ Reached(mpv', mpv.mail[i].entry) /\ Follows(event, mpv.mail[i].entry)
    <3>1. \A i \in DOMAIN mpv.mail :
            mpv.mail[i].kind \in Marks => mpv.mail[i].entry \in DOMAIN mpv.owner
      BY InvFacts DEF MessageSound
    <3> QED BY <1>8, <2>4, <3>1
  <2>6. \A i \in DOMAIN mpv'.mail :
          mpv'.mail[i].kind \in Marks => Reached(mpv', mpv'.mail[i].entry)
    BY <1>7, <2>5
  <2>7. ASSUME NEW i \in DOMAIN mpv'.mail, NEW j \in DOMAIN mpv'.mail, i < j,
               mpv'.mail[i].kind \in Marks
        PROVE  Follows(mpv'.mail[j], mpv'.mail[i].entry)
    <3>1. i \in DOMAIN mpv.mail /\ mpv'.mail[i] = mpv.mail[i]
      BY <1>7, <2>7
    <3> QED BY <1>7, <2>4, <2>5, <2>7, <3>1
  <2> QED BY <1>1, <2>3, <2>6, <2>7 DEF StartsInOrder
<1>13. RestartIsLast'
  <2>1. \A i \in DOMAIN mpv.mail : mpv.mail[i].kind = "Restart" =>
          /\ mpv.mail[i].entry \in DOMAIN mpv.owner
          /\ Reached(mpv, mpv.mail[i].entry) /\ RestartLast(mpv, mpv.mail[i].entry)
    BY InvFacts DEF MpvInv, StartsInOrder, RestartIsLast, MessageSound, Marks
  <2>2. \A i \in DOMAIN mpv'.mail :
          mpv'.mail[i].kind = "Restart" => RestartLast(mpv', mpv'.mail[i].entry)
    BY <1>7, <2>1
  <2> QED BY <2>2 DEF RestartIsLast
<1>14. AdapterInv'
  <2>1. AdapterSound(adapter, issued, mpv'.owner, stopped)
    BY <1>5, <1>8, AdapterKeeps
  <2> QED BY <1>1, <2>1 DEF AdapterInv
<1>15. FirstStartIsOver'
  <2> SUFFICES ASSUME "FirstStart" \in reported' PROVE NoFirstStartLeft'
    BY DEF FirstStartIsOver
  <2>1. NoFirstStartLeft
    BY <1>4 DEF MpvInv, FirstStartIsOver
  <2>2. NothingToStart
    BY <2>1 DEF NoFirstStartLeft
  <2>3. \A k \in DOMAIN mpv'.commands : mpv'.commands[k].kind = "loadfile" =>
          issued[mpv'.commands[k].request] # target
    BY <1>9, <2>2 DEF NothingToStart
  <2>4. \A i \in DOMAIN mpv.mail :
          /\ mpv.mail[i].kind = "Start" => mpv'.owner[mpv.mail[i].entry] # target
          /\ mpv.mail[i].kind = "End" =>
               \A n \in mpv.mail[i].inserted : mpv'.owner[n] # target
    <3>1. \A i \in DOMAIN mpv.mail : MessageSound(mpv.mail[i], mpv.owner, issued)
      BY InvFacts
    <3> QED BY <1>8, <2>2, <3>1 DEF NothingToStart, MessageSound, Marks
  <2>5. \A i \in DOMAIN mpv'.mail :
          /\ mpv'.mail[i].kind = "Start" => mpv'.owner[mpv'.mail[i].entry] # target
          /\ mpv'.mail[i].kind = "End" =>
               \A n \in mpv'.mail[i].inserted : mpv'.owner[n] # target
    BY <1>7, <2>2, <2>4
  <2>6. NothingToStart'
    BY <1>1, <2>2, <2>3, <2>5 DEF NothingToStart
  <2>7. current_entry \in DOMAIN adapter.entries => current_entry \in DOMAIN mpv.owner
    BY <1>5 DEF AdapterSound, Credits
  <2>8. current_entry \in DOMAIN adapter.entries /\ mpv'.owner[current_entry] = target =>
          current_entry \in adapter.started
    BY <1>5, <2>1, <2>7 DEF NoFirstStartLeft, Grows
  <2> QED BY <1>1, <2>6, <2>8 DEF NoFirstStartLeft
<1>16. ToldTypeOK' /\ StoppedStaysSilent' /\ NoEvidence
  BY <1>1, <1>2, <1>3, <1>4 DEF MpvInv, ToldTypeOK, StoppedStaysSilent, NoEvidence
<1> QED BY <1>6, <1>10, <1>11, <1>12, <1>13, <1>14, <1>15, <1>16 DEF MpvInv

\* A step of libmpv that accepts no entry keeps their order.
LEMMA OwnersKeep ==
  ASSUME MpvInv, MpvCore, mpv'.owner = mpv.owner,
         \/ mpv'.commands = mpv.commands
         \/ mpv.commands # << >> /\ mpv'.commands = Tail(mpv.commands)
  PROVE  OwnersInOrder' /\ Grows(mpv.owner, mpv'.owner)
<1>1. issued' = issued /\ mpv.owner \in Seq(Loads) /\ mpv.commands \in Seq(MpvCommands)
  BY InvFacts DEF MpvCore
<1>2. OwnersInOrder
  BY DEF MpvInv
<1>3. CASE mpv'.commands = mpv.commands
  BY <1>1, <1>2, <1>3 DEF OwnersInOrder, Grows
<1>4. CASE mpv.commands # << >> /\ mpv'.commands = Tail(mpv.commands)
  <2>1. \A k \in DOMAIN mpv'.commands :
          k + 1 \in DOMAIN mpv.commands /\ mpv'.commands[k] = mpv.commands[k + 1]
    BY <1>1, <1>4
  <2>2. \A k, l \in DOMAIN mpv'.commands : l > k => l + 1 > k + 1
    BY <1>1, <1>4
  <2>3. Grows(mpv.owner, mpv'.owner)
    BY <1>1 DEF Grows
  <2>4. ASSUME NEW k \in DOMAIN mpv'.commands, mpv'.commands[k].kind = "loadfile"
        PROVE  /\ mpv'.commands[k].request \in DOMAIN issued
               /\ \A e \in DOMAIN mpv.owner :
                    Before(mpv.owner[e], issued[mpv'.commands[k].request])
               /\ \A l \in DOMAIN mpv'.commands : l > k /\ mpv'.commands[l].kind = "loadfile" =>
                    mpv'.commands[k].request < mpv'.commands[l].request
    BY <1>2, <2>1, <2>2, <2>4 DEF OwnersInOrder
  <2>5. /\ \A d, e \in DOMAIN mpv.owner : d < e => NotAfter(mpv.owner[d], mpv.owner[e])
        /\ mpv.owner # << >> =>
             /\ issued # << >>
             /\ \A e \in DOMAIN mpv.owner : NotAfter(mpv.owner[e], issued[Len(issued)])
    BY <1>2 DEF OwnersInOrder
  <2> QED BY <1>1, <2>3, <2>4, <2>5 DEF OwnersInOrder
<1> QED BY <1>3, <1>4

\* An event that says nothing of an entry, for the steps that post none.
Nothing == [kind |-> "Shutdown"]

\* Such an event keeps every part of the invariant about messages.
LEMMA NothingSound ==
  /\ Nothing \in Messages /\ Nothing.kind = "Shutdown" /\ Nothing.kind \notin Marks
  /\ \A owner, asked : MessageSound(Nothing, owner, asked)
  /\ \A x : Follows(Nothing, x)
BY DEF Nothing, Messages, Marks, MessageSound, Follows

\* An end is a message, and no mark of a start.
LEMMA EndSound ==
  ASSUME NEW entry \in Nat, NEW reason \in {"Ended", "Stop", "Redirect"}, NEW inserted \in SUBSET Nat
  PROVE  LET end == EndOf(entry, reason, inserted)
         IN  /\ end \in Messages /\ end.kind = "End" /\ end.kind \notin Marks
             /\ end.entry = entry /\ end.inserted = inserted
BY DEF EndOf, Messages, Marks

\* A mark is a message about its entry.
LEMMA AboutSound ==
  ASSUME NEW entry \in Nat, NEW kind \in Marks
  PROVE  LET mark == About(kind, entry)
         IN  mark \in Messages /\ mark.kind = kind /\ mark.entry = entry /\ mark.kind # "End"
               /\ mark.kind # "Reply"
BY DEF About, Messages, Marks

\* A refused loadfile is answered, and no entry comes of it.
LEMMA MpvRefusesLoadSound ==
  ASSUME MpvInv, MpvRefusesLoad PROVE MpvInv' /\ NoEvidence
<1> DEFINE event == Reply(Head(mpv.commands).request, FALSE, NoEntry)
<1>1. /\ IsMpv(mpv) /\ mpv.commands # << >> /\ MpvCore
      /\ mpv' = [mpv EXCEPT !.commands = Tail(@), !.mail = Append(@, event)]
      /\ Head(mpv.commands).kind = "loadfile" /\ mpv.commands \in Seq(MpvCommands)
  BY InvFacts DEF MpvRefusesLoad, Pending
<1>2. /\ IsMpv(mpv') /\ mpv'.upNext = mpv.upNext /\ mpv'.playing = mpv.playing
      /\ mpv'.restarted = mpv.restarted /\ mpv'.lingering = mpv.lingering
      /\ mpv'.owner = mpv.owner /\ mpv'.commands = Tail(mpv.commands)
      /\ mpv'.mail = Append(mpv.mail, event)
  BY <1>1 DEF IsMpv, MpvFields
<1>3. Head(mpv.commands).request \in Nat
  BY <1>1 DEF MpvCommands
<1>4. event \in Messages
  BY <1>3 DEF Reply, Messages, NoEntry
<1>5. event.kind = "Reply" /\ ~event.accepted
  BY DEF Reply
<1> HIDE DEF event
<1>6. OwnersInOrder' /\ Grows(mpv.owner, mpv'.owner)
  BY <1>1, <1>2, OwnersKeep
<1>7. LastPlays'
  BY <1>2 DEF MpvInv, LastPlays
<1>8. MessageSound(event, mpv'.owner, issued) /\ \A x : Follows(event, x)
  BY <1>5 DEF MessageSound, Follows, Marks
<1>9. \A x : Reached(mpv, x) => Reached(mpv', x)
  BY <1>2 DEF Reached
<1>10. \A r : RestartLast(mpv, r) => RestartLast(mpv', r)
  BY <1>2 DEF RestartLast
<1>11. event.kind \notin Marks /\ event.kind # "Start" /\ event.kind # "End" /\ event.kind # "Restart"
  BY <1>5 DEF Marks
<1>12. NothingToStart =>
         /\ mpv'.upNext # NoEntry => mpv'.owner[mpv'.upNext] # target
         /\ mpv'.playing # NoEntry /\ mpv'.owner[mpv'.playing] = target =>
              mpv'.restarted = TRUE
  BY <1>2 DEF NothingToStart
<1>13. /\ mpv'.upNext \in 0 .. Len(mpv'.owner) /\ mpv'.playing \in 0 .. Len(mpv'.owner)
       /\ mpv'.lingering \in 0 .. Len(mpv'.owner)
  BY <1>2, InvFacts
<1> QED BY <1>1, <1>2, <1>4, <1>6, <1>7, <1>8, <1>9, <1>10, <1>11, <1>12, <1>13, CoreStep

\* A log line is written while its entry plays.
LEMMA MpvLogsSound ==
  ASSUME MpvInv, MpvLogs PROVE MpvInv' /\ NoEvidence
<1> DEFINE event == About("Log", mpv.playing)
<1>1. /\ IsMpv(mpv) /\ MpvCore /\ mpv.playing # NoEntry /\ mpv' = Post(mpv, event)
      /\ mpv.playing \in 0 .. Len(mpv.owner) /\ mpv.upNext \in 0 .. Len(mpv.owner)
      /\ mpv.lingering \in 0 .. Len(mpv.owner) /\ mpv.owner \in Seq(Loads)
  BY InvFacts DEF MpvLogs
<1>2. /\ IsMpv(mpv') /\ mpv'.upNext = mpv.upNext /\ mpv'.playing = mpv.playing
      /\ mpv'.restarted = mpv.restarted /\ mpv'.lingering = mpv.lingering
      /\ mpv'.owner = mpv.owner /\ mpv'.commands = mpv.commands
      /\ mpv'.mail \in {mpv.mail, Append(mpv.mail, event)}
  BY <1>1, PostFields
<1>3. mpv.playing \in Nat /\ "Log" \in Marks
  BY <1>1 DEF Marks
<1>4. /\ event \in Messages /\ event.kind = "Log" /\ event.entry = mpv.playing
  BY <1>3, AboutSound
<1> HIDE DEF event
<1>5. OwnersInOrder' /\ Grows(mpv.owner, mpv'.owner)
  BY <1>1, <1>2, OwnersKeep
<1>6. LastPlays'
  BY <1>2 DEF MpvInv, LastPlays
<1>7. MessageSound(event, mpv'.owner, issued)
  BY <1>1, <1>2, <1>4 DEF MessageSound, NoEntry
<1>8. \A x \in 0 .. Len(mpv.owner) : Reached(mpv, x) => Reached(mpv', x) /\ Follows(event, x)
  BY <1>1, <1>2, <1>4 DEF Reached, Follows
<1>9. Reached(mpv', event.entry)
  BY <1>1, <1>2, <1>4 DEF Reached, MpvInv, LastPlays
<1>10. \A r : RestartLast(mpv, r) => RestartLast(mpv', r)
  BY <1>2 DEF RestartLast
<1>11. event.kind # "Start" /\ event.kind # "End" /\ event.kind # "Restart"
  BY <1>4
<1>12. NothingToStart =>
         /\ mpv'.upNext # NoEntry => mpv'.owner[mpv'.upNext] # target
         /\ mpv'.playing # NoEntry /\ mpv'.owner[mpv'.playing] = target =>
              mpv'.restarted = TRUE
  BY <1>2 DEF NothingToStart
<1> QED BY <1>1, <1>2, <1>4, <1>5, <1>6, <1>7, <1>8, <1>9, <1>10, <1>11, <1>12, CoreStep

\* libmpv shuts down: it plays nothing any more, and says so.
LEMMA MpvShutsDownSound ==
  ASSUME MpvInv, MpvShutsDown PROVE MpvInv' /\ NoEvidence
<1> DEFINE p == Post(mpv, Nothing)
<1>1. /\ IsMpv(mpv) /\ MpvCore
      /\ mpv.playing \in 0 .. Len(mpv.owner) /\ mpv.upNext \in 0 .. Len(mpv.owner)
      /\ mpv.lingering \in 0 .. Len(mpv.owner) /\ mpv.owner \in Seq(Loads)
  BY InvFacts DEF MpvShutsDown
<1>2. /\ IsMpv(p) /\ p.upNext = mpv.upNext /\ p.playing = mpv.playing
      /\ p.restarted = mpv.restarted /\ p.lingering = mpv.lingering
      /\ p.owner = mpv.owner /\ p.commands = mpv.commands
      /\ p.mail \in {mpv.mail, Append(mpv.mail, Nothing)}
  BY <1>1, PostFields
<1>3. mpv' = [p EXCEPT !.state = "Down"]
  BY DEF MpvShutsDown, Nothing
<1> HIDE DEF p
<1>4. /\ IsMpv(mpv') /\ mpv'.upNext = mpv.upNext /\ mpv'.playing = mpv.playing
      /\ mpv'.restarted = mpv.restarted /\ mpv'.lingering = mpv.lingering
      /\ mpv'.owner = mpv.owner /\ mpv'.commands = mpv.commands
      /\ mpv'.mail = p.mail
  BY <1>2, <1>3 DEF IsMpv, MpvFields
<1>5. OwnersInOrder' /\ Grows(mpv.owner, mpv'.owner)
  BY <1>1, <1>4, OwnersKeep
<1>6. LastPlays'
  BY <1>4 DEF MpvInv, LastPlays
<1>7. /\ Nothing \in Messages /\ Nothing.kind = "Shutdown" /\ Nothing.kind \notin Marks
      /\ MessageSound(Nothing, mpv'.owner, issued) /\ \A x : Follows(Nothing, x)
  BY NothingSound
<1>8. \A x : Reached(mpv, x) => Reached(mpv', x)
  BY <1>4 DEF Reached
<1>9. \A r : RestartLast(mpv, r) => RestartLast(mpv', r)
  BY <1>4 DEF RestartLast
<1>10. NothingToStart =>
         /\ mpv'.upNext # NoEntry => mpv'.owner[mpv'.upNext] # target
         /\ mpv'.playing # NoEntry /\ mpv'.owner[mpv'.playing] = target =>
              mpv'.restarted = TRUE
  BY <1>4 DEF NothingToStart
<1>11. mpv'.mail \in {mpv.mail, Append(mpv.mail, Nothing)}
  BY <1>2, <1>4
<1> QED BY <1>1, <1>4, <1>5, <1>6, <1>7, <1>8, <1>9, <1>10, <1>11, CoreStep

\* The playing entry restarts, and is the last of its load from then on.
LEMMA MpvRestartsSound ==
  ASSUME MpvInv, MpvRestarts PROVE MpvInv' /\ NoEvidence
<1> DEFINE m == [mpv EXCEPT !.restarted = TRUE]
           event == About("Restart", mpv.playing)
<1>1. /\ IsMpv(mpv) /\ MpvCore
      /\ mpv.playing \in 0 .. Len(mpv.owner) /\ mpv.upNext \in 0 .. Len(mpv.owner)
      /\ mpv.lingering \in 0 .. Len(mpv.owner) /\ mpv.owner \in Seq(Loads)
  BY InvFacts DEF MpvRestarts
<1>2. /\ IsMpv(m) /\ m.upNext = mpv.upNext /\ m.playing = mpv.playing
      /\ m.restarted = TRUE /\ m.lingering = mpv.lingering
      /\ m.owner = mpv.owner /\ m.commands = mpv.commands /\ m.mail = mpv.mail
  BY <1>1 DEF IsMpv, MpvFields
<1>3. mpv' = Post(m, event) /\ mpv.playing # NoEntry
  BY DEF MpvRestarts
<1> HIDE DEF m
<1>4. /\ IsMpv(mpv') /\ mpv'.upNext = mpv.upNext /\ mpv'.playing = mpv.playing
      /\ mpv'.restarted = TRUE /\ mpv'.lingering = mpv.lingering
      /\ mpv'.owner = mpv.owner /\ mpv'.commands = mpv.commands
      /\ mpv'.mail \in {mpv.mail, Append(mpv.mail, event)}
  <2>1. LET p == Post(m, event)
        IN  /\ IsMpv(p) /\ p.state = m.state /\ p.commands = m.commands
            /\ p.upNext = m.upNext /\ p.playing = m.playing /\ p.restarted = m.restarted
            /\ p.lingering = m.lingering /\ p.owner = m.owner
            /\ p.mail \in {m.mail, Append(m.mail, event)}
    BY <1>2, PostFields
  <2> QED BY <1>2, <1>3, <2>1
<1>5. mpv.playing \in Nat /\ "Restart" \in Marks
  BY <1>1 DEF Marks
<1>6. event \in Messages /\ event.kind = "Restart" /\ event.entry = mpv.playing
  BY <1>5, AboutSound
<1> HIDE DEF event
<1>7. OwnersInOrder' /\ Grows(mpv.owner, mpv'.owner)
  BY <1>1, <1>4, OwnersKeep
<1>8. LastPlays'
  BY <1>4 DEF MpvInv, LastPlays
<1>9. MessageSound(event, mpv'.owner, issued)
  BY <1>1, <1>3, <1>4, <1>6 DEF MessageSound, NoEntry
<1>10. \A x \in 0 .. Len(mpv.owner) : Reached(mpv, x) => Reached(mpv', x) /\ Follows(event, x)
  BY <1>1, <1>3, <1>4, <1>6 DEF Reached, Follows
<1>11. Reached(mpv', event.entry)
  BY <1>1, <1>3, <1>4, <1>6 DEF Reached, MpvInv, LastPlays
<1>12. \A r : RestartLast(mpv, r) => RestartLast(mpv', r)
  BY <1>4 DEF RestartLast
<1>13. RestartLast(mpv', event.entry)
  BY <1>3, <1>4, <1>6 DEF RestartLast, MpvInv, LastPlays
<1>14. event.kind # "Start" /\ event.kind # "End"
  BY <1>6
<1>15. NothingToStart =>
         /\ mpv'.upNext # NoEntry => mpv'.owner[mpv'.upNext] # target
         /\ mpv'.playing # NoEntry /\ mpv'.owner[mpv'.playing] = target =>
              mpv'.restarted = TRUE
  BY <1>4 DEF NothingToStart
<1> QED BY <1>1, <1>4, <1>6, <1>7, <1>8, <1>9, <1>10, <1>11, <1>12, <1>13, <1>14, <1>15,
           CoreStep

\* The next entry starts, and every entry before it has been started.
LEMMA MpvStartsSound ==
  ASSUME MpvInv, MpvStarts PROVE MpvInv' /\ NoEvidence
<1> DEFINE m == [mpv EXCEPT !.upNext = NoEntry, !.playing = mpv.upNext,
                            !.lingering = mpv.playing, !.restarted = FALSE]
           event == About("Start", mpv.upNext)
<1>1. /\ IsMpv(mpv) /\ MpvCore
      /\ mpv.playing \in 0 .. Len(mpv.owner) /\ mpv.upNext \in 0 .. Len(mpv.owner)
      /\ mpv.lingering \in 0 .. Len(mpv.owner) /\ mpv.owner \in Seq(Loads)
  BY InvFacts DEF MpvStarts
<1>2. /\ IsMpv(m) /\ m.upNext = NoEntry /\ m.playing = mpv.upNext
      /\ m.lingering = mpv.playing
      /\ m.owner = mpv.owner /\ m.commands = mpv.commands /\ m.mail = mpv.mail
  BY <1>1 DEF IsMpv, MpvFields
<1>3. mpv' = Post(m, event) /\ mpv.upNext # NoEntry
  BY DEF MpvStarts
<1> HIDE DEF m
<1>4. /\ IsMpv(mpv') /\ mpv'.upNext = NoEntry /\ mpv'.playing = mpv.upNext
      /\ mpv'.lingering = mpv.playing
      /\ mpv'.owner = mpv.owner /\ mpv'.commands = mpv.commands
      /\ mpv'.mail \in {mpv.mail, Append(mpv.mail, event)}
  <2>1. LET p == Post(m, event)
        IN  /\ IsMpv(p) /\ p.commands = m.commands
            /\ p.upNext = m.upNext /\ p.playing = m.playing
            /\ p.lingering = m.lingering /\ p.owner = m.owner
            /\ p.mail \in {m.mail, Append(m.mail, event)}
    BY <1>2, PostFields
  <2> QED BY <1>2, <1>3, <2>1
<1>5. mpv.upNext \in Nat /\ "Start" \in Marks
  BY <1>1 DEF Marks
<1>6. event \in Messages /\ event.kind = "Start" /\ event.entry = mpv.upNext
  BY <1>5, AboutSound
<1> HIDE DEF event
<1>7. OwnersInOrder' /\ Grows(mpv.owner, mpv'.owner)
  BY <1>1, <1>4, OwnersKeep
<1>8. mpv.upNext = Len(mpv.owner)
  BY <1>3 DEF MpvInv, LastPlays
<1>9. LastPlays'
  BY <1>1, <1>4, <1>8 DEF LastPlays, NoEntry
<1>10. MessageSound(event, mpv'.owner, issued)
  BY <1>1, <1>3, <1>4, <1>6 DEF MessageSound, NoEntry
<1>11. \A x \in 0 .. Len(mpv.owner) : Reached(mpv, x) => Reached(mpv', x) /\ Follows(event, x)
  BY <1>1, <1>3, <1>4, <1>6 DEF Reached, Follows
<1>12. Reached(mpv', event.entry)
  BY <1>1, <1>4, <1>6 DEF Reached
<1>13. \A r \in DOMAIN mpv.owner :
         Reached(mpv, r) /\ RestartLast(mpv, r) => RestartLast(mpv', r)
  BY <1>1, <1>3, <1>4 DEF RestartLast, Reached
<1>14. event.kind # "End" /\ event.kind # "Restart"
  BY <1>6
<1>15. NothingToStart =>
         /\ mpv'.owner[event.entry] # target
         /\ mpv'.upNext # NoEntry => mpv'.owner[mpv'.upNext] # target
         /\ mpv'.playing # NoEntry /\ mpv'.owner[mpv'.playing] = target =>
              mpv'.restarted = TRUE
  BY <1>3, <1>4, <1>6 DEF NothingToStart
<1>16. /\ mpv'.upNext \in 0 .. Len(mpv'.owner) /\ mpv'.playing \in 0 .. Len(mpv'.owner)
       /\ mpv'.lingering \in 0 .. Len(mpv'.owner)
  BY <1>1, <1>4 DEF NoEntry
<1> QED BY <1>1, <1>4, <1>6, <1>7, <1>9, <1>10, <1>11, <1>12, <1>13, <1>14, <1>15, <1>16,
           CoreStep

\* The end of an entry that another one has replaced.
LEMMA MpvEndsReplacedSound ==
  ASSUME MpvInv, MpvEndsReplaced PROVE MpvInv' /\ NoEvidence
<1> DEFINE m == [mpv EXCEPT !.lingering = NoEntry]
           event == EndOf(mpv.lingering, "Stop", {})
<1>1. /\ IsMpv(mpv) /\ MpvCore
      /\ mpv.playing \in 0 .. Len(mpv.owner) /\ mpv.upNext \in 0 .. Len(mpv.owner)
      /\ mpv.lingering \in 0 .. Len(mpv.owner) /\ mpv.owner \in Seq(Loads)
  BY InvFacts DEF MpvEndsReplaced
<1>2. /\ IsMpv(m) /\ m.upNext = mpv.upNext /\ m.playing = mpv.playing
      /\ m.restarted = mpv.restarted /\ m.lingering = NoEntry
      /\ m.owner = mpv.owner /\ m.commands = mpv.commands /\ m.mail = mpv.mail
  BY <1>1 DEF IsMpv, MpvFields
<1>3. mpv' = Post(m, event) /\ mpv.lingering # NoEntry
  BY DEF MpvEndsReplaced
<1> HIDE DEF m
<1>4. /\ IsMpv(mpv') /\ mpv'.upNext = mpv.upNext /\ mpv'.playing = mpv.playing
      /\ mpv'.restarted = mpv.restarted /\ mpv'.lingering = NoEntry
      /\ mpv'.owner = mpv.owner /\ mpv'.commands = mpv.commands
      /\ mpv'.mail \in {mpv.mail, Append(mpv.mail, event)}
  <2>1. LET p == Post(m, event)
        IN  /\ IsMpv(p) /\ p.commands = m.commands
            /\ p.upNext = m.upNext /\ p.playing = m.playing /\ p.restarted = m.restarted
            /\ p.lingering = m.lingering /\ p.owner = m.owner
            /\ p.mail \in {m.mail, Append(m.mail, event)}
    BY <1>2, PostFields
  <2> QED BY <1>2, <1>3, <2>1
<1>5. mpv.lingering \in Nat
  BY <1>1
<1>6. /\ event \in Messages /\ event.kind = "End" /\ event.kind \notin Marks
      /\ event.entry = mpv.lingering /\ event.inserted = {}
  BY <1>5, EndSound
<1> HIDE DEF event
<1>7. OwnersInOrder' /\ Grows(mpv.owner, mpv'.owner)
  BY <1>1, <1>4, OwnersKeep
<1>8. LastPlays'
  BY <1>1, <1>4 DEF MpvInv, LastPlays, NoEntry
<1>9. MessageSound(event, mpv'.owner, issued)
  BY <1>1, <1>3, <1>4, <1>6 DEF MessageSound, NoEntry
<1>10. \A x \in 0 .. Len(mpv.owner) : Reached(mpv, x) => Reached(mpv', x) /\ Follows(event, x)
  BY <1>1, <1>4, <1>6 DEF Reached, Follows
<1>11. \A r \in DOMAIN mpv.owner :
         Reached(mpv, r) /\ RestartLast(mpv, r) => RestartLast(mpv', r)
  BY <1>1, <1>4 DEF RestartLast, NoEntry
<1>12. event.kind # "Start" /\ event.kind # "Restart"
  BY <1>6
<1>13. NothingToStart =>
         /\ \A n \in event.inserted : mpv'.owner[n] # target
         /\ mpv'.upNext # NoEntry => mpv'.owner[mpv'.upNext] # target
         /\ mpv'.playing # NoEntry /\ mpv'.owner[mpv'.playing] = target =>
              mpv'.restarted = TRUE
  BY <1>4, <1>6 DEF NothingToStart
<1>14. /\ mpv'.upNext \in 0 .. Len(mpv'.owner) /\ mpv'.playing \in 0 .. Len(mpv'.owner)
       /\ mpv'.lingering \in 0 .. Len(mpv'.owner)
  BY <1>1, <1>4 DEF NoEntry
<1> QED BY <1>1, <1>4, <1>6, <1>7, <1>8, <1>9, <1>10, <1>11, <1>12, <1>13, <1>14, CoreStep

\* The playing entry ends by itself.
LEMMA MpvEndsSound ==
  ASSUME MpvInv, MpvEnds PROVE MpvInv' /\ NoEvidence
<1> DEFINE m == [mpv EXCEPT !.playing = NoEntry]
           reason == IF mpv.upNext = NoEntry THEN "Ended" ELSE "Stop"
           event == EndOf(mpv.playing, reason, {})
<1>1. /\ IsMpv(mpv) /\ MpvCore
      /\ mpv.playing \in 0 .. Len(mpv.owner) /\ mpv.upNext \in 0 .. Len(mpv.owner)
      /\ mpv.lingering \in 0 .. Len(mpv.owner) /\ mpv.owner \in Seq(Loads)
  BY InvFacts DEF MpvEnds
<1>2. /\ IsMpv(m) /\ m.upNext = mpv.upNext /\ m.playing = NoEntry
      /\ m.restarted = mpv.restarted /\ m.lingering = mpv.lingering
      /\ m.owner = mpv.owner /\ m.commands = mpv.commands /\ m.mail = mpv.mail
  BY <1>1 DEF IsMpv, MpvFields
<1>3. mpv' = Post(m, event) /\ mpv.playing # NoEntry
  BY DEF MpvEnds
<1> HIDE DEF m
<1>4. /\ IsMpv(mpv') /\ mpv'.upNext = mpv.upNext /\ mpv'.playing = NoEntry
      /\ mpv'.restarted = mpv.restarted /\ mpv'.lingering = mpv.lingering
      /\ mpv'.owner = mpv.owner /\ mpv'.commands = mpv.commands
      /\ mpv'.mail \in {mpv.mail, Append(mpv.mail, event)}
  <2>1. LET p == Post(m, event)
        IN  /\ IsMpv(p) /\ p.commands = m.commands
            /\ p.upNext = m.upNext /\ p.playing = m.playing /\ p.restarted = m.restarted
            /\ p.lingering = m.lingering /\ p.owner = m.owner
            /\ p.mail \in {m.mail, Append(m.mail, event)}
    BY <1>2, PostFields
  <2> QED BY <1>2, <1>3, <2>1
<1>5. mpv.playing \in Nat /\ reason \in {"Ended", "Stop"}
  BY <1>1
<1> HIDE DEF reason
<1>6. /\ event \in Messages /\ event.kind = "End" /\ event.kind \notin Marks
      /\ event.entry = mpv.playing /\ event.inserted = {}
  BY <1>5, EndSound
<1> HIDE DEF event
<1>7. OwnersInOrder' /\ Grows(mpv.owner, mpv'.owner)
  BY <1>1, <1>4, OwnersKeep
<1>8. LastPlays'
  BY <1>1, <1>4 DEF MpvInv, LastPlays, NoEntry
<1>9. MessageSound(event, mpv'.owner, issued)
  BY <1>1, <1>3, <1>4, <1>6 DEF MessageSound, NoEntry
<1>10. \A x \in 0 .. Len(mpv.owner) : Reached(mpv, x) => Reached(mpv', x) /\ Follows(event, x)
  BY <1>1, <1>4, <1>6 DEF Reached, Follows
<1>11. \A r \in DOMAIN mpv.owner :
         Reached(mpv, r) /\ RestartLast(mpv, r) => RestartLast(mpv', r)
  BY <1>1, <1>4 DEF RestartLast, NoEntry
<1>12. event.kind # "Start" /\ event.kind # "Restart"
  BY <1>6
<1>13. NothingToStart =>
         /\ \A n \in event.inserted : mpv'.owner[n] # target
         /\ mpv'.upNext # NoEntry => mpv'.owner[mpv'.upNext] # target
         /\ mpv'.playing # NoEntry /\ mpv'.owner[mpv'.playing] = target =>
              mpv'.restarted = TRUE
  BY <1>4, <1>6 DEF NothingToStart
<1>14. /\ mpv'.upNext \in 0 .. Len(mpv'.owner) /\ mpv'.playing \in 0 .. Len(mpv'.owner)
       /\ mpv'.lingering \in 0 .. Len(mpv'.owner)
  BY <1>1, <1>4 DEF NoEntry
<1> QED BY <1>1, <1>4, <1>6, <1>7, <1>8, <1>9, <1>10, <1>11, <1>12, <1>13, <1>14, CoreStep

\* libmpv runs the stop command: what plays ends, and what was to be started is
\* dropped.
LEMMA MpvStopsSound ==
  ASSUME MpvInv, MpvStops PROVE MpvInv' /\ NoEvidence
<1> DEFINE skip == mpv.skipped \/ (/\ mpv.upNext # NoEntry
                                   /\ mpv.owner[mpv.upNext].generation \notin stopped)
           m == [mpv EXCEPT !.commands = Tail(@), !.upNext = NoEntry, !.playing = NoEntry,
                            !.skipped = skip]
           told == EndOf(mpv.playing, "Stop", {})
           event == IF mpv.playing = NoEntry THEN Nothing ELSE told
<1>1. /\ IsMpv(mpv) /\ MpvCore
      /\ mpv.playing \in 0 .. Len(mpv.owner) /\ mpv.upNext \in 0 .. Len(mpv.owner)
      /\ mpv.lingering \in 0 .. Len(mpv.owner) /\ mpv.owner \in Seq(Loads)
  BY InvFacts DEF MpvStops
<1>2. /\ IsMpv(m) /\ m.upNext = NoEntry /\ m.playing = NoEntry
      /\ m.restarted = mpv.restarted /\ m.lingering = mpv.lingering
      /\ m.owner = mpv.owner /\ m.commands = Tail(mpv.commands) /\ m.mail = mpv.mail
  <2> HIDE DEF skip
  <2> QED BY <1>1 DEF IsMpv, MpvFields
<1>3. /\ mpv' = IF mpv.playing = NoEntry THEN m ELSE Post(m, told)
      /\ mpv.commands # << >>
  BY DEF MpvStops, Pending
<1> HIDE DEF m
<1>4. /\ IsMpv(mpv') /\ mpv'.upNext = NoEntry /\ mpv'.playing = NoEntry
      /\ mpv'.restarted = mpv.restarted /\ mpv'.lingering = mpv.lingering
      /\ mpv'.owner = mpv.owner /\ mpv'.commands = Tail(mpv.commands)
      /\ mpv'.mail \in {mpv.mail, Append(mpv.mail, event)}
  <2>1. LET p == Post(m, told)
        IN  /\ IsMpv(p) /\ p.commands = m.commands
            /\ p.upNext = m.upNext /\ p.playing = m.playing /\ p.restarted = m.restarted
            /\ p.lingering = m.lingering /\ p.owner = m.owner
            /\ p.mail \in {m.mail, Append(m.mail, told)}
    BY <1>2, PostFields
  <2>2. CASE mpv.playing = NoEntry
    BY <1>2, <1>3, <2>2
  <2>3. CASE mpv.playing # NoEntry
    BY <1>2, <1>3, <2>1, <2>3
  <2> QED BY <2>2, <2>3
<1>5. mpv.playing \in Nat
  BY <1>1
<1>6. /\ told \in Messages /\ told.kind = "End" /\ told.kind \notin Marks
      /\ told.entry = mpv.playing /\ told.inserted = {}
  BY <1>5, EndSound
<1> HIDE DEF told
<1>7. OwnersInOrder' /\ Grows(mpv.owner, mpv'.owner)
  BY <1>1, <1>3, <1>4, OwnersKeep
<1>8. LastPlays'
  BY <1>1, <1>4 DEF LastPlays, NoEntry
<1>9. /\ event \in Messages /\ event.kind # "Start" /\ event.kind # "Restart"
      /\ event.kind \notin Marks /\ MessageSound(event, mpv'.owner, issued)
      /\ \A x : Follows(event, x)
      /\ event.kind = "End" => event.inserted = {}
  <2>1. CASE mpv.playing = NoEntry
    BY <2>1, NothingSound DEF Marks
  <2>2. CASE mpv.playing # NoEntry
    BY <1>1, <1>4, <1>6, <2>2 DEF MessageSound, Follows, NoEntry
  <2> QED BY <2>1, <2>2
<1> HIDE DEF event
<1>10. \A x \in 0 .. Len(mpv.owner) : Reached(mpv, x) => Reached(mpv', x)
  BY <1>1, <1>4 DEF Reached
<1>11. \A r \in DOMAIN mpv.owner : RestartLast(mpv, r) => RestartLast(mpv', r)
  BY <1>1, <1>4 DEF RestartLast, NoEntry
<1>12. NothingToStart =>
         /\ event.kind = "Start" => mpv'.owner[event.entry] # target
         /\ event.kind = "End" => \A n \in event.inserted : mpv'.owner[n] # target
         /\ mpv'.upNext # NoEntry => mpv'.owner[mpv'.upNext] # target
         /\ mpv'.playing # NoEntry /\ mpv'.owner[mpv'.playing] = target =>
              mpv'.restarted = TRUE
  BY <1>4, <1>9
<1>13. /\ mpv'.upNext \in 0 .. Len(mpv'.owner) /\ mpv'.playing \in 0 .. Len(mpv'.owner)
       /\ mpv'.lingering \in 0 .. Len(mpv'.owner)
  BY <1>1, <1>4 DEF NoEntry
<1> QED BY <1>1, <1>3, <1>4, <1>7, <1>8, <1>9, <1>10, <1>11, <1>12, <1>13, CoreStep

\* What accepting an entry of a load does to those accepted before.
LEMMA OneMoreOwner ==
  ASSUME NEW owned \in Seq(Loads), NEW load \in Loads
  PROVE  LET has == Append(owned, load)
         IN  /\ Grows(owned, has) /\ has[Len(owned) + 1] = load /\ Len(has) = Len(owned) + 1
             /\ has \in Seq(Loads)
             /\ \A e \in DOMAIN has :
                  \/ e \in DOMAIN owned /\ has[e] = owned[e]
                  \/ e = Len(owned) + 1 /\ has[e] = load
BY DEF Grows

\* A redirect, before playback, inserts an entry of the same load.
LEMMA MpvRedirectsSound ==
  ASSUME MpvInv, MpvRedirects PROVE MpvInv' /\ NoEvidence
<1> DEFINE load == mpv.owner[mpv.playing]
           has == Append(mpv.owner, load)
           m == [mpv EXCEPT !.playing = NoEntry, !.upNext = NewEntry, !.owner = has]
           event == EndOf(mpv.playing, "Redirect", {NewEntry})
<1>1. /\ IsMpv(mpv) /\ MpvCore /\ NewEntry = Len(mpv.owner) + 1
      /\ mpv.playing \in 0 .. Len(mpv.owner) /\ mpv.upNext \in 0 .. Len(mpv.owner)
      /\ mpv.lingering \in 0 .. Len(mpv.owner) /\ mpv.owner \in Seq(Loads)
      /\ mpv.commands \in Seq(MpvCommands) /\ issued \in Seq(Loads) /\ issued' = issued
  BY InvFacts DEF MpvRedirects, NewEntry, MpvCore
<1>2. /\ IsMpv(m) /\ m.upNext = NewEntry /\ m.playing = NoEntry
      /\ m.restarted = mpv.restarted /\ m.lingering = mpv.lingering
      /\ m.owner = has /\ m.commands = mpv.commands /\ m.mail = mpv.mail
  BY <1>1 DEF IsMpv, MpvFields
<1>3. mpv' = Post(m, event) /\ mpv.playing # NoEntry /\ mpv.upNext = NoEntry
      /\ mpv.restarted # TRUE
  BY <1>1 DEF MpvRedirects, IsMpv, MpvFields
<1> HIDE DEF m
<1>4. /\ IsMpv(mpv') /\ mpv'.upNext = NewEntry /\ mpv'.playing = NoEntry
      /\ mpv'.restarted = mpv.restarted /\ mpv'.lingering = mpv.lingering
      /\ mpv'.owner = has /\ mpv'.commands = mpv.commands
      /\ mpv'.mail \in {mpv.mail, Append(mpv.mail, event)}
  <2>1. LET p == Post(m, event)
        IN  /\ IsMpv(p) /\ p.commands = m.commands
            /\ p.upNext = m.upNext /\ p.playing = m.playing /\ p.restarted = m.restarted
            /\ p.lingering = m.lingering /\ p.owner = m.owner
            /\ p.mail \in {m.mail, Append(m.mail, event)}
    BY <1>2, PostFields
  <2> QED BY <1>2, <1>3, <2>1
<1>5. mpv.playing = Len(mpv.owner) /\ mpv.playing \in DOMAIN mpv.owner /\ load \in Loads
  BY <1>1, <1>3 DEF MpvInv, LastPlays, NoEntry
<1>6. /\ event \in Messages /\ event.kind = "End" /\ event.kind \notin Marks
      /\ event.entry = mpv.playing /\ event.inserted = {NewEntry}
  <2>1. mpv.playing \in Nat /\ {NewEntry} \in SUBSET Nat
    BY <1>1
  <2> QED BY <2>1, EndSound
<1> HIDE DEF event
<1>7. /\ Grows(mpv.owner, has) /\ has[NewEntry] = load /\ Len(has) = NewEntry
      /\ has \in Seq(Loads)
      /\ \A e \in DOMAIN has :
           \/ e \in DOMAIN mpv.owner /\ has[e] = mpv.owner[e]
           \/ e = NewEntry /\ has[e] = load
  BY <1>1, <1>5, OneMoreOwner
<1> HIDE DEF has
<1>8. OwnersInOrder'
  <2>1. OwnersInOrder
    BY DEF MpvInv
  <2>2. \A d \in DOMAIN mpv.owner : NotAfter(mpv.owner[d], load)
    <3> TAKE d \in DOMAIN mpv.owner
    <3>1. CASE d = mpv.playing
      BY <3>1 DEF NotAfter
    <3>2. CASE d # mpv.playing
      BY <1>1, <1>5, <2>1, <3>2 DEF OwnersInOrder
    <3> QED BY <3>1, <3>2
  <2>3. \A d, e \in DOMAIN has : d < e => NotAfter(has[d], has[e])
    BY <1>1, <1>7, <2>1, <2>2 DEF OwnersInOrder
  <2>4. issued # << >> /\ \A e \in DOMAIN has : NotAfter(has[e], issued[Len(issued)])
    BY <1>5, <1>7, <2>1 DEF OwnersInOrder
  <2>5. ASSUME NEW k \in DOMAIN mpv.commands, mpv.commands[k].kind = "loadfile"
        PROVE  /\ mpv.commands[k].request \in DOMAIN issued
               /\ \A e \in DOMAIN has : Before(has[e], issued[mpv.commands[k].request])
               /\ \A l \in DOMAIN mpv.commands : l > k /\ mpv.commands[l].kind = "loadfile" =>
                    mpv.commands[k].request < mpv.commands[l].request
    BY <1>5, <1>7, <2>1, <2>5 DEF OwnersInOrder
  <2> QED BY <1>1, <1>4, <2>3, <2>4, <2>5 DEF OwnersInOrder
<1>9. LastPlays'
  BY <1>1, <1>4, <1>7 DEF LastPlays, NoEntry
<1>10. MessageSound(event, mpv'.owner, issued)
  <2>1. NewEntry \in DOMAIN has /\ mpv.playing \in DOMAIN has /\ has[mpv.playing] = load
    BY <1>1, <1>5, <1>7 DEF Grows
  <2> QED BY <1>4, <1>6, <1>7, <2>1 DEF MessageSound
<1>11. \A x \in 0 .. Len(mpv.owner) : Reached(mpv, x) => Reached(mpv', x) /\ Follows(event, x)
  BY <1>1, <1>4, <1>6, <1>7 DEF Reached, Follows
<1>12. ASSUME NEW r \in DOMAIN mpv.owner, Reached(mpv, r), RestartLast(mpv, r)
       PROVE  RestartLast(mpv', r)
  <2>1. r \in Nat /\ r < mpv.playing /\ mpv.owner[r] # load
    <3>1. mpv.playing # r
      <4>1. mpv.restarted # TRUE
        BY <1>3
      <4>2. mpv.playing = r => mpv.restarted = TRUE
        BY <1>12 DEF RestartLast
      <4> QED BY <4>1, <4>2
    <3>2. \A e \in DOMAIN mpv.owner : e > r => mpv.owner[e] # mpv.owner[r]
      BY <1>12 DEF RestartLast
    <3>3. r <= mpv.playing /\ r \in Nat
      BY <1>1, <1>3, <1>12 DEF Reached
    <3> QED BY <1>1, <1>5, <3>1, <3>2, <3>3
  <2>2. \A e \in DOMAIN has : e > r => has[e] # has[r]
    BY <1>1, <1>7, <1>12, <2>1 DEF RestartLast, Grows
  <2> QED BY <1>1, <1>4, <2>1, <2>2 DEF RestartLast, NoEntry
<1>13. event.kind # "Start" /\ event.kind # "Restart"
  BY <1>6
<1>14. ASSUME NothingToStart
       PROVE  /\ \A n \in event.inserted : mpv'.owner[n] # target
              /\ mpv'.upNext # NoEntry => mpv'.owner[mpv'.upNext] # target
              /\ mpv'.playing # NoEntry /\ mpv'.owner[mpv'.playing] = target =>
                   mpv'.restarted = TRUE
  <2>1. load # target
    BY <1>3, <1>14 DEF NothingToStart
  <2> QED BY <1>4, <1>6, <1>7, <2>1
<1>15. /\ mpv'.upNext \in 0 .. Len(mpv'.owner) /\ mpv'.playing \in 0 .. Len(mpv'.owner)
       /\ mpv'.lingering \in 0 .. Len(mpv'.owner)
  BY <1>1, <1>4, <1>7 DEF NoEntry
<1> QED BY <1>1, <1>4, <1>6, <1>7, <1>8, <1>9, <1>10, <1>11, <1>12, <1>13, <1>14, <1>15, CoreStep

\* libmpv accepts a load: its entry is the last one, and to be started next.
LEMMA MpvAcceptsLoadSound ==
  ASSUME MpvInv, MpvAcceptsLoad PROVE MpvInv' /\ NoEvidence
<1> DEFINE request == Head(mpv.commands).request
           load == issued[request]
           has == Append(mpv.owner, load)
           skip == mpv.skipped \/ mpv.upNext # NoEntry
           event == Reply(request, TRUE, NewEntry)
<1>1. /\ IsMpv(mpv) /\ MpvCore /\ NewEntry = Len(mpv.owner) + 1
      /\ mpv.playing \in 0 .. Len(mpv.owner) /\ mpv.upNext \in 0 .. Len(mpv.owner)
      /\ mpv.lingering \in 0 .. Len(mpv.owner) /\ mpv.owner \in Seq(Loads)
      /\ mpv.commands \in Seq(MpvCommands) /\ issued \in Seq(Loads) /\ issued' = issued
  BY InvFacts DEF MpvAcceptsLoad, NewEntry, MpvCore
<1>2. mpv' = [mpv EXCEPT !.commands = Tail(@), !.upNext = NewEntry, !.skipped = skip,
                         !.owner = has, !.mail = Append(@, event)]
      /\ mpv.commands # << >> /\ Head(mpv.commands).kind = "loadfile"
  BY DEF MpvAcceptsLoad, Pending
<1> HIDE DEF skip
<1>3. 1 \in DOMAIN mpv.commands /\ Head(mpv.commands) = mpv.commands[1]
  BY <1>1, <1>2
<1>4. /\ IsMpv(mpv') /\ mpv'.upNext = NewEntry /\ mpv'.playing = mpv.playing
      /\ mpv'.restarted = mpv.restarted /\ mpv'.lingering = mpv.lingering
      /\ mpv'.owner = has /\ mpv'.commands = Tail(mpv.commands)
      /\ mpv'.mail = Append(mpv.mail, event)
  <2> HIDE DEF event, has
  <2> QED BY <1>1, <1>2 DEF IsMpv, MpvFields
<1>5. OwnersInOrder
  BY DEF MpvInv
<1>6. /\ request \in DOMAIN issued /\ load \in Loads /\ request \in Nat
      /\ \A e \in DOMAIN mpv.owner : Before(mpv.owner[e], load)
  BY <1>1, <1>2, <1>3, <1>5 DEF OwnersInOrder
<1>7. event \in Messages
  BY <1>1, <1>6 DEF Reply, Messages
<1>8. event.kind = "Reply" /\ event.request = request /\ event.entry = NewEntry
  BY DEF Reply
<1> HIDE DEF event, load
<1>9. /\ Grows(mpv.owner, has) /\ has[NewEntry] = load /\ Len(has) = NewEntry
      /\ has \in Seq(Loads)
      /\ \A e \in DOMAIN has :
           \/ e \in DOMAIN mpv.owner /\ has[e] = mpv.owner[e]
           \/ e = NewEntry /\ has[e] = load
  BY <1>1, <1>6, OneMoreOwner
<1> HIDE DEF has
<1>10. \A d \in DOMAIN mpv.owner : NotAfter(mpv.owner[d], load) /\ mpv.owner[d] # load
  BY <1>1, <1>6, LoadOrder
<1>11. \A k \in DOMAIN mpv'.commands :
         k + 1 \in DOMAIN mpv.commands /\ k + 1 > 1 /\ mpv'.commands[k] = mpv.commands[k + 1]
  BY <1>1, <1>2, <1>4
<1>12. \A i, j \in DOMAIN issued : i < j => Before(issued[i], issued[j])
  BY DEF MpvInv, IssuedInOrder
<1>13. OwnersInOrder'
  <2>1. \A d, e \in DOMAIN has : d < e => NotAfter(has[d], has[e])
    BY <1>1, <1>5, <1>9, <1>10 DEF OwnersInOrder
  <2>2. issued # << >> /\ NotAfter(load, issued[Len(issued)])
    <3>1. request \in 1 .. Len(issued) /\ Len(issued) \in Nat
      BY <1>1, <1>6
    <3>2. CASE request = Len(issued)
      BY <3>1, <3>2 DEF NotAfter, load
    <3>3. CASE request < Len(issued)
      BY <1>12, <3>1, <3>3 DEF NotAfter, load
    <3> QED BY <3>1, <3>2, <3>3
  <2>3. \A e \in DOMAIN has : NotAfter(has[e], issued[Len(issued)])
    BY <1>5, <1>9, <2>2 DEF OwnersInOrder
  <2>4. ASSUME NEW k \in DOMAIN mpv'.commands, mpv'.commands[k].kind = "loadfile"
        PROVE  /\ mpv'.commands[k].request \in DOMAIN issued
               /\ request < mpv'.commands[k].request
               /\ \A e \in DOMAIN mpv.owner :
                    Before(mpv.owner[e], issued[mpv'.commands[k].request])
               /\ \A l \in DOMAIN mpv'.commands : l > k /\ mpv'.commands[l].kind = "loadfile" =>
                    mpv'.commands[k].request < mpv'.commands[l].request
    <3>1. \A l \in DOMAIN mpv'.commands : l > k => l + 1 > k + 1
      BY <1>4
    <3>2. request < mpv'.commands[k].request
      BY <1>2, <1>3, <1>5, <1>11, <2>4 DEF OwnersInOrder
    <3> QED BY <1>5, <1>11, <2>4, <3>1, <3>2 DEF OwnersInOrder
  <2>5. ASSUME NEW k \in DOMAIN mpv'.commands, mpv'.commands[k].kind = "loadfile"
        PROVE  \A e \in DOMAIN has : Before(has[e], issued[mpv'.commands[k].request])
    <3>1. Before(load, issued[mpv'.commands[k].request])
      BY <1>6, <1>12, <2>4, <2>5 DEF load
    <3> QED BY <1>9, <2>4, <2>5, <3>1
  <2> QED BY <1>1, <1>4, <2>1, <2>2, <2>3, <2>4, <2>5 DEF OwnersInOrder
<1>14. LastPlays'
  <2>1. mpv.playing < NewEntry /\ NewEntry # NoEntry
    BY <1>1 DEF NoEntry
  <2>2. ASSUME mpv.playing # NoEntry, NEW e \in DOMAIN has, e > mpv.playing
        PROVE  has[e] # has[mpv.playing]
    <3>1. mpv.playing \in DOMAIN mpv.owner /\ has[mpv.playing] = mpv.owner[mpv.playing]
      BY <1>1, <1>9, <2>2 DEF NoEntry, Grows
    <3>2. CASE e \in DOMAIN mpv.owner
      BY <1>9, <1>1, <2>2, <3>1, <3>2 DEF MpvInv, LastPlays
    <3>3. CASE e = NewEntry
      BY <1>9, <1>10, <3>1, <3>3
    <3> QED BY <1>9, <3>2, <3>3
  <2> QED BY <1>4, <1>9, <2>1, <2>2 DEF LastPlays
<1>15. MessageSound(event, mpv'.owner, issued)
  <2>1. NewEntry \in DOMAIN has /\ has[NewEntry] = issued[request]
    BY <1>1, <1>9 DEF load
  <2> QED BY <1>4, <1>6, <1>8, <2>1 DEF MessageSound, Marks
<1>16. \A x \in 0 .. Len(mpv.owner) : Reached(mpv, x) => Reached(mpv', x) /\ Follows(event, x)
  BY <1>1, <1>4, <1>8, <1>9 DEF Reached, Follows, Marks
<1>17. ASSUME NEW r \in DOMAIN mpv.owner, RestartLast(mpv, r)
       PROVE  RestartLast(mpv', r)
  <2>1. has[r] = mpv.owner[r] /\ mpv.owner[r] # load
    BY <1>1, <1>9, <1>10 DEF Grows
  <2>2. \A e \in DOMAIN has : e > r => has[e] # has[r]
    BY <1>9, <1>17, <2>1 DEF RestartLast
  <2> QED BY <1>4, <1>17, <2>2 DEF RestartLast
<1>18. event.kind \notin Marks /\ event.kind # "Start" /\ event.kind # "Restart" /\ event.kind # "End"
  BY <1>8 DEF Marks
<1>19. ASSUME NothingToStart
       PROVE  /\ mpv'.upNext # NoEntry => mpv'.owner[mpv'.upNext] # target
              /\ mpv'.playing # NoEntry /\ mpv'.owner[mpv'.playing] = target =>
                   mpv'.restarted = TRUE
  <2>1. load # target
    BY <1>2, <1>3, <1>19 DEF NothingToStart, load
  <2>2. mpv.playing # NoEntry => has[mpv.playing] = mpv.owner[mpv.playing]
    BY <1>1, <1>9 DEF NoEntry, Grows
  <2> QED BY <1>4, <1>9, <1>19, <2>1, <2>2 DEF NothingToStart
<1>20. /\ mpv'.upNext \in 0 .. Len(mpv'.owner) /\ mpv'.playing \in 0 .. Len(mpv'.owner)
       /\ mpv'.lingering \in 0 .. Len(mpv'.owner)
  BY <1>1, <1>4, <1>9
<1>21. Grows(mpv.owner, mpv'.owner) /\ mpv'.mail \in {mpv.mail, Append(mpv.mail, event)}
  BY <1>4, <1>9
<1> QED BY <1>1, <1>2, <1>4, <1>7, <1>13, <1>14, <1>15, <1>16, <1>17, <1>18, <1>19, <1>20, <1>21,
           CoreStep

-----------------------------------------------------------------------------
\* The adapter a and the libmpv m a load is issued to.
IssuedTo(load, a, m) ==
  /\ load \in Loads /\ load.generation \notin stopped
  /\ \A i \in DOMAIN issued : Before(issued[i], load)
  /\ AdapterSound(a, issued, m.owner, stopped)
  /\ \A i \in DOMAIN a.events : a.events[i].kind = "LoadRejected"
  /\ IsMpv(m) /\ m.commands \in Seq(MpvCommands)

\* Issuing a load, to whichever backend, keeps what does not tell starts apart
\* (MpvPlayer::issue_load).
LEMMA IssueKeeps ==
  ASSUME MpvInv, NEW load, NEW a, NEW m, IssuedTo(load, a, m), IssueLoad(load, a, m),
         generation' \in generation .. MaxGeneration, load.generation <= generation',
         load # target, stopped' = stopped, Deliver(<< >>)
  PROVE  /\ IssuedInOrder' /\ JournalRefuses' /\ FirstStartIsOver' /\ ToldTypeOK'
         /\ StoppedStaysSilent' /\ NoEvidence
         /\ AdapterSound(adapter', issued', m.owner, stopped) /\ adapter'.active = a.active
         /\ issued' = Append(issued, load) /\ target' = load
         /\ IsMpv(mpv') /\ mpv'.upNext = m.upNext /\ mpv'.playing = m.playing
         /\ mpv'.restarted = m.restarted /\ mpv'.lingering = m.lingering
         /\ mpv'.owner = m.owner /\ mpv'.mail = m.mail
         /\ mpv'.commands \in {m.commands,
              Append(m.commands, [kind |-> "loadfile", request |-> Len(issued) + 1])}
<1> DEFINE request == Len(issued) + 1
           tracked == TrackLoad(a, request, load)
           command == [kind |-> "loadfile", request |-> request]
<1>1. /\ issued' = Append(issued, load) /\ target' = load
      /\ \/ /\ adapter' = tracked
            /\ mpv' = [m EXCEPT !.commands = Append(@, command)]
         \/ /\ adapter' = CommandRejectedImmediately(tracked, request)
            /\ mpv' = m
  BY DEF IssueLoad
<1>2. Flags'
  BY DEF IssueLoad, Flags
<1>3. /\ issued \in Seq(Loads) /\ generation \in Nat /\ generation \in 0 .. MaxGeneration
      /\ \A i, j \in DOMAIN issued : i < j => Before(issued[i], issued[j])
      /\ \A i \in DOMAIN issued : issued[i].generation <= generation
      /\ stopped \subseteq 1 .. generation
  BY MpvAssumption DEF MpvInv, IssuedInOrder
<1>4. /\ load \in Loads /\ load.generation \notin stopped
      /\ \A i \in DOMAIN issued : Before(issued[i], load)
      /\ AdapterSound(a, issued, m.owner, stopped)
      /\ \A i \in DOMAIN a.events : a.events[i].kind = "LoadRejected"
      /\ IsMpv(m)
  BY DEF IssuedTo
<1>5. /\ issued' \in Seq(Loads) /\ Len(issued') = request /\ request \in DOMAIN issued'
      /\ issued'[request] = load /\ DOMAIN issued \subseteq DOMAIN issued'
      /\ \A i \in DOMAIN issued : issued'[i] = issued[i] /\ i < request
      /\ \A i \in DOMAIN issued' : i \in DOMAIN issued \/ i = request
  BY <1>1, <1>3, <1>4
<1>6. AdapterSound(a, issued', m.owner, stopped)
  BY <1>4, <1>5, AdapterKeeps
<1>7. /\ AdapterSound(tracked, issued', m.owner, stopped)
      /\ tracked.events = a.events /\ tracked.active = a.active
  BY <1>4, <1>5, <1>6, TrackLoadSound
<1> HIDE DEF tracked, command
<1>8. /\ AdapterSound(adapter', issued', m.owner, stopped) /\ adapter'.active = a.active
      /\ JournalRefuses'
  <2>1. CASE adapter' = tracked
    BY <1>4, <1>7, <2>1 DEF JournalRefuses
  <2>2. CASE adapter' = CommandRejectedImmediately(tracked, request)
    <3> DEFINE b == CommandResult(tracked, request, FALSE, NoEntry)
    <3>1. adapter' = b
      BY <2>2 DEF CommandRejectedImmediately
    <3>2. /\ AdapterSound(b, issued', m.owner, stopped)
          /\ ReplyEffect(tracked, b, FALSE)
      BY <1>5, <1>7, CommandResultSound
    <3> HIDE DEF b
    <3>3. /\ b.active = tracked.active
          /\ \/ b.events = tracked.events
             \/ \E l \in Loads : b.events = Append(tracked.events, Event("LoadRejected", l))
      BY <3>2 DEF ReplyEffect
    <3>4. \A l : Event("LoadRejected", l).kind = "LoadRejected"
      BY DEF Event
    <3>5. tracked.events \in Seq(Events)
      BY <1>7 DEF AdapterSound, JournalSound
    <3>6. \A i \in DOMAIN b.events : b.events[i].kind = "LoadRejected"
      <4>1. CASE b.events = tracked.events
        BY <1>4, <1>7, <4>1
      <4>2. ASSUME NEW l \in Loads, b.events = Append(tracked.events, Event("LoadRejected", l))
            PROVE  \A i \in DOMAIN b.events : b.events[i].kind = "LoadRejected"
        BY <1>4, <1>7, <3>4, <3>5, <4>2
      <4> QED BY <3>3, <4>1, <4>2
    <3> QED BY <1>7, <3>1, <3>2, <3>3, <3>6 DEF JournalRefuses
  <2> QED BY <1>1, <2>1, <2>2
<1>9. /\ IsMpv(mpv') /\ mpv'.upNext = m.upNext /\ mpv'.playing = m.playing
      /\ mpv'.restarted = m.restarted /\ mpv'.lingering = m.lingering
      /\ mpv'.owner = m.owner /\ mpv'.mail = m.mail
      /\ mpv'.commands \in {m.commands, Append(m.commands, command)}
  BY <1>1, <1>4 DEF IsMpv, MpvFields
<1>10. IssuedInOrder'
  <2>1. ASSUME NEW i \in DOMAIN issued', NEW j \in DOMAIN issued', i < j
        PROVE  Before(issued'[i], issued'[j])
    <3>1. i \in DOMAIN issued
      BY <1>3, <1>5, <2>1
    <3>2. CASE j \in DOMAIN issued
      BY <1>3, <1>5, <2>1, <3>1, <3>2
    <3>3. CASE j = request
      BY <1>4, <1>5, <3>1, <3>3
    <3> QED BY <1>5, <3>2, <3>3
  <2>2. \A i \in DOMAIN issued' : issued'[i].generation <= generation'
    <3>1. \A l \in Loads : l.generation \in Nat
      BY MpvAssumption DEF Loads, Load
    <3>2. \A i \in DOMAIN issued : issued[i] \in Loads /\ issued[i].generation <= generation
      BY <1>3
    <3> QED BY <1>3, <1>5, <3>1, <3>2
  <2>3. generation' \in 0 .. MaxGeneration /\ stopped' \subseteq 1 .. generation'
    BY <1>3
  <2>4. issued' # << >> /\ target' = issued'[Len(issued')]
    BY <1>1, <1>5
  <2> QED BY <1>1, <1>4, <1>5, <2>1, <2>2, <2>3, <2>4 DEF IssuedInOrder
<1>11. delivered' = << >> /\ reported' = {}
  BY <1>1 DEF Deliver, Range
<1>12. FirstStartIsOver' /\ ToldTypeOK' /\ StoppedStaysSilent' /\ NoEvidence
  BY <1>2, <1>11 DEF FirstStartIsOver, ToldTypeOK, StoppedStaysSilent, NoEvidence, Range
<1> QED BY <1>1, <1>8, <1>9, <1>10, <1>12 DEF command

\* A load issued to the running backend.
LEMMA IssueToRunning ==
  ASSUME MpvInv, NEW load, IssuedTo(load, adapter, mpv), IssueLoad(load, adapter, mpv),
         generation' \in generation .. MaxGeneration, load.generation <= generation',
         load # target, stopped' = stopped, current_entry' = current_entry, Deliver(<< >>)
  PROVE  MpvInv' /\ NoEvidence
<1> DEFINE command == [kind |-> "loadfile", request |-> Len(issued) + 1]
<1>1. /\ IssuedInOrder' /\ JournalRefuses' /\ FirstStartIsOver' /\ ToldTypeOK'
      /\ StoppedStaysSilent' /\ NoEvidence
      /\ AdapterSound(adapter', issued', mpv.owner, stopped) /\ adapter'.active = adapter.active
      /\ issued' = Append(issued, load) /\ target' = load
      /\ IsMpv(mpv') /\ mpv'.upNext = mpv.upNext /\ mpv'.playing = mpv.playing
      /\ mpv'.restarted = mpv.restarted /\ mpv'.lingering = mpv.lingering
      /\ mpv'.owner = mpv.owner /\ mpv'.mail = mpv.mail
      /\ mpv'.commands \in {mpv.commands, Append(mpv.commands, command)}
  BY IssueKeeps
<1>2. /\ issued \in Seq(Loads) /\ mpv.owner \in Seq(Loads) /\ mpv.commands \in Seq(MpvCommands)
      /\ load \in Loads /\ \A i \in DOMAIN issued : Before(issued[i], load)
  BY InvFacts DEF IssuedTo
<1>3. /\ Len(issued') = Len(issued) + 1 /\ issued'[Len(issued) + 1] = load
      /\ DOMAIN issued \subseteq DOMAIN issued' /\ Len(issued) + 1 \in DOMAIN issued'
      /\ \A i \in DOMAIN issued : issued'[i] = issued[i] /\ i < Len(issued) + 1
      /\ issued' # << >>
  BY <1>1, <1>2
<1>4. command \in MpvCommands /\ command.kind = "loadfile" /\ command.request = Len(issued) + 1
  BY <1>2 DEF MpvCommands
<1> HIDE DEF command
<1>5. /\ mpv'.commands \in Seq(MpvCommands)
      /\ \A k \in DOMAIN mpv'.commands :
           \/ k \in DOMAIN mpv.commands /\ mpv'.commands[k] = mpv.commands[k]
           \/ mpv'.commands[k] = command /\ \A l \in DOMAIN mpv'.commands : l <= k
  <2>1. CASE mpv'.commands = mpv.commands
    BY <1>2, <2>1
  <2>2. CASE mpv'.commands = Append(mpv.commands, command)
    BY <1>2, <1>4, <2>2
  <2> QED BY <1>1, <2>1, <2>2
<1>6. MpvTypeOK'
  BY <1>1, <1>5 DEF MpvInv, MpvTypeOK
<1>7. OwnersInOrder
  BY DEF MpvInv
<1>8. \A e \in DOMAIN mpv.owner : Before(mpv.owner[e], load) /\ NotAfter(mpv.owner[e], load)
  <2> TAKE e \in DOMAIN mpv.owner
  <2>1. issued # << >> /\ NotAfter(mpv.owner[e], issued[Len(issued)])
    BY <1>2, <1>7 DEF OwnersInOrder
  <2>2. Len(issued) \in DOMAIN issued /\ issued[Len(issued)] \in Loads /\ mpv.owner[e] \in Loads
    BY <1>2, <2>1
  <2>3. Before(issued[Len(issued)], load)
    BY <1>2, <2>2
  <2> QED BY <1>2, <2>1, <2>2, <2>3, LoadOrder
<1>9. OwnersInOrder'
  <2>1. \A d, e \in DOMAIN mpv.owner : d < e => NotAfter(mpv.owner[d], mpv.owner[e])
    BY <1>7 DEF OwnersInOrder
  <2>2. issued' # << >> /\ \A e \in DOMAIN mpv.owner : NotAfter(mpv.owner[e], issued'[Len(issued')])
    BY <1>3, <1>8
  <2>3. ASSUME NEW k \in DOMAIN mpv'.commands, mpv'.commands[k].kind = "loadfile"
        PROVE  /\ mpv'.commands[k].request \in DOMAIN issued'
               /\ \A e \in DOMAIN mpv.owner :
                    Before(mpv.owner[e], issued'[mpv'.commands[k].request])
               /\ \A l \in DOMAIN mpv'.commands : l > k /\ mpv'.commands[l].kind = "loadfile" =>
                    mpv'.commands[k].request < mpv'.commands[l].request
    <3>1. CASE k \in DOMAIN mpv.commands /\ mpv'.commands[k] = mpv.commands[k]
      <4>1. /\ mpv.commands[k].request \in DOMAIN issued
            /\ \A e \in DOMAIN mpv.owner : Before(mpv.owner[e], issued[mpv.commands[k].request])
            /\ \A l \in DOMAIN mpv.commands : l > k /\ mpv.commands[l].kind = "loadfile" =>
                 mpv.commands[k].request < mpv.commands[l].request
        BY <1>7, <2>3, <3>1 DEF OwnersInOrder
      <4> QED BY <1>3, <1>4, <1>5, <3>1, <4>1
    <3>2. CASE mpv'.commands[k] = command /\ \A l \in DOMAIN mpv'.commands : l <= k
      <4>1. \A l \in DOMAIN mpv'.commands : ~(l > k)
        BY <1>5, <3>2
      <4> QED BY <1>3, <1>4, <1>8, <3>2, <4>1
    <3> QED BY <1>5, <3>1, <3>2
  <2> QED BY <1>1, <2>1, <2>2, <2>3 DEF OwnersInOrder
<1>10. LastPlays'
  BY <1>1 DEF MpvInv, LastPlays
<1>11. MailSound'
  <2>1. \A i \in DOMAIN mpv.mail : MessageSound(mpv.mail[i], mpv.owner, issued)
    BY InvFacts
  <2>2. \A i \in DOMAIN mpv.mail : MessageSound(mpv.mail[i], mpv.owner, issued')
    BY <1>3, <2>1 DEF MessageSound
  <2> QED BY <1>1, <2>2 DEF MailSound
<1>12. StartsInOrder'
  <2>1. \A x : Reached(mpv, x) => Reached(mpv', x)
    BY <1>1 DEF Reached
  <2> QED BY <1>1, <2>1 DEF MpvInv, StartsInOrder
<1>13. RestartIsLast'
  <2>1. \A r : RestartLast(mpv, r) => RestartLast(mpv', r)
    BY <1>1 DEF RestartLast
  <2> QED BY <1>1, <2>1 DEF MpvInv, RestartIsLast
<1>14. AdapterInv'
  BY <1>1 DEF AdapterInv
<1> QED BY <1>1, <1>6, <1>9, <1>10, <1>11, <1>12, <1>13, <1>14 DEF MpvInv

\* The load of a channel that is chosen is the first of a new generation.
LEMMA FirstLoad ==
  ASSUME MpvInv, generation < MaxGeneration, NEW load, load = Load(generation + 1, 1)
  PROVE  /\ IssuedTo(load, adapter, mpv) /\ load # target
         /\ load.generation = generation + 1
<1>1. /\ issued \in Seq(Loads) /\ generation \in 0 .. MaxGeneration
      /\ \A i \in DOMAIN issued : issued[i].generation <= generation
      /\ stopped \subseteq 1 .. generation /\ MaxGeneration \in Nat
      /\ target # NoTarget => issued # << >> /\ target = issued[Len(issued)]
  BY MpvAssumption DEF MpvInv, IssuedInOrder
<1>2. load \in Loads /\ load.generation = generation + 1 /\ load.load = 1
  BY <1>1, MpvAssumption DEF Loads, Load
<1>3. \A l \in Loads : l.generation \in Nat
  BY MpvAssumption DEF Loads, Load
<1>4. \A i \in DOMAIN issued : Before(issued[i], load)
  <2> TAKE i \in DOMAIN issued
  <2>1. issued[i] \in Loads /\ issued[i].generation <= generation
    BY <1>1
  <2>2. issued[i].generation < load.generation
    BY <1>1, <1>2, <1>3, <2>1
  <2> QED BY <2>2 DEF Before
<1>5. load # target
  <2>1. CASE target = NoTarget
    <3>1. NoTarget.generation = 0
      BY DEF NoTarget, Load
    <3> QED BY <1>1, <1>2, <2>1, <3>1
  <2>2. CASE target # NoTarget
    <3>1. Len(issued) \in DOMAIN issued
      BY <1>1, <2>2
    <3>2. target.generation <= generation
      BY <1>1, <2>2, <3>1
    <3> QED BY <1>1, <1>2, <3>2
  <2> QED BY <2>1, <2>2
<1>6. IssuedTo(load, adapter, mpv)
  BY <1>1, <1>2, <1>4, InvFacts DEF IssuedTo, MpvInv, JournalRefuses
<1> QED BY <1>2, <1>5, <1>6

\* A channel is chosen.
LEMMA PlaySound ==
  ASSUME MpvInv, Play PROVE MpvInv' /\ NoEvidence
<1> DEFINE load == Load(generation + 1, 1)
<1>1. /\ generation < MaxGeneration /\ generation' = generation + 1
      /\ IssueLoad(load, adapter, mpv)
      /\ current_entry' = current_entry /\ stopped' = stopped /\ Deliver(<< >>)
  BY DEF Play
<1>2. IssuedTo(load, adapter, mpv) /\ load # target /\ load.generation = generation + 1
  BY <1>1, FirstLoad
<1> HIDE DEF load
<1>3. generation \in 0 .. MaxGeneration /\ MaxGeneration \in Nat
  BY MpvAssumption DEF MpvInv, IssuedInOrder
<1>4. generation' \in generation .. MaxGeneration /\ load.generation <= generation'
  BY <1>1, <1>2, <1>3
<1> QED BY <1>1, <1>2, <1>4, IssueToRunning

\* The load that follows the one to play.
LEMMA NextLoad ==
  ASSUME MpvInv, Playing, target.generation = generation, target.load < MaxLoad,
         NEW load, load = [target EXCEPT !.load = @ + 1]
  PROVE  /\ load \in Loads /\ load.generation = generation /\ load # target
         /\ load.generation \notin stopped /\ load.generation <= generation
         /\ \A i \in DOMAIN issued : Before(issued[i], load)
<1>1. /\ issued \in Seq(Loads) /\ generation \in Nat
      /\ \A i, j \in DOMAIN issued : i < j => Before(issued[i], issued[j])
      /\ target \in Loads /\ issued # << >> /\ target = issued[Len(issued)]
      /\ target.generation \notin stopped
  BY MpvAssumption DEF MpvInv, IssuedInOrder, Playing
<1>2. /\ target = [generation |-> target.generation, load |-> target.load]
      /\ target.generation \in 1 .. MaxGeneration /\ target.load \in 1 .. MaxLoad
  BY <1>1 DEF Loads, Load
<1>3. /\ load = [generation |-> target.generation, load |-> target.load + 1]
      /\ load.generation = target.generation /\ load.load = target.load + 1
  BY <1>2
<1>4. load \in Loads
  <2>1. load = Load(target.generation, target.load + 1)
    BY <1>3 DEF Load
  <2>2. target.load + 1 \in 1 .. MaxLoad
    BY <1>2, MpvAssumption
  <2> QED BY <1>2, <2>1, <2>2 DEF Loads
<1>5. load # target /\ Before(target, load)
  BY <1>2, <1>3 DEF Before
<1>6. ASSUME NEW i \in DOMAIN issued PROVE Before(issued[i], load)
  <2>1. issued[i] \in Loads /\ i \in 1 .. Len(issued) /\ Len(issued) \in DOMAIN issued
    BY <1>1
  <2>2. NotAfter(issued[i], target)
    BY <1>1, <2>1 DEF NotAfter
  <2> QED BY <1>1, <1>4, <1>5, <2>1, <2>2, LoadOrder
<1> QED BY <1>1, <1>3, <1>4, <1>5, <1>6

\* The channel is opened again on the same backend.
LEMMA ReopenSound ==
  ASSUME MpvInv, Reopen PROVE MpvInv' /\ NoEvidence
<1> DEFINE load == [target EXCEPT !.load = @ + 1]
<1>1. /\ Playing /\ target.generation = generation /\ target.load < MaxLoad
      /\ generation' = generation /\ IssueLoad(load, adapter, mpv)
      /\ current_entry' = current_entry /\ stopped' = stopped /\ Deliver(<< >>)
  BY DEF Reopen
<1>2. generation \in 0 .. MaxGeneration /\ MaxGeneration \in Nat
  BY MpvAssumption DEF MpvInv, IssuedInOrder
<1>3. /\ load \in Loads /\ load.generation = generation /\ load # target
      /\ load.generation \notin stopped /\ load.generation <= generation
      /\ \A i \in DOMAIN issued : Before(issued[i], load)
  BY <1>1, NextLoad
<1> HIDE DEF load
<1>4. IssuedTo(load, adapter, mpv)
  BY <1>3, InvFacts DEF IssuedTo, MpvInv, JournalRefuses
<1>5. generation' \in generation .. MaxGeneration /\ load.generation <= generation'
  BY <1>1, <1>2, <1>3
<1> QED BY <1>1, <1>3, <1>4, <1>5, IssueToRunning

\* What the player keeps of a backend that was destroyed: nothing.
LEMMA FreshFacts ==
  /\ IsMpv(FreshMpv) /\ IsMpv(AbsentMpv)
  /\ FreshMpv.owner = << >> /\ FreshMpv.mail = << >> /\ FreshMpv.commands = << >>
  /\ FreshMpv.upNext = 0 /\ FreshMpv.playing = 0 /\ FreshMpv.lingering = 0
  /\ AbsentMpv.owner = << >> /\ AbsentMpv.mail = << >> /\ AbsentMpv.commands = << >>
  /\ AbsentMpv.upNext = 0 /\ AbsentMpv.playing = 0 /\ AbsentMpv.lingering = 0
  /\ FreshAdapter.active = 0 /\ FreshAdapter.events = << >> /\ DOMAIN FreshAdapter.entries = {}
BY DEF IsMpv, MpvFields, FreshMpv, AbsentMpv, NoEntry, FreshAdapter, Empty

\* A new adapter credits nothing.
LEMMA FreshAdapterSound ==
  ASSUME NEW requested, NEW owned, NEW silenced
  PROVE  AdapterSound(FreshAdapter, requested, owned, silenced)
<1>1. IsAdapter(FreshAdapter)
  BY DEF IsAdapter, AdapterFields, FreshAdapter
<1>2. FreshAdapter.failureReported \in BOOLEAN
  BY DEF FreshAdapter
<1> QED BY <1>1, <1>2 DEF AdapterSound, FreshAdapter, Credits, JournalSound, Empty

\* With an empty libmpv what is said of its mail and its entries holds.
LEMMA EmptyMpvSound ==
  ASSUME IsMpv(mpv'), mpv'.owner = << >>, mpv'.mail = << >>, mpv'.upNext = 0, mpv'.playing = 0,
         mpv'.lingering = 0, mpv'.commands \in Seq(MpvCommands), current_entry' = 0,
         adapter'.active = 0
  PROVE  MpvTypeOK' /\ LastPlays' /\ MailSound' /\ StartsInOrder' /\ RestartIsLast'
<1>1. MpvTypeOK' /\ LastPlays' /\ MailSound' /\ RestartIsLast'
  BY DEF MpvTypeOK, LastPlays, MailSound, RestartIsLast, NoEntry
<1>2. Reached(mpv', 0)
  BY DEF Reached, NoEntry
<1> QED BY <1>1, <1>2 DEF StartsInOrder

\* The backend is destroyed and made anew, or cannot be made: nothing of the
\* old one is left to be mistaken.
LEMMA RecreateSound ==
  ASSUME MpvInv, Recreate PROVE MpvInv' /\ NoEvidence
<1> DEFINE load == [target EXCEPT !.load = @ + 1]
           command == [kind |-> "loadfile", request |-> Len(issued) + 1]
<1>1. /\ Playing /\ target.generation = generation /\ target.load < MaxLoad
      /\ generation' = generation /\ current_entry' = 0
      /\ stopped' = stopped /\ Deliver(<< >>)
      /\ \/ IssueLoad(load, FreshAdapter, FreshMpv)
         \/ /\ adapter' = FreshAdapter /\ mpv' = AbsentMpv
            /\ UNCHANGED <<target, armed, classified, issued>>
  BY DEF Recreate, NoEntry
<1>2. generation \in 0 .. MaxGeneration /\ MaxGeneration \in Nat /\ issued \in Seq(Loads)
  BY MpvAssumption DEF MpvInv, IssuedInOrder
<1>3. CASE IssueLoad(load, FreshAdapter, FreshMpv)
  <2>1. /\ load \in Loads /\ load.generation = generation /\ load # target
        /\ load.generation \notin stopped /\ load.generation <= generation
        /\ \A i \in DOMAIN issued : Before(issued[i], load)
    BY <1>1, NextLoad
  <2> HIDE DEF load
  <2>2. IssuedTo(load, FreshAdapter, FreshMpv)
    <3>1. AdapterSound(FreshAdapter, issued, FreshMpv.owner, stopped)
      BY FreshAdapterSound
    <3> QED BY <2>1, <3>1, FreshFacts DEF IssuedTo
  <2>3. generation' \in generation .. MaxGeneration /\ load.generation <= generation'
    BY <1>1, <1>2, <2>1
  <2>4. /\ IssuedInOrder' /\ JournalRefuses' /\ FirstStartIsOver' /\ ToldTypeOK'
        /\ StoppedStaysSilent' /\ NoEvidence
        /\ AdapterSound(adapter', issued', FreshMpv.owner, stopped)
        /\ adapter'.active = FreshAdapter.active
        /\ issued' = Append(issued, load) /\ target' = load
        /\ IsMpv(mpv') /\ mpv'.upNext = FreshMpv.upNext /\ mpv'.playing = FreshMpv.playing
        /\ mpv'.restarted = FreshMpv.restarted /\ mpv'.lingering = FreshMpv.lingering
        /\ mpv'.owner = FreshMpv.owner /\ mpv'.mail = FreshMpv.mail
        /\ mpv'.commands \in {FreshMpv.commands, Append(FreshMpv.commands, command)}
    BY <1>1, <1>3, <2>1, <2>2, <2>3, IssueKeeps
  <2>5. command \in MpvCommands /\ command.request = Len(issued) + 1
    BY <1>2 DEF MpvCommands
  <2> HIDE DEF command
  <2>6. /\ mpv'.owner = << >> /\ mpv'.mail = << >> /\ mpv'.upNext = 0 /\ mpv'.playing = 0
        /\ mpv'.lingering = 0 /\ adapter'.active = 0
        /\ mpv'.commands \in Seq(MpvCommands)
        /\ \A k \in DOMAIN mpv'.commands : k = 1 /\ mpv'.commands[k] = command
    <3>1. mpv'.commands \in {<< >>, << command >>}
      BY <2>4, FreshFacts
    <3>2. /\ mpv'.commands \in Seq(MpvCommands)
          /\ \A k \in DOMAIN mpv'.commands : k = 1 /\ mpv'.commands[k] = command
      <4>1. CASE mpv'.commands = << >>
        BY <4>1
      <4>2. CASE mpv'.commands = << command >>
        BY <2>5, <4>2
      <4> QED BY <3>1, <4>1, <4>2
    <3> QED BY <2>4, <3>2, FreshFacts
  <2>7. MpvTypeOK' /\ LastPlays' /\ MailSound' /\ StartsInOrder' /\ RestartIsLast'
    BY <1>1, <2>4, <2>6, EmptyMpvSound
  <2>8. OwnersInOrder'
    <3>1. Len(issued) + 1 \in DOMAIN issued'
      BY <1>2, <2>1, <2>4
    <3> QED BY <2>5, <2>6, <3>1 DEF OwnersInOrder
  <2>9. AdapterInv'
    BY <1>1, <2>4 DEF AdapterInv
  <2> QED BY <2>4, <2>7, <2>8, <2>9 DEF MpvInv
<1>4. CASE /\ adapter' = FreshAdapter /\ mpv' = AbsentMpv
           /\ UNCHANGED <<target, armed, classified, issued>>
  <2>1. /\ IsMpv(mpv') /\ mpv'.owner = << >> /\ mpv'.mail = << >> /\ mpv'.upNext = 0
        /\ mpv'.playing = 0 /\ mpv'.lingering = 0 /\ mpv'.commands = << >>
        /\ adapter'.active = 0 /\ adapter'.events = << >> /\ DOMAIN adapter'.entries = {}
    BY <1>4, FreshFacts
  <2>2. MpvTypeOK' /\ LastPlays' /\ MailSound' /\ StartsInOrder' /\ RestartIsLast'
    BY <1>1, <2>1, EmptyMpvSound
  <2>3. OwnersInOrder' /\ JournalRefuses'
    BY <2>1 DEF OwnersInOrder, JournalRefuses
  <2>4. AdapterInv'
    BY <1>4, FreshAdapterSound DEF AdapterInv
  <2>5. IssuedInOrder'
    BY <1>1, <1>4 DEF MpvInv, IssuedInOrder
  <2>6. FirstStartIsOver'
    BY <2>1 DEF FirstStartIsOver, NoFirstStartLeft, NothingToStart, NoEntry
  <2>7. Flags'
    BY <1>4 DEF MpvInv, ToldTypeOK, Flags
  <2>8. delivered' = << >> /\ reported' = reported
    BY <1>1, <1>4 DEF Deliver, Range
  <2>9. ToldTypeOK' /\ StoppedStaysSilent' /\ NoEvidence
    BY <2>7, <2>8 DEF MpvInv, ToldTypeOK, StoppedStaysSilent, NoEvidence, Range
  <2> QED BY <2>2, <2>3, <2>4, <2>5, <2>6, <2>9 DEF MpvInv
<1> QED BY <1>1, <1>3, <1>4

\* A channel chosen without a backend issues no load.
LEMMA PlayWithoutBackendSound ==
  ASSUME MpvInv, PlayWithoutBackend PROVE MpvInv' /\ NoEvidence
<1>1. /\ generation < MaxGeneration /\ generation' = generation + 1
      /\ target' = target /\ current_entry' = current_entry
      /\ adapter' = adapter /\ issued' = issued /\ mpv' = mpv /\ stopped' = stopped
      /\ Deliver(<< >>)
  BY DEF PlayWithoutBackend, playerVars
<1>2. /\ generation \in 0 .. MaxGeneration /\ MaxGeneration \in Nat /\ issued \in Seq(Loads)
      /\ \A i \in DOMAIN issued : issued[i].generation <= generation
      /\ stopped \subseteq 1 .. generation
  BY MpvAssumption DEF MpvInv, IssuedInOrder
<1>3. IssuedInOrder'
  <2>1. \A i \in DOMAIN issued : issued[i].generation <= generation + 1
    <3>1. \A l \in Loads : l.generation \in Nat
      BY MpvAssumption DEF Loads, Load
    <3>2. \A i \in DOMAIN issued : issued[i] \in Loads
      BY <1>2
    <3> QED BY <1>2, <3>1, <3>2
  <2>2. generation' \in 0 .. MaxGeneration /\ stopped \subseteq 1 .. generation'
    BY <1>1, <1>2
  <2> QED BY <1>1, <2>1, <2>2 DEF MpvInv, IssuedInOrder
<1>4. Flags'
  BY DEF PlayWithoutBackend, playerVars, MpvInv, ToldTypeOK, Flags
<1>5. delivered' = << >> /\ reported' = reported
  BY <1>1 DEF Deliver, Range
<1>6. ToldTypeOK' /\ StoppedStaysSilent' /\ NoEvidence
  BY <1>4, <1>5 DEF MpvInv, ToldTypeOK, StoppedStaysSilent, NoEvidence, Range
<1>7. MpvTypeOK' /\ OwnersInOrder' /\ LastPlays' /\ MailSound'
  BY <1>1 DEF MpvInv, MpvTypeOK, OwnersInOrder, LastPlays, MailSound
<1>8. StartsInOrder' /\ RestartIsLast' /\ AdapterInv' /\ JournalRefuses'
  BY <1>1 DEF MpvInv, StartsInOrder, RestartIsLast, AdapterInv, JournalRefuses
<1>9. FirstStartIsOver'
  BY <1>1, <1>5 DEF MpvInv, FirstStartIsOver, NoFirstStartLeft, NothingToStart
<1> QED BY <1>3, <1>6, <1>7, <1>8, <1>9 DEF MpvInv

\* The viewer stops: the generation is silenced, and there is no load to play.
LEMMA StopSound ==
  ASSUME MpvInv, Stop PROVE MpvInv' /\ NoEvidence
<1> DEFINE a == RetireGeneration(adapter, generation)
           command == [kind |-> "stop"]
<1>1. /\ Playing /\ target.generation = generation
      /\ adapter' = a /\ target' = NoTarget /\ current_entry' = 0
      /\ stopped' = stopped \cup {generation}
      /\ generation' = generation /\ issued' = issued /\ Deliver(<< >>)
      /\ \/ mpv' = mpv
         \/ mpv' = [mpv EXCEPT !.commands = Append(@, command)]
  BY DEF Stop, NoEntry
<1>2. /\ generation \in 0 .. MaxGeneration /\ MaxGeneration \in Nat /\ issued \in Seq(Loads)
      /\ stopped \subseteq 1 .. generation /\ target \in Loads
  BY <1>1, MpvAssumption DEF MpvInv, IssuedInOrder, Playing
<1>3. /\ IsMpv(mpv) /\ mpv.commands \in Seq(MpvCommands)
      /\ AdapterSound(adapter, issued, mpv.owner, stopped)
  BY InvFacts
<1>4. command \in MpvCommands /\ command.kind # "loadfile"
  BY DEF MpvCommands
<1> HIDE DEF command
<1>5. /\ IsMpv(mpv') /\ mpv'.upNext = mpv.upNext /\ mpv'.playing = mpv.playing
      /\ mpv'.restarted = mpv.restarted /\ mpv'.lingering = mpv.lingering
      /\ mpv'.owner = mpv.owner /\ mpv'.mail = mpv.mail
      /\ mpv'.commands \in {mpv.commands, Append(mpv.commands, command)}
  BY <1>1, <1>3 DEF IsMpv, MpvFields
<1>6. /\ mpv'.commands \in Seq(MpvCommands)
      /\ \A k \in DOMAIN mpv'.commands : mpv'.commands[k].kind = "loadfile" =>
           k \in DOMAIN mpv.commands /\ mpv'.commands[k] = mpv.commands[k]
  <2>1. CASE mpv'.commands = mpv.commands
    BY <1>3, <2>1
  <2>2. CASE mpv'.commands = Append(mpv.commands, command)
    BY <1>3, <1>4, <2>2
  <2> QED BY <1>5, <2>1, <2>2
<1>7. /\ AdapterSound(a, issued, mpv.owner, stopped \cup {generation})
      /\ a.active \in {adapter.active, NoEntry}
      /\ Within(a.events, adapter.events)
  BY <1>3, RetireGenerationSound
<1> HIDE DEF a
<1>8. AdapterInv' /\ JournalRefuses'
  BY <1>1, <1>5, <1>7 DEF MpvInv, AdapterInv, JournalRefuses, Within
<1>9. IssuedInOrder'
  <2>1. target.generation \in 1 .. MaxGeneration
    BY <1>2 DEF Loads, Load
  <2>2. generation \in 1 .. generation /\ stopped' \subseteq 1 .. generation
    BY <1>1, <1>2, <2>1
  <2>3. NoTarget.generation \notin stopped'
    <3>1. NoTarget.generation = 0
      BY DEF NoTarget, Load
    <3> QED BY <1>2, <2>2, <3>1
  <2> QED BY <1>1, <2>2, <2>3 DEF MpvInv, IssuedInOrder
<1>10. MpvTypeOK'
  BY <1>1, <1>5, <1>6 DEF MpvInv, MpvTypeOK
<1>11. OwnersInOrder'
  BY <1>1, <1>5, <1>6 DEF MpvInv, OwnersInOrder
<1>12. LastPlays' /\ MailSound'
  BY <1>1, <1>5 DEF MpvInv, LastPlays, MailSound
<1>13. RestartIsLast'
  <2>1. \A r : RestartLast(mpv, r) => RestartLast(mpv', r)
    BY <1>5 DEF RestartLast
  <2> QED BY <1>5, <2>1 DEF MpvInv, RestartIsLast
<1>14. StartsInOrder'
  <2>1. \A x : Reached(mpv, x) => Reached(mpv', x)
    BY <1>5 DEF Reached
  <2>2. /\ mpv.mail \in Seq(Messages) /\ mpv.owner \in Seq(Loads)
        /\ mpv.upNext \in Nat /\ mpv.playing \in Nat
        /\ \A i \in DOMAIN mpv.mail : MessageSound(mpv.mail[i], mpv.owner, issued)
    BY InvFacts
  <2>3. Reached(mpv, 0) /\ \A i \in DOMAIN mpv.mail : Follows(mpv.mail[i], 0)
    BY <2>2 DEF Reached, Follows, MessageSound, Marks, NoEntry
  <2>4. /\ Reached(mpv', current_entry') /\ Reached(mpv', adapter'.active)
        /\ \A i \in DOMAIN mpv.mail :
             Follows(mpv.mail[i], current_entry') /\ Follows(mpv.mail[i], adapter'.active)
    BY <1>1, <1>7, <2>1, <2>3 DEF MpvInv, StartsInOrder, NoEntry
  <2>5. /\ \A i, j \in DOMAIN mpv.mail : i < j /\ mpv.mail[i].kind \in Marks =>
             Follows(mpv.mail[j], mpv.mail[i].entry)
        /\ \A i \in DOMAIN mpv.mail : mpv.mail[i].kind \in Marks =>
             Reached(mpv', mpv.mail[i].entry)
    BY <2>1 DEF MpvInv, StartsInOrder
  <2> QED BY <1>5, <2>4, <2>5 DEF StartsInOrder
<1>15. Flags'
  BY DEF Stop, Flags
<1>16. delivered' = << >> /\ reported' = {}
  <2>1. target' # target
    BY <1>1 DEF Playing
  <2> QED BY <1>1, <2>1 DEF Deliver, Range
<1>17. ToldTypeOK' /\ StoppedStaysSilent' /\ NoEvidence /\ FirstStartIsOver'
  BY <1>15, <1>16 DEF ToldTypeOK, StoppedStaysSilent, NoEvidence, FirstStartIsOver, Range
<1> QED BY <1>8, <1>9, <1>10, <1>11, <1>12, <1>13, <1>14, <1>17 DEF MpvInv

\* Every step keeps the invariant, and what it tells of the load to play is its
\* own.
LEMMA StepSound ==
  ASSUME MpvInv, [Next]_vars PROVE MpvInv' /\ [Own]_vars
<1>1. CASE UNCHANGED vars
  <2>1. /\ generation' = generation /\ target' = target /\ current_entry' = current_entry
        /\ adapter' = adapter /\ issued' = issued /\ mpv' = mpv /\ stopped' = stopped
        /\ delivered' = delivered /\ reported' = reported
    BY <1>1 DEF vars, playerVars
  <2>2. Flags'
    BY <1>1 DEF vars, playerVars, MpvInv, ToldTypeOK, Flags
  <2>3. IssuedInOrder' /\ ToldTypeOK' /\ StoppedStaysSilent'
    BY <2>1, <2>2 DEF MpvInv, IssuedInOrder, ToldTypeOK, StoppedStaysSilent
  <2>4. MpvTypeOK' /\ OwnersInOrder' /\ LastPlays' /\ MailSound'
    BY <2>1 DEF MpvInv, MpvTypeOK, OwnersInOrder, LastPlays, MailSound
  <2>5. StartsInOrder' /\ RestartIsLast' /\ AdapterInv' /\ JournalRefuses'
    BY <2>1 DEF MpvInv, StartsInOrder, RestartIsLast, AdapterInv, JournalRefuses
  <2>6. FirstStartIsOver'
    BY <2>1 DEF MpvInv, FirstStartIsOver, NoFirstStartLeft, NothingToStart
  <2> QED BY <1>1, <2>3, <2>4, <2>5, <2>6 DEF MpvInv
<1>2. CASE Play \/ PlayWithoutBackend \/ Stop \/ Reopen \/ Recreate
  BY <1>2, PlaySound, PlayWithoutBackendSound, StopSound, ReopenSound, RecreateSound, NoneIsOwn
<1>3. CASE PumpNothing \/ PumpReply \/ PumpStartFile \/ PumpEndFile \/ PumpShutdown \/ PumpOverflow
  BY <1>3, PumpNothingSound, PumpReplySound, PumpStartFileSound, PumpEndFileSound,
     PumpShutdownSound, PumpOverflowSound, NoneIsOwn
<1>4. CASE PumpRestart \/ PumpLog
  BY <1>4, PumpRestartSound, PumpLogSound
<1>5. CASE MpvRefusesLoad \/ MpvAcceptsLoad \/ MpvStops \/ MpvStarts \/ MpvEndsReplaced
  BY <1>5, MpvRefusesLoadSound, MpvAcceptsLoadSound, MpvStopsSound, MpvStartsSound,
     MpvEndsReplacedSound, NoneIsOwn
<1>6. CASE MpvEnds \/ MpvRedirects \/ MpvRestarts \/ MpvLogs \/ MpvShutsDown
  BY <1>6, MpvEndsSound, MpvRedirectsSound, MpvRestartsSound, MpvLogsSound,
     MpvShutsDownSound, NoneIsOwn
<1> QED BY <1>1, <1>2, <1>3, <1>4, <1>5, <1>6 DEF Next

\* The invariant holds in every state of the player.
LEMMA InvHolds == Spec => []MpvInv
<1>1. Init => MpvInv
  BY InitSound
<1>2. MpvInv /\ [Next]_vars => MpvInv'
  BY StepSound
<1> QED BY <1>1, <1>2, PTL DEF Spec

\* Whatever libmpv posts, however late and however often a channel is changed,
\* reopened or stopped, and the backend recreated, a correlation and every
\* report the adapter credits names the load that its entry belongs to
\* (PlayerEventAdapter).
THEOREM EventsAreOfTheRightLoad == Spec => []EventsOfTheRightLoad
<1>1. MpvInv => EventsOfTheRightLoad
  BY InvIsSound
<1> QED BY <1>1, InvHolds, PTL

\* Whatever the interleaving of libmpv's answers with the viewer's commands, a
\* first start that the session is handed about the load to play was raised by
\* an entry of that load, and an exact failure by a log line of that channel
\* (MpvPlayer::pump_events).
THEOREM EvidenceIsItsOwn == Spec => EvidenceIsOwn
<1>1. MpvInv /\ [Next]_vars => [Own]_vars
  BY StepSound
<1>2. EvidenceIsOwn <=> [][Own]_vars
  BY DEF EvidenceIsOwn, Own
<1> QED BY <1>1, <1>2, InvHolds, PTL DEF Spec
=============================================================================
