------------------------- MODULE PresentationProofs -------------------------
(***************************************************************************)
(* The surface is what the application takes it for, and the main loop     *)
(* keeps time (app/presentation_surface.cpp, presentation_recovery.hpp,    *)
(* the attachment in player/mpv_player.cpp, App::run), for any sizes,      *)
(* addresses, delays and budgets.  The invariant has two halves: the video *)
(* swap chain with mpv's queue, and the surface with its budget and the    *)
(* loop's wait.                                                            *)
(***************************************************************************)
EXTENDS Presentation, TLAPS

-----------------------------------------------------------------------------
(* The video swap chain.                                                   *)

SwapEvents == {"Start", "End", "Reconfig"}

SwapFlags ==
  /\ mpv_playing \in BOOLEAN /\ active \in BOOLEAN
  /\ attached_now \in BOOLEAN /\ video_attached \in BOOLEAN

SwapTypeOK ==
  /\ vo \in Addresses \cup {0} /\ notified \in Addresses \cup {0}
  /\ mpv_events \in Seq(SwapEvents) /\ Len(mpv_events) <= MaxEvents
  /\ attached \in Addresses \cup {0}
  /\ held \in Objects /\ content \in Objects

\* By what the player has seen and what is queued before it, an event of the
\* queue is one of a started entry.
StartQueued(queue, i) ==
  \E j \in 1 .. i - 1 :
    queue[j] = "Start" /\ \A k \in j + 1 .. i - 1 : queue[k] # "End"
NoEndBefore(queue, i) == \A k \in 1 .. i - 1 : queue[k] # "End"
Started(queue, i, is_active) ==
  StartQueued(queue, i) \/ (is_active = TRUE /\ NoEndBefore(queue, i))

\* While mpv plays, what it queues next is of a started entry, unless a stop
\* has detached the video.
PlaysWhatStarted ==
  mpv_playing = TRUE =>
    LET next == Len(mpv_events) + 1
    IN  \/ StartQueued(mpv_events, next)
        \/ NoEndBefore(mpv_events, next) /\ (content # "None" => active = TRUE)

\* A replaced swap chain that is still on the visual will be replaced there.
StaleIsReplaced ==
  content = "Stale" /\ vo # 0 =>
    \E i \in DOMAIN mpv_events :
      mpv_events[i] = "Reconfig" /\ Started(mpv_events, i, active)

AgreeOnContent ==
  /\ content = held
  /\ (attached # 0) <=> (content # "None")
  /\ (video_attached = TRUE) <=> (content # "None")

SwapInv == SwapTypeOK /\ SwapFlags /\ PlaysWhatStarted /\ StaleIsReplaced /\ AgreeOnContent

\* What a publication does to the visual, with the player and the application.
Published ==
  /\ attached' \in Addresses \cup {0} /\ held' \in Objects /\ content' \in Objects
  /\ content' # "None" /\ content' # content => active = TRUE
  /\ content' = "Stale" => content = "Stale"
  /\ AgreeOnContent'

\* A publication leaves content on the visual only while an entry is active,
\* never puts up a replaced swap chain, and the player, the application and the
\* surface agree about it (publish_video_swapchain, set_video_swapchain).
LEMMA PublishSound ==
  ASSUME SwapInv, NEW address \in Addresses \cup {0}, NEW same_epoch,
         same_epoch \in BOOLEAN, Publish(address, same_epoch)
  PROVE  /\ Published /\ attached_now' \in BOOLEAN
         /\ active = TRUE /\ address # 0 /\ same_epoch = FALSE => content' # "Stale"
         /\ address = 0 => content' = "None"
<1> USE DEF SwapInv, SwapTypeOK, AgreeOnContent, Objects
<1>1. CASE PublicationAllowed(address) /\ ~AlreadyAttached(address, same_epoch)
  <2>1. PICK published \in Accepts(address) :
          /\ content' = IF published THEN ObjectAt(address) ELSE "None"
          /\ video_attached' = (published /\ address # 0)
          /\ RecordsAttachment(address, published)
    BY <1>1 DEF Publish
  <2>2. published \in BOOLEAN /\ (address = 0 => tree = "None" \/ published = TRUE)
    BY <2>1 DEF Accepts
  <2>3. CASE published = TRUE /\ address # 0
    <3>1. content' = "Current" /\ held' = "Current" /\ attached' = address
      BY <2>1, <2>3 DEF ObjectAt, RecordsAttachment
    <3>2. video_attached' = TRUE
      BY <2>1, <2>3
    <3>3. active = TRUE
      BY <1>1, <2>3 DEF PublicationAllowed, SwapFlags
    <3>4. attached_now' \in BOOLEAN
      BY <2>1, Zenon DEF RecordsAttachment
    <3> QED BY <2>3, <3>1, <3>2, <3>3, <3>4, AddressAssumption DEF Published
  <2>4. CASE published = FALSE \/ address = 0
    <3>1. content' = "None" /\ held' = "None" /\ attached' = 0
      BY <2>1, <2>2, <2>4 DEF ObjectAt, RecordsAttachment
    <3>2. video_attached' = FALSE
      BY <2>1, <2>4
    <3>3. attached_now' \in BOOLEAN
      BY <2>1, Zenon DEF RecordsAttachment
    <3> QED BY <3>1, <3>2, <3>3 DEF Published
  <2> QED BY <2>2, <2>3, <2>4
<1>2. CASE ~(PublicationAllowed(address) /\ ~AlreadyAttached(address, same_epoch))
  <2>1. UNCHANGED <<attached, held, content, video_attached>>
    BY <1>2 DEF Publish
  <2>2. Published
    BY <2>1 DEF Published
  <2>3. ASSUME active = TRUE, address # 0 PROVE same_epoch # FALSE
    BY <1>2, <2>3 DEF PublicationAllowed, AlreadyAttached
  <2>4. ASSUME address = 0 PROVE content = "None"
    BY <1>2, <2>4 DEF PublicationAllowed, AlreadyAttached
  <2>5. attached_now' \in BOOLEAN
    BY <1>2, Zenon DEF Publish
  <2> QED BY <2>1, <2>2, <2>3, <2>4, <2>5
<1> QED BY <1>1, <1>2

\* The queue without its first event.
LEMMA QueueTail ==
  ASSUME NEW queue \in Seq(SwapEvents), queue # << >>, NEW i \in 2 .. Len(queue) + 1
  PROVE  LET rest == Tail(queue)
         IN  /\ StartQueued(queue, i) =>
                  \/ StartQueued(rest, i - 1)
                  \/ Head(queue) = "Start" /\ NoEndBefore(rest, i - 1)
             /\ NoEndBefore(queue, i) => NoEndBefore(rest, i - 1) /\ Head(queue) # "End"
<1> DEFINE rest == Tail(queue)
<1>1. /\ rest \in Seq(SwapEvents) /\ Len(rest) = Len(queue) - 1 /\ Head(queue) = queue[1]
      /\ \A k \in 1 .. Len(queue) - 1 : rest[k] = queue[k + 1]
  OBVIOUS
<1> HIDE DEF rest
<1>2. \A k \in 2 .. Len(queue) : rest[k - 1] = queue[k]
  BY <1>1
<1>3. ASSUME StartQueued(queue, i)
      PROVE  \/ StartQueued(rest, i - 1)
             \/ Head(queue) = "Start" /\ NoEndBefore(rest, i - 1)
  <2>1. PICK j \in 1 .. i - 1 : queue[j] = "Start" /\ \A k \in j + 1 .. i - 1 : queue[k] # "End"
    BY <1>3 DEF StartQueued
  <2>2. CASE j = 1
    <3>1. \A k \in 1 .. i - 2 : k + 1 \in 2 .. i - 1 /\ rest[k] = queue[k + 1]
      BY <1>1
    <3> QED BY <1>1, <2>1, <2>2, <3>1 DEF NoEndBefore
  <2>3. CASE j > 1
    <3>1. j - 1 \in 1 .. i - 2 /\ rest[j - 1] = "Start"
      BY <1>2, <2>1, <2>3
    <3>2. \A k \in j .. i - 2 : k + 1 \in j + 1 .. i - 1 /\ rest[k] = queue[k + 1]
      BY <1>1, <2>3
    <3> QED BY <2>1, <3>1, <3>2 DEF StartQueued
  <2> QED BY <2>2, <2>3
<1>4. ASSUME NoEndBefore(queue, i) PROVE NoEndBefore(rest, i - 1) /\ Head(queue) # "End"
  BY <1>1, <1>4 DEF NoEndBefore
<1> QED BY <1>3, <1>4 DEF rest

\* The queue with one event more.
LEMMA QueueAppend ==
  ASSUME NEW queue \in Seq(SwapEvents), NEW event \in SwapEvents
  PROVE  LET more == Append(queue, event)
             next == Len(queue) + 1
         IN  /\ \A i \in 1 .. next :
                  /\ StartQueued(queue, i) => StartQueued(more, i)
                  /\ NoEndBefore(queue, i) => NoEndBefore(more, i)
             /\ event = "Start" => StartQueued(more, next + 1)
             /\ event = "Reconfig" =>
                  /\ StartQueued(queue, next) => StartQueued(more, next + 1)
                  /\ NoEndBefore(queue, next) => NoEndBefore(more, next + 1)
<1> DEFINE more == Append(queue, event)
           next == Len(queue) + 1
<1>1. /\ Len(more) = Len(queue) + 1 /\ more[next] = event
      /\ \A k \in 1 .. Len(queue) : more[k] = queue[k]
      /\ Len(queue) \in Nat
  OBVIOUS
<1> HIDE DEF more
<1>2. ASSUME NEW i \in 1 .. next, StartQueued(queue, i) PROVE StartQueued(more, i)
  BY <1>1, <1>2 DEF StartQueued
<1>3. ASSUME NEW i \in 1 .. next, NoEndBefore(queue, i) PROVE NoEndBefore(more, i)
  BY <1>1, <1>3 DEF NoEndBefore
<1>4. ASSUME event = "Start" PROVE StartQueued(more, next + 1)
  BY <1>1, <1>4 DEF StartQueued
<1>5. ASSUME event = "Reconfig", StartQueued(queue, next) PROVE StartQueued(more, next + 1)
  <2>1. PICK j \in 1 .. next - 1 :
          queue[j] = "Start" /\ \A k \in j + 1 .. next - 1 : queue[k] # "End"
    BY <1>5 DEF StartQueued
  <2>2. \A k \in j + 1 .. next : more[k] # "End"
    BY <1>1, <1>5, <2>1
  <2> QED BY <1>1, <2>1, <2>2 DEF StartQueued
<1>6. ASSUME event = "Reconfig", NoEndBefore(queue, next) PROVE NoEndBefore(more, next + 1)
  BY <1>1, <1>6 DEF NoEndBefore
<1> QED BY <1>2, <1>3, <1>4, <1>5, <1>6 DEF more

\* What is said of the queue is kept as its first event is handled.
LEMMA TakenSound ==
  ASSUME SwapInv, NEW event, Received(event),
         content' = "Stale" => content = "Stale",
         content' # "None" => content # "None" \/ active = TRUE,
         event = "Start" /\ content' # "None" => active' = TRUE,
         event # "End" /\ active = TRUE => active' = TRUE,
         event = "Reconfig" /\ active = TRUE /\ vo # 0 => content' # "Stale"
  PROVE  /\ mpv_events' \in Seq(SwapEvents) /\ Len(mpv_events') <= MaxEvents
         /\ PlaysWhatStarted' /\ StaleIsReplaced'
<1>1. /\ mpv_events \in Seq(SwapEvents) /\ mpv_events # << >> /\ Len(mpv_events) <= MaxEvents
      /\ mpv_events' = Tail(mpv_events) /\ Head(mpv_events) = event
      /\ vo' = vo /\ mpv_playing' = mpv_playing
  BY DEF Received, SwapInv, SwapTypeOK
<1>2. /\ mpv_events' \in Seq(SwapEvents) /\ Len(mpv_events') = Len(mpv_events) - 1
      /\ Len(mpv_events) \in Nat \ {0} /\ mpv_events[1] = event
      /\ \A i \in 2 .. Len(mpv_events) : mpv_events'[i - 1] = mpv_events[i]
  BY <1>1
<1>3. ASSUME NEW i \in 2 .. Len(mpv_events) + 1
      PROVE  /\ StartQueued(mpv_events, i) =>
                  \/ StartQueued(mpv_events', i - 1)
                  \/ event = "Start" /\ NoEndBefore(mpv_events', i - 1)
             /\ NoEndBefore(mpv_events, i) => NoEndBefore(mpv_events', i - 1) /\ event # "End"
  BY <1>1, QueueTail
<1>4. PlaysWhatStarted'
  <2> SUFFICES ASSUME mpv_playing = TRUE
      PROVE  LET next == Len(mpv_events') + 1
             IN  \/ StartQueued(mpv_events', next)
                 \/ NoEndBefore(mpv_events', next) /\ (content' # "None" => active' = TRUE)
    BY <1>1 DEF PlaysWhatStarted
  <2>1. Len(mpv_events) + 1 \in 2 .. Len(mpv_events) + 1
        /\ Len(mpv_events) + 1 - 1 = Len(mpv_events') + 1
    BY <1>2
  <2>2. \/ StartQueued(mpv_events, Len(mpv_events) + 1)
        \/ /\ NoEndBefore(mpv_events, Len(mpv_events) + 1)
           /\ content # "None" => active = TRUE
    BY DEF SwapInv, PlaysWhatStarted
  <2> QED BY <1>3, <2>1, <2>2
<1>5. StaleIsReplaced'
  <2> SUFFICES ASSUME content' = "Stale", vo # 0
      PROVE  \E i \in DOMAIN mpv_events' :
               mpv_events'[i] = "Reconfig" /\ Started(mpv_events', i, active')
    BY <1>1 DEF StaleIsReplaced
  <2>1. PICK i \in DOMAIN mpv_events :
          mpv_events[i] = "Reconfig" /\ Started(mpv_events, i, active)
    BY DEF SwapInv, StaleIsReplaced
  <2>2. i # 1
    <3> SUFFICES ASSUME i = 1 PROVE FALSE
      OBVIOUS
    <3>1. ~StartQueued(mpv_events, 1)
      BY DEF StartQueued
    <3>2. active = TRUE /\ event = "Reconfig"
      BY <1>2, <2>1, <3>1 DEF Started
    <3> QED BY <3>2
  <2>3. i \in 2 .. Len(mpv_events) + 1 /\ i - 1 \in DOMAIN mpv_events'
        /\ mpv_events'[i - 1] = "Reconfig"
    BY <1>1, <1>2, <2>1, <2>2
  <2>4. Started(mpv_events', i - 1, active')
    BY <1>3, <2>1, <2>3 DEF Started
  <2> QED BY <2>3, <2>4
<1>6. Len(mpv_events') <= MaxEvents
  BY <1>1, <1>2, AddressAssumption
<1> QED BY <1>2, <1>4, <1>5, <1>6

\* What is said of the queue is kept while it is left alone.
LEMMA LeftSound ==
  ASSUME SwapInv, UNCHANGED <<mpv_events, vo, mpv_playing>>,
         \/ content' = "None"
         \/ /\ active' = active /\ (content' = "Stale" => content = "Stale")
            /\ content' # "None" => content # "None" \/ active = TRUE
  PROVE  PlaysWhatStarted' /\ StaleIsReplaced'
<1>1. PlaysWhatStarted'
  BY DEF SwapInv, PlaysWhatStarted
<1>2. StaleIsReplaced'
  BY DEF SwapInv, StaleIsReplaced
<1> QED BY <1>1, <1>2

\* Detaching clears the visual, whether the entry stays active or not
\* (detach_video_swapchain).
LEMMA DetachSound ==
  ASSUME SwapInv, DetachSwapchain, UNCHANGED mpvVars, active' \in {FALSE, active}
  PROVE  SwapInv'
<1>1. Published /\ attached_now' \in BOOLEAN /\ content' = "None"
  <2>1. Publish(0, FALSE)
    BY DEF DetachSwapchain
  <2> QED BY <2>1, PublishSound
<1>2. PlaysWhatStarted' /\ StaleIsReplaced'
  BY <1>1, LeftSound DEF mpvVars
<1>3. SwapTypeOK'
  BY <1>1 DEF SwapInv, SwapTypeOK, Published, mpvVars
<1>4. video_attached' \in BOOLEAN
  BY DEF SwapInv, SwapFlags, DetachSwapchain, Publish
<1>5. SwapFlags'
  BY <1>1, <1>4 DEF SwapInv, SwapFlags, mpvVars
<1> QED BY <1>1, <1>2, <1>3, <1>5 DEF SwapInv, Published

\* Every event the player takes from mpv's queue keeps the video's part of the
\* invariant: a start publishes nothing, an end detaches, and a reconfiguration
\* of the active entry publishes what is read now (MpvPlayer::pump).
LEMMA PumpSound ==
  ASSUME SwapInv, Pump PROVE SwapInv' /\ tree' = tree
<1> USE DEF SwapInv, SwapTypeOK
<1>1. CASE PumpStart
  <2>1. /\ Received("Start") /\ UNCHANGED attachVars
        /\ active' = TRUE \/ ((content = "None" \/ active) /\ active' = active)
    BY <1>1 DEF PumpStart
  <2>2. active = TRUE => active' = TRUE
    BY <2>1
  <2>3. content' # "None" => active' = TRUE
    BY <2>1 DEF attachVars, SwapFlags
  <2>4. active' \in BOOLEAN
    BY <2>1 DEF SwapFlags
  <2>5. /\ mpv_events' \in Seq(SwapEvents) /\ Len(mpv_events') <= MaxEvents
        /\ PlaysWhatStarted' /\ StaleIsReplaced'
    BY <2>1, <2>2, <2>3, TakenSound DEF attachVars
  <2> QED BY <2>1, <2>4, <2>5 DEF Received, attachVars, SwapFlags, AgreeOnContent
<1>2. CASE PumpEnd
  <2>1. Received("End") /\ UNCHANGED attachVars /\ active' = FALSE
    BY <1>2 DEF PumpEnd
  <2>2. /\ mpv_events' \in Seq(SwapEvents) /\ Len(mpv_events') <= MaxEvents
        /\ PlaysWhatStarted' /\ StaleIsReplaced'
    BY <2>1, TakenSound DEF attachVars
  <2> QED BY <2>1, <2>2 DEF Received, attachVars, SwapFlags, AgreeOnContent
<1>3. CASE PumpReconfig
  <2>1. Received("Reconfig") /\ AcquireReconfigured /\ active' = active
    BY <1>3 DEF PumpReconfig
  <2>2. CASE vo # 0
    <3>1. Publish(vo, FALSE)
      BY <2>1, <2>2 DEF AcquireReconfigured
    <3>2. /\ Published /\ attached_now' \in BOOLEAN
          /\ active = TRUE => content' # "Stale"
      BY <2>2, <3>1, PublishSound
    <3>3. /\ mpv_events' \in Seq(SwapEvents) /\ Len(mpv_events') <= MaxEvents
          /\ PlaysWhatStarted' /\ StaleIsReplaced'
      BY <2>1, <3>2, TakenSound DEF Published
    <3>4. video_attached' \in BOOLEAN
      BY <3>1 DEF SwapFlags, Publish
    <3>5. SwapFlags'
      BY <2>1, <3>2, <3>4 DEF SwapFlags, Received
    <3> QED BY <2>1, <3>2, <3>3, <3>5 DEF Received, Published
  <2>3. CASE vo = 0
    <3>1. attached_now' = FALSE /\ UNCHANGED <<attached, held, content, video_attached>>
      BY <2>1, <2>3 DEF AcquireReconfigured
    <3>2. /\ mpv_events' \in Seq(SwapEvents) /\ Len(mpv_events') <= MaxEvents
          /\ PlaysWhatStarted' /\ StaleIsReplaced'
      BY <2>1, <2>3, <3>1, TakenSound
    <3> QED BY <2>1, <3>1, <3>2 DEF Received, SwapFlags, AgreeOnContent
  <2> QED BY <2>2, <2>3
<1>4. CASE PumpSwapchainChange
  <2>1. /\ Publish(vo, attached_now) /\ notified' = vo
        /\ UNCHANGED <<vo, mpv_playing, mpv_events, active, tree>>
    BY <1>4 DEF PumpSwapchainChange
  <2>2. Published /\ attached_now' \in BOOLEAN
    BY <2>1, PublishSound DEF SwapFlags
  <2>3. PlaysWhatStarted' /\ StaleIsReplaced'
    BY <2>1, <2>2, LeftSound DEF Published
  <2>4. video_attached' \in BOOLEAN
    BY <2>1 DEF SwapFlags, Publish
  <2>5. SwapFlags'
    BY <2>1, <2>2, <2>4 DEF SwapFlags
  <2> QED BY <2>1, <2>2, <2>3, <2>5 DEF Published
<1> QED BY <1>1, <1>2, <1>3, <1>4 DEF Pump, PumpStart, PumpEnd, PumpReconfig, PumpSwapchainChange,
                                     Received

\* Stopping detaches the video before mpv is told (MpvPlayer::stop).
LEMMA StopSound ==
  ASSUME SwapInv, StopPlayer PROVE SwapInv' /\ tree' = tree
BY DetachSound DEF StopPlayer

\* A new backend starts with an empty queue, no output and nothing on the
\* visual (MpvPlayer::recreate_player).
LEMMA RecreateSound ==
  ASSUME SwapInv, RecreatePlayer PROVE SwapInv' /\ tree' = tree
<1>1. /\ DetachSwapchain /\ active' = FALSE /\ tree' = tree
      /\ vo' = 0 /\ mpv_playing' = FALSE /\ mpv_events' = << >> /\ notified' = 0
  BY DEF RecreatePlayer
<1>2. Published /\ attached_now' \in BOOLEAN /\ content' = "None"
  <2>1. Publish(0, FALSE)
    BY <1>1 DEF DetachSwapchain
  <2> QED BY <2>1, PublishSound
<1>3. PlaysWhatStarted' /\ StaleIsReplaced'
  BY <1>1, <1>2 DEF PlaysWhatStarted, StaleIsReplaced
<1>4. video_attached' \in BOOLEAN
  BY <1>1 DEF SwapInv, SwapFlags, DetachSwapchain, Publish
<1>5. SwapFlags'
  BY <1>1, <1>2, <1>4 DEF SwapFlags
<1>6. SwapTypeOK'
  BY <1>1, <1>2, AddressAssumption DEF SwapTypeOK, Published
<1> QED BY <1>1, <1>2, <1>3, <1>5, <1>6 DEF SwapInv, Published

\* What is said of the queue is kept as mpv adds to it.
LEMMA QueuedSound ==
  ASSUME SwapInv, NEW event \in SwapEvents, Emits(event), mpv_playing' \in BOOLEAN,
         \/ event = "Start"
         \/ event = "End" /\ mpv_playing' = FALSE
         \/ event = "Reconfig" /\ mpv_playing' = mpv_playing,
         content' = "None" <=> content = "None",
         \/ vo' = vo /\ content' = content
         \/ vo' = 0
         \/ event = "Reconfig" /\ mpv_playing = TRUE
  PROVE  /\ mpv_events' \in Seq(SwapEvents) /\ Len(mpv_events') <= MaxEvents
         /\ PlaysWhatStarted' /\ StaleIsReplaced'
<1>1. /\ mpv_events \in Seq(SwapEvents) /\ mpv_events' = Append(mpv_events, event)
      /\ Len(mpv_events) < MaxEvents /\ active' = active
  BY DEF Emits, SwapInv, SwapTypeOK
<1>2. /\ mpv_events' \in Seq(SwapEvents) /\ Len(mpv_events') = Len(mpv_events) + 1
      /\ Len(mpv_events) \in Nat /\ Len(mpv_events') <= MaxEvents
      /\ mpv_events'[Len(mpv_events) + 1] = event
      /\ \A i \in DOMAIN mpv_events : i \in DOMAIN mpv_events' /\ mpv_events'[i] = mpv_events[i]
  BY <1>1, AddressAssumption
<1> DEFINE next == Len(mpv_events) + 1
<1>3. /\ \A i \in 1 .. next :
           /\ StartQueued(mpv_events, i) => StartQueued(mpv_events', i)
           /\ NoEndBefore(mpv_events, i) => NoEndBefore(mpv_events', i)
      /\ event = "Start" => StartQueued(mpv_events', next + 1)
      /\ event = "Reconfig" =>
           /\ StartQueued(mpv_events, next) => StartQueued(mpv_events', next + 1)
           /\ NoEndBefore(mpv_events, next) => NoEndBefore(mpv_events', next + 1)
  BY <1>1, QueueAppend
<1>4. mpv_playing = TRUE =>
        \/ StartQueued(mpv_events, next)
        \/ NoEndBefore(mpv_events, next) /\ (content # "None" => active = TRUE)
  BY DEF SwapInv, PlaysWhatStarted
<1>5. PlaysWhatStarted'
  <2> SUFFICES ASSUME mpv_playing' = TRUE
      PROVE  \/ StartQueued(mpv_events', next + 1)
             \/ NoEndBefore(mpv_events', next + 1) /\ (content' # "None" => active' = TRUE)
    BY <1>2 DEF PlaysWhatStarted
  <2> QED BY <1>1, <1>3, <1>4
<1>6. StaleIsReplaced'
  <2> SUFFICES ASSUME content' = "Stale", vo' # 0
      PROVE  \E i \in DOMAIN mpv_events' :
               mpv_events'[i] = "Reconfig" /\ Started(mpv_events', i, active')
    BY DEF StaleIsReplaced
  <2>1. CASE vo' = vo /\ content' = content
    <3>1. PICK i \in DOMAIN mpv_events :
            mpv_events[i] = "Reconfig" /\ Started(mpv_events, i, active)
      BY <2>1 DEF SwapInv, StaleIsReplaced
    <3>2. i \in 1 .. next
      BY <1>1
    <3> QED BY <1>1, <1>2, <1>3, <3>1, <3>2 DEF Started
  <2>2. CASE event = "Reconfig" /\ mpv_playing = TRUE
    <3>1. next \in DOMAIN mpv_events' /\ mpv_events'[next] = "Reconfig" /\ next \in 1 .. next
      BY <1>2, <2>2
    <3>2. Started(mpv_events, next, active)
      BY <1>4, <2>2 DEF Started
    <3>3. Started(mpv_events', next, active')
      BY <1>1, <1>3, <3>1, <3>2 DEF Started
    <3> QED BY <3>1, <3>3
  <2> QED BY <2>1, <2>2
<1> QED BY <1>2, <1>5, <1>6

\* Whatever mpv's output does, a swap chain it replaces under a started entry
\* is followed by a reconfiguration of that entry.
LEMMA MpvSound ==
  ASSUME SwapInv, MpvOutput PROVE SwapInv' /\ tree' = tree
<1> USE DEF SwapInv, SwapTypeOK, Objects
<1>1. CASE MpvStarts
  <2>1. /\ Emits("Start") /\ mpv_playing' = TRUE /\ UNCHANGED <<vo, held, content>>
    BY <1>1 DEF MpvStarts
  <2>2. /\ mpv_events' \in Seq(SwapEvents) /\ Len(mpv_events') <= MaxEvents
        /\ PlaysWhatStarted' /\ StaleIsReplaced'
    BY <2>1, QueuedSound DEF SwapEvents
  <2> QED BY <2>1, <2>2 DEF Emits, SwapFlags, AgreeOnContent
<1>2. CASE MpvEnds
  <2>1. /\ Emits("End") /\ mpv_playing' = FALSE /\ UNCHANGED <<vo, held, content>>
    BY <1>2 DEF MpvEnds
  <2>2. /\ mpv_events' \in Seq(SwapEvents) /\ Len(mpv_events') <= MaxEvents
        /\ PlaysWhatStarted' /\ StaleIsReplaced'
    BY <2>1, QueuedSound DEF SwapEvents
  <2> QED BY <2>1, <2>2 DEF Emits, SwapFlags, AgreeOnContent
<1>3. CASE MpvReplacesOutput
  <2>1. /\ Emits("Reconfig") /\ mpv_playing' = mpv_playing /\ mpv_playing = TRUE
        /\ vo' \in Addresses
        /\ held' = Outdated(held) /\ content' = Outdated(content)
    BY <1>3 DEF MpvReplacesOutput, SwapFlags
  <2>2. content' = held' /\ content' \in Objects /\ (content' = "None" <=> content = "None")
    BY <2>1 DEF Outdated, AgreeOnContent
  <2>3. /\ mpv_events' \in Seq(SwapEvents) /\ Len(mpv_events') <= MaxEvents
        /\ PlaysWhatStarted' /\ StaleIsReplaced'
    BY <2>1, <2>2, QueuedSound DEF SwapEvents
  <2> QED BY <2>1, <2>2, <2>3 DEF Emits, SwapFlags, AgreeOnContent
<1>4. CASE MpvReconfigures
  <2>1. /\ Emits("Reconfig") /\ UNCHANGED <<vo, mpv_playing, held, content>>
        /\ mpv_playing \in BOOLEAN
    BY <1>4 DEF MpvReconfigures, SwapFlags
  <2>2. /\ mpv_events' \in Seq(SwapEvents) /\ Len(mpv_events') <= MaxEvents
        /\ PlaysWhatStarted' /\ StaleIsReplaced'
    BY <2>1, QueuedSound DEF SwapEvents
  <2> QED BY <2>1, <2>2 DEF Emits, SwapFlags, AgreeOnContent
<1>5. CASE MpvLosesOutput
  <2>1. /\ Emits("Reconfig") /\ mpv_playing' = mpv_playing /\ mpv_playing \in BOOLEAN /\ vo' = 0
        /\ held' = Outdated(held) /\ content' = Outdated(content)
    BY <1>5 DEF MpvLosesOutput, SwapFlags
  <2>2. content' = held' /\ content' \in Objects /\ (content' = "None" <=> content = "None")
    BY <2>1 DEF Outdated, AgreeOnContent
  <2>3. /\ mpv_events' \in Seq(SwapEvents) /\ Len(mpv_events') <= MaxEvents
        /\ PlaysWhatStarted' /\ StaleIsReplaced'
    BY <2>1, <2>2, QueuedSound DEF SwapEvents
  <2> QED BY <2>1, <2>2, <2>3 DEF Emits, SwapFlags, AgreeOnContent
<1> QED BY <1>1, <1>2, <1>3, <1>4, <1>5 DEF MpvOutput, MpvStarts, MpvEnds, MpvReplacesOutput,
                                           MpvReconfigures, MpvLosesOutput, Emits

\* A step that touches neither mpv nor the attachment keeps what is known of
\* them.
LEMMA SwapLeftSound ==
  ASSUME SwapInv, UNCHANGED swapVars PROVE SwapInv'
<1>1. PlaysWhatStarted' /\ StaleIsReplaced'
  BY DEF swapVars, mpvVars, attachVars, SwapInv, PlaysWhatStarted, StaleIsReplaced
<1>2. SwapFlags'
  BY DEF swapVars, mpvVars, attachVars, SwapInv, SwapFlags
<1> QED BY <1>1, <1>2 DEF swapVars, mpvVars, attachVars, SwapInv, SwapTypeOK, AgreeOnContent

\* Nothing plays and nothing is attached at the start.
LEMMA SwapInitSound ==
  ASSUME SwapInit PROVE SwapInv
<1>1. SwapFlags
  BY DEF SwapInit, SwapFlags
<1>2. PlaysWhatStarted
  BY DEF SwapInit, PlaysWhatStarted
<1>3. StaleIsReplaced
  BY DEF SwapInit, StaleIsReplaced
<1> QED BY <1>1, <1>2, <1>3, AddressAssumption DEF SwapInit, SwapInv, SwapTypeOK, AgreeOnContent, Objects

-----------------------------------------------------------------------------
(* The surface, the rebuild budget and the frame wait.                     *)

SurfaceFlags ==
  /\ render_target \in BOOLEAN /\ presentation_ready \in BOOLEAN
  /\ loss \in BOOLEAN /\ pending_loss \in BOOLEAN
  /\ outstanding \in BOOLEAN /\ exhausted \in BOOLEAN

SurfaceTypeOK ==
  /\ device \in {"None", "Live", "Lost"} /\ ui \in Stages /\ tree \in Trees
  /\ width \in Sizes /\ window \in Sizes
  /\ attempts \in 0 .. MaxAttempts /\ due_in \in 0 .. RetryDelay
  /\ turn \in {"Messages", "Pump", "Service", "Draw"}
  /\ wait \in 0 .. FrameCeiling /\ supervisor_in \in -1 .. FrameCeiling
  /\ since_failure \in 0 .. RetryDelay

\* A surface that is ready lacks nothing but its buffers, which the service
\* step asks for, and no attempt is held back from it.
ReadyIsWhole ==
  presentation_ready = TRUE =>
    /\ ui = "Complete" /\ tree = "Complete" /\ device # "None"
    /\ exhausted = FALSE /\ attempts = 0
    /\ outstanding = TRUE => due_in = 0
    /\ render_target = TRUE => width = window
    /\ turn = "Draw" => render_target = TRUE
    /\ loss = TRUE => pending_loss = TRUE \/ outstanding = TRUE

\* The delay of an attempt that is due has been kept.
DelayIsKept ==
  /\ outstanding = TRUE => exhausted = FALSE /\ since_failure + due_in >= RetryDelay
  /\ outstanding = FALSE /\ exhausted = FALSE => since_failure = RetryDelay

\* The wait ends before the budget has anything to decide.
WaitsForDecision ==
  turn = "Messages" /\ wait > 0 /\ outstanding = TRUE =>
    attempts < MaxAttempts /\ wait <= due_in

SurfaceInv == SurfaceTypeOK /\ SurfaceFlags /\ ReadyIsWhole /\ DelayIsKept /\ WaitsForDecision

\* The window starts without a surface, with the whole retry budget and nothing
\* to wait for.
LEMMA SurfaceInitSound ==
  ASSUME Init PROVE SurfaceInv /\ SwapInv
<1>1. SurfaceFlags
  BY DEF Init, SurfaceFlags
<1>2. SurfaceTypeOK /\ ReadyIsWhole /\ DelayIsKept /\ WaitsForDecision
  BY PresentationAssumption DEF Init, SwapInit, SurfaceTypeOK, Stages, Trees, ReadyIsWhole,
     DelayIsKept, WaitsForDecision
<1> QED BY <1>1, <1>2, SwapInitSound DEF Init, SurfaceInv

\* Raising the latch is noticed, once.
LEMMA RaiseSound ==
  ASSUME SurfaceFlags, RaiseLoss
  PROVE  /\ loss' \in BOOLEAN /\ pending_loss' \in BOOLEAN /\ loss' = TRUE
         /\ pending_loss = TRUE => pending_loss' = TRUE
         /\ loss = FALSE => pending_loss' = TRUE
BY DEF SurfaceFlags, RaiseLoss

\* A step that leaves the surface and the budget alone keeps what is known of
\* them, also when it reports a loss (PresentationSurface::raise_loss).
LEMMA LeftSurfaceSound ==
  ASSUME SurfaceInv, UNCHANGED <<surfaceVars, budgetVars, loopVars, since_failure, tree>>,
         \/ UNCHANGED lossVars
         \/ RaiseLoss
  PROVE  SurfaceInv'
<1>1. /\ loss' \in BOOLEAN /\ pending_loss' \in BOOLEAN
      /\ loss' = TRUE => (loss = TRUE /\ pending_loss' = pending_loss) \/ pending_loss' = TRUE
  BY RaiseSound DEF SurfaceInv, SurfaceFlags, lossVars
<1>2. SurfaceFlags'
  BY <1>1 DEF SurfaceInv, SurfaceFlags, surfaceVars, budgetVars
<1>3. ReadyIsWhole'
  BY <1>1 DEF SurfaceInv, ReadyIsWhole, surfaceVars, budgetVars, loopVars
<1> QED BY <1>2, <1>3 DEF SurfaceInv, SurfaceTypeOK, DelayIsKept, WaitsForDecision, surfaceVars,
                         budgetVars, loopVars

\* The end of a frame never clears the latch of a loss
\* (PresentationSurface::end_frame).
LEMMA EndFrameLatch ==
  ASSUME SurfaceFlags, EndFrame
  PROVE  /\ loss' \in BOOLEAN /\ pending_loss' \in BOOLEAN
         /\ loss = TRUE => loss' = TRUE
         /\ pending_loss = TRUE => pending_loss' = TRUE
         /\ loss' = TRUE => loss = TRUE \/ pending_loss' = TRUE
<1>1. CASE RaiseLoss
  BY <1>1, RaiseSound DEF SurfaceFlags
<1>2. CASE UNCHANGED lossVars
  BY <1>2 DEF lossVars, SurfaceFlags
<1> QED BY <1>1, <1>2 DEF EndFrame

\* A resize of the window leaves a ready surface whole: when its buffers cannot
\* be had again, the service step is asked for them
\* (PresentationSurface::resize).
LEMMA ResizeSound ==
  ASSUME SurfaceInv, Resize PROVE SurfaceInv' /\ UNCHANGED swapVars
<1>1. /\ turn = "Messages" /\ UNCHANGED <<budgetVars, loopVars, since_failure>>
      /\ UNCHANGED <<device, ui, presentation_ready, swapVars>>
  BY DEF Resize, InMessages
<1>2. PICK size \in Sizes : window' = size /\ UiResize(size)
  BY DEF Resize
<1>3. CASE ui \in {"Chain", "Complete"} /\ size # width
  <2>1. PICK resized \in (IF device = "Live" THEN BOOLEAN ELSE {FALSE}) :
          /\ render_target' = resized
          /\ width' = IF resized THEN size ELSE width
          /\ IF device = "Lost" THEN RaiseLoss ELSE UNCHANGED lossVars
    BY <1>2, <1>3 DEF UiResize
  <2>2. resized \in BOOLEAN /\ render_target' \in BOOLEAN
    BY <2>1
  <2>3. /\ loss' \in BOOLEAN /\ pending_loss' \in BOOLEAN
        /\ loss' = TRUE => (loss = TRUE /\ pending_loss' = pending_loss) \/ pending_loss' = TRUE
    BY <2>1, RaiseSound DEF SurfaceInv, SurfaceFlags, lossVars
  <2>4. SurfaceFlags'
    BY <1>1, <2>2, <2>3 DEF SurfaceInv, SurfaceFlags, budgetVars
  <2>5. render_target' = TRUE => width' = window'
    BY <1>2, <2>1, <2>2
  <2>6. ReadyIsWhole'
    BY <1>1, <2>3, <2>5 DEF SurfaceInv, ReadyIsWhole, budgetVars, loopVars, swapVars
  <2>7. width' \in Sizes
    BY <2>1, <2>2 DEF SurfaceInv, SurfaceTypeOK
  <2> QED BY <1>1, <1>2, <2>4, <2>6, <2>7 DEF SurfaceInv, SurfaceTypeOK, DelayIsKept,
                                    WaitsForDecision, budgetVars, loopVars, swapVars
<1>4. CASE ui \notin {"Chain", "Complete"} \/ size = width
  <2>1. UNCHANGED <<render_target, width, lossVars>>
    BY <1>2, <1>4 DEF UiResize
  <2>2. SurfaceFlags'
    BY <1>1, <2>1 DEF SurfaceInv, SurfaceFlags, budgetVars, lossVars
  <2>3. ReadyIsWhole'
    BY <1>1, <1>2, <1>4, <2>1 DEF SurfaceInv, ReadyIsWhole, budgetVars, loopVars, lossVars, swapVars
  <2> QED BY <1>1, <1>2, <2>1, <2>2, <2>3 DEF SurfaceInv, SurfaceTypeOK, DelayIsKept,
                                    WaitsForDecision, budgetVars, loopVars, swapVars
<1> QED BY <1>1, <1>3, <1>4

\* A device check or a paint from the message pump may report a loss and does
\* nothing else to the surface.
LEMMA MessageSound ==
  ASSUME SurfaceInv, VerifyDevice \/ Paint PROVE SurfaceInv' /\ UNCHANGED swapVars
<1>1. /\ UNCHANGED <<surfaceVars, budgetVars, loopVars, since_failure, swapVars>>
      /\ RaiseLoss \/ UNCHANGED lossVars
  BY DEF VerifyDevice, Paint, InMessages, EndFrame
<1> QED BY <1>1, LeftSurfaceSound DEF swapVars

\* What the player does to its own attachment leaves the surface and its budget
\* alone.
LEMMA PlayerSound ==
  ASSUME SurfaceInv, tree' = tree,
         UNCHANGED <<surfaceVars, lossVars, budgetVars, loopVars, since_failure>>
  PROVE  SurfaceInv'
BY LeftSurfaceSound

\* A turn begins with nothing left to wait for (App::run).
LEMMA BeginTurnSound ==
  ASSUME SurfaceInv, BeginTurn PROVE SurfaceInv' /\ UNCHANGED swapVars
<1>1. /\ turn' = "Pump" /\ wait' = 0 /\ supervisor_in' = -1
      /\ UNCHANGED <<surfaceVars, lossVars, budgetVars, since_failure, swapVars>>
  BY DEF BeginTurn
<1>2. SurfaceFlags'
  BY <1>1 DEF SurfaceInv, SurfaceFlags, surfaceVars, budgetVars, lossVars
<1> QED BY <1>1, <1>2, PresentationAssumption DEF SurfaceInv, SurfaceTypeOK, ReadyIsWhole, DelayIsKept,
           WaitsForDecision, surfaceVars, budgetVars, lossVars, swapVars

\* After the events of the player comes the service of the surface.
LEMMA EndPumpSound ==
  ASSUME SurfaceInv, EndPump PROVE SurfaceInv' /\ UNCHANGED swapVars
<1>1. /\ turn' = "Service"
      /\ UNCHANGED <<surfaceVars, lossVars, budgetVars, wait, supervisor_in, since_failure, swapVars>>
  BY DEF EndPump
<1>2. SurfaceFlags'
  BY <1>1 DEF SurfaceInv, SurfaceFlags, surfaceVars, budgetVars, lossVars
<1> QED BY <1>1, <1>2 DEF SurfaceInv, SurfaceTypeOK, ReadyIsWhole, DelayIsKept,
           WaitsForDecision, surfaceVars, budgetVars, lossVars, swapVars

\* What the service step decides, and from what.
LEMMA DecisionSound ==
  ASSUME SurfaceInv
  PROVE  /\ Decision \in {"Hold", "Exhausted", "Attempt"}
         /\ Decision = "Hold" =>
              \/ outstanding = FALSE /\ ~Requests(AsksForRebuild)
              \/ outstanding = TRUE /\ attempts < MaxAttempts /\ due_in > 0
         /\ Decision = "Exhausted" => attempts >= MaxAttempts /\ presentation_ready = FALSE
         /\ Decision = "Attempt" =>
              /\ attempts < MaxAttempts /\ exhausted = FALSE /\ since_failure = RetryDelay
<1> USE DEF SurfaceInv, SurfaceTypeOK, SurfaceFlags
<1> DEFINE asked == Requests(AsksForRebuild)
<1>1. asked \in BOOLEAN /\ (asked => exhausted = FALSE /\ outstanding = FALSE)
  BY DEF Requests
<1>2. Decision = IF ~(outstanding = TRUE \/ asked) THEN "Hold"
                 ELSE IF attempts >= MaxAttempts THEN "Exhausted"
                 ELSE IF (IF asked THEN 0 ELSE due_in) > 0 THEN "Hold" ELSE "Attempt"
  BY DEF Decision, Poll, AtCeiling, DueAfter
<1>3. attempts \in Nat /\ due_in \in Nat /\ since_failure \in 0 .. RetryDelay
  OBVIOUS
<1>4. MaxAttempts \in Nat \ {0} /\ RetryDelay \in Nat \ {0}
  BY PresentationAssumption
<1>5. presentation_ready = TRUE => attempts = 0
  BY DEF ReadyIsWhole
<1> HIDE DEF asked
<1>6. Decision \in {"Hold", "Exhausted", "Attempt"}
  BY <1>2
<1>7. ASSUME Decision = "Hold"
      PROVE  \/ outstanding = FALSE /\ ~asked
             \/ outstanding = TRUE /\ attempts < MaxAttempts /\ due_in > 0
  BY <1>1, <1>2, <1>3, <1>4, <1>7
<1>8. ASSUME Decision = "Exhausted" PROVE attempts >= MaxAttempts /\ presentation_ready = FALSE
  BY <1>1, <1>2, <1>3, <1>4, <1>5, <1>8
<1>9. ASSUME Decision = "Attempt"
      PROVE  attempts < MaxAttempts /\ exhausted = FALSE /\ since_failure = RetryDelay
  BY <1>1, <1>2, <1>3, <1>4, <1>9 DEF DelayIsKept
<1> QED BY <1>6, <1>7, <1>8, <1>9 DEF asked

\* A surface that is not to be rebuilt now, because it is whole or because the
\* delay runs, keeps its budget (PresentationRecovery::poll returns Hold).
LEMMA HoldSound ==
  ASSUME SurfaceInv, Hold PROVE SurfaceInv' /\ UNCHANGED swapVars
<1>1. /\ Decision = "Hold" /\ turn' = "Draw" /\ UNCHANGED <<wait, supervisor_in>>
      /\ pending_loss' = FALSE
      /\ outstanding' = (outstanding \/ Requests(AsksForRebuild))
      /\ due_in' = DueAfter(AsksForRebuild)
      /\ UNCHANGED <<exhausted, attempts, loss, surfaceVars, since_failure, swapVars>>
  BY DEF Hold, InService
<1>2. ~Requests(AsksForRebuild)
  BY <1>1, DecisionSound DEF Requests
<1>3. outstanding' = outstanding /\ due_in' = due_in
  BY <1>1, <1>2 DEF DueAfter, SurfaceInv, SurfaceFlags
<1>4. SurfaceFlags'
  BY <1>1, <1>3 DEF SurfaceInv, SurfaceFlags, surfaceVars
<1>5. ReadyIsWhole'
  <2> SUFFICES ASSUME presentation_ready = TRUE PROVE ReadyIsWhole'
    BY <1>1 DEF ReadyIsWhole, surfaceVars
  <2>1. outstanding = FALSE
    <3>1. outstanding = FALSE \/ (outstanding = TRUE /\ due_in > 0)
      BY <1>1, DecisionSound
    <3>2. outstanding = TRUE => due_in = 0
      BY DEF SurfaceInv, ReadyIsWhole
    <3> QED BY <3>1, <3>2
  <2>2. ~AsksForRebuild
    BY <1>2, <2>1 DEF Requests, SurfaceInv, ReadyIsWhole
  <2>3. pending_loss = FALSE /\ render_target = TRUE
    BY <2>2 DEF AsksForRebuild, SurfaceInv, SurfaceFlags
  <2> QED BY <1>1, <1>3, <2>1, <2>3 DEF SurfaceInv, ReadyIsWhole, surfaceVars, swapVars
<1> QED BY <1>1, <1>3, <1>4, <1>5 DEF SurfaceInv, SurfaceTypeOK, DelayIsKept, WaitsForDecision,
                                     surfaceVars, swapVars

\* Once the budget is used up the surface is told to be exhausted, and it is
\* not ready (PresentationRecovery::poll returns Exhausted).
LEMMA GiveUpSound ==
  ASSUME SurfaceInv, GiveUp PROVE SurfaceInv' /\ UNCHANGED swapVars
<1>1. /\ Decision = "Exhausted" /\ turn' = "Draw" /\ UNCHANGED <<wait, supervisor_in>>
      /\ pending_loss' = FALSE /\ outstanding' = FALSE /\ exhausted' = TRUE
      /\ due_in' = DueAfter(AsksForRebuild)
      /\ UNCHANGED <<attempts, loss, surfaceVars, since_failure, swapVars>>
  BY DEF GiveUp, InService
<1>2. presentation_ready = FALSE
  BY <1>1, DecisionSound
<1>3. due_in' \in 0 .. RetryDelay
  BY <1>1, PresentationAssumption DEF DueAfter, SurfaceInv, SurfaceTypeOK
<1>4. SurfaceFlags'
  BY <1>1 DEF SurfaceInv, SurfaceFlags, surfaceVars
<1> QED BY <1>1, <1>2, <1>3, <1>4 DEF SurfaceInv, SurfaceTypeOK, ReadyIsWhole, DelayIsKept,
           WaitsForDecision, surfaceVars, swapVars

\* However far a rebuild comes, the window's size is taken and the latch cleared.
LEMMA RebuildSound ==
  ASSUME SurfaceInv, NEW outcome \in RebuildOutcomes, Attempt(outcome)
  PROVE  /\ SurfaceTypeOK => attempts < MaxAttempts /\ exhausted = FALSE
         /\ since_failure = RetryDelay
         /\ turn' = "Draw" /\ UNCHANGED <<wait, supervisor_in, window, mpvVars, active, exhausted>>
         /\ ui' = outcome.ui /\ tree' = outcome.tree
         /\ ui' \in Stages /\ tree' \in Trees /\ device' \in {"None", "Live"}
         /\ width' = window /\ DetachSwapchain
         /\ render_target' \in BOOLEAN /\ presentation_ready' \in BOOLEAN
         /\ loss' = FALSE /\ pending_loss' = FALSE
         /\ presentation_ready' = TRUE =>
              outcome = Rebuilt /\ ui' = "Complete" /\ tree' = "Complete" /\ device' # "None"
              /\ render_target' = TRUE
<1>1. /\ Decision = "Attempt" /\ turn' = "Draw" /\ UNCHANGED <<wait, supervisor_in, exhausted>>
      /\ ui' = outcome.ui /\ render_target' = outcome.target
      /\ tree' = outcome.tree
      /\ device' = IF outcome.ui = "None" THEN "None" ELSE "Live"
      /\ width' = window
      /\ DetachSwapchain
      /\ UNCHANGED <<window, mpvVars, active>>
  BY DEF Attempt, InService, RebuildTo
<1>2. /\ loss' = FALSE /\ pending_loss' = FALSE
  BY DEF Attempt, RebuildTo, DestroyClearsLoss
<1>3. presentation_ready' = (outcome = Rebuilt)
  BY DEF Attempt, RebuildTo
<1>4. attempts < MaxAttempts /\ exhausted = FALSE /\ since_failure = RetryDelay
  BY <1>1, DecisionSound
<1>5. outcome.ui \in Stages /\ outcome.tree \in Trees /\ outcome.target \in BOOLEAN
  <2>1. PICK stage \in Stages, target \in BOOLEAN, new_tree \in Trees :
          outcome = Built(stage, target, new_tree)
    BY Zenon DEF RebuildOutcomes, Rebuilt, Stages, Trees
  <2> QED BY <2>1 DEF Built
<1>6. presentation_ready' = TRUE => outcome = Rebuilt
  BY <1>3
<1>7. outcome = Rebuilt =>
        outcome.ui = "Complete" /\ outcome.tree = "Complete" /\ outcome.target = TRUE
  BY DEF Rebuilt, Built
<1> QED BY <1>1, <1>2, <1>3, <1>4, <1>5, <1>6, <1>7

\* A rebuild that fails at any of its steps is counted and renews the delay,
\* leaves no surface that is taken to be ready, and was not made before the
\* last delay had passed.
LEMMA RebuildFailsSound ==
  ASSUME SurfaceInv, SwapInv, RebuildFails
  PROVE  SurfaceInv' /\ SwapInv' /\ since_failure = RetryDelay /\ exhausted = FALSE
<1>1. PICK outcome \in RebuildOutcomes \ {Rebuilt} :
        /\ Attempt(outcome)
        /\ outstanding' = TRUE /\ attempts' = attempts + 1 /\ due_in' = RetryDelay
        /\ since_failure' = 0
  BY DEF RebuildFails
<1>2. /\ SurfaceTypeOK => attempts < MaxAttempts /\ exhausted = FALSE
      /\ since_failure = RetryDelay
      /\ turn' = "Draw" /\ UNCHANGED <<wait, supervisor_in, window, mpvVars, active, exhausted>>
      /\ ui' \in Stages /\ tree' \in Trees /\ device' \in {"None", "Live"}
      /\ width' = window /\ DetachSwapchain
      /\ render_target' \in BOOLEAN /\ presentation_ready' \in BOOLEAN
      /\ loss' = FALSE /\ pending_loss' = FALSE
      /\ presentation_ready' = TRUE => outcome = Rebuilt
  BY <1>1, RebuildSound
<1>3. presentation_ready' = FALSE
  BY <1>1, <1>2
<1>4. attempts < MaxAttempts /\ exhausted = FALSE /\ attempts \in Nat
  BY <1>2 DEF SurfaceInv, SurfaceTypeOK
<1>5. SurfaceFlags'
  BY <1>1, <1>2, <1>4 DEF SurfaceFlags
<1>6. SurfaceTypeOK'
  BY <1>1, <1>2, <1>4, PresentationAssumption DEF SurfaceInv, SurfaceTypeOK
<1>7. ReadyIsWhole' /\ DelayIsKept' /\ WaitsForDecision'
  BY <1>1, <1>2, <1>3, <1>4, PresentationAssumption DEF ReadyIsWhole, DelayIsKept, WaitsForDecision
<1>8. SwapInv'
  BY <1>2, DetachSound
<1> QED BY <1>2, <1>4, <1>5, <1>6, <1>7, <1>8 DEF SurfaceInv

\* A rebuild that succeeds gives the whole budget back, re-publishes what the
\* player holds, and was not made before the last delay had passed.
LEMMA RebuildSucceedsSound ==
  ASSUME SurfaceInv, SwapInv, RebuildSucceeds
  PROVE  SurfaceInv' /\ SwapInv' /\ since_failure = RetryDelay /\ exhausted = FALSE
<1>1. /\ Attempt(Rebuilt) /\ Rebuilt \in RebuildOutcomes
      /\ outstanding' = FALSE /\ attempts' = 0 /\ due_in' = RetryDelay
      /\ since_failure' = RetryDelay
  BY DEF RebuildSucceeds, RebuildOutcomes
<1>2. /\ SurfaceTypeOK => attempts < MaxAttempts /\ exhausted = FALSE
      /\ since_failure = RetryDelay
      /\ turn' = "Draw" /\ UNCHANGED <<wait, supervisor_in, window, mpvVars, active, exhausted>>
      /\ ui' \in Stages /\ tree' \in Trees /\ device' \in {"None", "Live"}
      /\ width' = window /\ DetachSwapchain
      /\ render_target' \in BOOLEAN /\ presentation_ready' \in BOOLEAN
      /\ loss' = FALSE /\ pending_loss' = FALSE
      /\ presentation_ready' = TRUE =>
           ui' = "Complete" /\ tree' = "Complete" /\ device' # "None" /\ render_target' = TRUE
  BY <1>1, RebuildSound
<1>3. exhausted = FALSE
  BY <1>2 DEF SurfaceInv
<1>4. SurfaceFlags'
  BY <1>1, <1>2, <1>3 DEF SurfaceFlags
<1>5. SurfaceTypeOK'
  BY <1>1, <1>2, PresentationAssumption DEF SurfaceInv, SurfaceTypeOK
<1>6. ReadyIsWhole' /\ DelayIsKept' /\ WaitsForDecision'
  BY <1>1, <1>2, <1>3 DEF ReadyIsWhole, DelayIsKept, WaitsForDecision
<1>7. SwapInv'
  BY <1>2, DetachSound
<1> QED BY <1>2, <1>3, <1>4, <1>5, <1>6, <1>7 DEF SurfaceInv

\* The wait for the next turn is the shortest of what is waited for.
LEMMA ShortestWait ==
  ASSUME NEW presentation_in \in Int, NEW supervisor \in Int,
         presentation_in >= -1, supervisor >= -1
  PROVE  LET deadlines == {presentation_in, supervisor, FrameCeiling} \ {-1}
             w == CHOOSE d \in deadlines : \A e \in deadlines : d <= e
         IN  /\ w \in 0 .. FrameCeiling
             /\ presentation_in # -1 => w <= presentation_in
             /\ w = 0 => presentation_in = 0 \/ supervisor = 0
<1> DEFINE deadlines == {presentation_in, supervisor, FrameCeiling} \ {-1}
           w == CHOOSE d \in deadlines : \A e \in deadlines : d <= e
<1>1. FrameCeiling \in Nat \ {0}
  BY PresentationAssumption
<1>2. \E d \in deadlines : \A e \in deadlines : d <= e
  BY <1>1
<1>3. w \in deadlines /\ \A e \in deadlines : w <= e
  BY <1>2
<1> HIDE DEF w
<1>4. w \in 0 .. FrameCeiling
  BY <1>1, <1>3
<1>5. presentation_in # -1 => w <= presentation_in
  BY <1>3
<1>6. w = 0 => presentation_in = 0 \/ supervisor = 0
  BY <1>1, <1>3
<1> QED BY <1>4, <1>5, <1>6 DEF w

\* At the end of a turn the wait is no longer than what remains of the delay,
\* and it is not zero unless there is something to do (next_turn_wait_ms).
LEMMA EndTurnSound ==
  ASSUME SurfaceInv, EndTurn PROVE SurfaceInv' /\ NoSpin /\ UNCHANGED swapVars
<1> DEFINE next == NextDecisionIn'
<1>1. PICK forced \in (IF presentation_ready THEN BOOLEAN ELSE {FALSE}) :
        /\ outstanding' = (outstanding \/ Requests(forced))
        /\ due_in' = DueAfter(forced)
  BY DEF EndTurn
<1>2. /\ turn = "Draw" /\ turn' = "Messages" /\ EndFrame
      /\ UNCHANGED <<exhausted, attempts, surfaceVars, since_failure, swapVars>>
      /\ supervisor_in' \in {-1, 0, FrameCeiling}
      /\ wait' = FrameWait(NextDecisionIn, supervisor_in)'
  BY DEF EndTurn
<1>3. /\ loss' \in BOOLEAN /\ pending_loss' \in BOOLEAN
      /\ loss = TRUE => loss' = TRUE
      /\ pending_loss = TRUE => pending_loss' = TRUE
      /\ loss' = TRUE => loss = TRUE \/ pending_loss' = TRUE
  BY <1>2, EndFrameLatch DEF SurfaceInv
<1>4. \/ ~Requests(forced) /\ outstanding' = outstanding /\ due_in' = due_in
      \/ /\ outstanding = FALSE /\ exhausted = FALSE /\ outstanding' = TRUE /\ due_in' = 0
  BY <1>1 DEF Requests, DueAfter, SurfaceInv, SurfaceFlags
<1>5. outstanding' \in BOOLEAN
  BY <1>4 DEF SurfaceInv, SurfaceFlags
<1>6. SurfaceFlags'
  BY <1>2, <1>3, <1>5 DEF SurfaceInv, SurfaceFlags, surfaceVars
<1>7. /\ attempts' \in 0 .. MaxAttempts /\ due_in' \in 0 .. RetryDelay
      /\ supervisor_in' \in -1 .. FrameCeiling /\ supervisor_in' \in Int
      /\ MaxAttempts \in Nat \ {0} /\ RetryDelay \in Nat \ {0} /\ FrameCeiling \in Nat \ {0}
  BY <1>2, <1>4, PresentationAssumption DEF SurfaceInv, SurfaceTypeOK
<1>8. next = IF outstanding' = FALSE THEN -1 ELSE IF attempts' >= MaxAttempts THEN 0 ELSE due_in'
  BY <1>5 DEF NextDecisionIn, AtCeiling
<1>9. next \in Int /\ next >= -1
  BY <1>7, <1>8
<1> HIDE DEF next
<1>10. \/ SurfaceReady' /\ wait' = 0
       \/ /\ ~SurfaceReady' /\ wait' \in 0 .. FrameCeiling
          /\ next # -1 => wait' <= next
          /\ wait' = 0 => next = 0 \/ supervisor_in' = 0
  <2>1. wait' = IF SurfaceReady' THEN 0
                ELSE CHOOSE d \in {next, supervisor_in', FrameCeiling} \ {-1} :
                       \A e \in {next, supervisor_in', FrameCeiling} \ {-1} : d <= e
    BY <1>2 DEF FrameWait, next
  <2> QED BY <1>7, <1>9, <2>1, ShortestWait
<1>11. wait' \in 0 .. FrameCeiling
  BY <1>7, <1>10
<1>12. SurfaceTypeOK'
  BY <1>2, <1>7, <1>11 DEF SurfaceInv, SurfaceTypeOK, surfaceVars, swapVars
<1>13. ReadyIsWhole'
  BY <1>2, <1>3, <1>4 DEF SurfaceInv, ReadyIsWhole, surfaceVars, swapVars
<1>14. DelayIsKept'
  BY <1>2, <1>4, <1>7 DEF SurfaceInv, DelayIsKept
<1>15. WaitsForDecision'
  BY <1>7, <1>8, <1>10 DEF WaitsForDecision
<1>16. NoSpin
  <2> SUFFICES ASSUME wait' = 0, ~SurfaceReady', supervisor_in' # 0 PROVE Decision' # "Hold"
    <3>1. SurfaceReady' => SurfaceReady /\ ~loss'
      BY <1>2, <1>3 DEF SurfaceReady, surfaceVars, SurfaceInv, SurfaceFlags
    <3> QED BY <3>1 DEF NoSpin
  <2>1. next = 0
    BY <1>10
  <2>2. outstanding' = TRUE /\ (attempts' >= MaxAttempts \/ due_in' = 0)
    BY <1>5, <1>8, <2>1
  <2>3. DueAfter(AsksForRebuild)' = due_in'
    BY <2>2 DEF DueAfter, Requests
  <2>4. Decision' = IF attempts' >= MaxAttempts THEN "Exhausted"
                    ELSE IF due_in' > 0 THEN "Hold" ELSE "Attempt"
    BY <2>2, <2>3 DEF Decision, Poll, AtCeiling
  <2> QED BY <2>2, <2>4
<1> QED BY <1>2, <1>6, <1>12, <1>13, <1>14, <1>15, <1>16 DEF SurfaceInv

\* As time passes, the delay and the wait run down together with the time since
\* the failure.
LEMMA TickSound ==
  ASSUME SurfaceInv, Tick PROVE SurfaceInv' /\ UNCHANGED swapVars
<1>1. /\ due_in' = Earlier(due_in) /\ wait' = Earlier(wait)
      /\ supervisor_in' = Earlier(supervisor_in)
      /\ since_failure' = IF since_failure < RetryDelay THEN since_failure + 1 ELSE since_failure
      /\ UNCHANGED <<outstanding, exhausted, attempts, turn, surfaceVars, lossVars, swapVars>>
  BY DEF Tick
<1>2. SurfaceFlags'
  BY <1>1 DEF SurfaceInv, SurfaceFlags, surfaceVars, lossVars
<1> USE PresentationAssumption DEF Earlier
<1>3. SurfaceTypeOK'
  BY <1>1 DEF SurfaceInv, SurfaceTypeOK, surfaceVars, swapVars
<1>4. ReadyIsWhole'
  BY <1>1 DEF SurfaceInv, SurfaceTypeOK, ReadyIsWhole, surfaceVars, lossVars, swapVars
<1>5. DelayIsKept'
  BY <1>1 DEF SurfaceInv, SurfaceTypeOK, DelayIsKept
<1>6. WaitsForDecision'
  BY <1>1 DEF SurfaceInv, SurfaceTypeOK, WaitsForDecision
<1> QED BY <1>1, <1>2, <1>3, <1>4, <1>5, <1>6 DEF SurfaceInv

\* A device that is lost changes nothing else by itself.
LEMMA LoseDeviceSound ==
  ASSUME SurfaceInv, LoseDevice PROVE SurfaceInv' /\ UNCHANGED swapVars
<1>1. /\ device' = "Lost"
      /\ UNCHANGED <<ui, render_target, width, window, presentation_ready, lossVars,
                     budgetVars, loopVars, since_failure, swapVars>>
  BY DEF LoseDevice
<1>2. SurfaceFlags'
  BY <1>1 DEF SurfaceInv, SurfaceFlags, budgetVars, lossVars
<1>3. ReadyIsWhole'
  BY <1>1 DEF SurfaceInv, ReadyIsWhole, budgetVars, lossVars, loopVars, swapVars
<1> QED BY <1>1, <1>2, <1>3 DEF SurfaceInv, SurfaceTypeOK, DelayIsKept, WaitsForDecision,
                               budgetVars, loopVars, swapVars

PresentationInv == SurfaceInv /\ SwapInv

\* A step that is neither a rebuild nor the end of a turn is not held to a pace.
LEMMA StepSound ==
  ASSUME PresentationInv, [Next]_presentationVars
  PROVE  /\ PresentationInv'
         /\ turn = "Draw" /\ turn' = "Messages" => NoSpin
         /\ RebuildFails \/ RebuildSucceeds => since_failure = RetryDelay /\ exhausted = FALSE
<1> USE DEF PresentationInv
<1>1. RebuildFails \/ RebuildSucceeds => since_failure = RetryDelay /\ exhausted = FALSE
  BY RebuildFailsSound, RebuildSucceedsSound
<1> SUFFICES PresentationInv' /\ (turn = "Draw" /\ turn' = "Messages" => NoSpin)
  BY <1>1
<1>2. CASE Resize
  BY <1>2, ResizeSound, SwapLeftSound DEF Resize, InMessages, loopVars
<1>3. CASE VerifyDevice \/ Paint
  BY <1>3, MessageSound, SwapLeftSound DEF VerifyDevice, Paint, InMessages, loopVars
<1>4. CASE PumpPlayer
  BY <1>4, PumpSound, PlayerSound DEF PumpPlayer, InTurn, loopVars
<1>5. CASE Stop
  BY <1>5, StopSound, PlayerSound DEF Stop, InTurn, loopVars
<1>6. CASE Recreate
  BY <1>6, RecreateSound, PlayerSound DEF Recreate, InTurn, loopVars
<1>7. CASE BeginTurn
  BY <1>7, BeginTurnSound, SwapLeftSound DEF BeginTurn
<1>8. CASE EndPump
  BY <1>8, EndPumpSound, SwapLeftSound DEF EndPump
<1>9. CASE Hold
  BY <1>9, HoldSound, SwapLeftSound DEF Hold, InService
<1>10. CASE GiveUp
  BY <1>10, GiveUpSound, SwapLeftSound DEF GiveUp, InService
<1>11. CASE RebuildFails
  <2>1. turn = "Service"
    BY <1>11 DEF RebuildFails, Attempt, InService
  <2> QED BY <1>11, <2>1, RebuildFailsSound
<1>12. CASE RebuildSucceeds
  <2>1. turn = "Service"
    BY <1>12 DEF RebuildSucceeds, Attempt, InService
  <2> QED BY <1>12, <2>1, RebuildSucceedsSound
<1>13. CASE EndTurn
  BY <1>13, EndTurnSound, SwapLeftSound
<1>14. CASE Tick
  BY <1>14, TickSound, SwapLeftSound DEF Tick
<1>15. CASE LoseDevice
  BY <1>15, LoseDeviceSound, SwapLeftSound DEF LoseDevice, loopVars
<1>16. CASE MpvActs
  BY <1>16, MpvSound, PlayerSound DEF MpvActs, loopVars
<1>17. CASE UNCHANGED presentationVars
  BY <1>17, LeftSurfaceSound, SwapLeftSound DEF presentationVars, loopVars, swapVars
<1> QED
  BY <1>2, <1>3, <1>4, <1>5, <1>6, <1>7, <1>8, <1>9, <1>10, <1>11, <1>12, <1>13, <1>14, <1>15,
     <1>16, <1>17 DEF Next, Turn, Service

\* The invariant holds in every state of the surface.
LEMMA PresentationHolds == Spec => []PresentationInv
<1>1. Init => PresentationInv
  BY SurfaceInitSound DEF PresentationInv
<1>2. PresentationInv /\ [Next]_presentationVars => PresentationInv'
  BY StepSound
<1> QED BY <1>1, <1>2, PTL DEF Spec

\* What the run checks of the surface follows from the invariant.
LEMMA InvIsBelieved ==
  ASSUME PresentationInv PROVE SurfaceIsAsBelieved
<1> USE DEF PresentationInv
<1>1. PresentationTypeOK
  BY DEF SurfaceInv, SurfaceTypeOK, SurfaceFlags, SwapInv, SwapTypeOK, SwapFlags, PresentationTypeOK
<1>2. LossIsServed
  BY DEF SurfaceInv, SurfaceFlags, ReadyIsWhole, LossIsServed
<1>3. ReadyIsDrawable
  BY <1>1, <1>2 DEF SurfaceInv, SurfaceFlags, ReadyIsWhole, ReadyIsDrawable
<1>4. ContentIsHeld
  BY DEF SwapInv, SwapFlags, AgreeOnContent, ContentIsHeld
<1>5. NoStaleContent
  BY <1>4 DEF SwapInv, StaleIsReplaced, NoStaleContent
<1> QED BY <1>3, <1>5 DEF SurfaceIsAsBelieved

\* That the loop sleeps through no decision follows from the invariant.
LEMMA InvSleepsLongEnough ==
  ASSUME PresentationInv PROVE NoOversleep
<1> SUFFICES ASSUME turn = "Messages", NEW elapsed \in 0 .. wait - 1
    PROVE  Poll(outstanding, IF elapsed < due_in THEN due_in - elapsed ELSE 0) = "Hold"
  BY DEF NoOversleep
<1>1. /\ outstanding \in BOOLEAN
      /\ outstanding = TRUE /\ wait > 0 => attempts < MaxAttempts /\ wait <= due_in
  BY DEF PresentationInv, SurfaceInv, SurfaceFlags, WaitsForDecision
<1>2. /\ wait \in Nat /\ due_in \in Nat /\ attempts \in Nat /\ MaxAttempts \in Nat
  BY PresentationAssumption DEF PresentationInv, SurfaceInv, SurfaceTypeOK
<1> QED BY <1>1, <1>2 DEF Poll, AtCeiling

\* For any window sizes, addresses of swap chains and retry budget, whatever
\* Windows, the device and mpv do: a surface taken for ready can be drawn to, a
\* loss is served, and the video visual has the content the player and the
\* application believe it has, which is stale only while a reconfiguration is
\* queued (presentation_surface.cpp, presentation_recovery.hpp,
\* mpv_player.cpp).
THEOREM SurfaceIsBelievedRightly == Spec => []SurfaceIsAsBelieved
BY PresentationHolds, InvIsBelieved, PTL

\* For any retry delay, frame ceiling and budget: the wait of the main loop
\* ends before there is something to decide, it is zero only for a reason, and
\* rebuilds keep their delay and stop when given up (app.cpp, run;
\* presentation_recovery.hpp).
THEOREM TheLoopKeepsTime == Spec => LoopKeepsTime
<1>1. PresentationInv => NoOversleep
  BY InvSleepsLongEnough
<1>2. PresentationInv /\ [Next]_presentationVars => [NoSpin]_presentationVars
  BY StepSound DEF NoSpin
<1>3. PresentationInv /\ [Next]_presentationVars =>
        [RebuildFails \/ RebuildSucceeds =>
           since_failure = RetryDelay /\ ~exhausted]_presentationVars
  BY StepSound
<1> QED
  BY <1>1, <1>2, <1>3, PresentationHolds, PTL DEF Spec, LoopKeepsTime, SleepsJustEnough,
     AttemptsPaced
====
