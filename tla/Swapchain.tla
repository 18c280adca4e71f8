------------------------------ MODULE Swapchain ------------------------------
(***************************************************************************)
(* The video swap chain on its way from mpv's output to the composition    *)
(* tree: MpvPlayer's publication (player/mpv_player.cpp 434-538), the      *)
(* identity rule of core/presentation.hpp, and CompositionTree (win/       *)
(* composition.cpp) with the application's callback.                       *)
(*                                                                         *)
(* An object is told by what became of it: "Current" is the one mpv's      *)
(* output has now, "Stale" one that it had before.  mpv may give a new     *)
(* object the address of an old one.  An epoch is only ever compared with  *)
(* the player's present one, so attached_now says whether they are equal.  *)
(***************************************************************************)
EXTENDS Integers, Sequences

CONSTANTS
  Addresses,          \* where mpv may allocate a swap chain, none of them 0
  MaxEvents           \* bound: events waiting in mpv's queue

ASSUME AddressAssumption == 0 \notin Addresses /\ MaxEvents \in Nat

VARIABLES
  vo,                 \* mpv: address of its output's swap chain, or 0
  mpv_playing,        \* mpv: a file is started
  mpv_events,         \* mpv: its event queue, the events that matter here
  notified,           \* mpv: the value of the property it last reported
  active,             \* events_.active_entry() has a value
  attached,           \* attached_.address
  attached_now,       \* attached_.epoch = swapchain_epoch_
  held,               \* held_swapchain_
  content,            \* content of the video visual
  tree,               \* composition tree: none, without its root, complete
  video_attached      \* App::video_attached_

mpvVars    == <<vo, mpv_playing, mpv_events, notified>>
attachVars == <<attached, attached_now, held, content, video_attached>>
swapVars   == <<mpvVars, active, attachVars, tree>>

Objects == {"None", "Current", "Stale"}
Trees   == {"None", "Orphan", "Complete"}    \* an orphan has a video visual

SwapInit ==
  /\ vo = 0 /\ mpv_playing = FALSE /\ mpv_events = << >> /\ notified = 0
  /\ active = FALSE
  /\ attached = 0 /\ attached_now = FALSE /\ held = "None"
  /\ content = "None" /\ tree = "Complete" /\ video_attached = FALSE

-----------------------------------------------------------------------------
(* The player.                                                             *)

PublicationAllowed(address) == active \/ address = 0

\* Mutant: an address alone identifies the object.
SameAddress(address, same_epoch) == attached = address

\* decide_swapchain_transition says Ignore.
AlreadyAttached(address, same_epoch) ==
  attached = address /\ (address = 0 \/ same_epoch)

ObjectAt(address) == IF address = 0 THEN "None" ELSE "Current"

\* set_video_content: a visual may refuse content, and is cleared all the same;
\* clearing it is assumed never to fail.
Accepts(address) ==
  IF tree = "None" THEN {FALSE} ELSE IF address = 0 THEN {TRUE} ELSE BOOLEAN

\* Mutant: a refused publication is recorded as an attachment.
RecordsRefused(address, published) ==
  /\ attached' = address /\ attached_now' = (address # 0)
  /\ held' = IF published THEN ObjectAt(address) ELSE "None"

RecordsAttachment(address, published) ==
  LET present == published /\ address # 0 IN
  /\ attached' = IF present THEN address ELSE 0
  /\ attached_now' = present
  /\ held' = IF published THEN ObjectAt(address) ELSE "None"

Publish(address, same_epoch) ==
  IF PublicationAllowed(address) /\ ~AlreadyAttached(address, same_epoch)
  THEN \E published \in Accepts(address) :
         /\ content' = IF published THEN ObjectAt(address) ELSE "None"
         /\ video_attached' = (published /\ address # 0)
         /\ RecordsAttachment(address, published)
  ELSE /\ attached_now' = same_epoch
       /\ UNCHANGED <<attached, held, content, video_attached>>

\* The epoch moves after the publication, and an absent attachment has none.
DetachSwapchain == Publish(0, FALSE)

(* VIDEO_RECONFIG: a new epoch, then the output's swap chain is read; an   *)
(* output without one leaves the attachment alone.                         *)
AcquireReconfigured ==
  IF vo # 0
  THEN Publish(vo, FALSE)
  ELSE /\ attached_now' = FALSE
       /\ UNCHANGED <<attached, held, content, video_attached>>

-----------------------------------------------------------------------------
(* What pump takes from mpv's queue.                                       *)

Received(event) ==
  /\ mpv_events # << >> /\ Head(mpv_events) = event
  /\ mpv_events' = Tail(mpv_events)
  /\ UNCHANGED <<vo, mpv_playing, notified, tree>>

\* The adapter refuses the start of a load retired by a stop, which detached
\* (module PlayerEventAdapter).
PumpStart ==
  /\ Received("Start")
  /\ active' = TRUE \/ ((content = "None" \/ active) /\ active' = active)
  /\ UNCHANGED attachVars

PumpEnd == Received("End") /\ active' = FALSE /\ UNCHANGED attachVars

PumpReconfig ==
  Received("Reconfig") /\ AcquireReconfigured /\ UNCHANGED active

\* A property change carries the value of the moment it is taken.
PumpSwapchainChange ==
  /\ notified # vo /\ notified' = vo
  /\ Publish(vo, attached_now)
  /\ UNCHANGED <<vo, mpv_playing, mpv_events, active, tree>>

Pump == PumpStart \/ PumpEnd \/ PumpReconfig \/ PumpSwapchainChange

\* A stop retires what started of its generation, at least what plays.
StopPlayer ==
  /\ DetachSwapchain
  /\ active' \in {FALSE, active}
  /\ UNCHANGED <<mpvVars, tree>>

\* destroy_backend and initialize_backend, with a new event adapter.
RecreatePlayer ==
  /\ DetachSwapchain
  /\ active' = FALSE
  /\ vo' = 0 /\ mpv_playing' = FALSE /\ mpv_events' = << >> /\ notified' = 0
  /\ UNCHANGED tree

-----------------------------------------------------------------------------
(* mpv, external.  Its output outlives a file, and is replaced at any      *)
(* moment of one; every replacement is followed by a reconfiguration.      *)

Outdated(object) == IF object = "Current" THEN "Stale" ELSE object

Emits(event) ==
  /\ Len(mpv_events) < MaxEvents
  /\ mpv_events' = Append(mpv_events, event)
  /\ UNCHANGED <<notified, active, attached, attached_now, tree,
                 video_attached>>

MpvStarts ==
  /\ ~mpv_playing /\ mpv_playing' = TRUE /\ Emits("Start")
  /\ UNCHANGED <<vo, held, content>>

MpvEnds ==
  /\ mpv_playing /\ mpv_playing' = FALSE /\ Emits("End")
  /\ UNCHANGED <<vo, held, content>>

MpvReplacesOutput ==
  /\ mpv_playing /\ vo' \in Addresses /\ Emits("Reconfig")
  /\ held' = Outdated(held) /\ content' = Outdated(content)
  /\ UNCHANGED mpv_playing

MpvReconfigures ==
  /\ mpv_playing /\ Emits("Reconfig")
  /\ UNCHANGED <<vo, mpv_playing, held, content>>

MpvLosesOutput ==
  /\ vo # 0 /\ vo' = 0 /\ Emits("Reconfig")
  /\ held' = Outdated(held) /\ content' = Outdated(content)
  /\ UNCHANGED mpv_playing

MpvOutput ==
  \/ MpvStarts \/ MpvEnds \/ MpvReplacesOutput \/ MpvReconfigures
  \/ MpvLosesOutput
=============================================================================
