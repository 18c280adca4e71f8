-------------------------- MODULE SuperResolution --------------------------
(***************************************************************************)
(* Super resolution: a video filter whose scale the application computes   *)
(* from the heights of the window and of the video (app/app.cpp,           *)
(* apply_vsr) and the player hands to libmpv (player/mpv_player.cpp,       *)
(* set_vsr).  The height of the video arrives some time after a load, and  *)
(* every change of the filter makes libmpv reconfigure the video, during   *)
(* which it may tell a height of zero.                                     *)
(*                                                                         *)
(* One height stands for both dimensions; a scale is the whole quotient of *)
(* two heights.  libmpv is external: it may refuse any filter, and keeps   *)
(* the one it runs then; the filter outlives the file, not the backend; a  *)
(* height is told when it differs from the one told last, after the events *)
(* that are waiting.  A turn handles one event.                            *)
(***************************************************************************)
EXTENDS Integers, Sequences

CONSTANTS
  VideoHeights,       \* heights of the channels
  WindowHeights,      \* heights of the window
  MaxScale,           \* 4
  MaxChosen           \* bound: channels chosen, profiles changed

ASSUME HeightsAssumption ==
  /\ VideoHeights \subseteq Nat \ {0} /\ WindowHeights \subseteq Nat \ {0}
  /\ VideoHeights # {} /\ WindowHeights # {} /\ MaxScale \in Nat /\ MaxChosen \in Nat

VARIABLES
  vsr,                \* App: wanted, window, seen (last_video_height_);
                      \* MpvPlayer: asked, applied; attached and height
                      \* (diagnostics_)
  current,            \* MpvPlayer: the generation to play (0: none), the one
                      \* of the entry that started last
  renderer,           \* libmpv: filter, whether it refused the last one it
                      \* was given, source, height, told, loading, mail
  filters_set         \* history: filters set since something called for one

srVars == <<vsr, current, renderer, filters_set>>

NoFilter    == 0           \* no filter; else the filter's scale
NoSource == [generation |-> 0, height |-> 0]

FreshRenderer ==
  [filter |-> NoFilter, refused |-> FALSE, source |-> 0, height |-> 0, told |-> 0,
   loading |-> NoSource,          \* the file accepted or started, not loaded
   begun |-> FALSE,             \* it has started
   mail |-> << >>]

SrInit ==
  /\ vsr \in [wanted : {TRUE}, window : WindowHeights, seen : {0}, asked : {NoFilter},
              applied : {NoFilter}, attached : {FALSE}, height : {0}]
  /\ current = [target |-> 0, active |-> 0]
  /\ renderer = FreshRenderer /\ filters_set = 0

-----------------------------------------------------------------------------
\* What apply_vsr asks for; `scale > 1.05' is a quotient of at least 2.
ScaleFor(wanted, window, height) ==
  LET scale == IF height > 0 THEN window \div height ELSE 1
  IN  IF ~wanted \/ scale < 2 THEN NoFilter
      ELSE IF scale > MaxScale THEN MaxScale ELSE scale

\* Mutant: a filter counts as attached because it was asked for.
AttachedAsAsked(scale, accepted) == scale # NoFilter

\* vsr_filter_attached: what the player says of the filter.
Attached(scale, accepted) == scale # NoFilter /\ accepted

\* libmpv's side: it takes the filter, and has the video of a file that plays
\* reconfigured, or refuses it and runs what it ran before.
GivenFilter(r, scale, accepted) ==
  IF ~accepted THEN {[r EXCEPT !.refused = TRUE]}
  ELSE {[r EXCEPT !.filter = scale, !.refused = FALSE, !.height = height] :
          height \in IF r.source > 0 THEN {0, r.height} ELSE {r.height}}

\* set_vsr: the application's side, libmpv's and the number of filters set
\* by now.  The filter is remembered as applied whatever libmpv answers.
SetVsr(v, r, n, scale) ==
  IF scale = v.applied
  THEN vsr' = [v EXCEPT !.asked = scale] /\ renderer' = r /\ filters_set' = n
  ELSE /\ filters_set' = n + 1
       /\ \E accepted \in BOOLEAN :
            /\ vsr' = [v EXCEPT !.asked = scale, !.applied = scale,
                               !.attached = Attached(scale, accepted)]
            /\ renderer' \in GivenFilter(r, scale, accepted)

ApplyVsr(v, r, n) == SetVsr(v, r, n, ScaleFor(v.wanted, v.window, v.height))

-----------------------------------------------------------------------------
(* The user and the supervisor.                                            *)

\* play: the file is to be played next, in the place of any other.
ChooseVideo ==
  /\ current.target < MaxChosen
  /\ current' = [current EXCEPT !.target = @ + 1]
  /\ \E h \in VideoHeights :
       ApplyVsr([vsr EXCEPT !.height = 0],
                [renderer EXCEPT !.loading = [generation |-> current.target + 1, height |-> h],
                                 !.begun = FALSE],
                0)

\* reopen_current does not ask for the filter.
ReopenVideo ==
  /\ current.target > 0 /\ renderer.loading = NoSource /\ renderer.source > 0
  /\ vsr' = [vsr EXCEPT !.height = 0]
  /\ renderer' = [renderer EXCEPT
       !.loading = [generation |-> current.target, height |-> renderer.source],
       !.begun = FALSE]
  /\ filters_set' = 0
  /\ UNCHANGED current

\* recreate_player, then restore_backend_settings.
RecreateRenderer ==
  /\ current.target > 0 /\ renderer.loading = NoSource /\ renderer.source > 0
  /\ current' = [current EXCEPT !.active = 0]
  /\ ApplyVsr([vsr EXCEPT !.height = 0],
              [FreshRenderer EXCEPT
                 !.loading = [generation |-> current.target, height |-> renderer.source]],
              0)

ResizeVideo ==
  /\ \E h \in WindowHeights \ {vsr.window} :
       ApplyVsr([vsr EXCEPT !.window = h], renderer, 0)
  /\ UNCHANGED current

ToggleVsr ==
  /\ ApplyVsr([vsr EXCEPT !.wanted = ~@], renderer, 0)
  /\ UNCHANGED current

-----------------------------------------------------------------------------
(* The UI thread's turn.                                                   *)

\* Mutant: zero dimensions are compared as well.
AnyDimensionsChanged(v) == v.height # v.seen

DimensionsChanged(v) == v.height > 0 /\ v.height # v.seen

\* The comparison at the end of every turn of App::run.
ThenCompare(v, r) ==
  IF DimensionsChanged(v)
  THEN ApplyVsr([v EXCEPT !.seen = v.height], r, filters_set)
  ELSE vsr' = v /\ renderer' = r /\ UNCHANGED filters_set

HeadIs(kind) == renderer.mail # << >> /\ Head(renderer.mail).kind = kind

Unqueued == [renderer EXCEPT !.mail = Tail(@)]

PumpFileStart ==
  /\ HeadIs("Start")
  /\ current' = [current EXCEPT !.active = Head(renderer.mail).generation]
  /\ ThenCompare([vsr EXCEPT !.applied = NoFilter], Unqueued)

PumpFileLoaded ==
  /\ HeadIs("Loaded")
  /\ IF current.active = current.target /\ vsr.asked # NoFilter
     THEN SetVsr(vsr, Unqueued, filters_set, vsr.asked)
     ELSE ThenCompare(vsr, Unqueued)
  /\ UNCHANGED current

PumpHeight ==
  /\ renderer.mail = << >> /\ renderer.told # renderer.height
  /\ ThenCompare([vsr EXCEPT !.height = renderer.height],
                 [renderer EXCEPT !.told = renderer.height])
  /\ UNCHANGED current

-----------------------------------------------------------------------------
(* libmpv.                                                                 *)

RendererCore == UNCHANGED <<vsr, current, filters_set>>

FileEvent(kind, generation) == [kind |-> kind, generation |-> generation]

\* Bound: the events of the last file have been pumped.
FileStarts ==
  /\ RendererCore
  /\ renderer.loading # NoSource /\ ~renderer.begun /\ renderer.mail = << >>
  /\ renderer' = [renderer EXCEPT
       !.begun = TRUE, !.source = 0, !.height = 0,
       !.mail = Append(@, FileEvent("Start", renderer.loading.generation))]

FileLoads ==
  /\ RendererCore
  /\ renderer.loading # NoSource /\ renderer.begun
  /\ renderer' = [renderer EXCEPT
       !.loading = NoSource, !.begun = FALSE, !.source = renderer.loading.height,
       !.mail = Append(@, FileEvent("Loaded", renderer.loading.generation))]

VideoConfigured ==
  /\ RendererCore
  /\ renderer.height # renderer.source
  /\ renderer' = [renderer EXCEPT !.height = renderer.source]

\* The provider switches the encoder's profile in mid-stream.
ProfileChanges ==
  /\ renderer.loading = NoSource /\ renderer.source > 0
  /\ \E h \in VideoHeights \ {renderer.source} :
       renderer' = [renderer EXCEPT !.source = h, !.height = h]
  /\ filters_set' = 0
  /\ UNCHANGED <<vsr, current>>

SrNext ==
  \/ ChooseVideo \/ ReopenVideo \/ RecreateRenderer \/ ResizeVideo \/ ToggleVsr
  \/ PumpFileStart \/ PumpFileLoaded \/ PumpHeight
  \/ FileStarts \/ FileLoads \/ VideoConfigured \/ ProfileChanges

SrSpec == SrInit /\ [][SrNext]_srVars

-----------------------------------------------------------------------------
(* Properties.                                                             *)

\* A filter is remembered as applied only while it is asked for, and a height
\* is that of the video, or of a reconfiguration.
SrTypeOK ==
  /\ {vsr.wanted, vsr.attached, renderer.refused} \subseteq BOOLEAN
  /\ vsr.asked \in Nat /\ vsr.applied \in {NoFilter, vsr.asked}
  /\ vsr.height \in {0, vsr.seen} /\ renderer.height \in {0, renderer.source}
  /\ renderer.begun => renderer.loading # NoSource /\ renderer.source = 0

\* The file chosen last plays, everything about it has been pumped, and libmpv
\* took the filter it was given last.
VideoSettled ==
  /\ ~renderer.refused
  /\ renderer.mail = << >> /\ renderer.loading = NoSource
  /\ vsr.height = renderer.height /\ renderer.height = renderer.source
  /\ renderer.source > 0

(* Whatever sets the filter causes a few further settings and then rest:   *)
(* reacting to the zero dimensions of a reconfiguration would be a loop    *)
(* that never lets the cache refill (app.cpp 2343-2347).  And a filter     *)
(* that was asked for is the one libmpv runs, whichever loads, ends of     *)
(* backends and profiles came in between, unless libmpv refused it when it *)
(* was given last (mpv_player.cpp 409-412): nothing gives it again before  *)
(* another is asked for or the next file starts, and until then the player *)
(* says that it is not attached, which it says of no filter libmpv took.   *)
FilterComesToRest ==
  /\ filters_set <= 4
  /\ vsr.asked # NoFilter =>
       IF renderer.refused THEN ~vsr.attached
       ELSE vsr.attached /\ renderer.filter = vsr.asked

(* Once the dimensions of a video have arrived, the scale that was asked   *)
(* for is the one they call for (app.hpp 259-260: the scale factor has to  *)
(* be recomputed when they arrive).                                        *)
ScaleIsRecomputed ==
  VideoSettled => vsr.asked = ScaleFor(vsr.wanted, vsr.window, vsr.height)
=============================================================================
