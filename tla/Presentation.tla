---------------------------- MODULE Presentation ----------------------------
(***************************************************************************)
(* The presentation surface over the frame loop's turns: the UI layer and  *)
(* its device (win/ui_layer.cpp), the rebuild budget and the frame wait    *)
(* (core/presentation.cpp), and the application that serves them           *)
(* (app/app.cpp 375-494, 2242-2384), with the video swap chain of module   *)
(* Swapchain.  Times are relative: due_in is the time left to due_at_.     *)
(***************************************************************************)
EXTENDS Swapchain

CONSTANTS
  MaxAttempts,        \* PresentationRebuildPolicy.max_attempts
  RetryDelay,         \* PresentationRebuildPolicy.retry_delay
  FrameCeiling,       \* kFrameWaitCeiling
  Sizes               \* sizes the window may have, none of them 0

ASSUME PresentationAssumption ==
  /\ MaxAttempts \in Nat \ {0} /\ RetryDelay \in Nat \ {0}
  /\ FrameCeiling \in Nat \ {0} /\ 0 \notin Sizes /\ Sizes # {}

VARIABLES
  device,             \* the D3D11 device: none, live, or lost
  ui,                 \* how far UiLayer::create came
  render_target,      \* render_target_
  loss,               \* DeviceLossLatch: loss_.lost()
  pending_loss,       \* pending_loss_ has a value
  width,              \* width_ and height_ as one size; 0 after destroy
  window,             \* the window's size
  presentation_ready, \* App::presentation_ready_
  outstanding,        \* PresentationRebuildBudget, as in the code
  exhausted,
  attempts,
  due_in,
  turn,               \* where App::run is
  wait,               \* what is left of the wait for messages
  supervisor_in,      \* time to the supervisor's deadline, -1 when unarmed
  since_failure       \* history: time since a rebuild failed, saturating

surfaceVars == <<device, ui, render_target, width, window, presentation_ready>>
lossVars    == <<loss, pending_loss>>
budgetVars  == <<outstanding, exhausted, attempts, due_in>>
loopVars    == <<turn, wait, supervisor_in>>
presentationVars ==
  <<surfaceVars, lossVars, budgetVars, loopVars, since_failure, swapVars>>

Stages == {"None", "Device", "Chain", "Complete"}

\* initialize refuses to start without a complete surface.
Init ==
  /\ device = "Live" /\ ui = "Complete" /\ render_target = TRUE
  /\ window \in Sizes /\ width = window /\ presentation_ready = TRUE
  /\ loss = FALSE /\ pending_loss = FALSE
  /\ outstanding = FALSE /\ exhausted = FALSE /\ attempts = 0 /\ due_in = 0
  /\ turn = "Messages" /\ wait = 0 /\ supervisor_in = -1
  /\ since_failure = RetryDelay
  /\ SwapInit

-----------------------------------------------------------------------------
(* The device-loss latch and the budget.                                   *)

RaiseLoss == loss' = TRUE /\ pending_loss' = (pending_loss \/ ~loss)

\* Mutant: a second request makes the next attempt due at once.
RequestsAgain(asked) == asked /\ ~exhausted

\* A request that starts an episode.
Requests(asked) == asked /\ ~exhausted /\ ~outstanding

DueAfter(asked) == IF Requests(asked) THEN 0 ELSE due_in

AtCeiling == attempts >= MaxAttempts

Poll(is_outstanding, due) ==
  IF ~is_outstanding THEN "Hold"
  ELSE IF AtCeiling THEN "Exhausted"
  ELSE IF due > 0 THEN "Hold" ELSE "Attempt"

\* Mutant: the ceiling is not looked at.
NextRetryIn == IF outstanding THEN due_in ELSE -1
\* Mutant: what is no longer outstanding is still waited for.
NextDueIn == IF AtCeiling THEN 0 ELSE due_in
NextDecisionIn ==
  IF ~outstanding THEN -1 ELSE IF AtCeiling THEN 0 ELSE due_in

\* presentation_phase() is Ready.
SurfaceReady == presentation_ready /\ render_target /\ ~loss

\* An absent wait is no wait: the present that ends the frame is the throttle.
FrameWait(presentation_in, supervisor) ==
  LET deadlines == {presentation_in, supervisor, FrameCeiling} \ {-1} IN
  IF SurfaceReady THEN 0
  ELSE CHOOSE w \in deadlines : \A d \in deadlines : w <= d

-----------------------------------------------------------------------------
(* Messages: the window procedure.                                         *)

InMessages == turn = "Messages" /\ UNCHANGED <<budgetVars, loopVars, since_failure>>

\* UiLayer::resize.  A lost device fails the call, and so may a live one.
UiResize(size) ==
  IF ui \in {"Chain", "Complete"} /\ size # width
  THEN \E resized \in (IF device = "Live" THEN BOOLEAN ELSE {FALSE}) :
         /\ render_target' = resized
         /\ width' = IF resized THEN size ELSE width
         /\ IF device = "Lost" THEN RaiseLoss ELSE UNCHANGED lossVars
  ELSE UNCHANGED <<render_target, width, lossVars>>

Resize ==
  /\ InMessages
  /\ \E size \in Sizes : window' = size /\ UiResize(size)
  /\ UNCHANGED <<device, ui, presentation_ready, swapVars>>

\* A resume or a display change asks the device.
VerifyDevice ==
  /\ InMessages
  /\ device = "Lost" /\ RaiseLoss
  /\ UNCHANGED <<surfaceVars, swapVars>>

\* end_frame: a present on a lost device reports it.
EndFrame ==
  IF SurfaceReady /\ device = "Lost" THEN RaiseLoss ELSE UNCHANGED lossVars

Paint == InMessages /\ EndFrame /\ UNCHANGED <<surfaceVars, swapVars>>

BeginTurn ==
  /\ turn = "Messages" /\ turn' = "Pump"
  /\ wait' = 0 /\ supervisor_in' = -1
  /\ UNCHANGED <<surfaceVars, lossVars, budgetVars, since_failure, swapVars>>

-----------------------------------------------------------------------------
(* The player's part of the turn.  A supervisor's effect or the viewer may *)
(* stop or recreate the player in either half of it.                       *)

InTurn(part) ==
  /\ turn = part
  /\ UNCHANGED <<surfaceVars, lossVars, budgetVars, loopVars, since_failure>>

PumpPlayer == InTurn("Pump") /\ Pump
Stop     == \E part \in {"Pump", "Draw"} : InTurn(part) /\ StopPlayer
Recreate == \E part \in {"Pump", "Draw"} : InTurn(part) /\ RecreatePlayer

EndPump ==
  /\ turn = "Pump" /\ mpv_events = << >> /\ turn' = "Service"
  /\ UNCHANGED <<surfaceVars, lossVars, budgetVars, wait, supervisor_in,
                 since_failure, swapVars>>

-----------------------------------------------------------------------------
(* service_presentation.                                                   *)

\* Mutant: a missing render target is nobody's business.
AsksForLoss == pending_loss
AsksForRebuild == pending_loss \/ (presentation_ready /\ ~render_target)

Decision ==
  Poll(outstanding \/ Requests(AsksForRebuild), DueAfter(AsksForRebuild))

InService ==
  /\ turn = "Service" /\ turn' = "Draw" /\ UNCHANGED <<wait, supervisor_in>>

Hold ==
  /\ InService /\ Decision = "Hold"
  /\ pending_loss' = FALSE
  /\ outstanding' = (outstanding \/ Requests(AsksForRebuild))
  /\ due_in' = DueAfter(AsksForRebuild)
  /\ UNCHANGED <<exhausted, attempts, loss, surfaceVars, since_failure, swapVars>>

GiveUp ==
  /\ InService /\ Decision = "Exhausted"
  /\ pending_loss' = FALSE /\ outstanding' = FALSE /\ exhausted' = TRUE
  /\ due_in' = DueAfter(AsksForRebuild)
  /\ UNCHANGED <<attempts, loss, surfaceVars, since_failure, swapVars>>

\* Mutant: the latch survives the device it was raised for.
DestroyKeepsLatch == loss' = loss /\ pending_loss' = FALSE
DestroyClearsLoss == loss' = FALSE /\ pending_loss' = FALSE

(* rebuild_presentation: everything is torn down, then built as far as it  *)
(* goes.                                                                   *)
Built(stage, target, new_tree) ==
  [ui |-> stage, target |-> target, tree |-> new_tree]
Rebuilt == Built("Complete", TRUE, "Complete")
RebuildOutcomes ==
  {Built("None", FALSE, "None"), Built("Device", FALSE, "None"),
   Built("Chain", FALSE, "None"), Built("Chain", TRUE, "None"),
   Built("Complete", TRUE, "None"), Built("Complete", TRUE, "Orphan"), Rebuilt}

RebuildTo(outcome) ==
  /\ ui' = outcome.ui /\ render_target' = outcome.target
  /\ tree' = outcome.tree
  /\ device' = IF outcome.ui = "None" THEN "None" ELSE "Live"
  /\ width' = window
  /\ presentation_ready' = (outcome = Rebuilt)
  /\ DestroyClearsLoss
  /\ DetachSwapchain
  /\ UNCHANGED <<window, mpvVars, active>>

Attempt(outcome) ==
  /\ InService /\ Decision = "Attempt" /\ RebuildTo(outcome)
  /\ UNCHANGED exhausted

\* Mutant: a failed attempt ends the episode.
FailureEndsEpisode ==
  \E outcome \in RebuildOutcomes \ {Rebuilt} :
    /\ Attempt(outcome)
    /\ outstanding' = FALSE /\ attempts' = attempts + 1 /\ due_in' = RetryDelay
    /\ since_failure' = 0

RebuildFails ==
  \E outcome \in RebuildOutcomes \ {Rebuilt} :
    /\ Attempt(outcome)
    /\ outstanding' = TRUE /\ attempts' = attempts + 1 /\ due_in' = RetryDelay
    /\ since_failure' = 0

RebuildSucceeds ==
  /\ Attempt(Rebuilt)
  /\ outstanding' = FALSE /\ attempts' = 0 /\ due_in' = RetryDelay
  /\ since_failure' = RetryDelay

Service == Hold \/ GiveUp \/ RebuildFails \/ RebuildSucceeds

-----------------------------------------------------------------------------
(* draw_frame, with the diagnostics panel's button, and the wait for the   *)
(* next turn.                                                              *)

EndTurn ==
  /\ turn = "Draw" /\ turn' = "Messages"
  /\ EndFrame
  /\ \E forced \in (IF presentation_ready THEN BOOLEAN ELSE {FALSE}) :
       /\ outstanding' = (outstanding \/ Requests(forced))
       /\ due_in' = DueAfter(forced)
  /\ UNCHANGED <<exhausted, attempts, surfaceVars, since_failure, swapVars>>
  /\ supervisor_in' \in {-1, 0, FrameCeiling}
  /\ wait' = FrameWait(NextDecisionIn, supervisor_in)'

-----------------------------------------------------------------------------
(* The environment.                                                        *)

Earlier(time) == IF time > 0 THEN time - 1 ELSE time

Tick ==
  /\ due_in' = Earlier(due_in) /\ wait' = Earlier(wait)
  /\ supervisor_in' = Earlier(supervisor_in)
  /\ since_failure' = IF since_failure < RetryDelay THEN since_failure + 1
                                                    ELSE since_failure
  /\ UNCHANGED <<outstanding, exhausted, attempts, turn, surfaceVars, lossVars,
                 swapVars>>

LoseDevice ==
  /\ device = "Live" /\ device' = "Lost"
  /\ UNCHANGED <<ui, render_target, width, window, presentation_ready, lossVars,
                 budgetVars, loopVars, since_failure, swapVars>>

MpvActs ==
  /\ MpvOutput
  /\ UNCHANGED <<surfaceVars, lossVars, budgetVars, loopVars, since_failure>>

Turn == BeginTurn \/ EndPump \/ Service \/ EndTurn

Next ==
  \/ Resize \/ VerifyDevice \/ Paint
  \/ PumpPlayer \/ Stop \/ Recreate
  \/ Turn \/ Tick \/ LoseDevice \/ MpvActs

Spec == Init /\ [][Next]_presentationVars

\* mpv does not replace its output over and over.
MpvSettles == <>[][~MpvActs]_presentationVars

\* App::run drains mpv's queue and takes its next turn, and time passes.
FairSpec ==
  /\ Spec
  /\ WF_presentationVars(Turn \/ PumpPlayer)
  /\ WF_presentationVars(Tick)
  /\ MpvSettles

-----------------------------------------------------------------------------
(* Properties.                                                             *)

\* Every variable keeps its type; attempts never pass the ceiling.
PresentationTypeOK ==
  /\ device \in {"None", "Live", "Lost"} /\ ui \in Stages
  /\ render_target \in BOOLEAN /\ presentation_ready \in BOOLEAN
  /\ width \in Sizes /\ window \in Sizes
  /\ loss \in BOOLEAN /\ pending_loss \in BOOLEAN
  /\ outstanding \in BOOLEAN /\ exhausted \in BOOLEAN
  /\ attempts \in 0..MaxAttempts /\ due_in \in 0..RetryDelay
  /\ turn \in {"Messages", "Pump", "Service", "Draw"}
  /\ wait \in 0..FrameCeiling /\ supervisor_in \in -1..FrameCeiling
  /\ since_failure \in 0..RetryDelay
  /\ vo \in Addresses \cup {0} /\ notified \in Addresses \cup {0}
  /\ mpv_playing \in BOOLEAN /\ active \in BOOLEAN
  /\ Len(mpv_events) <= MaxEvents
  /\ attached \in Addresses \cup {0} /\ attached_now \in BOOLEAN
  /\ held \in Objects /\ content \in Objects /\ tree \in Trees
  /\ video_attached \in BOOLEAN

\* A surface that counts as ready has a raised latch only while someone will
\* still act on it: otherwise end_frame never presents again and nothing ever
\* asks for a rebuild.
LossIsServed == presentation_ready /\ loss => pending_loss \/ outstanding

(* draw_frame draws exactly when presentation_ready_ says so, and then the *)
(* ImGui backend, the tree and, once the turn's rebuild decision is taken, *)
(* a target over buffers of the window's size are there, whatever messages *)
(* and failed attempts came before; and a loss it cannot present over is   *)
(* on its way to a rebuild.                                                *)
ReadyIsDrawable ==
  /\ PresentationTypeOK /\ LossIsServed
  /\ presentation_ready =>
       /\ ui = "Complete" /\ tree = "Complete"
       /\ device # "None" /\ ~exhausted
       /\ turn = "Draw" => render_target /\ width = window

\* What the video visual shows is what the player holds a reference to, and the
\* player, the tree and the application agree on whether there is any.
ContentIsHeld ==
  /\ content = held
  /\ (attached # 0) <=> (content # "None")
  /\ video_attached <=> (content # "None")

(* The visual's content is the one the player holds and all agree on: a    *)
(* refused or cleared content is recorded as attached nowhere.  And once   *)
(* mpv's queue holds no more reconfiguration, a playing entry never has a  *)
(* replaced swap chain on the visual, even when its replacement has the    *)
(* address of the old one; only an output that has none leaves it up.      *)
NoStaleContent ==
  /\ ContentIsHeld
  /\ active /\ content = "Stale" /\ vo # 0 =>
       \E i \in DOMAIN mpv_events : mpv_events[i] = "Reconfig"

(* The surface is what the application takes it for: drawable when it is   *)
(* ready, and with the content the player holds.                           *)
SurfaceIsAsBelieved == ReadyIsDrawable /\ NoStaleContent

\* Until the wait ends, poll would hold.
NoOversleep ==
  turn = "Messages" /\ ~SurfaceReady =>
    \A elapsed \in 0..(wait - 1) :
      Poll(outstanding, IF elapsed < due_in THEN due_in - elapsed ELSE 0) = "Hold"

\* A turn that does not wait has presented, or there is something to serve.
NoSpin ==
  turn = "Draw" /\ turn' = "Messages" /\ wait' = 0 =>
    (SurfaceReady /\ ~loss') \/ Decision' # "Hold" \/ supervisor_in' = 0

(* The frame loop sleeps as long as it may and no longer: past no decision *)
(* of the budget, and it never spins, since a turn after which it does not *)
(* wait has presented, or the next one has a decision or a deadline to     *)
(* serve (next_turn_wait_ms, next_decision_at).                            *)
SleepsJustEnough == [][NoOversleep' /\ NoSpin]_presentationVars

(* After a failed rebuild the next attempt keeps the retry delay, whatever *)
(* losses are reported meanwhile, and none is made once given up.          *)
AttemptsPaced ==
  [][RebuildFails \/ RebuildSucceeds =>
       since_failure = RetryDelay /\ ~exhausted]_presentationVars

(* The loop keeps time: it neither oversleeps nor spins, and a failing     *)
(* rebuild is retried at its pace.                                         *)
LoopKeepsTime == SleepsJustEnough /\ AttemptsPaced

(* A lost device or an unusable surface is replaced by a usable one, or    *)
(* the failure is declared: the loop notices a loss without being told,    *)
(* and never waits for an attempt that is not coming.                      *)
PresentationRecovers ==
  (device = "Lost" \/ ~presentation_ready) ~>
    (presentation_ready /\ device = "Live") \/ exhausted
=============================================================================
