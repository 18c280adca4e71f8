---------------------------- MODULE WindowModes ----------------------------
(***************************************************************************)
(* The modes of the window (win/app_window.cpp): fullscreen, the minimal   *)
(* frame and maximized.  Windows asks for the frame (WM_NCCALCSIZE) in the *)
(* middle of the calls that change a mode, and tells a new size (WM_SIZE)  *)
(* in the middle of them too, which draws a frame of the application       *)
(* before the call returns.  What that frame asks of the window is left to *)
(* the end of the next turn (app/app.cpp, apply_pending_window_changes).   *)
(*                                                                         *)
(* Windows is external.  A frame of the application is one step: nothing   *)
(* changes the window inside it, which refuse_during_frame enforces.       *)
(***************************************************************************)
EXTENDS Integers, Sequences

VARIABLES
  window,             \* fullscreen, minimal (minimal_frame_), popup (its
                      \* style), zoomed, measured (its frame), minimized,
                      \* saved (saved_placement_: zoomed)
  minimal_mode,       \* settings_.minimal_mode
  pending,            \* App: the requests to be carried out
  at,                 \* the turn: "Pump", "Draw", "Apply" or "Carry"
  commands,           \* of this turn, still to be carried out
  calls,              \* to Windows, still to be made by the one in progress
  sized,              \* WM_SIZE is being handled
  owed                \* history: maximize requests not yet carried out

modeVars == <<window, minimal_mode, pending, at, commands, calls, sized, owed>>

\* An optional request is the set of what it asks for.
NoRequest == [fullscreen |-> {}, minimal |-> {}, maximize |-> FALSE, minimize |-> FALSE]

\* Mutant: the frame is taken away from a fullscreen window as well.
FrameByMode(w) == [kind |-> IF w.minimal THEN "Custom" ELSE IF w.popup THEN "None" ELSE "System",
                   zoomed |-> w.zoomed]

\* WM_NCCALCSIZE: a custom frame is inset while maximized.
FrameOf(w) ==
  [kind |-> IF w.minimal /\ ~w.fullscreen THEN "Custom"
            ELSE IF w.popup THEN "None" ELSE "System",
   zoomed |-> w.zoomed]

WithFrame(w) == [w EXCEPT !.measured = FrameOf(w)]

ModesInit ==
  /\ minimal_mode \in BOOLEAN
  /\ window = WithFrame([fullscreen |-> FALSE, minimal |-> minimal_mode, popup |-> FALSE,
                        zoomed |-> FALSE, minimized |-> FALSE, saved |-> FALSE,
                        measured |-> 0])
  /\ pending = NoRequest /\ at = "Pump" /\ commands = << >> /\ calls = << >>
  /\ sized = FALSE /\ owed = 0

\* No call to the window is in progress.
WindowIdle == calls = << >> /\ ~sized

-----------------------------------------------------------------------------
(* Commands of AppWindow: what they set and which calls they make.         *)

\* Mutant: without a monitor the flag set first is not put back.
FlagKept(fullscreen, w) ==
  IF fullscreen = w.fullscreen THEN window' = w /\ calls' = << >>
  ELSE IF fullscreen
  THEN \/ /\ window' = [w EXCEPT !.fullscreen = TRUE, !.popup = TRUE, !.saved = w.zoomed,
                                 !.zoomed = FALSE]
          /\ calls' = <<"Cover">>
       \/ window' = [w EXCEPT !.fullscreen = TRUE] /\ calls' = << >>
  ELSE /\ window' = [w EXCEPT !.fullscreen = FALSE, !.popup = FALSE]
       /\ calls' = <<"Place", "Frame">>

\* set_fullscreen.
SetFullscreen(fullscreen, w) ==
  IF fullscreen = w.fullscreen THEN window' = w /\ calls' = << >>
  ELSE IF fullscreen
  THEN \/ /\ window' = [w EXCEPT !.fullscreen = TRUE, !.popup = TRUE, !.saved = w.zoomed,
                                 !.zoomed = FALSE]
          /\ calls' = <<"Cover">>
       \/ window' = [w EXCEPT !.saved = w.zoomed] /\ calls' = << >>    \* no monitor
  ELSE /\ window' = [w EXCEPT !.fullscreen = FALSE, !.popup = FALSE]
       /\ calls' = <<"Place", "Frame">>

\* Mutant: nothing asks for the frame again.
SetMinimalQuietly(minimal, w) == window' = [w EXCEPT !.minimal = minimal] /\ calls' = << >>

\* set_minimal_frame: in fullscreen the frame is asked for at its end.
SetMinimalFrame(minimal, w) ==
  /\ window' = [w EXCEPT !.minimal = minimal]
  /\ calls' = IF minimal = w.minimal \/ w.fullscreen THEN << >> ELSE <<"Frame">>

\* The window after a call to Windows.
After(call, w) ==
  CASE call = "Place"    -> WithFrame([w EXCEPT !.zoomed = w.saved, !.minimized = FALSE])
    [] call = "Zoom"     -> WithFrame([w EXCEPT !.zoomed = ~@, !.minimized = FALSE])
    [] call = "Minimize" -> [w EXCEPT !.minimized = TRUE]
    [] OTHER             -> WithFrame(w)

\* Windows tells the size if it has changed, and the window is not minimized.
WindowCall ==
  /\ calls # << >> /\ ~sized
  /\ window' = After(Head(calls), window) /\ calls' = Tail(calls)
  /\ sized' \in (IF Head(calls) = "Minimize" THEN {FALSE} ELSE BOOLEAN)
  /\ UNCHANGED <<minimal_mode, pending, at, commands, owed>>

-----------------------------------------------------------------------------
(* A frame of the application, in its turn or in a WM_SIZE.                *)

\* What the viewer may ask for in a frame.
Request ==
  \/ UNCHANGED <<pending, minimal_mode, owed>>
  \/ /\ pending' = [pending EXCEPT !.fullscreen = {~window.fullscreen}]
     /\ UNCHANGED <<minimal_mode, owed>>
  \/ /\ minimal_mode' = ~minimal_mode
     /\ pending' = [pending EXCEPT !.minimal = {minimal_mode'}]
     /\ UNCHANGED owed
  \/ /\ ~pending.maximize /\ pending' = [pending EXCEPT !.maximize = TRUE]
     /\ owed' = owed + 1
     /\ UNCHANGED minimal_mode
  \/ pending' = [pending EXCEPT !.minimize = TRUE] /\ UNCHANGED <<minimal_mode, owed>>

DrawTurnFrame ==
  /\ at = "Draw" /\ at' = "Apply"
  /\ Request /\ UNCHANGED <<window, commands, calls, sized>>

PaintInSize ==
  /\ sized /\ sized' = FALSE
  /\ Request /\ UNCHANGED <<window, at, commands, calls>>

-----------------------------------------------------------------------------
(* The turn.                                                               *)

\* Alt+Enter and Esc.
PressKey ==
  /\ at = "Pump" /\ WindowIdle /\ ~window.minimized
  /\ SetFullscreen(~window.fullscreen, window)
  /\ UNCHANGED <<minimal_mode, pending, at, commands, sized, owed>>

\* The system's own ways: the strip's double click, the taskbar.
SystemCommand ==
  /\ at = "Pump" /\ WindowIdle
  /\ \/ ~window.fullscreen /\ calls' = <<"Zoom">> /\ UNCHANGED window
     \/ calls' = << >> /\ window' = [window EXCEPT !.minimized = ~@]
  /\ UNCHANGED <<minimal_mode, pending, at, commands, sized, owed>>

PumpEnds ==
  /\ at = "Pump" /\ WindowIdle /\ at' = "Draw"
  /\ UNCHANGED <<window, minimal_mode, pending, commands, calls, sized, owed>>

WindowCommand(name, value) == [name |-> name, value |-> value]

CommandOf(name, request) ==
  IF request = {} THEN << >> ELSE <<WindowCommand(name, CHOOSE asked \in request : TRUE)>>

\* In the order of apply_pending_window_changes.
RequestsTaken ==
  CommandOf("Fullscreen", pending.fullscreen) \o CommandOf("Minimal", pending.minimal)
  \o (IF pending.maximize THEN <<WindowCommand("Zoom", TRUE)>> ELSE << >>)
  \o (IF pending.minimize THEN <<WindowCommand("Minimize", TRUE)>> ELSE << >>)

\* Mutant: the requests are cleared when they have been carried out.
TakeKept ==
  /\ at = "Apply" /\ at' = "Carry" /\ commands' = RequestsTaken
  /\ UNCHANGED <<window, minimal_mode, pending, calls, sized, owed>>

TakePending ==
  /\ at = "Apply" /\ at' = "Carry"
  /\ commands' = RequestsTaken /\ pending' = NoRequest
  /\ UNCHANGED <<window, minimal_mode, calls, sized, owed>>

CarryOut ==
  /\ at = "Carry" /\ WindowIdle /\ commands # << >>
  /\ commands' = Tail(commands)
  /\ LET command == Head(commands)
     IN  /\ CASE command.name = "Fullscreen" -> SetFullscreen(command.value, window)
              [] command.name = "Minimal" -> SetMinimalFrame(command.value, window)
              [] OTHER -> calls' = <<command.name>> /\ UNCHANGED window
         /\ owed' = IF command.name = "Zoom" THEN owed - 1 ELSE owed
  /\ UNCHANGED <<minimal_mode, pending, at, sized>>

TurnEnds ==
  /\ at = "Carry" /\ WindowIdle /\ commands = << >> /\ at' = "Pump"
  /\ UNCHANGED <<window, minimal_mode, pending, commands, calls, sized, owed>>

ModesNext ==
  \/ WindowCall \/ DrawTurnFrame \/ PaintInSize
  \/ PressKey \/ SystemCommand \/ PumpEnds \/ TakePending \/ CarryOut \/ TurnEnds

ModesSpec == ModesInit /\ [][ModesNext]_modeVars

-----------------------------------------------------------------------------
(* Properties.                                                             *)

ModesTypeOK ==
  /\ at \in {"Pump", "Draw", "Apply", "Carry"} /\ owed \in 0 .. 2
  /\ {window.fullscreen, window.minimal, window.zoomed, window.minimized, sized} \subseteq BOOLEAN

(* Between the calls that change it, the window's frame is the one its     *)
(* modes call for, whichever order they were changed in: a minimal frame   *)
(* never comes back from fullscreen wearing a caption (app_window.cpp 564- *)
(* 568), a change made in fullscreen is made up for, and a monitor that    *)
(* cannot be found leaves no window described as fullscreen.  Every        *)
(* request is carried out once, those of the frames drawn in the middle of *)
(* the calls in the turn after; then the frame is the one of the settings. *)
FrameFollowsModes ==
  /\ WindowIdle => window.measured = FrameOf(window) /\ window.popup = window.fullscreen
  /\ owed = (IF pending.maximize THEN 1 ELSE 0)
            + (IF \E i \in DOMAIN commands : commands[i].name = "Zoom" THEN 1 ELSE 0)
  /\ WindowIdle /\ commands = << >> /\ pending.minimal = {} => window.minimal = minimal_mode
=============================================================================
