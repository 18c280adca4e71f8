---------------------------- MODULE PlaybackPower ----------------------------
(***************************************************************************)
(* What keeps the machine awake while a channel plays: the policy (core/   *)
(* playback_power.hpp), the two Windows power requests that carry it out   *)
(* (win/power_request.cpp), and the application that evaluates the policy  *)
(* on every turn, on every change of the supervisor's state and when the   *)
(* window is minimized or restored (app/app.cpp 858-910).                  *)
(*                                                                         *)
(* Any call to Windows may fail.  Times are relative: grace_in and         *)
(* retry_in are the time left, 0 once they are over.  Live sources cannot  *)
(* be paused, so the policy's user_paused is FALSE.                        *)
(***************************************************************************)
EXTENDS Integers

CONSTANTS
  RetryInterval,      \* kRetryInterval
  PowerGrace          \* kTerminalFailurePowerGrace

ASSUME TimesAssumption ==
  RetryInterval \in Nat \ {0} /\ PowerGrace \in Nat \ {0}

VARIABLES
  session,            \* the supervisor: Idle, Failed, or any other state
  minimized,          \* window_.minimized()
  grace_in,           \* until failure_power_grace_until_
  requested_mode, settled, handle, system_active, display_active,
  retry_in,           \* until retry_after_
  running             \* between initialize and the end of shutdown

contextVars == <<session, minimized, grace_in, running>>
requestVars == <<requested_mode, settled, handle, system_active,
                 display_active, retry_in>>
powerVars        == <<contextVars, requestVars>>

PowerModes == {"AllowSleep", "SystemRequired", "DisplayAndSystemRequired"}

PowerInit ==
  /\ session = "Idle" /\ minimized = FALSE /\ grace_in = 0 /\ running = TRUE
  /\ requested_mode = "AllowSleep" /\ settled = TRUE /\ handle = FALSE
  /\ system_active = FALSE /\ display_active = FALSE /\ retry_in = 0

-----------------------------------------------------------------------------
\* decide_playback_power_mode.
PowerPolicy(state, is_minimized, grace) ==
  IF state = "Idle" \/ (state = "Failed" /\ grace = 0) THEN "AllowSleep"
  ELSE IF is_minimized THEN "SystemRequired" ELSE "DisplayAndSystemRequired"

WantsSystem(mode)  == mode # "AllowSleep"
WantsDisplay(mode) == mode = "DisplayAndSystemRequired"

\* Mutant: a change of mode waits for the retry as well.
DueWithoutChange(mode) == ~(mode = requested_mode /\ settled) /\ retry_in = 0

\* Mutant: what failed is left alone until the mode changes.
DueOnChange(mode) == mode # requested_mode

\* set_mode asks Windows for another mode at once, for the same one again
\* after the interval.
Due(mode) == mode # requested_mode \/ (~settled /\ retry_in = 0)

\* set_request: no call is made for what is already so.
Succeeds(active, enabled, answer) == enabled = active \/ answer

\* Mutant: the outcome of the last call stands for all.
LastSucceeds(mode, system, display) ==
  IF WantsDisplay(mode) THEN Succeeds(display_active, TRUE, display)
                        ELSE Succeeds(system_active, WantsSystem(mode), system)

\* What Windows answers for each of the two requests.
AllSucceed(mode, system, display) ==
  /\ Succeeds(system_active, WantsSystem(mode), system)
  /\ Succeeds(display_active, WantsDisplay(mode), display)

\* Without the handle neither request is touched.
AskWindows(mode) ==
  /\ requested_mode' = mode
  /\ handle' \in (IF WantsSystem(mode) THEN {TRUE, handle} ELSE {handle})
  /\ IF WantsSystem(mode) /\ ~handle'
     THEN /\ UNCHANGED <<system_active, display_active>>
          /\ settled' = FALSE
     ELSE \E system, display \in BOOLEAN :
            /\ system_active' = IF system THEN WantsSystem(mode) ELSE system_active
            /\ display_active' = IF display THEN WantsDisplay(mode) ELSE display_active
            /\ settled' = AllSucceed(mode, system, display)
  /\ retry_in' = IF settled' THEN 0 ELSE RetryInterval

SetMode(mode) == IF Due(mode) THEN AskWindows(mode) ELSE UNCHANGED requestVars

\* update_playback_power.
UpdatePower == SetMode(PowerPolicy(session', minimized', grace_in'))

-----------------------------------------------------------------------------
\* Mutant: a failure that goes on renews its grace.
GraceRenewed(state) == IF state = "Failed" THEN PowerGrace ELSE 0
GraceAfter(state) ==
  IF state # "Failed" THEN 0
  ELSE IF session = "Failed" THEN grace_in ELSE PowerGrace

\* on_supervisor_state_changed: a transition, perhaps to the same state.
SupervisorChanges ==
  /\ running
  /\ session' \in (IF session = "Idle" THEN {"Idle", "Active"}
                                       ELSE {"Idle", "Active", "Failed"})
  /\ grace_in' = GraceAfter(session')
  /\ UNCHANGED <<minimized, running>>
  /\ UpdatePower

MinimizedChanges ==
  /\ running /\ minimized' = ~minimized
  /\ UNCHANGED <<session, grace_in, running>>
  /\ UpdatePower

PowerTurn == running /\ UNCHANGED contextVars /\ UpdatePower

\* Whatever could not be cleared ends with the handle.
ReleasePower ==
  /\ requested_mode' = "AllowSleep" /\ settled' = TRUE /\ handle' = FALSE
  /\ system_active' = FALSE /\ display_active' = FALSE /\ retry_in' = 0

Shutdown ==
  /\ running /\ running' = FALSE
  /\ UNCHANGED <<session, minimized, grace_in>>
  /\ ReleasePower

Earlier(time) == IF time > 0 THEN time - 1 ELSE 0

PowerTick ==
  /\ grace_in' = Earlier(grace_in) /\ retry_in' = Earlier(retry_in)
  /\ UNCHANGED <<session, minimized, running, requested_mode, settled, handle,
                 system_active, display_active>>

PowerNext == SupervisorChanges \/ MinimizedChanges \/ PowerTurn \/ Shutdown \/ PowerTick

PowerSpec == PowerInit /\ [][PowerNext]_powerVars

\* App::run takes its next turn as long as it runs, and time passes.
PowerFairSpec == PowerSpec /\ WF_powerVars(PowerTurn) /\ WF_powerVars(PowerTick)

-----------------------------------------------------------------------------
(* Properties.                                                             *)

\* Every variable keeps its type, and only a handle holds requests.
PowerTypeOK ==
  /\ session \in {"Idle", "Active", "Failed"}
  /\ {minimized, settled, handle, system_active, display_active, running}
       \subseteq BOOLEAN
  /\ grace_in \in 0 .. PowerGrace /\ retry_in \in 0 .. RetryInterval
  /\ requested_mode \in PowerModes
  /\ system_active \/ display_active => handle

\* A settled request is what Windows holds, and an unsettled one differs: no
\* partial failure, of any sequence of modes, is taken for success.
SettledIsHeld ==
  settled <=> /\ system_active = WantsSystem(requested_mode)
              /\ display_active = WantsDisplay(requested_mode)
              /\ (WantsSystem(requested_mode) => handle)

(* While the application runs the mode last asked for is the policy's,     *)
(* whatever else failed, and what counts as settled is what Windows holds; *)
(* only the end of the grace waits for a turn.                             *)
RequestFollowsPolicy ==
  /\ SettledIsHeld
  /\ running =>
       requested_mode \in {PowerPolicy(session, minimized, grace) :
                             grace \in {grace_in} \cup
                               (IF grace_in = 0 THEN {PowerGrace} ELSE {})}

(* A terminal failure lets the machine sleep when its grace is over, unless *)
(* playback comes back or the application ends; and whatever Windows       *)
(* refused is asked for again.                                             *)
FailureAllowsSleep ==
  /\ session = "Failed" ~>
       session # "Failed" \/ ~running \/ requested_mode = "AllowSleep"
  /\ ~settled /\ retry_in = 0 ~> settled \/ retry_in = RetryInterval

(* Windows keeps the machine awake while something plays, through every    *)
(* partial failure, and no longer than that.                               *)
PowerFollowsPlayback == []RequestFollowsPolicy /\ FailureAllowsSleep
=============================================================================
