--------------------------- MODULE SupervisorHost ---------------------------
(***************************************************************************)
(* The host of the supervisor (core/supervisor_host.cpp): dispatch may be  *)
(* called by anybody, the callbacks it is running included, and drains two *)
(* queues in the outermost call only.  A callback may also dispose of the  *)
(* host, or throw, which leaves the queues to the next call.               *)
(*                                                                         *)
(* Everything runs on one thread: `frames' is its stack of dispatch loops  *)
(* and what each has called.  What an event means is module Supervisor's   *)
(* matter: here it has some effects, and may be a transition.              *)
(***************************************************************************)
EXTENDS Integers, Sequences, SequencesExt

CONSTANTS LastEvent, EffectCounts    \* as in EventLoop

ASSUME HostAssumption == LastEvent \in Nat /\ EffectCounts \subseteq Nat

VARIABLES
  dispatched,               \* events dispatched so far, disposed hosts left out
  pending_events, pending_effects,
  frames,             \* of each loop: what it runs (at), for which event
  dispatching, disposed,
  due, armed,         \* the deadline of state_, armed_deadline_: named by
                      \* the event that brought it (0: none)
  thrown              \* history: a callback has thrown, nothing drained since

hostQueues == <<pending_events, pending_effects>>
hostVars   == <<dispatched, hostQueues, frames, dispatching, disposed, due, armed, thrown>>

HostInit ==
  /\ dispatched = 0 /\ pending_events = << >> /\ pending_effects = << >>
  /\ frames = << >> /\ dispatching = FALSE /\ disposed = FALSE
  /\ due = 0 /\ armed = 0 /\ thrown = FALSE

Looping == [at |-> "Loop", event |-> 0]

Running(at, event) ==
  frames' = ReplaceAt(frames, Len(frames), [at |-> at, event |-> event])

InLoop == frames # << >> /\ Last(frames) = Looping

\* The caller's code runs: outside of dispatch, or in a callback.
CallerRuns == frames # << >> => Last(frames).at \in {"Transition", "Changed", "Effect"}

-----------------------------------------------------------------------------
\* Mutant: a callback's call drains the queues as well.
DrainsAgain == frames' = Append(frames, Looping) /\ dispatching' = TRUE

\* Only the outermost call drains.
DrainsOutermost ==
  IF dispatching THEN UNCHANGED <<frames, dispatching>>
  ELSE frames' = Append(frames, Looping) /\ dispatching' = TRUE

\* dispatch, and poll once the deadline is reached.
DispatchEvent ==
  /\ CallerRuns /\ ~disposed /\ dispatched < LastEvent
  /\ dispatched' = dispatched + 1 /\ pending_events' = Append(pending_events, dispatched')
  /\ DrainsOutermost
  /\ UNCHANGED <<pending_effects, disposed, due, armed, thrown>>

\* Mutant: the deadline is armed when the callbacks have returned.
RearmLate == UNCHANGED armed

Rearm == armed' = due'

\* apply, up to its callbacks; without a transition there are none.
ApplyEvent ==
  /\ InLoop /\ ~disposed /\ pending_events # << >>
  /\ LET event == Head(pending_events)
     IN  /\ due' \in {0, event} /\ Rearm
         /\ \E n \in EffectCounts :
              pending_effects' = pending_effects \o [i \in 1 .. n |-> event]
         /\ \E at \in {"Transition", "Silent"} : Running(at, event)
  /\ pending_events' = Tail(pending_events)
  /\ UNCHANGED <<dispatched, dispatching, disposed, thrown>>

\* Mutant: an effect does not wait for the events.
NoEventDue == TRUE

NoEventWaits == pending_events = << >>

PerformEffect ==
  /\ InLoop /\ ~disposed /\ NoEventWaits /\ pending_effects # << >>
  /\ Running("Effect", Head(pending_effects))
  /\ pending_effects' = Tail(pending_effects)
  /\ UNCHANGED <<dispatched, pending_events, dispatching, disposed, due, armed, thrown>>

CallbackReturns ==
  /\ frames # << >> /\ ~InLoop
  /\ LET frame == Last(frames)
     IN  IF frame.at = "Transition" THEN Running("Changed", frame.event)
         ELSE Running("Loop", 0)
  /\ UNCHANGED <<dispatched, hostQueues, dispatching, disposed, due, armed, thrown>>

\* The exception leaves dispatch through its catch.
CallbackThrows ==
  /\ frames # << >> /\ CallerRuns
  /\ frames' = << >> /\ dispatching' = FALSE /\ thrown' = TRUE
  /\ UNCHANGED <<dispatched, hostQueues, disposed, due, armed>>

LoopEnds ==
  /\ InLoop /\ (disposed \/ (pending_events = << >> /\ pending_effects = << >>))
  /\ frames' = Front(frames) /\ dispatching' = FALSE /\ thrown' = FALSE
  /\ UNCHANGED <<dispatched, hostQueues, disposed, due, armed>>

\* Mutant: what waits is left to the loop.
DisposeFlagOnly ==
  /\ CallerRuns /\ ~disposed /\ disposed' = TRUE
  /\ UNCHANGED <<dispatched, hostQueues, frames, dispatching, due, armed, thrown>>

DisposeHost ==
  /\ CallerRuns /\ ~disposed
  /\ disposed' = TRUE /\ armed' = 0
  /\ pending_events' = << >> /\ pending_effects' = << >>
  /\ UNCHANGED <<dispatched, frames, dispatching, due, thrown>>

HostNext ==
  \/ DispatchEvent \/ ApplyEvent \/ PerformEffect \/ CallbackReturns
  \/ CallbackThrows \/ LoopEnds \/ DisposeHost

HostSpec == HostInit /\ [][HostNext]_hostVars

-----------------------------------------------------------------------------
(* Properties.                                                             *)

\* The host drains what it was given: when no call is in progress and none
\* was cut short by an exception, nothing waits; the flag says whether one
\* is; the deadline is that of the present state, in the callbacks too.
HostTypeOK ==
  /\ dispatching = (frames # << >>)
  /\ frames = << >> /\ ~thrown => pending_events = << >> /\ pending_effects = << >>
  /\ ~disposed => armed = due
  /\ disposed => armed = 0 /\ pending_events = << >> /\ pending_effects = << >>

(* Callbacks that dispatch, dispose or throw, at any depth, never make two *)
(* things run at once, an effect overtake an event, or anything be carried *)
(* out twice or in another order (supervisor_host.cpp 54-55: a synchronous *)
(* settlement cannot re-enter).                                            *)
Carried ==
  IF frames = << >> \/ Head(frames) = Looping THEN [kind |-> "Nothing", event |-> 0]
  ELSE [kind |-> IF Head(frames).at = "Effect" THEN "Effect" ELSE "Event",
        event |-> Head(frames).event]

Serial == INSTANCE EventLoop
  WITH posted <- dispatched, inbox <- pending_events, work <- pending_effects, busy <- Carried

ImplementsEventLoop == Serial!LoopSpec
=============================================================================
