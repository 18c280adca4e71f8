----------------------------- MODULE BufferPhase -----------------------------
(***************************************************************************)
(* The two buffer phases of a load: a small cache while it opens (Zap) and *)
(* a large one once playback is steady (Steady).  Each sets two properties *)
(* of mpv with asynchronous commands whose results come back through the   *)
(* event adapter to the gate (player/buffer_phase_gate.hpp), the load path *)
(* of player/mpv_player.cpp, and its application of a phase (349-391).     *)
(*                                                                         *)
(* mpv is external: it runs the commands in order and answers each once.   *)
(* A turn's pump hands over one result; a result counts by the generation  *)
(* it was asked for, and the load a command belongs to is known only to    *)
(* the history and the properties.                                         *)
(***************************************************************************)
EXTENDS Integers, Sequences, Functions, Subsequences

CONSTANTS
  MaxGeneration,      \* bound: channels played
  MaxLoad,            \* bound: loads of a channel
  Backlog             \* bound: results still to come when a phase is applied

ASSUME BufferBounds ==
  MaxGeneration \in Nat /\ MaxLoad \in Nat \ {0} /\ Backlog \in Nat

VARIABLES
  generation,         \* the latest channel
  target,             \* target_: the load to be played
  backend,            \* mpv_ is not null
  gate,               \* buffer_phase_gate_
  buffer_phase,       \* diagnostics_.buffer_phase
  command_state,      \* diagnostics_.buffer_phase_command_state
  journal,            \* results in events_
  sent,               \* mpv: commands it has not run
  answers,            \* mpv: results the player has not pumped
  value,              \* mpv: the phase each of its properties is set for
  refused,            \* history: a command of target was refused
  lost,               \* history: results of target were given up
  foreign             \* history: the gate took another load's result

playerVars  == <<generation, target, backend, gate, buffer_phase,
                 command_state, journal>>
mpvVars     == <<sent, answers, value>>
bufferHistory == <<refused, lost, foreign>>
bufferVars        == <<playerVars, mpvVars, bufferHistory>>

Phases     == {"Zap", "Steady"}
Properties == {"CacheSeconds", "ReadaheadSeconds"}
States     == {"Unissued", "Pending", "Applied", "Failed"}

Load(g, l) == [generation |-> g, load |-> l]
NoTarget   == Load(0, 0)
Playing    == target # NoTarget

\* An accepted or a refused result; "None" while there is none.
Results == {"None", "Accepted", "Refused"}

-----------------------------------------------------------------------------
(* The gate.                                                               *)

FreshRecord == [state |-> "Unissued", result |-> [p \in Properties |-> "None"]]
Retired     == [generation |-> 0, record |-> [p \in Phases |-> FreshRecord]]

\* Mutant: a reload of the channel keeps what was applied to it.
BeginLoadOfGeneration(was, g) ==
  IF was.generation = g THEN was ELSE [Retired EXCEPT !.generation = g]

\* Without a load the generation is 0, which no load has.
BeginLoad(was, g) == [Retired EXCEPT !.generation = g]

\* Mutant: a stop leaves the gate to the stopped channel.
RetireNothing(was, g) == was

Retire(was, g) == IF was.generation = g THEN Retired ELSE was

MayBegin(was, g, phase) ==
  was.generation = g /\ was.record[phase].state = "Unissued"

Begin(was, phase) == [was EXCEPT !.record[phase].state = "Pending"]

\* A result counts once, for a phase that waits for it.
Awaits(was, command) ==
  /\ was.generation = command.load.generation
  /\ was.record[command.phase].state = "Pending"
  /\ was.record[command.phase].result[command.property] = "None"

SettledState(results) ==
  IF \E p \in Properties : results[p] = "Refused" THEN "Failed"
  ELSE IF \A p \in Properties : results[p] = "Accepted" THEN "Applied"
  ELSE "Pending"

Settle(was, command) ==
  LET record  == was.record[command.phase]
      results == [record.result EXCEPT ![command.property] = command.result]
  IN  IF ~Awaits(was, command) THEN was
      ELSE [was EXCEPT !.record[command.phase] =
              [state |-> SettledState(results), result |-> results]]

-----------------------------------------------------------------------------
(* Commands and their correlation.                                         *)

\* tracked: property_requests_ still has the request.
Command(load, phase, property) ==
  [load |-> load, phase |-> phase, property |-> property,
   tracked |-> TRUE, result |-> "None"]

Answered(command, result) == [command EXCEPT !.result = result]

\* The commands for some of the properties, in the order they are issued.
CommandsFor(load, phase, properties) ==
  LET Asked(p) == IF p \in properties THEN <<Command(load, phase, p)>> ELSE << >>
  IN  Asked("CacheSeconds") \o Asked("ReadaheadSeconds")

\* retire_generation and clear_correlations forget requests.
Forget(commands, load_generations) ==
  [i \in DOMAIN commands |->
     IF commands[i].load.generation \in load_generations
     THEN [commands[i] EXCEPT !.tracked = FALSE] ELSE commands[i]]

BufferInit ==
  /\ generation = 0 /\ target = NoTarget /\ backend = TRUE /\ gate = Retired
  /\ buffer_phase = "Zap" /\ command_state = "Unissued" /\ journal = << >>
  /\ sent = << >> /\ answers = << >>
  /\ value = [p \in Properties |-> "Default"]
  /\ refused = FALSE /\ lost = FALSE /\ foreign = FALSE

\* Mutant: what mpv refuses on the spot has no result.
RefusalsUnjournaled(was_journal, refusals) == was_journal

\* command_rejected_immediately.
JournalRefusals(was_journal, refusals) ==
  was_journal \o [i \in DOMAIN refusals |-> Answered(refusals[i], "Refused")]

(* issue_buffer_property, once per property: mpv takes the command or      *)
(* refuses it on the spot, and the refusal is journaled.                   *)
Issue(load, phase, was_sent, was_journal) ==
  \E taken \in SUBSET Properties :
    /\ sent' = was_sent \o CommandsFor(load, phase, taken)
    /\ journal' = JournalRefusals(was_journal, CommandsFor(load, phase, Properties \ taken))
    /\ refused' = (taken # Properties \/ (load = target /\ refused))

(* apply_buffer_phase on the gate of the load, once per load and phase.    *)
ApplyPhase(was, load, phase, was_sent, was_journal) ==
  IF MayBegin(was, load.generation, phase)
  THEN /\ gate' = Begin(was, phase)
       /\ buffer_phase' = phase /\ command_state' = "Pending"
       /\ Issue(load, phase, was_sent, was_journal)
  ELSE /\ gate' = was /\ sent' = was_sent /\ journal' = was_journal
       /\ UNCHANGED <<buffer_phase, command_state, refused>>

\* play, reopen_current and recreate_player: Zap is applied to a new load.
StartLoad(load, was_sent, was_journal) ==
  /\ target' = load /\ lost' = FALSE /\ foreign' = FALSE
  /\ ApplyPhase(BeginLoad(gate, load.generation), load, "Zap", was_sent,
                was_journal)

HasRoom == Len(sent) + Len(answers) + Len(journal) <= Backlog

PlayChannel ==
  /\ generation < MaxGeneration /\ HasRoom /\ generation' = generation + 1
  /\ IF backend
     THEN StartLoad(Load(generation + 1, 1), sent, journal)
     ELSE UNCHANGED <<target, gate, buffer_phase, command_state, journal,
                      sent, bufferHistory>>
  /\ UNCHANGED <<backend, answers, value>>

\* A recovery is executed in a turn that has handed the journal over.
Reloads ==
  /\ Playing /\ target.generation = generation /\ target.load < MaxLoad
  /\ journal = << >>

Reopen ==
  /\ Reloads /\ backend /\ HasRoom
  /\ StartLoad(Load(generation, target.load + 1), sent, journal)
  /\ UNCHANGED <<generation, backend, answers, value>>

\* destroy_backend, a fresh adapter, and initialize_backend, which may fail.
Recreate ==
  /\ Reloads /\ backend' \in BOOLEAN
  /\ IF backend' THEN StartLoad(Load(generation, target.load + 1), << >>, << >>)
     ELSE /\ sent' = << >> /\ journal' = << >> /\ lost' = TRUE
          /\ UNCHANGED <<target, gate, buffer_phase, command_state, refused,
                         foreign>>
  /\ answers' = << >> /\ value' = [p \in Properties |-> "Default"]
  /\ UNCHANGED generation

StopChannel ==
  /\ Playing /\ target.generation = generation
  /\ target' = NoTarget
  /\ gate' = Retire(gate, generation)
  /\ buffer_phase' = "Zap" /\ command_state' = "Unissued"
  /\ sent' = Forget(sent, {generation})
  /\ answers' = Forget(answers, {generation})
  /\ journal' = MembersAt(journal, {i \in DOMAIN journal : journal[i].load.generation # generation})
  /\ UNCHANGED <<generation, backend, value, bufferHistory>>

\* Each time the session finds playback steady.
ApplySteady ==
  /\ Playing /\ target.generation = generation /\ backend
  /\ MayBegin(gate, generation, "Steady") /\ HasRoom
  /\ ApplyPhase(gate, target, "Steady", sent, journal)
  /\ UNCHANGED <<generation, target, backend, answers, value, lost, foreign>>

\* backend_failed, on a shutdown or an overflow of mpv's queue.
FailBackend ==
  /\ backend /\ ~lost
  /\ sent' = Forget(sent, 1 .. MaxGeneration)
  /\ answers' = Forget(answers, 1 .. MaxGeneration)
  /\ lost' = TRUE
  /\ UNCHANGED <<playerVars, value, refused, foreign>>

-----------------------------------------------------------------------------
(* A turn: the reply is pumped, and what is journaled is handed over.      *)

\* observe_buffer_command_result, for every result in turn.
ObserveResult(was, command) ==
  LET awaited == Awaits(was.gate, command)
      now     == Settle(was.gate, command)
      state   == now.record[command.phase].state
  IN  [gate |-> now,
       state |-> IF awaited /\ state # "Pending" THEN state ELSE was.state,
       foreign |-> was.foreign \/ (awaited /\ command.load # target)]

\* What is so after each of the results.
Observations(results) ==
  LET seen[n \in 0 .. Len(results)] ==
        IF n = 0 THEN [gate |-> gate, state |-> command_state, foreign |-> foreign]
        ELSE ObserveResult(seen[n - 1], results[n])
  IN  seen

HandOver(results) ==
  LET observed == Observations(results)[Len(results)]
  IN  /\ gate' = observed.gate
      /\ command_state' = observed.state
      /\ foreign' = observed.foreign
      /\ journal' = << >>

BufferTurn ==
  /\ \/ /\ answers # << >> /\ answers' = Tail(answers)
        /\ HandOver(journal \o
             IF Head(answers).tracked THEN <<Head(answers)>> ELSE << >>)
     \/ /\ journal # << >> /\ answers' = answers
        /\ HandOver(journal)
  /\ UNCHANGED <<generation, target, backend, buffer_phase, sent, value, refused,
                 lost>>

MpvRuns ==
  /\ backend /\ sent # << >> /\ sent' = Tail(sent)
  /\ \E result \in Results \ {"None"} :
       /\ answers' = Append(answers, Answered(Head(sent), result))
       /\ value' = IF result = "Accepted"
                   THEN [value EXCEPT ![Head(sent).property] = Head(sent).phase]
                   ELSE value
       /\ refused' = (refused \/ (result = "Refused" /\ Head(sent).load = target))
  /\ UNCHANGED <<playerVars, lost, foreign>>

BufferNext ==
  \/ PlayChannel \/ Reopen \/ Recreate \/ StopChannel \/ ApplySteady
  \/ FailBackend \/ BufferTurn \/ MpvRuns

BufferSpec == BufferInit /\ [][BufferNext]_bufferVars

-----------------------------------------------------------------------------
(* Properties.                                                             *)

Commands ==
  [load : [generation : 1 .. MaxGeneration, load : 1 .. MaxLoad],
   phase : Phases, property : Properties, tracked : BOOLEAN, result : Results]

\* Every variable keeps its type, and the gate is the target's.
BufferTypeOK ==
  /\ gate.generation = target.generation
  /\ generation \in 0 .. MaxGeneration
  /\ target \in [generation : 0 .. MaxGeneration, load : 0 .. MaxLoad]
  /\ {backend, refused, lost} \subseteq BOOLEAN
  /\ gate.record \in [Phases -> [state : States, result : [Properties -> Results]]]
  /\ buffer_phase \in Phases /\ command_state \in States
  /\ UNION {Range(journal), Range(sent), Range(answers)} \subseteq Commands
  /\ value \in [Properties -> Phases \cup {"Default"}]

Own(commands) == {c \in Range(commands) : c.load = target}

\* Once mpv has run every command of the load and refused none.
LatestPhaseWins ==
  Playing /\ backend /\ Own(sent) = {} /\ ~refused =>
    \A p \in Properties : value[p] = buffer_phase

\* Unless the backend failed.
NothingPendingForever ==
  Playing /\ ~lost =>
    \A phase \in {p \in Phases : gate.record[p].state = "Pending"} :
      LET awaited == {p \in Properties : gate.record[phase].result[p] = "None"}
          coming  == UNION {Own(sent), Own(answers), Range(journal)}
      IN  /\ awaited # {}
          /\ \A property \in awaited : \E c \in coming :
               c.phase = phase /\ c.property = property /\ c.tracked

(* The cache settles in the phase the load is in.  Once mpv has run every  *)
(* command of the load and refused none, both of its properties are set    *)
(* for that phase, whatever the load before it had reached and however     *)
(* late its commands ran; and a phase waits only for results that are      *)
(* still on their way: no order of stops, reloads and late results leaves  *)
(* it pending for ever.                                                    *)
PhaseSettles == LatestPhaseWins /\ NothingPendingForever

(* The fence is per load: what settles a phase is the results of the       *)
(* load's own commands.                                                    *)
SettledByOwnResults == ~foreign
=============================================================================
