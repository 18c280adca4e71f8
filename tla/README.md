# Coax: a TLA+ verification project

Coax is a Windows player for live television: a UI thread drives libmpv through
its client API and shows its video through a DirectComposition swap chain. Live
sources stall, end, change format and lose their device at any time; what makes
Coax a good player is that it recovers by itself, soon, a bounded number of
times, and never on behalf of a channel the viewer has left. That recovery, from
libmpv's events up to the commands it leads to, is the core of this project; what
surrounds it (presentation, window, power, sign-in, catalogue, settings, files,
logs) follows.

`PROJECT.json` lists the components, runs, hazards, findings and theorems, and
under "map" the lines every definition stands for. Paths below are relative to
the repository's `src` directory.

## The system

| part | state it keeps | operations | talks to |
|---|---|---|---|
| recovery supervisor, `core/supervisor.cpp` | `SupervisorState`: phase, attempt, two deadlines, plan, load and pending load identities, episode start, late-completion flags | pure `reduce(state, event, now)` for 17 events | effects to the host |
| supervisor host, `core/supervisor_host.cpp` | event and effect queues, the armed deadline | `dispatch`, `poll`, `dispose` | runs the reducer, calls back into the session |
| playback session, `player/playback_session.cpp` | generation, health fold, pending stream ends, once-per-load report latches | `begin_channel`, `load_started`, `stop`, `service_turn`, `execute_recovery`, `presentation_lost` | adapter events in, supervisor events out, player commands through callbacks |
| player event adapter, `player/player_event_adapter.cpp` | request, playlist-entry and stop-intent correlations, the journal | `track_load`, `command_result`, `start_file`, `playback_restart`, `end_file`, `retire_generation`, `drain` | libmpv events in, session events out |
| mpv player, `player/mpv_player.cpp` | the target (generation, load), swap-chain attachment and epoch, diagnostics | `play`, `stop`, `reopen_current`, `recreate_player`, `pump`, `publish_swapchain` | libmpv |
| buffer phase gate, `player/buffer_phase_gate.hpp` | one record per phase of the current load | `begin_load`, `begin`, `settle`, `retire` | the mpv player |
| playback health, `core/playback_health.cpp` | sample history of the current load | `fold_playback_health` | the session, every 500 ms |
| timeline recovery, `player/timeline_recovery.cpp` | rewind candidate, trusted gap, cooldown, recent decisions | `observe`, `begin_load`, `note_recovered_first_frame` | the session |
| presentation, `core/presentation.cpp`, `win/ui_layer.cpp`, `win/composition.cpp` | rebuild budget, device-loss latch, swap-chain identity | request, poll, resize, rebuild, draw, wait | frame loop, `presentation_lost` |
| power request, `win/power_request.cpp` | the held requests, a retry time | `set_mode`, `release` | Windows |
| sign-in, `app/app.cpp` | fields, worker thread, its answer, client and catalogue | `begin_connect`, `finish_connect`, `play`, `sign_out` | provider, portal file |
| file writes, `win/file_write.cpp` | two files | `write_file_atomically` | Windows |
| log ring, `util/log_ring.cpp` | a bounded ring | push, snapshot | the log panel |
| live sync, `player/live_sync*.{cpp,hpp}` | target offset, speed, pause edge, confirmation of the load | `reset`, `observe`, `update`, `hold_unity_speed` | the session each turn, mpv's speed |
| delivery telemetry, `player/delivery_telemetry.cpp` | clocks of one load's delivery | `begin_load`, `observe`, `suspend`, `end_load`, `summarize` | the session's samples, the log |
| session log, `util/log.cpp` | the claim, the live file, a save thread | `session_log`, `write`, `save_copy` | other instances, the file system |
| recovery-edge telemetry, `player/recovery_edge_telemetry.cpp` | one anchor, pauses and samples since | `begin_recovery`, `observe`, `reset` | the session's samples, the log |
| playback control and targets, `app/app.cpp`, `player/session_target_registry.cpp` | the selected channel, the viewer's intent, the registry | choose, start, stop, sign in and out, `identify_channel` | session, player, the log |
| super resolution, `app/app.cpp`, `player/mpv_player.cpp` | wanted, the dimensions seen last, the filter asked for and whether it is attached | `apply_vsr`, `set_vsr` | mpv's filter |
| window modes, `win/app_window.cpp`, `app/app.cpp` | full screen, minimal frame, maximized, requests for the next turn | the `set_` and `toggle_` calls, `apply_pending_window_changes` | Windows, which calls back |
| catalogue, `util/http.cpp`, `xtream/xtream_client.cpp`, `core/channel_index.cpp` | the two lists, the index and its search keys | `get`, `fetch_catalog`, `reset`, `filtered` | provider, browser |
| preferences, `core/settings.cpp`, `win/settings_store.cpp`, `app/app.cpp` | volume, the volume before muting, the settings file | slider, speaker button, `persist_volume`, `save`, `parse` | the engine's volume, the file |
| update check, `app/update_check.cpp`, `core/version.cpp` | a thread, its answer and its flag | `begin_update_check`, `finish_update_check`, `parse_version` | the releases feed |
| diagnostics text, widgets, theme | text and drawing | | |

Everything but the connect and update workers runs on the UI thread; the
interleavings that matter are between that thread's turns, libmpv's
asynchronous answers, time, the graphics device, Windows and the viewer. A
*generation* is one channel request, a *load attempt* is one `loadfile` within
it; every answer is fenced by both, or should be.

### What is hard

* Answers arrive late: the first frame of a load given up, the settlement of a
  command that a stronger one replaced, the end of a file already replaced, the
  result of a buffer command of the load before.
* Events name less than they should: PLAYBACK_RESTART and log lines carry no
  load, a buffer result carries no load attempt, a swap chain only an address.
* Budgets cross: five attempts, a 30-second episode, two short reopens, one
  heuristic recreation, a five-second clean window, each reset at its own edge.
* Deadlines are polled, and may be served much later than they were due.
* One end of a stream is reported twice, exactly and generically, in any order.
* A clock of the stream may be unreadable, and a freeze explained by its input.
* Every call to the device, to Windows and to a callback may fail half way.
* A callback calls back: an effect dispatches, a window call sends messages, and
  a frame is drawn in the middle of either.

## Modules

| module | models | kind |
|---|---|---|
| `Supervisor` | `reduce_supervisor_state`: one action per event, over relative time | actions |
| `SupervisorEpisode` | the reducer under every event order; what it promises; its inductive invariant | abstract specification |
| `MCSupervisor` | constants for TLC | model checking |
| `SupervisorProofs` | theorems about `SupervisorEpisode` | proofs |
| `Subsequences` | what erasing elements leaves of a sequence | operators |
| `SubsequenceProofs` | lemmas about them, and about what is computed step by step | proofs |
| `PlayerEventAdapter` | the adapter as functions on its state | operators |
| `MpvPlayer` | `play`, `stop`, `reopen_current`, `recreate_player`, `pump`, over libmpv | specification, extends the adapter |
| `MpvPlayerProofs` | what each method of the adapter keeps; whom an event is about | proofs |
| `MpvAnswersProofs` | what the session waits for is told | proofs |
| `BufferPhase` | the gate, the commands of both phases and their results | specification |
| `PlaybackSession` | the UI turn of the session composed with the supervisor | specification, extends `SupervisorEpisode` and implements it |
| `MCPlaybackSession` | constants for TLC | model checking |
| `PlaybackSessionProofs` | the session implements the episode; its own invariants | proofs |
| `PlaybackHealth` | the health fold over samples that can or cannot be read | specification |
| `TimelineRecovery` | recovery from a timeline that went back | specification |
| `Swapchain` | publication of mpv's swap chain, epochs, mpv's output | actions |
| `Presentation` | the frame loop: device loss, rebuild budget, resize, draw, wait | specification, extends `Swapchain` |
| `PresentationProofs` | theorems about `Presentation` | proofs |
| `PlaybackPower` | the policy and the two power requests | specification |
| `AtomicFile` | what `file_write.hpp` promises of a write | abstract specification |
| `FileWrite` | `write_file_atomically` by several instances | specification, implements `AtomicFile` for one |
| `Connection` | signing in and out, the worker, the saved portal | specification |
| `LiveSync` | controller, gate and turn, with the session's calls of them | specification |
| `DeliveryTelemetry` | what the source's silences are reported to have been | specification |
| `SessionLog` | logs of several instances, copies saved while they grow | specification |
| `EventLoop` | one event or effect at a time, in order | abstract specification |
| `SupervisorHost` | `dispatch`, `poll`, `dispose`, with callbacks that call back or throw | specification, implements `EventLoop` |
| `RecoveryEdge` | what a recovery cost, compared across the edge between two loads | specification |
| `Viewing` | what was chosen, what the window says and what the player was told | specification |
| `SuperResolution` | the scale of the filter, over a libmpv that reconfigures | specification |
| `WindowModes` | full screen, minimal frame, maximizing, and messages inside the calls | specification |
| `Catalogue` | two bodies that may be cut short, the index, the filtered groups | specification |
| `UpdateCheck` | the thread's answer, the reading and comparing of versions | specification |
| `Preferences` | volume, mute and minimal mode, to the file and back | specification |
| `LogRing` | the bounded ring of the latest lines | specification |
| `PlaybackPartsProofs` | theorems about live sync, recovery edge, timeline recovery, health, delivery telemetry, super resolution, buffer phases | proofs |
| `ShellProofs` | theorems about the host, sign-in, viewing, window modes, power, files, ring, session log, preferences, catalogue, update check | proofs |
| `MCParts` | the parts that share no state, side by side | model checking |

Time is relative everywhere: a variable ending in `_in` is the time left to a
deadline and counts down to 0, where it stays until it is served; an age counts
up and is forgotten or saturates past the largest limit it is compared with. So
a deadline served late is one served after several `Tick`s. Operators whose
comment begins with *Mutant* are plausible bugs of the definition after them;
nothing uses them, and each makes the property that "mutants" names fail.

### Supervisor and SupervisorEpisode

Detection reasons the reducer treats alike share one value. An event the code
answers with `ignore(state)` is a stuttering step, so only the accepted cases
are actions; `Ignored` names it where a step has another effect too.

`SupervisorEpisode` adds the environment. It assumes of the reporter that a
load's first frame is reported once, that an open stall is only reported before
that frame, and that only a commanded load is settled; `PlaybackSession` shows
that the session is such a reporter. History: `shown` (that frame was
reported), `commanded` (the newest load identity of the generation), `issued`
(commands of this episode), `clean` (how long playback has been clean).

### PlayerEventAdapter and MpvPlayer

`adapter` is a record with the fields of the class; every method is an operator
from one such record to the next, and the actions of `MpvPlayer` are its
handlers. libmpv is external: a command queue, an entry that is up next, one
that plays, one that lingers after its replacement, and a bounded event queue
that overflows (`choked`) as mpv's does. It may drop an accepted load before it
started, redirect, end, shut down, and log at any time. `mpv.owner` is a ghost:
the load that caused each playlist entry. History: `delivered` (what the turn
handed over), `reported` (what has been said of the target), `stopped`.

### BufferPhase

The two commands of a phase (cache seconds, readahead) are sent, refused on the
spot or run later by mpv; a stop or a failed backend forgets their
correlations. `value` is what mpv was last set to.

### PlaybackSession

`turn` walks through `service_turn` and the application's turn around it:
events, then the flush of generic ends, the sample and its verdict, the poll,
and the settlement of an effect (`Settle`), because the host executes an effect
before the turn goes on. The fold is replaced by any result its first-frame flag
allows (`OpeningFolds`, `PlayingFolds`: what `PlaybackHealth` can find). Its
callbacks return, refuse or throw, before or after the player has moved. The
variables of `SupervisorEpisode` are the session's supervisor, so the refinement
mapping is the identity: `ImplementsEpisode` is `Safety` of that module.

### PlaybackHealth and TimelineRecovery

A sample says which clocks could be read and how far each really moved, so the
properties can compare verdicts with what happened and not with what was seen.
Each clock of the fold is a set of at most one `[age, count]`. In
`TimelineRecovery`, `gap` is the true distance between playback and the end of
the cache, `rewinds` and `lowest` what the load really showed.

### Swapchain and Presentation

A swap-chain object is named by what became of it, `Current` or `Stale`; mpv may
give a new one the address of an old one, so an address and an object are
different things. An epoch is only ever compared with the present one, and is
the flag `attached_now`. A rebuild ends at any of seven stages. `turn` is the
place in `App::run`; messages (resize, paint, resume) come between turns. Two
things stay outside: a backend that fails clears the active entry
(`player_event_adapter.cpp:122`), which here only an end or a stop does, and a
reconfiguration that mpv's full queue drops.

### The parts

`PlaybackPower`: any of the calls to Windows may fail, separately for the two
requests. `FileWrite`: every call may fail, the process may be killed and the
power may fail between any two; an unflushed file may then be cut. One instance
implements `AtomicFile`: the mapping is the destination and the last answer.
`Connection`: an account stands for portal, user name and password together; the
worker is a thread of its own. `LogRing`: push and snapshot hold the lock, so
each is one step.

`LiveSync`: whole numbers for offsets and speeds, one turn a step (events, poll,
update); history counts the halts of loads that had played steadily. A channel
whose own load was refused keeps the confirmation of the load before, because
`load_failed` tells the turn of no load; `ControllerIsHonest` leaves it out.
`DeliveryTelemetry`: data arrives between samples, and a sample shows the
movement since the last readable one; of the gaps only the sum is kept.
`SessionLog`: an instance is a process id started several times, a log is who
wrote it and how many lines; calls fail and processes end between any two steps
of a save; one directory stands for the preferred one and its fallback.

`SupervisorHost`: `frames` is the stack of dispatch loops and of what each has
called. What the reducer answers is any number of effects and any deadline, so
the module holds for every reducer; the refinement mapping to `EventLoop` is the
outermost frame. `RecoveryEdge`: positions are the source's and a load tells
them from its own start, so `truth` in a report is computed from what happened
and `figures` from what could be read.

`Viewing`: the supervisor is reduced to its phase and the attempts left; a load
may be refused and a backend may not come back, at every place where either is
tried. `named` collects the correlation of every load, and whether the viewer
started it again or chose a row of the browser. `SuperResolution`: mpv reports a
height only when it changes, after the events that wait; every filter it takes
makes it reconfigure, and it may refuse any, which leaves it with the filter it
had. What becomes of a filter after it was taken is not modelled. `WindowModes`:
`calls` are the calls to Windows that the current function has yet to make, and
each may deliver WM_NCCALCSIZE and WM_SIZE before it returns; a frame drawn then
may ask for more, which waits in `pending`.

`Catalogue`: a body arrives in pieces; a query that fails ends it like one that
finds nothing more. `Filtered` makes the groups in one pass over the channels, as
the code does, and is compared with the catalogue that was offered, not with the
one that was indexed. `UpdateCheck`: versions are read symbol by symbol, and
compared with a definition of a release that does not parse but counts its dots.
`Preferences`: the file is a sequence of lines and is read with the code's
parser, which later lines of a key override.

## Properties

The invariants of a module that answer one question are conjoined under one
name, each conjunct being a property with its own comment.

| property | its conjuncts |
|---|---|
| `EventsOfTheRightLoad` | `CorrelationSound`, `StoppedStaysSilent` |
| `NothingIsLost` | `SilenceIsExplained`, `FirstStartReportedInOrder` |
| `SessionIsUpToDate` | `SessionTypeOK`, `CacheViewCurrent`, `DiagnosisWins` |
| `SurfaceIsAsBelieved` | `ReadyIsDrawable`, `NoStaleContent` |
| `LoopKeepsTime` | `SleepsJustEnough`, `AttemptsPaced` |
| `StallsAreToldFromPlayback` | `VerdictIsWarranted`, `FreezeIsFound` |
| `RecoversOnlyLostGround` | `RecoveriesLimited`, `RecoveryIsWarranted` |
| `PowerFollowsPlayback` | `RequestFollowsPolicy`, `FailureAllowsSleep` |

Three specifications are implemented by detailed ones: `SupervisorEpisode` by
`PlaybackSession` (`ImplementsEpisode`), `EventLoop` by `SupervisorHost`
(`ImplementsEventLoop`), `AtomicFile` by `FileWrite` (`ImplementsAtomicFile`).

## Runs

| run | instance | what it shows |
|---|---|---|
| `supervisor` | 5 attempts, 2 short reopens, delays 1,1,1,2,2, window 2, budget 7, generations 0 and 1, loads to 5 | the episode's promises under every event order, with liveness of the clean window |
| `mpv_player` | 3 channels, 2 loads each, 3 requests, 3 entries, a queue of 2 | correlations survive any order; silence is explained; first starts and diagnoses are the right load's |
| `playback_session` | 2 channels, 2 loads, delays 1,1, budget 2, window 1, stream-end delay 1 | the session implements the episode and keeps its own promises |
| `presentation` | 2 addresses, 2 events, 2 attempts, retry delay 2, 2 sizes | the frame loop neither hangs, spins, oversleeps nor draws on what is not there |
| `parts` | see `MCParts.cfg` | eighteen parts, each through all its inputs and failures |
| `lost_first_start`, `stale_diagnosis`, `late_reattach`, `stale_buffer_result`, `stall_latch`, `truncated_file`, `lost_super_resolution` | smaller ones | the findings below, each a violation of what a comment or document says |

**Bounds.** Every bound is a constant. `MaxGeneration` and `MaxLoad` limit how
many channels and loads there are: two channels give a stale one, a second load
gives a replacement, and nothing in the code compares more than two. In
`supervisor` the scaled delays keep the order of the shipped ones (five of them
fit in the budget, but not with much waiting between them), so both ends of an
episode occur. The queue of `mpv_player` holds two events so that it does
overflow; the stale-diagnosis runs need three. `MaxEvents = 2` in `presentation`
lets an output be replaced twice before the player hears of the first. Times of
the fold are 2 and 3 samples, so that each confirmation needs a run of samples
and each can be interrupted. Timeline recovery allows one recovery in 3 units of
time and has a cooldown of 4, and a load can be recovered at its third sample:
both limits are met, and are what stops the next recovery. The ring has capacities 0 to 3 and wraps three
times. Live sync has buffers on, below and above the target, a target that moves
twice before its limit, and the wider range of speeds that the tests use: the
shipped range is unity alone, in which nothing could be at a wrong speed. The
delivery clock has five ticks: a silence, a pause in sampling, a give-up and a
revival fit. The session log has two instances started three times in all, two
saves, one second and two names in it, so that names collide. The host has four
events with up to two effects each: enough for a callback's event to find others
waiting, and an exception to leave some. Viewing has two channels and direct
media, three loads, two sign-ins and two attempts. Heights of video and window
are such that one scale is worth it and one is not. Category lists hold
duplicates and entries without an id, channel lists entries of undeclared
categories; tags are all those of up to four symbols and some longer. Volumes are
0 to 2 with unity 1, and a settings file may be empty, out of range or hold a key
twice. `MCParts` starts one part of eighteen: they share no variable, so their
product has no behaviour that their union lacks.

**Deadlock** is not checked in `mpv_player`, `parts` and the violation runs that
extend them: there the bounds on requests, loads and lines end a behaviour. It is checked in
`supervisor`, `playback_session` and `presentation`.

**Fairness.** `supervisor`: time passes, and `App::run` polls every turn, and
never waits unboundedly for the next (`next_turn_wait_ms`). `presentation`: the loop
takes its next turn and drains mpv's queue, time passes, and mpv does not
replace its output for ever (`MpvSettles`: otherwise one pump might never end).
`parts`: the turn evaluates the power policy and time passes. Nothing is assumed
of the viewer, libmpv's answers or the network.

## Findings

| run | what the text says | what the code does |
|---|---|---|
| `lost_first_start` | `player_event_adapter.hpp:56`: a lossless journal | a load accepted but never started keeps its pending entry, which suppresses every later first start |
| `stale_diagnosis` | `playback_observability.hpp:78`: the replacement window stays unattributed | the late START_FILE of the load being replaced re-arms attribution, and its lines are charged to the replacement |
| `late_reattach` | `mpv_player.cpp:644`: a retired frame cannot reattach after Stop | stopping a channel that has not started leaves the previous channel's entry active |
| `stale_buffer_result` | `buffer_phase_gate.hpp:22`: a per-load fence | results are compared by generation only; a reopened load takes those of the load before |
| `stall_latch` | `core/policy.hpp`: the grace bounds how long a pause can suppress recovery | the once-per-load latch survives a recovery that a late frame cancelled: that load is never reported stalled again |
| `truncated_file` | `file_write.hpp:8`: no third outcome, no truncated file | two instances share one temporary name |
| `lost_super_resolution` | `app.hpp:259`: the scale is recomputed when dimensions arrive after a load | only if they differ from the last ones seen, which nothing resets; a scale computed in between, from zero, stays |

The passing runs state the strongest forms that do hold next to each of them:
`FirstStartReportedInOrder`, `EvidenceIsOwn`, `PhaseSettles`, `StallActedOn`,
`ImplementsAtomicFile` for one instance, `FilterComesToRest`.

Five further observations have no run of their own. `finish_connect` saves the
login fields, which stay editable while it connects (`app.cpp:601`, 994), not
the credentials that were accepted. A super-resolution filter switched off
between START_FILE and FILE_LOADED is not switched off, because an empty
`applied_filter_` means both none and unknown. A recreation whose load is
refused returns before the engine's settings are restored, so a new engine is at
unity while the window shows another volume. `read_component` sums the digits
before it looks at how many there are (`version.cpp:15`), so the guard its
comment promises comes after the overflow; the model sums unbounded integers and
does not see it. A super-resolution filter that mpv refuses is remembered as
applied all the same (`mpv_player.cpp:408`): it is not given again before
another is asked for or the next file starts, the filter before it keeps running,
and the overlay says that none is attached. `FilterComesToRest` states what is left:
in that case the player does not claim to have the filter.

## Proofs

`SupervisorProofs` proves, for every policy satisfying `PolicyAssumption`
(natural delays, window at least 1) and every bound, that `IInv` is inductive:
plans and their states (`PlanShape`), pending loads (`PendingShape`), how the
identities issued so far relate to the state (`CommandsKnown`), what has been
shown when a frame may still revive a load (`LateFrameUnseen`), the attempt
count (`AttemptsCounted`), the window against clean time (`WindowCountsClean`)
and the one heuristic recreation (`HeuristicJustified`). None of the properties
is inductive alone: that a command is fresh, say, needs to know which identities
were given out in every phase. Every safety property of the run follows: the
invariants at once, the action properties because a step from `IInv` has only a
few shapes (the `...Outcome` lemmas).

`PlaybackSessionProofs` proves that every step of the session is a step of the
episode or a stutter, `SessionSpec => Safety`. `SessionInv` says what the
session knows at each place of its turn: what is out (`TurnShape`), which loads
exist (`LoadShape`), which frames were seen (`FrameShape`) and that what is
watched is what plays. `IInv` and `SessionInv` are inductive together, so every
theorem of the supervisor holds of the session too.

It also proves what the turn keeps up to date (`UpToDateInv`): the cache level
the supervisor holds is the one last pumped unless an event that carries it is
still to come (`CacheAsTold`), a load whose failure was diagnosed keeps the
latch that silences its generic end (`DiagnosisLatched`), and neither outlives
its channel (`ChannelBegun`). `StallsLatched` relates the once-per-load latch to
the loads that were reported, from which `StallActedOn` follows step by step.

`MpvPlayerProofs` first says of each method of the adapter what it keeps of the
requests, entries and reports. `MpvInv` then follows a load through libmpv: loads
are issued, accepted and started in order; what a request, an entry, a queued
event and a report name is the load that `mpv.owner` says raised it; and what the
player believes current is what it asked for last. From that
`EventsOfTheRightLoad` and `EvidenceIsOwn`, for any number of channels, loads,
requests, entries, lines and events.

`MpvAnswersProofs` adds `AnswersInv`, an account of where the answer to the load
to play is. Its request is awaited and has its command or its reply under way
(`RequestsAnswered`), or the adapter knows one of its entries, and then what comes
next for that entry is in one of libmpv's places or in the mail, and each message
leads on to a further one (`Continues`). Requests are answered in their order and
the load's own command is the last (`RepliesInOrder`, `LastCommand`), an entry
ends once (`EndsOnce`), and while nothing is lost or dropped every entry that the
adapter waits for starts (`StartsFollow`) and each of the load's entries is known
before its events are handled (`EntriesKnown`). So a restart of what plays finds
the player believing in it, with nothing else pending, and is credited
(`RestartIsCredited`). An empty queue and an idle libmpv leave no place for an
answer still to come, which is `NothingIsLost`. `AnswersInv` was found by checking
it with TLC on the instance of `mpv_player` (three million states) until it held
and was inductive.

`PresentationProofs`: `SwapInv` says what mpv's output, its queue and the
player's attachment have to do with each other (an object that is stale has the
reconfiguration of a started entry behind it in the queue), `SurfaceInv` what a
frame loop may rely on: a surface that is ready lacks nothing but its buffers
(`ReadyIsWhole`), the time since a failure and the time left to the next attempt
make up the retry delay (`DelayIsKept`), and the loop's wait ends before the
budget has anything to decide (`WaitsForDecision`). `SurfaceIsAsBelieved` and the
action property `LoopKeepsTime` follow.

`PlaybackPartsProofs`, each with an invariant of its own:

* Live sync: the believed speed is the installed one and the halts counted are
  those of the load that was seen.
* Recovery edge: the anchor is the recovery's own, and what was observed since is
  the sum of the true movements.
* Timeline recovery: the decisions the breaker keeps are the recoveries that
  happened, cooldown left and time since the first frame make up the cooldown,
  and a rewind candidate has its rewind within a window (and a second one once
  it persisted).
* Health: a clock of the fold never exceeds the time the picture really stood
  still or was hindered, which is what makes a verdict warranted; and one that
  should run does, which is what makes a freeze found.
* Delivery: what a sample showed is what had arrived, unless more came since; the
  charges and what is still unwatched fit before the silence that runs.
* Super resolution: a potential. The settings already made and those that events
  under way can still cause are at most four, and no step raises the sum; the
  filter that runs is the one given last (`FilterIsAsked`), unless mpv refused
  it.
* Buffer phases: the last command of the load for a property is the phase's own
  or mpv is already set for it; what a phase waits for is in a command, an answer
  or a journal of the load. The results of one pump are folded by a recursive
  function, about which the proofs argue by least counterexample
  (`Climb` of `SubsequenceProofs`).

`ShellProofs`, likewise:

* Host: the stack holds at most one frame and `dispatching` says whether it does,
  so a callback's dispatch is a `Post` and starts no second loop. `HostIsSerial`
  is the refinement of `EventLoop`.
* Sign-in: while the screen says Connecting, a worker fetches for the fields as
  they were submitted, or its answer waits and was accepted for them.
* Viewing: the selected channel is what the supervisor runs, unless it watches
  nothing or has given up, and the aim is the channel's own (`ViewInv`); no number
  of a target is in use twice, each name tells its channel, and what the viewer
  starts is told of no load before it (`TargetsInv`).
* Window modes: a call left over asks for the frame of the modes unless it
  minimizes, the commands of a turn are of different kinds, and minimal mode is
  the window's or asked for.
* Power: what is held is what was asked of Windows and answered
  (`PowerIsAsAsked`).
* Files: what a write knows at each of its steps, for one instance; the
  violation run `truncated_file` shows that the theorems need that assumption.
  Ring: for every capacity, zero included.
* Session log: an instance's log holds its own lines, a save under way its own
  copy, and a name that is taken is not given again.
* Preferences: settings and file part only when a save failed, window and
  settings only while the slider moves, engine and window only when a new
  engine's load was not issued. Reading what was written gives it back
  (`ReadAsWritten`), and whatever the file holds is read as settings in range
  (`ReadingSound`).
* Catalogue: the worker holds what the provider sent without what has no id, and
  the index is of both lists of one fetch (`CatalogueInv`). The pass over the
  channels, one more of them at a time, gives each group the matching channels of
  its category (`OnePass`), at most one category being the first of an id
  (`OneSlot`).
* Update check: the answer is in one place at a time and the flag is up only
  over one that is written (`NoticeIsTheAnswer`). Reading a tag is a sequence of
  parts that begin behind a dot and end where their digits do (`PartBegins`,
  `PartEnds`); a reading that fails shows that the tag is no release
  (`OnePart`), one that ends with the text has read its numbers (`WholeText`), so
  exactly releases are read, as what they are (`ReadsReleases`).

* All parts: a step of `MCParts` is a step of one part and leaves the others alone
  (`PartsStandAlone`), so each part's theorems hold in the run that interleaves
  them, and the types of the parts together are `PartsAreTyped`. Some of those
  types say more than where values lie: that no two health clocks run at once and
  none past its limit, that the age of a rewind's evidence stays within the
  window, that the handle of a temporary is open exactly while its writer works
  on it, and that a log, a save and its copies stay within what was written. Each
  has its own strengthening (`HealthBounds`, `TimelineBounds`, `FileTypes`,
  `LogBounds`).

Every invariant was model-checked as such before it was proved. The theorems
take nothing but the named assumptions on the constants: distances, times and
bounds are natural, windows and speeds ordered as the code orders them, names of
instances are not the names the code reserves (`SessionLogAssumption`,
`WritersAssumption`), a number in a settings file has no sign (`FileAssumption`:
it is of digits only), a list is a sequence (`CatalogueAssumption`) and a dot is
no digit (`UpdateAssumption`).
Where a definition used an operator the provers cannot reason about, it was put
in another form: erasures as `MembersAt`, folds as recursive functions.

What a recursive function computes (the groups, a number, a ring, a file) is
reasoned about along its index: `Climb` and `StepByStep` of `SubsequenceProofs`
take a set of the numbers up to a bound, where the library's induction takes an
operator.

Left to TLC: `CleanPlaybackConfirms`, `PresentationRecovers`,
`FailureAllowsSleep` and so `PowerFollowsPlayback`, whose other half
`RequestFollowsPolicy` is proved: liveness and ENABLED are out of the prover's
reach. Every invariant of the runs is stated by a theorem.

## Plan

Modelled: everything with state of its own, in the order supervisor, player
events, buffer phases, session, presentation, health, timeline recovery, power,
sign-in, file writes, log ring, live sync, delivery telemetry, session log,
supervisor host, viewing, super resolution, window modes, recovery edge,
catalogue, update check, preferences.

## Not modelled

Drawing, layout, theming, hit testing, the caption strip and the scale of the
monitor: geometry without a state that later steps depend on. The text of logs,
its classification and redaction, the wording of summaries and reports;
percentiles, transition records and statistics, which nothing in the program
reads back. WinHTTP, JSON, URLs and the encryption of the saved portal: libraries
and encodings, of which the models keep how a call ends. Fractions of the
playback rate. `PROJECT.json` gives the reason for each component.
