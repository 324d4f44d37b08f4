# A TLA+ model of boneIO

boneIO (`src/boneio/`) turns a BeagleBone into a controller of relays, covers,
gates, irrigation, alarms and sensors, driven over MQTT, a web interface and the
inputs of the board. It is one asyncio process with executor threads for I2C
writes, one thread per moving cover, timers of the event loop, and a JSON file
for what must survive a restart. What is hard about it is what its tests, which
mock the relays and run one coroutine at a time, do not exercise: coroutines that
overlap at their awaits, threads that share attributes with the loop, joins that
time out, writes that raise in the middle of a sequence.

This directory holds TLA+ modules translated from the source, the TLC instances
that check them, and proofs checked by TLAPS. `PROJECT.json` maps every
definition to the lines it stands for, and lists runs, mutants, findings,
hazards and theorems.

## Inventory

| component | state | operations | talks to |
|---|---|---|---|
| irrigation controller (`components/irrigation`) | controller state, active zone, repeat index, timer handle, skip counters, settings | commands of MQTT and web, zone timer, schedule loops | outputs (awaits), event bus (timer), state manager, MQTT |
| covers (`components/cover`) | position, tilt of a venetian one, operation, stop event, movement thread | open, close, stop, position, tilt, toggles; the thread's loop | two relays, state manager, MQTT |
| outputs and interlock (`components/output`, `integration/interlock.py`) | pin, software state, auto-off timer handle | turn on, off, toggle, auto-off callback, restore | I2C expander in executor threads, event bus |
| output groups (`components/group`) | group state | fan-out of commands, recomputed from members' events | outputs, event bus |
| click detection (`components/input`) | press times, click count, three timers | edges, timer callbacks | input manager |
| alarm panel, gate cover, thermostat (`components/template`) | a state machine each, with timers | commands, input events, timers | outputs, state manager |
| state manager (`core/state`) | dictionary, debounce handle, lock | save attribute, save file | the disk |
| event bus (`core/events`) | queue, listeners, worker, exit flags | trigger, dispatch, add and remove listeners, stop | everything |
| MQTT (`core/messaging`) | publish queue, connection, subscriptions | put, get, publish, reconnect, dispatch | broker, manager |
| Modbus (`modbus`, `core/manager/modbus.py`) | client lock, coordinators' polling and back-off | read, write, poll | the serial bus |
| managers and runner (`core/manager`, `runner.py`) | registries of the above | configure, route messages, reload | everything |
| remote devices, CAN (`core/remote`, `hardware/can`) | connection, cached states | connect, command, heartbeat | devices |
| configuration and migrations (`core/config`, `migrations`) | files | load, validate, migrate | the disk |
| sensors, display, drivers (`core/manager/sensors.py`, `hardware`) | last readings | periodic reads, rendering | I2C, 1-wire, ADC |
| web interface, Home Assistant, cloud, updates | sessions | HTTP routes, discovery payloads, downloads | managers, network |

What makes the main ones correct:

- *Irrigation*: what the controller says it does is what valves and pumps do;
  a cycle visits zones in order and ends; every zone gets its turn; standby,
  pause and shutdown stop the water.
- *Covers*: the motor is never driven both ways nor left running; the position
  is right at the end stops and on disk; every movement ends.
- *Outputs*: an interlock group has one output on; software state and relay
  agree at rest; a momentary output goes off.
- *Alarm panel*: disarmed means silent; every trigger ends; an armed panel that
  restarts is armed. *Gate cover*: the contacts decide what it is, and every pulse
  ends. *Thermostat*: the output does what the action says.
- *Click detection*: every press is reported, once and as one kind of click; a long
  press executes each of its actions as often as configured.
- *State manager*: the last value saved reaches the disk; a crash leaves an older
  or the newer file, never a mixture.
- *Event bus and MQTT*: events reach the listeners in order, exit handlers run
  once; the broker ends with the newest message of every topic.
- *Modbus*: what is published is what the device held; a device that answers is
  known as it is in the end.

The hazards behind these, each at its line, are in `PROJECT.json`.

## Modules

`Irrigation`, `TimeBasedCover`, `Outputs`, `AlarmPanel`, `Clicks`, `LongActions`,
`GateCover`, `Thermostat`, `StateStore`, `Messaging` and `ModbusDevice` model one
component each, parameterised by constants with named assumptions; the module `MC...`
of each instantiates it for TLC, and the module `...Proofs` proves theorems about it:
`CoverProofs` about `TimeBasedCover` and, by instantiation, `GateCover`,
`InputProofs` about `Clicks` and `LongActions`, and `OutputsProofs` about `Outputs` and
`Thermostat`. `GateSensing`, which `GateCover` extends, is what is seen of a gate, and
`LongPresses`, which `LongActions` extends, what its actions have to do with the reports
of a press, each with the properties proved of it.
`DurableStore` is an abstract specification, which `StateStore` implements. Operators
commented "Fault for the runs" are what a bug would make of the definition that
follows; `PROJECT.json` pairs each with the property that notices.

### Irrigation

A task of the event loop is the sequence of operations it has still to do
(`todo[t]`), an operation being a stretch of a coroutine without an await that
suspends: executing one replaces it by what it calls, so that the rest of the
caller follows. Only two awaits suspend: a relay write, handed to an executor
thread (`Suspend`, then `WriteLands` or `WriteFails`, then `Resume`), and
`asyncio.sleep`. In between other tasks run. `Die` is `asyncio.CancelledError` in
a schedule loop.

| in the module | in `controller.py` |
|---|---|
| `state`, `active`, `single`, `repeatIdx`, `timer` | `_state`, `_active_zone_idx`, `_single_zone_mode`, `_current_repeat_index`, `_zone_timer_cancel` |
| `opt`, `enabled`, `skipCount`, `source`, `skips` | the settings saved through the state manager |
| `sched` | `_schedule_tasks` |
| `Shutdown`, `StopZone`, `PumpStop`, `SwitchSource`, `ToIdle` | `shutdown` and its helpers |
| `Pause`, `Paused`, `ResumeZone`, `NextValve` | `pause`, `resume`, `next_valve` |
| `FullCycle`, `NewCycle`, `SingleZone`, `ZoneAlone`, `StartCycle`, `StartZone`, `Arm` | `start_full_cycle` to `_arm_zone_timer` |
| `Advance`, `Gap`, `Handover` | `_advance_to_next_zone`, with its delays and the valve overlap |
| `Command`, `Set`, `Standby`, `TimerFires`, `ScheduleFires` | command handlers, `set_*`, the `call_later` callback, `_run_schedule_loop` |

A definition split in two (`pause`, then `paused`) is one coroutine before and
after a suspension. Durations are not modelled: a sleep ends and an armed timer
fires at any later moment. Skip counters start at zero, as on a first start.
A water source is one relay. Tasks that suspend in a thread never see the relays
half written, because what the loop executes reads none of them: threads run
between tasks without loss.

### TimeBasedCover

The loop's side are the commands and the phases of `stop` after its `join`
(`Joined`, `RelaysOff`, `StartPending`): a command never suspends, the join blocks
the loop, for half a second at most. The thread's side is `_move_cover`, one label
per access to shared attributes: `Measure`, `SwitchOn`, `Test` of the stop event, then
`Iterate` or `LeaveLoop`, `SwitchOff`, `Finish`, `Post`. `late` counts joins that timed
out, `faults` relay writes that raised. The position is counted in units of at least one
per cent; an iteration may find any time gone, none at all included.

`kind` says whether the cover is a plain or a venetian one (`venetian.py`). The thread of
a venetian cover measures and iterates by `MeasureTilt` and `IterateTilt`: its slats turn
for `turn` steps before the position begins to change. A movement of the slats only ends
with them; the one step it has beyond is for the time by which its last sleep is late.
Steps of the slats have the length of those of the cover. (When a join timed out and the
next command moved the tilt that a thread counts from, the code stretches the steps of a
movement without target; the model keeps their length.)

### Outputs

A command runs to its first await in the loop (`Begins`: the interlock check, or
the denial with its optimistic ON of 10 ms) and then in an executor thread, in the
order of the code: `WritePin`, `WriteState`, `CancelTimer`, `ArmTimer`. The rest
of the coroutine (`TurnedOn`, `TurnedOff`) is the loop's again. `SendState` is a
created `async_send_state` task, which reads the state back from the expander.
`armed[m]` is the output a pending `call_later` switches off, `handle[o]` the timer
an output remembers, which may be an old one. `overlapped` is history: whether two
tasks were ever in progress at once; so is `restored`, the outputs that startup left on
and nothing has written since.

### AlarmPanel

The state machine of `alarm_panel.py` moves at once; what takes time is switching
its outputs, one awaited write after the other. So a task is a place in
`_trigger` or `_disarm`, the number of the output it is at and whether the
executor has written it (`Write`, then `NextOutput`, or `Activated` and
`Deactivated` after the last). `Disarm`, `Trigger`, `Arm` and `CompleteArming` are
what the methods do before their first await. Timer callbacks only create a task,
and the instant triggering of an input does too: `toTrigger`, `toDisarm` and `toArm`
are such tasks before they run. `orphans` counts trigger timers whose handle was
overwritten: they fire, but `_cancel_all_timers` does not reach them.

| in the module | in `alarm_panel.py` |
|---|---|
| `state`, `target` | `_state`, `_pending_arm_mode` |
| `armingTimer`, `delayTimer`, `triggerTimer` | whether the handle of that name is pending |
| `tripped`, `Blocked` | the live inputs, NC or NO alike, and `_check_zones_clear` |
| `queue`, `InputEvent` | the event bus and `on_input_event` |
| `kept`, `disk`, `SaveState`, `Restart` | the state manager's dictionary, its file, the save a second later, a crash and `_restore_state` with the inputs' first reports |

`overlapped` and `rearmed` are history: whether a command, event or timer ever came
to a task in progress, and whether the panel was ever armed with a siren on or a
task in progress. The wiring of an input is abstracted to whether it would trigger;
`config` selects whether there is an exit delay and a trigger time.

### Clicks and LongActions

`Clicks` is `MultiClickDetector` between the edges of a line and what it reports.
Time is discrete: each of the five kinds of `call_later` timers is a countdown
(`finalizer`, `longs`, `periods`, `memory.timer`) that `Tick` decrements and that must
fire before time goes on; an edge of the same tick comes before or after it. Timers
whose handle was overwritten stay in `longs` or `periods`: `longHandle` and
`periodHandle` say what the detector still knows of. An edge may be lost, as the
kernel's buffer overflows. The model counts in ticks of 100 ms, so that the defaults
(multiclick 220 ms, hold 400 ms, sequence 500 ms, periodic 200 ms) keep their order.

`LongActions` takes over where a long press is reported: the queue of the input's lock
and of the bus, the handler that awaits its outputs, and the record of what was
executed, an object that handler and detector share until one of them replaces it
(`worker.shared`).

| in the module | in the code |
|---|---|
| `HandlePress`, `HandleRelease`, `EndPeriods`, `CountClick` | `handle_event` (`detectors.py`) |
| `FinalizeClicks`, `DetectLongPress`, `SendPeriodicLongEvent`, `EmitPendingClick` | the methods of those names |
| `ForceStop`, in both modules | `_force_stop_long_press`: its timers, and its reset of the record |
| `EmitImmediate`, `EmitExclusive`, `CheckSequence` | `_emit_click_immediate`, `_emit_click_exclusive`, `_check_sequence` |
| `Handle`, `PutBack` | `handle_input_event` before and after its await (`inputs.py`) |
| `Execute`, `Executed`, `ActionRaises` | `execute_actions`, one action at a time (`manager.py`), and the bus's worker |

### GateCover

A command decides in the loop (`Command`), awaits the relay (`SwitchOn`,
`SwitchOnFails`) and goes on with the timer and with what it remembers (`Pulsed`).
`Fires`, `SwitchOff` and `Forget` are `_relay_off`. The gate is a pair of contacts that
move at any time; their events wait in `queue`. The first events are those the manager
asks for when it configures the gate. `Reload` replaces the gate by a new one: the tasks
and timers of the old one (`old`) still switch relays, but no longer touch the gate.

### Thermostat

`Evaluate` is `_evaluate`; each switch it starts is an element of `writes` that lands
(`Written`) or fails at any time, in any order.

### StateStore and DurableStore

`DurableStore` says what entities rely on: a value changes in memory at once, the disk
catches up with each attribute on its own and never goes back, a restart goes on from
the disk, or finds nothing, which counts as a deletion of everything. `StateStore` is how `core/state/manager.py` does it: a debounced timer, a
task that gives up when the lock is held, an executor thread that serialises the
dictionary key by key while the loop changes it (`Dump`; `DumpRaises` is Python's
"dictionary changed size during iteration"), and the replacement of the file.
`RestartEmpty` is a file that cannot be read or is reset because it is damaged. Values are
numbered per attribute, which is the refinement mapping.

### Messaging

The queue (`Put`, `Get`), the client's life (`Connect`, `Subscribed`, `Disconnected`,
`ConnectFails`, `Reconnect`) and the publishers, of which one is added by every
connection and none ends. The connection is external: it passes on in order what it is
given, until it breaks.

### ModbusDevice

The requests for the line form a queue whose head holds the lock; `Transact` is its
executor thread. `Check`, `Update`, `Checked`, `GroupRead`, `GroupFailed` are the
stretches of `async_update` between its awaits; `GoOn` is the loop over the groups up
to the next read. `Write` and `ToolWrite` are the other users of the line. `HAOnline` is
`set_payload_offline`, which the event bus calls when Home Assistant comes online. One
`EveryN` stands for all sparse groups.

## Runs

Every bound is a constant: `MaxCommands` commands, `MaxFaults` failed writes (or
connections, or stops of the process), `MaxInFlight` tasks at once, `MaxLate` timed-out
joins, `MaxChanges` input changes, `MaxRestarts` crashes, `MaxEdges` and `MaxLost` edges,
`MaxPresses` presses, `MaxMoves` changes of contacts, `MaxSends` messages per topic,
`MaxWrites`, `MaxToggles`, `MaxSuspends`, `MaxSwitches` and `MaxOnlines` of the Modbus model. Deadlock is
not checked where commands are bounded: once they are used up the system rests. In
`clicks` time goes on for ever and it is checked.

| run | what it shows | bounds and why they are enough |
|---|---|---|
| `alarm` | transient states have their timer, a disarm in turn is silent, the state saved is the state, no timer disturbs a later state, every alarm ends | two outputs, so that a task can be between them; two tasks, so that any two overlap; a door with entry delay and a window in two zones that share an input; two commands, one input change, one failing write, one crash: a command before and one after the other event; every combination of delays |
| `irrigation_calm` | at rest, IDLE and RUNNING are what the relays do; a cycle only moves on; once commands stop the watering itself ends: valves shut, and pumps off when IDLE | tasks do not overlap, four commands: start, a change of settings, an interruption and a resumption; three zones, one every second cycle, so that one is first, one skipped and one last; two sources, pump first and valve first; any saved settings, and at the start any one zone or none disabled |
| `irrigation_overlap` | RUNNING has a zone and, at rest, a timer; every cycle, repeats included, ends once commands stop. Both except a schedule loop that cancelled itself; relays are left to `irrigation_calm` | two clients, two tasks interleaved at every await, one failing write, valve overlap, one repeat, three commands: enough for a command into each gap of another one |
| `cover` | one direction, no stray motor, direction and end stop kept, the saved position, an end to every movement, for both kinds of cover | three commands, two threads: with one late join a third thread is never needed; positions and tilts 0, 1, 2, so that every movement has an inside and two ends; a venetian cover is restored in the middle |
| `outputs` | interlock, state and timer at rest and in turn, auto-off | an output with two rivals that are no rivals of each other, one momentary, two tasks and two timers, three commands, one failing write; restored starts, one with a denied output, one with the momentary one on |
| `clicks` | every short press the line shows is reported once, but for the two kinds that the detector gives up (below); long presses only while held; everything comes to rest | eight edges: four quick clicks, a triple click and a press after it, or a pending click, a double one and a long press; one lost edge; both modes, sequences that begin with either click, triple clicks on and off |
| `long_actions` | each press executes what is configured, a raising action holds nothing up | one plain action, one with a threshold, one that repeats; two presses of up to five reports, so that those of the first may be handled after the second began; one failure |
| `gate` | contacts decide, operation and state agree, pulses end | each mode, without contacts, with one and with both; two commands or reloads that overlap, three moves, one relay that fails to switch |
| `store` | the implementation of `DurableStore`, its inductive invariant, changes reach the disk | two attributes, so that one may change while the other is written; two threads; two changes of each; two failures or stops, so that a restart may find what an earlier one left |
| `messaging` | the queue is consistent, the broker never goes back, it gets the last message | one topic beside the status, three messages of either payload, two broken connections: up to three publishers |
| `modbus` | no write between a read and its publication, values and status settle | a group of every cycle and a sparse one; two writes, two changes of the device, one suspension, Home Assistant online once |
| `thermostat_hot` | a documented promise the code does not keep | two sensors below, in and above the band; see Findings |

Properties that speak of `AtRest`, `Quiet` or `Still` are about the moments when no
task is in progress: while a coroutine is half way the relays are meant to differ
from the state. Those guarded by `Calm`, `~overlapped` or `MaxInFlight = 1` say what
the code guarantees to a caller that waits for one command to finish before the
next; the unguarded ones hold however tasks overlap. Where a property excepts a case
(`gaveUp`, `lost`, `abandoned`, `late`, `astray`, `restored`, `orphaned`) the exception is a history variable
that is set exactly where the code gives something up, or, for tilts, the state itself
(`Overtaken`), and Findings or a hazard says what happens then.

`EveryClickReportedOnce` counts the presses from the button's line (`heldFor`, `burst`), not
from what the detector counted. It excepts two kinds of short presses, which the code never
reports: those followed within the multiclick window by a press that is held, and all but
one of four or more in a burst (`detectors.py:147-149`).

`irrigation_calm` selects a water source while IDLE only, and has no repeats,
because the code leaves an old pump or a valve on otherwise.

## Fairness

Liveness is checked under weak fairness of what the platform runs by itself: every
ready task of the loop, every write in the executor, every armed timer, the delayed
save, the event bus, every cover thread and the passing of its time, the serial line's
transactions, the connection's deliveries and the client's reconnection, which
`start_client` tries for ever. Of what is outside only this is assumed: a button that is
held is released some time (`LongActions`), and the number of faults is bounded. Commands,
edges, schedules, contacts and faults are owed nothing.

## Findings

`thermostat_hot`: a `heat` command that reaches a heating thermostat, or a reload,
sets its action to idle without switching its output, which `_evaluate` then never
switches off (`thermostat.py:169`, 252).

Other disagreements with documents met while modelling. The models contain them; the
properties are stated so as to hold beside them.

- A disarm that overlaps a trigger leaves a siren on, until the trigger timer or for
  good (`alarm_panel.py:712`; 660 says "turn off outputs").
- A repeated irrigation cycle restarts without closing the last zone
  (`controller.py:549`): no property of `irrigation_overlap` sees that valve, and those of
  `irrigation_calm`, which would, run without repeats. Standby set while a cycle sleeps
  between zones does not keep the next valve shut (546), selecting another source while a
  zone runs leaves the old pump on (831), and a pause that overlaps a shutdown leaves PAUSED
  without a zone (372). Skip counters count calls of `_eligible_zones`, not cycles (501; the
  docstring at 235).
- A schedule loop that finds the controller running calls `shutdown`, which cancels all
  schedule loops and so the caller itself: it dies at its next await, and the controller
  stays RUNNING without a timer, perhaps with the valve open, until a command
  (`controller.py:354`, 851). `RunningIsTimed`, `CyclesEnd` and `WateringEnds` except this
  case, and no other (`orphaned`).
- Four or more quick clicks are reported as one single click (`detectors.py:147-149`).
- Two overlapping turn-ons of one interlock group both pass, and an overlapping turn-off
  can cancel the auto-off timer of an output that stays on (`basic.py:186`, 230).
- A momentary output that startup restores on gets no timer and stays on (`mcp.py:28`;
  `schema.yaml:898` says "auto-OFF after this duration").
- `set_tilt` chooses its direction by the tilt of the movement in progress
  (`venetian.py:182`). If the slats pass the target before the stop, the motor turns them
  further the wrong way while the recorded tilt jumps back to the target (119, 132).
- A relay write that raises in a cover's thread leaves relay or operation as they were
  (`time_based.py:107`).
- A bounce of the release within the debounce time of a very short press is dropped, and
  the press is held for a long one (`detectors.py:531`).
- An action that sends an MQTT message is not remembered as executed, and is repeated by
  every report of a long press (`manager.py:912-914`).
- Messages sent while disconnected are taken from the queue by a publisher of an earlier
  connection and dropped (`mqtt.py:287`, 310), although `queue.py:3-4` keeps the last of each
  topic.
- A gate with both contacts that starts closed shows `closing`: the first report of the
  open contact counts as its release. In separate mode the pulse of one relay cancels
  the timer of another, which stays on; so do a pulse that fails and a reload during a pulse (`gate_cover.py:330`, 201).
- A Modbus device is called offline only if its own interval is ten minutes or more: the
  longer interval of `coordinator.py:1098` is forgotten by the next update. A value written
  in a suspension is published although it never left.
- `EventBus.stop` returns at once after `ask_exit`, so that exit listeners do not run
  (`bus.py:206`), and the last second of changes is not saved.

## Proofs

| theorem | argument |
|---|---|
| `TypeCorrect`, `CoverTypeCorrect`, `OutputsTypeCorrect`, `ModbusTypeCorrect` | typing is inductive; one step per action. For Modbus, what is left of an update adds at most one request to the line. For the cover the clamping of `After` keeps position and tilt between the end stops, and a thread is never further than its steps |
| `PanelTypeCorrect` | as above; the states saved are stable, although `_disarm` saves after its awaits |
| `TransientAlwaysTimed` | inductive with typing: a timer that fires hands its duty to the task it creates, no task takes the place of another, and what cancels the timers also leaves the transient state |
| `StateIsKept` | `KeptIsState` speaks of a panel at rest; `Saving` adds what holds before: the state is saved, or a disarm that will save it is still in progress |
| `DisarmedStaysSilent` | `InTurn`: one task at most is in progress, what it does and which timer is pending tell the state, and a siren on while disarmed is still ahead of the disarming task |
| `OnlyCommandsTurnIt` | action by action: the timers and the tasks they start move between the other states |
| `RunningAlwaysHasZone` | RUNNING without a zone is impossible because `_start_zone` sets both without a suspension, `ToIdle` resets both, and the tasks' zone arguments are typed |
| `SkipCountsStayBounded` | `Counted` increments only what is below `run_every_n - 1` |
| `RunningAlwaysTimed` | `Awaits` says what a suspended task is suspended on; `TimedOrSettling`: in RUNNING without a timer some task still has an operation to do that ends by arming it or by leaving RUNNING, and whatever stops a zone is followed, later in the same task, by such an operation, unless the task dies first, which `orphaned` records. Faults and overlaps included: `_handle_valve_failure` ends in a shutdown |
| `CalmIdleIsDry`, `CalmRunningWatersOneZone`, `CalmPausedIsShut`, `CalmCycleMovesOn` | a Hoare-style proof over the tasks' remaining work. A label says what is known between two operations (of the state and the active zone, and of the relays); `Link` says which label an operation leads to from which; `CalmInv`: one task at most is in progress, a label that `Holds` leads over its remaining operations (`Leads`, a path of links) to `Rest`, and `Rest` is what the properties say. Each action replaces one link by the path over the operations it calls (`DutyKept`). `Calm` is exactly what the run `irrigation_calm` configures |
| `SoloMovement`, `OneDirectionAtATime`, `IdleCoverIsStill` | neither mutual exclusion of the relays nor stillness is inductive; `Solo` adds that at most one thread is alive, that it is the one the cover knows, which relay each program counter implies, and what each phase of the loop knows of the threads |
| `RelaysHaveThreads` | holds even after joins timed out: each thread switches its own relay off |
| `PositionIsSaved` | `SavedOrSaving`: a thread past its first write of the position will post a save, and a post will be served |
| `DirectionIsKept`, `EndStopIsReached` | `Course`: a movement counts from the position and tilt it started at, over the steps it measured there, in the direction the operation says; by `Solo` nobody else writes any of these. More steps lead further the same way (`AtOnward`, `TiltOnward`), except for a tilt that was overtaken |
| `Invariance`, `Refinement` | `IInv` adds to typing that the lock admits one writer and that its copy lies between disk and memory, attribute by attribute; with it `Replace` is a `Persist`, the changes are `Change`s, and all else stutters. The box of the abstract next-state relation follows step by step |
| `OutputFollowsAction` | the switch under way, if it is the only one, is the one the action asked for |
| `InterlockHolds` | `InTurn` strengthens the exclusion of pins: one task in progress, software state equal to the pin except at the places between the two writes (or announced by a pending `SendState`), and the interlock's verdict, taken at the start of a turn-on, still valid when the pin is written |
| `StateFollowsPin` | `Settles` says where a state that is not its pin may come from: a task past its first write, or a message on its way that will read it back |
| `OnAlwaysTimed` | `TimedInTurn` adds to `InTurn` that a handle refers to a timer of its own output or to one that is gone, so that cancelling by handle never disarms another output |
| `OperationAlwaysState` | one step per action: every one that sets the operation sets the state with it |
| `SensorsAlwaysDecide` | `Sensed` adds to the property that, while events are on their way, the last of them finds the contacts as they are |
| `ReadsAlwaysFresh` | `Fresh`: only the request at the head of the line may have been to the device, and while it is there nobody else writes |
| `MessagingTypeCorrect` | typing is inductive once the broker's numbers and the tasks are counted too |
| `TrackedStaysLast` | the property is inductive with typing: `Put` takes out the message it replaces before it appends, and the message `Get` takes is the first of the queue, so that the last of another topic stays the last |
| `BrokerNeverOlder` | `Ordered`: along wire and queue the numbers of each topic increase and none is older than what the broker has. Every operation leaves a thinned sequence with at most the newest message appended; a thinned sequence stays ordered |
| `ClicksTypeCorrect` | typing is inductive once the timers of a kind are known to be sorted (`Timers`): `Tick` waits for the oldest only, so that all the others must have longer to go |
| `ClicksReported`, `LongsWhileDown` | emitting is a conservation law (`EmitConserves`): what is pending and what was reported weigh as much after a click as before it and the click together, in both modes, for a sequence, a pending click that is flushed and one that is kept; pending is never a long press. `Led` says what protects the count until an edge is lost or a bounce passes: one long-press timer at most, that of the press under way, with its handle; no finalizer while it runs; a finalizer only with clicks to report. `Followed` ties that to the line: the detector counts exactly the short presses of the burst that the line shows, and the timer of a press has as long to go as the line must stay down for it to be a long one |
| `PressesAct` | `ActsInv` follows a press through its reports. Unless something was handled late, they are queued in order (`InOrder`), the handler has the detector's own record, each action was counted for the reports before the one handled, up to the action looked at (`Counted`), and the record says of each remembered action what a record of that many reports has to say (`Recorded`). `NextReport` is the arithmetic: a record that says so leads to an execution at the next report exactly when the configuration asks for one, intervals being whole divisions. A reset moves every unhandled press to `late`, and the next press begins afresh, so that the past stays (`Past`) |

All assume the named `ASSUME`s of the modules only, which TLC evaluates in every
run: in particular nothing bounds the number of zones, outputs, groups, threads,
tasks, messages or commands. `PressesAct` also assumes `OneKindEach`: no action has both a
`min_duration` and a `repeat_interval`. Of one that has both, `execute_actions` looks at
the threshold only, and executes it at every report after it. What is only model-checked: liveness (`WateringEnds`,
`CyclesEnd`, `MovementEnds`, `GoesOff`, `AlarmEnds`, `Settles`, `ReportsHandled`, `PulsesEnd`,
`ChangesReachDisk`, `Delivered`, `ValuesSettle`, `StatusSettles`), which the prover does not reach
under fairness. Every safety property of a passing run is a theorem. `CalmPausedIsShut` is proved although
no run checks `PausedIsShut`: the run looks at the valves of a pause by `WateringEnds`.

## Not modelled

Publishing of states and logging, durations, multipliers and unit conversions; run
duration overrides and changes of the schedule; configuration reload and removal;
`momentary_turn_off`, PCF, PCA and remote outputs, the direct writes of covers that
pass by the interlock; changes of a cover's times while it moves; the alarm's codes
(a refused command changes nothing), the inputs of remote devices that disconnect; the
click machine's second entry for remote inputs (`handle_raw_state`), conditions and
`max_duration` of actions; incoming MQTT messages; Modbus decoding, derived entities and
scans. Output groups repeat, with more members, the interleavings of `Outputs`. The rest of the inventory is
drivers, protocol clients of other devices, formatting, configuration files, web routes
and the network: data transformation and I/O in front of the components above, with the
reason for each in `PROJECT.json`. Together these are nine tenths of the lines of the
repository, which is why the map covers a small share of them.

The project has as many runs as a reader wants to wait for; a further component would
take the place of one, or be composed into one.
