----------------------------- MODULE Irrigation -----------------------------
(***************************************************************************)
(* The irrigation controller of boneIO                                     *)
(* (src/boneio/components/irrigation/controller.py) as the asyncio program *)
(* it is: commands, the zone timer and the schedule loops are tasks of one *)
(* event loop; a task runs alone until it awaits, and only two kinds of    *)
(* await suspend it: a write to a valve or a pump, which a thread of the   *)
(* executor performs (components/output/basic.py async_turn_on and         *)
(* async_turn_off), and asyncio.sleep.                                     *)
(*                                                                         *)
(* A task is its remaining work: todo[t] is the sequence of operations it  *)
(* has still to do, an operation being a piece of a coroutine that runs    *)
(* without suspending.  Executing one replaces it by the operations it     *)
(* calls, so what the code does after a call always follows it.            *)
(*                                                                         *)
(* Durations are not modelled: a sleep ends, and an armed timer fires, at  *)
(* any later moment (the delays are configuration, in any order).          *)
(***************************************************************************)
EXTENDS Integers, Sequences, FiniteSets

CONSTANTS
  NumZones,        \* zones are numbered in configuration order
  Every,           \* Every[z]: run_every_n of zone z
  Sources,         \* the water sources; {} when none is configured
  StartOrder,      \* [Sources -> Orders]: pump_start_{valve,pump}_delay_s
  StopOrder,       \* [Sources -> Orders]: pump_stop_{valve,pump}_delay_s
  PumpOffInGap,    \* [Sources -> BOOLEAN]: pump_switch_off_during_valve_open_delay
  ValveOpenDelay,  \* valve_open_delay_s > 0
  ValveOverlap,    \* valve_overlap_s > 0
  Clients,         \* the MQTT session, and one task per web request
  Timers,          \* task slots for zone-timer callbacks
  Schedules,       \* the schedule loops
  Commands,        \* the commands clients send in this instance (IDLE_SOURCE:
                   \*   they select a source only while the controller is IDLE)
  Repeats,         \* the values of the repeat setting
  Saved,           \* the settings the controller may be started with,
  SavedEnabled,    \*   and the zones' enabled flags
  MaxCommands,     \* bound on commands sent
  MaxFaults,       \* bound on failed writes (I2C errors)
  MaxInFlight,     \* bound on tasks in progress at once; 1: they never overlap
  None

Zones == 1..NumZones
Tasks == Clients \cup Timers \cup Schedules
\* Which of the two goes first; the other follows after a delay.
Orders == {"together", "pumpFirst", "valveFirst"}

\* The persisted settings, _load_state.
Options == [autoAdvance : BOOLEAN, reverse : BOOLEAN, standby : BOOLEAN,
            skipNext : BOOLEAN, repeat : Repeats]

ASSUME ZonesAssumption == NumZones \in Nat \ {0} /\ Every \in [Zones -> Nat \ {0}]
ASSUME SourcesAssumption ==
  /\ StartOrder \in [Sources -> Orders]
  /\ StopOrder \in [Sources -> Orders]
  /\ PumpOffInGap \in [Sources -> BOOLEAN]
ASSUME DelaysAssumption == ValveOpenDelay \in BOOLEAN /\ ValveOverlap \in BOOLEAN
ASSUME NoneAssumption == None \notin Zones \cup Sources \cup Tasks
ASSUME TasksAssumption == Schedules \cap (Clients \cup Timers) = {}
ASSUME BoundsAssumption ==
  /\ Repeats \subseteq Nat
  /\ Saved \subseteq Options /\ SavedEnabled \subseteq [Zones -> BOOLEAN]
  /\ MaxCommands \in Nat /\ MaxFaults \in Nat /\ MaxInFlight \in Nat

VARIABLES
  state,      \* ControllerState
  active,     \* _active_zone_idx
  single,     \* _single_zone_mode
  repeatIdx,  \* _current_repeat_index
  timer,      \* the zone timer's call_later handle is pending
  orphaned,   \* history: a schedule loop was cancelled while RUNNING without a
              \*   timer, and neither has changed since
  skipCount,  \* the persisted zone/<id>/skip_count
  enabled,    \* zone.enabled
  opt,        \* the persisted settings
  source,     \* the active water source
  sched,      \* _schedule_tasks: the schedule loops not cancelled
  skips,      \* the schedules whose next firing is to be skipped
  valve,      \* the relays of the zone valves
  pump,       \* the relays of the water sources
  todo,       \* what each task has still to do
  io,         \* what each task is suspended on
  loop,       \* the task that holds the event loop, None between tasks
  cmds,       \* commands sent, up to MaxCommands
  faults      \* writes failed, up to MaxFaults

ctl == <<state, active, single, repeatIdx, timer, orphaned>>
settings == <<enabled, opt, source, skips>>
relays == <<valve, pump>>
budget == <<cmds, faults>>
vars == <<ctl, skipCount, settings, sched, relays, todo, io, loop, budget>>

States == {"IDLE", "RUNNING", "PAUSED"}

Op(do, arg) == [do |-> do, arg |-> arg]
Call(do) == Op(do, None)

\* The operations that suspend: the writes, each with its target, and sleep.
ValveWrites == {"open", "openBeforePump", "openOverlap", "close"}
PumpWrites == {"pumpOn", "pumpOff"}
Writes == ValveWrites \cup PumpWrites
\* The operations that take a zone, and those that take nothing.
ZoneOps == {"singleZone", "zoneAlone", "startZone", "gap", "handover"}
PlainOps == {"fullCycle", "newCycle", "startCycle", "shutdown", "stopZone",
             "pumpStop", "toIdle", "pause", "paused", "resume", "nextValve",
             "nextAdvance", "advance", "forceAdvance", "activate", "deactivate",
             "arm", "sleep"}
Ops == [do : ValveWrites \cup ZoneOps, arg : Zones]
       \cup [do : PumpWrites, arg : Sources]
       \cup [do : PlainOps, arg : {None}]

-----------------------------------------------------------------------------
\* The order of the zones in a cycle, _ordered_zone_indices.
Before(y, z) == IF opt.reverse THEN z < y ELSE y < z
IsFirst(z, S) == z \in S /\ \A y \in S \ {z} : Before(z, y)

\* _eligible_zones with the counters sc: the zones it returns, and the
\* counters it leaves, for it increments those of the zones it passes over.
Eligible(sc) == {z \in Zones : enabled[z] /\ (Every[z] = 1 \/ sc[z] >= Every[z] - 1)}
Counted(sc) == [z \in Zones |->
                 IF enabled[z] /\ z \notin Eligible(sc) THEN sc[z] + 1 ELSE sc[z]]

-----------------------------------------------------------------------------
\* The event loop.

InFlight == Cardinality({t \in Tasks : todo[t] # <<>>})
Quiescent == loop = None /\ \A t \in Tasks : todo[t] = <<>>

\* A cancelled schedule loop still has work to do but is no longer listed.
Cancelled(t) == t \in Schedules \ sched /\ todo[t] # <<>>

Running(t, do) == loop = t /\ todo[t] # <<>> /\ Head(todo[t]).do = do
Arg(t) == Head(todo[t]).arg

\* The operation at hand calls ops; what follows it in the coroutine stays.
Calls(t, ops) ==
  LET rest == ops \o Tail(todo[t])
  IN /\ todo' = [todo EXCEPT ![t] = rest]
     /\ loop' = IF rest = <<>> THEN None ELSE t
     /\ UNCHANGED <<io, relays, budget>>
Returns(t) == Calls(t, <<>>)

\* Faults for the runs: the valve-first path forgets the pump, and a valve that
\* does not open is only logged.
OnSuccessWithoutPump(op) ==
  CASE op.do = "open" -> <<Call("arm")>>
    [] op.do = "openBeforePump" -> <<Call("sleep"), Call("arm")>>
    [] OTHER -> <<>>
OnFailureOnlyLogged(op) == <<>>

\* What follows a write in the coroutine that awaits it.
OnSuccess(op) ==
  CASE op.do = "open" -> <<Call("arm")>>
    [] op.do = "openBeforePump" -> <<Call("sleep"), Call("activate"), Call("arm")>>
    [] OTHER -> <<>>
OnFailure(op) == IF op.do \in {"open", "openBeforePump"} THEN <<Call("shutdown")>> ELSE <<>>

\* The thread drives the relay the operation names.
Drive(op) ==
  /\ valve' = IF op.do \in ValveWrites THEN [valve EXCEPT ![op.arg] = op.do # "close"] ELSE valve
  /\ pump' = IF op.do \in PumpWrites THEN [pump EXCEPT ![op.arg] = op.do = "pumpOn"] ELSE pump

\* await: the task gives the loop up, its write goes to the executor.
Suspend(t) ==
  /\ loop = t /\ todo[t] # <<>> /\ ~Cancelled(t)
  /\ Head(todo[t]).do \in Writes \cup {"sleep"}
  /\ io' = [io EXCEPT ![t] = IF Head(todo[t]).do = "sleep" THEN "asleep" ELSE "submitted"]
  /\ loop' = None
  /\ UNCHANGED <<ctl, skipCount, settings, sched, relays, todo, budget>>

\* A thread of the executor performs the write, or the I2C bus fails.  What the
\* loop executes touches no relay, so it is enough that threads run between tasks.
WriteLands(t) ==
  /\ io[t] = "submitted" /\ loop = None
  /\ io' = [io EXCEPT ![t] = "written"]
  /\ Drive(Head(todo[t]))
  /\ UNCHANGED <<ctl, skipCount, settings, sched, todo, loop, budget>>

WriteFails(t) ==
  /\ io[t] = "submitted" /\ loop = None /\ faults < MaxFaults
  /\ io' = [io EXCEPT ![t] = "failed"]
  /\ faults' = faults + 1
  /\ UNCHANGED <<ctl, skipCount, settings, sched, relays, todo, loop, cmds>>

\* What is left of a task when its await is over; a new task has all to do.
Remaining(t) ==
  LET rest == Tail(todo[t])
  IN CASE io[t] = "spawned" -> todo[t]
       [] io[t] = "asleep" -> rest
       [] io[t] = "written" -> OnSuccess(Head(todo[t])) \o rest
       [] io[t] = "failed" -> OnFailure(Head(todo[t])) \o rest

\* The awaited future is done (or the task is new): the task gets the loop.
Resume(t) ==
  /\ loop = None /\ todo[t] # <<>> /\ ~Cancelled(t)
  /\ io[t] \in {"spawned", "asleep", "written", "failed"}
  /\ todo' = [todo EXCEPT ![t] = Remaining(t)]
  /\ loop' = IF Remaining(t) = <<>> THEN None ELSE t
  /\ io' = [io EXCEPT ![t] = "none"]
  /\ UNCHANGED <<ctl, skipCount, settings, sched, relays, budget>>

\* CancelledError at an await: no handler of the controller catches it.  The
\* thread may have taken the write already, in which case it lands.
Die(t) ==
  /\ Cancelled(t)
  /\ \/ loop = None /\ io[t] # "none"
     \/ loop = t /\ Head(todo[t]).do \in Writes \cup {"sleep"}
  /\ \/ UNCHANGED relays
     \/ Head(todo[t]).do \in Writes /\ io[t] \in {"none", "submitted"} /\ Drive(Head(todo[t]))
  /\ todo' = [todo EXCEPT ![t] = <<>>]
  /\ io' = [io EXCEPT ![t] = "cancelled"]
  /\ loop' = None
  /\ orphaned' = (state = "RUNNING" /\ ~timer)
  /\ UNCHANGED <<state, active, single, repeatIdx, timer, skipCount, settings, sched, budget>>

-----------------------------------------------------------------------------
\* Stopping: shutdown and the helpers it awaits.

Shutdown(t) ==
  /\ Running(t, "shutdown")
  /\ sched' = {}
  /\ Calls(t, <<Call("stopZone"), Call("pumpStop"), Call("toIdle")>>)
  /\ UNCHANGED <<ctl, skipCount, settings>>

StopZone(t) ==
  /\ Running(t, "stopZone")
  /\ timer' = FALSE
  /\ IF active = None THEN Returns(t) ELSE Calls(t, <<Op("close", active)>>)
  /\ UNCHANGED <<state, active, single, repeatIdx, orphaned, skipCount, settings, sched>>

\* Fault for the runs: the source is never closed after the delay.
PumpStopDelayOnly(t) ==
  /\ Running(t, "pumpStop")
  /\ \/ source = None /\ Returns(t)
     \/ /\ source # None /\ StopOrder[source] = "valveFirst"
        /\ Calls(t, <<Call("sleep")>>)
     \/ /\ source # None /\ StopOrder[source] # "valveFirst"
        /\ Calls(t, <<Call("deactivate")>>)
  /\ UNCHANGED <<ctl, skipCount, settings, sched>>

PumpStop(t) ==
  /\ Running(t, "pumpStop")
  /\ \/ source = None /\ Returns(t)
     \/ /\ source # None /\ StopOrder[source] = "pumpFirst"
        /\ Calls(t, <<Call("deactivate"), Call("sleep")>>)
     \/ /\ source # None /\ StopOrder[source] = "valveFirst"
        /\ Calls(t, <<Call("sleep"), Call("deactivate")>>)
     \/ /\ source # None /\ StopOrder[source] = "together"
        /\ Calls(t, <<Call("deactivate")>>)
  /\ UNCHANGED <<ctl, skipCount, settings, sched>>

\* _activate_source and _deactivate_source: the source active when they run.
SwitchSource(t) ==
  /\ \/ /\ Running(t, "activate")
        /\ IF source = None THEN Returns(t) ELSE Calls(t, <<Op("pumpOn", source)>>)
     \/ /\ Running(t, "deactivate")
        /\ IF source = None THEN Returns(t) ELSE Calls(t, <<Op("pumpOff", source)>>)
  /\ UNCHANGED <<ctl, skipCount, settings, sched>>

\* Fault for the runs: the state is left as it was.
ToIdleStateKept(t) ==
  /\ Running(t, "toIdle")
  /\ active' = None /\ single' = FALSE
  /\ Returns(t)
  /\ UNCHANGED <<state, repeatIdx, timer, orphaned, skipCount, settings, sched>>

ToIdle(t) ==
  /\ Running(t, "toIdle")
  /\ state' = "IDLE" /\ active' = None /\ single' = FALSE /\ orphaned' = FALSE
  /\ Returns(t)
  /\ UNCHANGED <<repeatIdx, timer, skipCount, settings, sched>>

-----------------------------------------------------------------------------
\* Pausing, resuming and skipping to the next zone.

\* Fault for the runs: the valve is left open.
PauseValveOpen(t) ==
  /\ Running(t, "pause")
  /\ IF state # "RUNNING" \/ active = None
     THEN Returns(t) /\ UNCHANGED timer
     ELSE timer' = FALSE /\ Calls(t, <<Call("paused")>>)
  /\ UNCHANGED <<state, active, single, repeatIdx, orphaned, skipCount, settings, sched>>

Pause(t) ==
  /\ Running(t, "pause")
  /\ IF state # "RUNNING" \/ active = None
     THEN Returns(t) /\ UNCHANGED timer
     ELSE timer' = FALSE /\ Calls(t, <<Call("stopZone"), Call("paused")>>)
  /\ UNCHANGED <<state, active, single, repeatIdx, orphaned, skipCount, settings, sched>>

Paused(t) ==
  /\ Running(t, "paused")
  /\ state' = "PAUSED" /\ orphaned' = FALSE
  /\ Returns(t)
  /\ UNCHANGED <<active, single, repeatIdx, timer, skipCount, settings, sched>>

ResumeZone(t) ==
  /\ Running(t, "resume")
  /\ IF state # "PAUSED" \/ active = None
     THEN Returns(t)
     ELSE Calls(t, <<Op("startZone", active)>>)
  /\ UNCHANGED <<ctl, skipCount, settings, sched>>

NextValve(t) ==
  /\ \/ /\ Running(t, "nextValve")
        /\ \/ state = "IDLE" /\ Returns(t)
           \/ state = "PAUSED" /\ Calls(t, <<Call("resume"), Call("nextAdvance")>>)
           \/ state = "RUNNING" /\ Calls(t, <<Call("nextAdvance")>>)
     \/ /\ Running(t, "nextAdvance")
        /\ IF active = None THEN Returns(t) ELSE Calls(t, <<Call("forceAdvance")>>)
  /\ UNCHANGED <<ctl, skipCount, settings, sched>>

-----------------------------------------------------------------------------
\* Starting a cycle or one zone.

FullCycle(t) ==
  /\ Running(t, "fullCycle")
  /\ \/ opt.standby /\ Returns(t)
     \/ /\ ~opt.standby /\ state # "IDLE"
        /\ Calls(t, <<Call("shutdown"), Call("newCycle")>>)
     \/ /\ ~opt.standby /\ state = "IDLE"
        /\ Calls(t, <<Call("newCycle")>>)
  /\ UNCHANGED <<ctl, skipCount, settings, sched>>

NewCycle(t) ==
  /\ Running(t, "newCycle")
  /\ single' = FALSE /\ repeatIdx' = 0
  /\ opt' = [opt EXCEPT !.skipNext = FALSE]
  /\ IF opt.skipNext THEN Returns(t) ELSE Calls(t, <<Call("startCycle")>>)
  /\ UNCHANGED <<state, active, timer, orphaned, skipCount, enabled, source, skips, sched>>

SingleZone(t) ==
  /\ Running(t, "singleZone")
  /\ \/ opt.standby /\ Returns(t)
     \/ /\ ~opt.standby /\ state # "IDLE"
        /\ Calls(t, <<Call("shutdown"), Op("zoneAlone", Arg(t))>>)
     \/ /\ ~opt.standby /\ state = "IDLE"
        /\ Calls(t, <<Op("zoneAlone", Arg(t))>>)
  /\ UNCHANGED <<ctl, skipCount, settings, sched>>

ZoneAlone(t) ==
  /\ Running(t, "zoneAlone")
  /\ single' = TRUE
  /\ Calls(t, <<Op("startZone", Arg(t))>>)
  /\ UNCHANGED <<state, active, repeatIdx, timer, orphaned, skipCount, settings, sched>>

\* _start_cycle_from_eligible
StartCycle(t) ==
  /\ Running(t, "startCycle")
  /\ skipCount' = Counted(skipCount)
  /\ \/ \E z \in Zones : /\ IsFirst(z, Eligible(skipCount))
                         /\ Calls(t, <<Op("startZone", z)>>)
                         /\ UNCHANGED <<state, active, orphaned>>
     \/ /\ Eligible(skipCount) = {}
        /\ state' = "IDLE" /\ active' = None /\ orphaned' = FALSE
        /\ Returns(t)
  /\ UNCHANGED <<single, repeatIdx, timer, settings, sched>>

\* _start_zone: the order of pump and valve is that of the source at its start.
StartZone(t) ==
  /\ Running(t, "startZone")
  /\ state' = "RUNNING" /\ active' = Arg(t)
  /\ LET open == Op("open", Arg(t))
     IN \/ source = None /\ Calls(t, <<open>>)
        \/ /\ source # None
           /\ \/ StartOrder[source] = "pumpFirst"
              \/ StartOrder[source] = "together" /\ ValveOpenDelay
           /\ Calls(t, <<Call("activate"), Call("sleep"), open>>)
        \/ /\ source # None /\ StartOrder[source] = "valveFirst"
           /\ Calls(t, <<Op("openBeforePump", Arg(t))>>)
        \/ /\ source # None /\ StartOrder[source] = "together" /\ ~ValveOpenDelay
           /\ Calls(t, <<Call("activate"), open>>)
  /\ UNCHANGED <<single, repeatIdx, timer, orphaned, skipCount, settings, sched>>

Arm(t) ==
  /\ Running(t, "arm")
  /\ timer' = TRUE /\ orphaned' = FALSE
  /\ Returns(t)
  /\ UNCHANGED <<state, active, single, repeatIdx, skipCount, settings, sched>>

-----------------------------------------------------------------------------
\* _advance_to_next_zone, for the timer and (forced) for next_valve.

AdvanceEnds(t, force) ==
  /\ \/ /\ active = None
        /\ Calls(t, <<Call("shutdown")>>)
        /\ UNCHANGED skipCount
     \/ /\ active # None /\ (single \/ ~(opt.autoAdvance \/ force))
        /\ Calls(t, <<Call("stopZone"), Call("pumpStop"), Call("shutdown")>>)
        /\ skipCount' = IF single THEN skipCount ELSE [skipCount EXCEPT ![active] = 0]
  /\ UNCHANGED ctl

\* Fault for the runs: the order wraps around.
NextZonesWrapped(force, sc) ==
  {z \in Zones \ {active} : IF force THEN enabled[z] ELSE z \in Eligible(sc)}

\* The zones after the active one that may run next: no wrap-around.
NextZones(force, sc) ==
  {z \in Zones : Before(active, z) /\ IF force THEN enabled[z] ELSE z \in Eligible(sc)}

AdvanceOn(t, force) ==
  /\ active # None /\ ~single /\ (opt.autoAdvance \/ force)
  /\ LET sc == [skipCount EXCEPT ![active] = 0]
         next == NextZones(force, sc)
     IN /\ skipCount' = Counted(sc)
        /\ \/ \E z \in Zones :
                /\ IsFirst(z, next)
                /\ IF ValveOverlap
                   THEN Calls(t, <<Op("openOverlap", z), Call("sleep"), Call("stopZone"),
                                   Op("handover", z)>>)
                   ELSE Calls(t, <<Call("stopZone"), Op("gap", z)>>)
                /\ UNCHANGED repeatIdx
           \/ /\ next = {} /\ repeatIdx < opt.repeat
              /\ repeatIdx' = repeatIdx + 1
              /\ Calls(t, <<Call("startCycle")>>)
           \/ /\ next = {} /\ repeatIdx >= opt.repeat
              /\ Calls(t, <<Call("shutdown")>>)
              /\ UNCHANGED repeatIdx
  /\ UNCHANGED <<state, active, single, timer, orphaned>>

Advance(t) ==
  /\ \E force \in BOOLEAN :
       /\ Running(t, IF force THEN "forceAdvance" ELSE "advance")
       /\ AdvanceEnds(t, force) \/ AdvanceOn(t, force)
  /\ UNCHANGED <<settings, sched>>

\* Between two zones: the pump may rest during the valve-open delay.
Gap(t) ==
  /\ Running(t, "gap")
  /\ LET rests == source # None /\ PumpOffInGap[source]
         start == Op("startZone", Arg(t))
     IN \/ ~ValveOpenDelay /\ Calls(t, <<start>>)
        \/ ValveOpenDelay /\ ~rests /\ Calls(t, <<Call("sleep"), start>>)
        \/ /\ ValveOpenDelay /\ rests
           /\ Calls(t, <<Call("deactivate"), Call("sleep"), Call("activate"), start>>)
  /\ UNCHANGED <<ctl, skipCount, settings, sched>>

\* The end of the overlap: the next zone becomes the active one.
Handover(t) ==
  /\ Running(t, "handover")
  /\ active' = Arg(t) /\ timer' = TRUE /\ orphaned' = FALSE
  /\ Returns(t)
  /\ UNCHANGED <<state, single, repeatIdx, skipCount, settings, sched>>

-----------------------------------------------------------------------------
\* What enters the loop from outside.

\* A new task, whose first operations are ops, runs at once.
Enters(t, ops) ==
  /\ loop = None /\ todo[t] = <<>> /\ InFlight < MaxInFlight
  /\ todo' = [todo EXCEPT ![t] = ops]
  /\ loop' = t

Sends(c, name, ops) ==
  /\ name \in Commands /\ cmds < MaxCommands
  /\ cmds' = cmds + 1
  /\ Enters(c, ops)

\* handle_main_command and handle_zone_command, and their web routes.
Command(c) ==
  /\ \/ Sends(c, "ON", <<Call("fullCycle")>>)
     \/ Sends(c, "OFF", <<Call("shutdown")>>)
     \/ Sends(c, "PAUSE", <<Call("pause")>>)
     \/ Sends(c, "RESUME", <<Call("resume")>>)
     \/ Sends(c, "NEXT_VALVE", <<Call("nextValve")>>)
     \/ \E z \in Zones : Sends(c, "ZONE_ON", <<Op("singleZone", z)>>)
  /\ UNCHANGED <<ctl, skipCount, settings, sched, relays, io, faults>>

\* The settings whose handlers do not suspend.
Set(c) ==
  /\ loop = None /\ todo[c] = <<>> /\ InFlight < MaxInFlight /\ cmds < MaxCommands
  /\ cmds' = cmds + 1
  /\ \/ /\ "SETTING" \in Commands
        /\ \/ \E b \in BOOLEAN : \/ opt' = [opt EXCEPT !.autoAdvance = b]
                               \/ opt' = [opt EXCEPT !.reverse = b]
                               \/ opt' = [opt EXCEPT !.skipNext = b]
           \/ \E n \in Repeats : opt' = [opt EXCEPT !.repeat = n]
           \/ opt.standby /\ opt' = [opt EXCEPT !.standby = FALSE]
        /\ UNCHANGED <<enabled, source, skips>>
     \/ /\ "ZONE_ENABLED" \in Commands
        /\ \E z \in Zones, b \in BOOLEAN : enabled' = [enabled EXCEPT ![z] = b]
        /\ UNCHANGED <<opt, source, skips>>
     \/ /\ "SOURCE" \in Commands \/ ("IDLE_SOURCE" \in Commands /\ state = "IDLE")
        /\ \E s \in Sources : source' = s
        /\ UNCHANGED <<opt, enabled, skips>>
     \/ /\ "SCHEDULE_SKIP" \in Commands
        /\ \E s \in Schedules : \/ skips' = skips \cup {s}
                                \/ skips' = skips \ {s}
        /\ UNCHANGED <<opt, enabled, source>>
  /\ UNCHANGED <<ctl, skipCount, sched, relays, todo, io, loop, faults>>

\* set_standby(True)
Standby(c) ==
  /\ opt' = [opt EXCEPT !.standby = TRUE]
  /\ IF state = "IDLE"
     THEN /\ "STANDBY" \in Commands /\ cmds < MaxCommands
          /\ loop = None /\ todo[c] = <<>> /\ InFlight < MaxInFlight
          /\ cmds' = cmds + 1
          /\ UNCHANGED <<todo, loop>>
     ELSE Sends(c, "STANDBY", <<Call("shutdown")>>)
  /\ UNCHANGED <<ctl, skipCount, enabled, source, skips, sched, relays, io, faults>>

\* The call_later handle fires: create_task(_zone_timer_callback).
TimerFires(t) ==
  /\ timer /\ todo[t] = <<>> /\ loop = None /\ InFlight < MaxInFlight
  /\ timer' = FALSE
  /\ todo' = [todo EXCEPT ![t] = <<Call("advance")>>]
  /\ io' = [io EXCEPT ![t] = "spawned"]
  /\ UNCHANGED <<state, active, single, repeatIdx, orphaned, skipCount, settings, sched,
                 relays, loop, budget>>

\* A schedule loop wakes at its time of day: it drops its skip flag or starts a
\* cycle, in its own task.
ScheduleFires(s) ==
  /\ s \in sched /\ loop = None /\ todo[s] = <<>>
  /\ cmds < MaxCommands /\ cmds' = cmds + 1
  /\ skips' = skips \ {s}
  /\ IF s \in skips THEN UNCHANGED <<todo, loop>> ELSE Enters(s, <<Call("fullCycle")>>)
  /\ UNCHANGED <<ctl, skipCount, enabled, opt, source, sched, relays, io, faults>>

-----------------------------------------------------------------------------
Step(t) ==
  \/ Shutdown(t) \/ StopZone(t) \/ PumpStop(t) \/ SwitchSource(t) \/ ToIdle(t)
  \/ Pause(t) \/ Paused(t) \/ ResumeZone(t) \/ NextValve(t)
  \/ FullCycle(t) \/ NewCycle(t) \/ SingleZone(t) \/ ZoneAlone(t)
  \/ StartCycle(t) \/ StartZone(t) \/ Arm(t)
  \/ Advance(t) \/ Gap(t) \/ Handover(t)
  \/ Suspend(t) \/ Resume(t) \/ Die(t)

Init ==
  /\ state = "IDLE" /\ active = None /\ single = FALSE /\ repeatIdx = 0 /\ timer = FALSE
  /\ orphaned = FALSE
  /\ skipCount = [z \in Zones |-> 0]
  /\ enabled \in SavedEnabled /\ opt \in Saved
  /\ source \in IF Sources = {} THEN {None} ELSE Sources
  /\ sched = Schedules /\ skips = {}
  /\ valve = [z \in Zones |-> FALSE] /\ pump = [s \in Sources |-> FALSE]
  /\ todo = [t \in Tasks |-> <<>>] /\ io = [t \in Tasks |-> "none"] /\ loop = None
  /\ cmds = 0 /\ faults = 0

Next ==
  \/ \E t \in Tasks : Step(t) \/ WriteLands(t) \/ WriteFails(t)
  \/ \E c \in Clients : Command(c) \/ Set(c) \/ Standby(c)
  \/ \E t \in Timers : TimerFires(t)
  \/ \E s \in Schedules : ScheduleFires(s)

\* The loop serves every ready task, the executor every write, the clock every
\* armed timer; nothing obliges a client, a schedule or a fault to occur.
Fairness ==
  /\ \A t \in Tasks : WF_vars(Step(t)) /\ WF_vars(WriteLands(t))
  /\ \A t \in Timers : WF_vars(TimerFires(t))

Spec == Init /\ [][Next]_vars
FairSpec == Spec /\ Fairness

-----------------------------------------------------------------------------
\* The controller's own state, and that of its tasks and relays.
ControlTyped ==
  /\ state \in States /\ active \in Zones \cup {None}
  /\ single \in BOOLEAN /\ repeatIdx \in Nat /\ timer \in BOOLEAN /\ orphaned \in BOOLEAN
  /\ skipCount \in [Zones -> Nat]
  /\ enabled \in [Zones -> BOOLEAN] /\ opt \in Options /\ source \in Sources \cup {None}
  /\ sched \subseteq Schedules /\ skips \subseteq Schedules

TasksTyped ==
  /\ valve \in [Zones -> BOOLEAN] /\ pump \in [Sources -> BOOLEAN]
  /\ todo \in [Tasks -> Seq(Ops)]
  /\ io \in [Tasks -> {"none", "spawned", "submitted", "written", "failed", "asleep",
                     "cancelled"}]
  /\ loop \in Tasks \cup {None}
  /\ cmds \in 0..MaxCommands /\ faults \in 0..MaxFaults

TypeOK == ControlTyped /\ TasksTyped

-----------------------------------------------------------------------------
\* Properties.

\* No schedule loop was cancelled by the very cycle it was starting or by a
\* shutdown that overtook it: what the properties of a resting controller assume.
Intact == \A s \in Schedules : io[s] # "cancelled"
AtRest(s) == Quiescent /\ Intact /\ state = s

\* A controller at rest in IDLE waters nothing: every zone valve is shut, every
\* pump is off and no zone timer is left to fire.  Shutdown, the end of a cycle,
\* of a single zone, and a failed valve must all come to this.
IdleIsDry ==
  AtRest("IDLE") =>
    /\ ~timer
    /\ \A z \in Zones : ~valve[z]
    /\ \A s \in Sources : ~pump[s]

\* A controller at rest in RUNNING waters the active zone and no other, from the
\* selected source, and the timer that ends the zone is armed: whatever order of
\* pump and valve, delay or overlap led there.
RunningWatersOneZone ==
  AtRest("RUNNING") =>
    /\ timer
    /\ valve = [z \in Zones |-> z = active]
    /\ source # None => pump[source]

\* A pause shuts every zone valve and leaves no timer, but keeps the zone that
\* resume is to continue.
PausedIsShut ==
  AtRest("PAUSED") =>
    active # None /\ ~timer /\ \A z \in Zones : ~valve[z]

\* However commands, timer callbacks and failing relays overlap, a controller
\* that says RUNNING has an active zone: publish_all_states and next_valve rely
\* on it between any two steps of a coroutine.
RunningHasZone == state = "RUNNING" => active # None

\* However commands, timers, schedules and failing relays overlap, a controller left
\* RUNNING with no task in progress has its timer armed: otherwise nothing would ever
\* end the watering.  One case excepted, a defect of the code: a schedule loop that
\* finds the controller running shuts it down, cancels itself in doing so and dies at
\* its next await, with the state still RUNNING and the timer gone.
RunningIsTimed == Quiescent /\ state = "RUNNING" => timer \/ orphaned

\* Without repeats a cycle only moves on: one zone hands over to a later one of
\* the configured (or reversed) order and no zone is watered twice (the comment
\* of _advance_to_next_zone: wrapping would cause the cycle to never complete).
CycleMovesOn ==
  [][active # None /\ active' # None /\ active' # active => Before(active, active')]_vars

\* A skip counter stays below run_every_n: _eligible_zones stops counting when
\* the zone is due, so a zone is never passed over for longer than configured.
SkipCountBounded == \A z \in Zones : skipCount[z] < Every[z]

\* Once clients stop sending commands, every task completes and every cycle, repeats
\* and failing relays included, comes to a shutdown or a pause, so that the controller
\* rests IDLE or PAUSED with no timer, unless it was orphaned (RunningIsTimed).  The
\* relays are not spoken of: tasks that overlap, or a repeat, may leave one on.
EndsWhatRuns == state = "RUNNING" => orphaned
CyclesEnd == <>[](Quiescent /\ ~timer /\ EndsWhatRuns)

\* Once clients stop sending commands the watering itself ends, for commands in turn
\* and without repeats: the controller rests with every valve shut, and with every
\* pump off too when it is IDLE, unless it was orphaned.
WateringEnds ==
  <>[]/\ Quiescent /\ ~timer /\ EndsWhatRuns
      /\ state # "RUNNING" => \A z \in Zones : ~valve[z]
      /\ state = "IDLE" => \A s \in Sources : ~pump[s]

=============================================================================
