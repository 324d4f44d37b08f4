----------------------------- MODULE GateCover -----------------------------
(***************************************************************************)
(* BoneIOGateCover: a gate moved by short relay pulses and watched by      *)
(* contact sensors, with the part of GateCoverManager that sets it up and  *)
(* the sensor events that InputManager routes to it.                       *)
(*                                                                         *)
(* A command is a task: it decides in the event loop, waits for the        *)
(* executor thread that switches the relay on, and goes on in the loop     *)
(* with the timer that is to switch it off and with what it remembers.     *)
(* Other commands, timers and sensor events come in between.  What the     *)
(* sensors are to decide is in GateSensing.                                *)
(*                                                                         *)
(* The gate itself is a pair of contacts that change at any time; a change *)
(* is an event in the bus's queue.  _cycle_next, which nothing reads,      *)
(* and publishing are left out.                                            *)
(***************************************************************************)
EXTENDS GateSensing, Naturals, Sequences, FiniteSets

CONSTANTS
    None,
    Configs,      \* [mode, sensors, held, stop]: the configurations
    MaxCommands,  \* bound on commands and reloads
    MaxInFlight,  \* bound on commands that overlap
    MaxMoves,     \* bound on changes of the contacts
    MaxFaults     \* bound on relays that fail to switch

Modes == {"cycle", "separate", "open_only"}
Sensors == {"closed", "open"}
Relays == {"pulse", "open", "close", "stop"}

ASSUME GateCoverAssumption ==
    /\ Configs \subseteq [mode : Modes, sensors : SUBSET Sensors, held : BOOLEAN, stop : BOOLEAN]
    /\ \A c \in Configs : c.held => c.mode = "open_only"
    /\ {MaxCommands, MaxInFlight, MaxMoves, MaxFaults} \subseteq Nat

VARIABLES
    relay,      \* the relays that are on
    tasks,      \* commands under way
    timers,     \* pulse-off timers
    handle,     \* _pulse_off_timer
    offs,       \* _relay_off tasks
    abandoned,  \* history: relays whose timer another relay's pulse, a failed one or a reload
                \* cancelled, or that failed to switch off
    commands, moves, faults

gate == <<state, operation>>
relays == <<relay, tasks, timers, handle, offs, abandoned>>
sensed == <<contacts, queue, moves>>
vars == <<config, gate, relays, sensed, lastSync, commands, faults>>

Event(s, sync) == [sensor |-> s, closed |-> s \in contacts', sync |-> sync]
In(S, s) == IF s \in S THEN <<s>> ELSE <<>>

\* Both contacts' states are asked for when the gate is configured.
Asked ==
    LET asked == In(config.sensors, "closed") \o In(config.sensors, "open")
    IN  [i \in DOMAIN asked |->
           [sensor |-> asked[i], closed |-> asked[i] \in contacts, sync |-> TRUE]]

Init ==
    /\ config \in Configs
    /\ state = "closed"
    /\ operation = "idle"
    /\ relay = {} /\ tasks = {} /\ timers = {} /\ handle = None /\ offs = {}
    /\ contacts \in {{}, {"closed"}, {"open"}}
    /\ queue = Asked
    /\ lastSync = TRUE
    /\ abandoned = {}
    /\ commands = 0 /\ moves = 0 /\ faults = 0

(***************************************************************************)
(* Commands: what they pulse, and what they remember afterwards.           *)
(***************************************************************************)
\* A command is obeyed if its mode knows it, and in a cycle if the gate is doing what it ends.
Obeyed(cmd) ==
    \/ config.mode = "open_only" /\ cmd = "OPEN"
    \/ config.mode = "separate" /\ (cmd = "STOP" => config.stop)
    \/ /\ config.mode = "cycle"
       /\ \/ cmd = "OPEN" /\ operation \in {"idle", "closing"}
          \/ cmd = "CLOSE" /\ operation \in {"idle", "opening"}
          \/ cmd = "STOP" /\ operation # "idle"

RelayOf(cmd) ==
    IF config.mode # "separate" THEN "pulse"
    ELSE [OPEN |-> "open", CLOSE |-> "close", STOP |-> "stop"][cmd]

\* A pulse in a cycle stops a gate that moves.
Stops(cmd) == IF config.mode = "cycle" THEN operation # "idle" ELSE cmd = "STOP"

\* Fault for the runs: the command's state is set whatever the sensors.
AfterwardsAlways(cmd, stops) ==
    IF stops THEN operation' = "idle" /\ UNCHANGED state
    ELSE UNCHANGED operation /\ state' = IF cmd = "OPEN" THEN "open" ELSE "closed"

\* The state is the command's only if no closed_sensor is there to tell.
Afterwards(cmd, stops) ==
    IF stops THEN operation' = "idle" /\ UNCHANGED state
    ELSE /\ UNCHANGED operation
         /\ state' = IF HasClosed THEN state
                     ELSE IF cmd = "OPEN" THEN "open" ELSE "closed"

Timer(id) == {t \in timers : t.id = id}
TimerOf(k) == [id |-> k.id, relay |-> k.relay, old |-> k.old]

\* _cancel_pulse_timer, and the task that waits for the relay.
Command(cmd) ==
    /\ commands < MaxCommands /\ Cardinality(tasks) < MaxInFlight
    /\ Obeyed(cmd)
    /\ commands' = commands + 1
    /\ timers' = timers \ Timer(handle)
    /\ handle' = None
    /\ tasks' = tasks \union {[id |-> commands + 1, cmd |-> cmd, relay |-> RelayOf(cmd),
                               stops |-> Stops(cmd), done |-> FALSE, old |-> FALSE]}
    /\ abandoned' = abandoned \union {t.relay : t \in {u \in Timer(handle) : u.relay # RelayOf(cmd)}}
    /\ UNCHANGED <<config, gate, relay, offs, sensed, lastSync, faults>>

\* STOP without a stop relay, and every command that does nothing.
Ignored(cmd) ==
    /\ commands < MaxCommands
    /\ ~Obeyed(cmd)
    /\ commands' = commands + 1
    /\ operation' = IF config.mode = "separate" THEN "idle" ELSE operation
    /\ UNCHANGED <<config, state, relays, sensed, lastSync, faults>>

\* The executor thread.
SwitchOn(k) ==
    /\ k \in tasks /\ ~k.done
    /\ relay' = relay \union {k.relay}
    /\ tasks' = (tasks \ {k}) \union {[k EXCEPT !.done = TRUE]}
    /\ abandoned' = abandoned \ {k.relay}
    /\ UNCHANGED <<config, gate, timers, handle, offs, sensed, lastSync, commands, faults>>

\* The write raises, and the task ends: an earlier pulse's timer stays cancelled.
SwitchOnFails(k) ==
    /\ k \in tasks /\ ~k.done
    /\ faults < MaxFaults
    /\ faults' = faults + 1
    /\ tasks' = tasks \ {k}
    /\ abandoned' = abandoned \union {k.relay}
    /\ UNCHANGED <<config, gate, relay, timers, handle, offs, sensed, lastSync, commands>>

\* Fault for the runs: a timer that is there already is thought to be enough.
PulsedOnce(k) ==
    /\ k \in tasks /\ k.done
    /\ tasks' = tasks \ {k}
    /\ timers' = IF config.held \/ handle # None THEN timers ELSE timers \union {TimerOf(k)}
    /\ handle' = IF config.held \/ k.old THEN handle ELSE k.id
    /\ IF k.old THEN UNCHANGED gate ELSE Afterwards(k.cmd, k.stops)
    /\ UNCHANGED <<config, relay, offs, abandoned, sensed, lastSync, commands, faults>>

\* The rest of _pulse_relay and of the command.
Pulsed(k) ==
    /\ k \in tasks /\ k.done
    /\ tasks' = tasks \ {k}
    /\ timers' = IF config.held THEN timers ELSE timers \union {TimerOf(k)}
    /\ handle' = IF config.held \/ k.old THEN handle ELSE k.id
    /\ IF k.old THEN UNCHANGED gate ELSE Afterwards(k.cmd, k.stops)
    /\ UNCHANGED <<config, relay, offs, abandoned, sensed, lastSync, commands, faults>>

(***************************************************************************)
(* _relay_off: the executor thread, and then the handle, whosever it is.   *)
(***************************************************************************)
Fires(t) ==
    /\ t \in timers
    /\ timers' = timers \ {t}
    /\ offs' = offs \union {[id |-> t.id, relay |-> t.relay, old |-> t.old, done |-> FALSE]}
    /\ UNCHANGED <<config, gate, relay, tasks, handle, abandoned, sensed, lastSync, commands, faults>>

SwitchOff(o) ==
    /\ o \in offs /\ ~o.done
    /\ relay' = relay \ {o.relay}
    /\ offs' = (offs \ {o}) \union {[o EXCEPT !.done = TRUE]}
    /\ UNCHANGED <<config, gate, tasks, timers, handle, abandoned, sensed, lastSync, commands, faults>>

\* The write raises, and the task ends.
SwitchOffFails(o) ==
    /\ o \in offs /\ ~o.done
    /\ faults < MaxFaults
    /\ faults' = faults + 1
    /\ offs' = offs \ {o}
    /\ abandoned' = abandoned \union {o.relay}
    /\ UNCHANGED <<config, gate, relay, tasks, timers, handle, sensed, lastSync, commands>>

Forget(o) ==
    /\ o \in offs /\ o.done
    /\ offs' = offs \ {o}
    /\ handle' = IF o.old THEN handle ELSE None
    /\ UNCHANGED <<config, gate, relay, tasks, timers, abandoned, sensed, lastSync, commands, faults>>

(***************************************************************************)
(* The contacts, and on_sensor_event.                                      *)
(***************************************************************************)
\* The gate leaves an end, or reaches one.
Move ==
    /\ moves < MaxMoves
    /\ moves' = moves + 1
    /\ \E s \in Sensors :
           /\ contacts \in {{}, {s}}
           /\ contacts' = {s} \ contacts
           /\ queue' = queue \o (IF s \in config.sensors THEN <<Event(s, FALSE)>> ELSE <<>>)
    /\ UNCHANGED <<config, gate, relays, lastSync, commands, faults>>

Become(s, o) == state' = s /\ operation' = o

\* Fault for the runs: the gate is remembered as moving when it has arrived.
SensorEventStateOnly(e) ==
    \/ e.sensor = "closed" /\ e.closed /\ Become("closed", operation)
    \/ e.sensor = "closed" /\ ~e.closed /\ "open" \in config.sensors /\ Become("opening", "opening")
    \/ e.sensor = "closed" /\ ~e.closed /\ "open" \notin config.sensors /\ Become("open", "idle")
    \/ e.sensor = "open" /\ e.closed /\ Become("open", "idle")
    \/ e.sensor = "open" /\ ~e.closed /\ Become("closing", "closing")

SensorEvent(e) ==
    \/ e.sensor = "closed" /\ e.closed /\ Become("closed", "idle")
    \/ e.sensor = "closed" /\ ~e.closed /\ "open" \in config.sensors /\ Become("opening", "opening")
    \/ e.sensor = "closed" /\ ~e.closed /\ "open" \notin config.sensors /\ Become("open", "idle")
    \/ e.sensor = "open" /\ e.closed /\ Become("open", "idle")
    \/ e.sensor = "open" /\ ~e.closed /\ Become("closing", "closing")

\* A lock that is held on is released when the door is found open.
Deliver ==
    /\ queue # <<>>
    /\ LET e == Head(queue)
       IN  /\ SensorEvent(e)
           /\ lastSync' = e.sync
           /\ offs' = IF config.held /\ e.sensor = "open" /\ e.closed
                      THEN offs \union {[id |-> None, relay |-> "pulse", old |-> FALSE, done |-> FALSE]}
                      ELSE offs
    /\ queue' = Tail(queue)
    /\ UNCHANGED <<config, relay, tasks, timers, handle, abandoned, contacts, moves, commands, faults>>

(***************************************************************************)
(* A reload of the templates: the gate is stopped and configured anew.     *)
(* Tasks under way go on with the old one.                                 *)
(***************************************************************************)
Aged(S) == {[x EXCEPT !.old = TRUE] : x \in S}

Reload ==
    /\ commands < MaxCommands
    /\ commands' = commands + 1
    /\ state' = "closed" /\ operation' = "idle"
    /\ tasks' = Aged(tasks)
    /\ timers' = Aged(timers \ Timer(handle))
    /\ offs' = Aged(offs)
    /\ handle' = None
    /\ abandoned' = abandoned \union {t.relay : t \in Timer(handle)}
    /\ queue' = queue \o Asked
    /\ lastSync' = TRUE
    /\ UNCHANGED <<config, relay, contacts, moves, faults>>

Next ==
    \/ \E cmd \in {"OPEN", "CLOSE", "STOP"} : Command(cmd) \/ Ignored(cmd)
    \/ \E k \in tasks : SwitchOn(k) \/ SwitchOnFails(k) \/ Pulsed(k)
    \/ \E t \in timers : Fires(t)
    \/ \E o \in offs : SwitchOff(o) \/ SwitchOffFails(o) \/ Forget(o)
    \/ Move \/ Deliver \/ Reload

\* Executor threads finish, the loop runs its tasks, timers fire.
Spec ==
    /\ Init /\ [][Next]_vars
    /\ WF_vars(\E k \in tasks : SwitchOn(k) \/ Pulsed(k))
    /\ WF_vars(\E t \in timers : Fires(t))
    /\ WF_vars(\E o \in offs : SwitchOff(o) \/ Forget(o))
    /\ WF_vars(Deliver)

(***************************************************************************)
(* Properties.                                                             *)
(***************************************************************************)
TypeOK ==
    /\ config \in Configs
    /\ state \in {"closed", "open", "opening", "closing"} /\ operation \in {"idle", "opening", "closing"}
    /\ relay \subseteq Relays /\ abandoned \subseteq Relays
    /\ handle \in {None} \union 1 .. MaxCommands
    /\ timers \subseteq [id : 1 .. MaxCommands, relay : Relays, old : BOOLEAN]
    /\ contacts \in {{}, {"closed"}, {"open"}}
    /\ {commands, moves, faults} \subseteq Nat /\ lastSync \in BOOLEAN

\* Every relay that a pulse switched on goes off, however pulses, timers and relay_off tasks
\* overlap, unless its timer was cancelled by the pulse of another relay, by one that failed or by a
\* reload, or the write that was to switch it off raised.
PulsesEnd ==
    \A r \in Relays : (~config.held /\ r \in relay) ~> (r \notin relay \/ r \in abandoned)
=============================================================================

