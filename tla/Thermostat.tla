----------------------------- MODULE Thermostat -----------------------------
(***************************************************************************)
(* BoneIOThermostat: an output switched by temperature with hysteresis,    *)
(* and the routing of sensor events and reloads to it by TemplateManager.  *)
(*                                                                         *)
(* _evaluate switches the output only when the action changes, so it       *)
(* relies on the action to say what the output does.  Each switch is a     *)
(* task of its own whose pin is written by an executor thread: two of them *)
(* may finish in either order, and one that fails is only logged.          *)
(*                                                                         *)
(* Temperatures are integers; the average is compared as a sum.  Invalid   *)
(* payloads and the publishing of the state are left out.                  *)
(***************************************************************************)
EXTENDS Integers, FiniteSets, FiniteSetsExt

CONSTANTS
    None,          \* no reading
    Sensors,       \* the temperature sensors
    Temps,         \* what they read
    Asked,         \* the targets commands ask for
    MinTemp, MaxTemp, Hysteresis, Target, Mode,  \* the configuration
    MaxCommands,   \* bound on commands and reloads
    MaxReadings,   \* bound on sensor events
    MaxFaults      \* bound on writes that fail

VARIABLES
    mode,        \* _mode
    action,      \* _action
    target,      \* _target_temperature
    readings,    \* _sensor_readings
    pin,         \* the output's relay is on
    writes,      \* switches under way: a set of records
    orphaned,    \* history: the action became "idle" while it was "heating", by no _evaluate
    overlapped,  \* history: a switch began while another was under way
    faults, commands, events

vars == <<mode, action, target, readings, pin, writes,
          orphaned, overlapped, faults, commands, events>>

\* An unknown mode in the configuration is "heat".
Configured == IF Mode \in {"heat", "off"} THEN Mode ELSE "heat"
Initially == IF Configured = "heat" THEN "idle" ELSE "off"

Init ==
    /\ mode = Configured
    /\ action = Initially
    /\ target = Target
    /\ readings = [s \in Sensors |-> None]
    /\ pin = FALSE
    /\ writes = {}
    /\ orphaned = FALSE /\ overlapped = FALSE
    /\ faults = 0 /\ commands = 0 /\ events = 0

\* A task, and the executor thread it waits for.
Switch(on) ==
    /\ writes' = writes \union {[id |-> commands + events, on |-> on]}
    /\ overlapped' = (overlapped \/ writes # {})
NoSwitch == UNCHANGED <<writes, overlapped>>

(***************************************************************************)
(* _evaluate, after the readings or the target changed.                    *)
(***************************************************************************)
Known(r) == {s \in Sensors : r[s] # None}

\* The average of the known readings is at most, or at least, a bound.
AtMost(r, bound) == MapThenSumSet(LAMBDA s : r[s], Known(r)) <= bound * Cardinality(Known(r))
AtLeast(r, bound) == MapThenSumSet(LAMBDA s : r[s], Known(r)) >= bound * Cardinality(Known(r))

Cold(r, t) == Known(r) # {} /\ AtMost(r, t - Hysteresis)
Hot(r, t) == Known(r) # {} /\ ~Cold(r, t) /\ AtLeast(r, t + Hysteresis)

Become(a, on) == /\ action' = a
                 /\ Switch(on)

Evaluate ==
    \/ mode = "off" /\ action # "off" /\ Become("off", FALSE)
    \/ mode = "heat" /\ Cold(readings', target') /\ action # "heating" /\ Become("heating", TRUE)
    \/ mode = "heat" /\ Hot(readings', target') /\ action # "idle" /\ Become("idle", FALSE)
    \/ /\ mode = "off" => action = "off"
       /\ mode = "heat" => /\ Cold(readings', target') => action = "heating"
                           /\ Hot(readings', target') => action = "idle"
       /\ UNCHANGED action /\ NoSwitch

SensorEvent(s, t) ==
    /\ events < MaxReadings
    /\ events' = events + 1
    /\ readings' = [readings EXCEPT ![s] = t]
    /\ UNCHANGED <<mode, target, pin, orphaned, faults, commands>>
    /\ Evaluate

Clamp(t) == IF t < MinTemp THEN MinTemp ELSE IF t > MaxTemp THEN MaxTemp ELSE t

TemperatureCommand(t) ==
    /\ commands < MaxCommands
    /\ commands' = commands + 1
    /\ target' = Clamp(t)
    /\ UNCHANGED <<mode, readings, pin, orphaned, faults, events>>
    /\ Evaluate

(***************************************************************************)
(* Modes, and reloads: a thermostat is removed and configured anew, and    *)
(* its output stays as it is.                                              *)
(***************************************************************************)
TurnOff ==
    /\ commands < MaxCommands
    /\ commands' = commands + 1
    /\ mode' = "off"
    /\ Become("off", FALSE)
    /\ UNCHANGED <<target, readings, pin, orphaned, faults, events>>

TurnToHeat ==
    /\ commands < MaxCommands
    /\ commands' = commands + 1
    /\ mode' = "heat"
    /\ action' = "idle"
    /\ orphaned' = (orphaned \/ action = "heating")
    /\ NoSwitch
    /\ UNCHANGED <<target, readings, pin, faults, events>>

Reload ==
    /\ commands < MaxCommands
    /\ commands' = commands + 1
    /\ mode' = Configured
    /\ action' = Initially
    /\ target' = Target
    /\ readings' = [s \in Sensors |-> None]
    /\ orphaned' = (orphaned \/ action = "heating")
    /\ NoSwitch
    /\ UNCHANGED <<pin, faults, events>>

(***************************************************************************)
(* The switches.                                                           *)
(***************************************************************************)
Written(w) ==
    /\ w \in writes
    /\ writes' = writes \ {w}
    /\ pin' = w.on
    /\ UNCHANGED faults

WriteFails(w) ==
    /\ w \in writes
    /\ faults < MaxFaults
    /\ faults' = faults + 1
    /\ writes' = writes \ {w}
    /\ UNCHANGED pin

Done(w) ==
    /\ Written(w) \/ WriteFails(w)
    /\ UNCHANGED <<mode, action, target, readings, orphaned, overlapped, commands, events>>

Next ==
    \/ \E s \in Sensors, t \in Temps : SensorEvent(s, t)
    \/ \E t \in Asked : TemperatureCommand(t)
    \/ TurnOff \/ TurnToHeat \/ Reload
    \/ \E w \in writes : Done(w)

Spec == Init /\ [][Next]_vars

(***************************************************************************)
(* Properties.                                                             *)
(***************************************************************************)
TypeOK ==
    /\ mode \in {"heat", "off"} /\ action \in {"heating", "idle", "off"}
    /\ readings \in [Sensors -> Temps \union {None}]
    /\ pin \in BOOLEAN
    /\ writes \subseteq [id : Nat, on : BOOLEAN]
    /\ orphaned \in BOOLEAN /\ overlapped \in BOOLEAN
    /\ faults \in Nat /\ commands \in Nat /\ events \in Nat

Settled == writes = {} /\ faults = 0 /\ ~overlapped

\* As long as switches do not overlap or fail, the output is on exactly while the action is
\* "heating", unless a command or a reload took the action away without switching.
PinIsAction == (Settled /\ ~orphaned) => (pin <=> action = "heating")

\* "Turn OFF when temp rises above (target + hysteresis)".
HotIsOff == (Settled /\ Hot(readings, target)) => ~pin
=============================================================================
