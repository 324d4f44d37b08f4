----------------------------- MODULE AlarmPanel -----------------------------
(***************************************************************************)
(* The alarm panel (components/template/alarm_panel.py).  Its state        *)
(* machine changes state at once, in the event loop; what takes time is    *)
(* switching its outputs, one awaited write after the other, and between   *)
(* two of them commands, input events and timers go on changing the state. *)
(*                                                                         *)
(* A timer does not act itself: its callback creates a task, which runs    *)
(* when the loop comes to it.  So does an input that triggers at once.     *)
(*                                                                         *)
(* Inputs reach the panel through the queue of the event bus.  Commands    *)
(* whose code is refused change nothing and are left out.                  *)
(***************************************************************************)
EXTENDS Integers, Sequences, FiniteSets

CONSTANTS
  NumZones,     \* zones are numbered in configuration order
  Modes,        \* the armed states: armed_home, armed_away, armed_night
  Inputs,       \* the inputs, whatever their wiring
  ZoneInputs,   \* [Zones -> SUBSET Inputs]
  ArmModes,     \* [Zones -> SUBSET Modes]
  EntryDelay,   \* [Zones -> BOOLEAN]
  Configs,      \* the configurations of the delays, see Delays
  NumOutputs,   \* sirens and lights, in configuration order
  Tasks,        \* slots for the tasks in progress
  MaxCommands,  \* bound on commands
  MaxChanges,   \* bound on changes of the inputs
  MaxFaults,    \* bound on output writes that raise
  MaxRestarts,  \* bound on crashes
  None

Zones == 1..NumZones
Outputs == 1..NumOutputs
Stable == Modes \cup {"disarmed"}
States == Stable \cup {"arming", "pending", "triggered"}

\* arming_time > 0, and trigger_time > 0.
Delays == [exit : BOOLEAN, autoDisarm : BOOLEAN]

ASSUME ZonesAssumption ==
  /\ NumZones \in Nat /\ IsFiniteSet(Inputs) /\ ZoneInputs \in [Zones -> SUBSET Inputs]
  /\ ArmModes \in [Zones -> SUBSET Modes] /\ EntryDelay \in [Zones -> BOOLEAN]
ASSUME ModesAssumption == Modes \cap {"disarmed", "arming", "pending", "triggered"} = {}
ASSUME OutputsAssumption == NumOutputs \in Nat \ {0} /\ Configs \subseteq Delays
ASSUME NoneAssumption == None \notin States
ASSUME BoundsAssumption ==
  /\ MaxCommands \in Nat /\ MaxChanges \in Nat /\ MaxFaults \in Nat /\ MaxRestarts \in Nat

VARIABLES
  config,        \* the delays
  state,         \* _state
  target,        \* _pending_arm_mode
  armingTimer,   \* the call_later handle of _arming_timer is pending,
  delayTimer,    \*   that of _delay_timer,
  triggerTimer,  \*   and that of _trigger_timer
  orphans,       \* trigger timers pending that _trigger_timer no longer refers to
  siren,         \* the relays of the outputs
  pc,            \* what each task is doing
  at,            \* the output it is switching
  io,            \* "submitted" to the executor, or "done"
  tripped,       \* the inputs that would trigger
  queue,         \* input events on the event bus
  kept,          \* the state the state manager holds, None if none,
  disk,          \*   and what its file says
  overlapped,    \* a command, an event or a timer once came to a task in progress
  rearmed,       \* the panel was once armed with a siren or a task in progress
  cmds, changes, faults, restarts   \* up to their bounds

timers == <<armingTimer, delayTimer, triggerTimer, orphans>>
task == <<pc, at, io>>
inputs == <<tripped, queue, changes>>
stored == <<kept, disk, restarts>>
vars == <<config, state, target, timers, siren, task, inputs, stored, overlapped, rearmed,
          cmds, faults>>

Places == {"free", "toTrigger", "toDisarm", "toArm", "activating", "deactivating"}
Free(t) == pc[t] = "free"
AtRest == \A t \in Tasks : Free(t)
Silent == \A o \in Outputs : ~siren[o]

-----------------------------------------------------------------------------
\* The state machine: what its methods do before their first await.

\* A task gets a place; it is known if another one is in progress.
Begins(t, place) ==
  /\ Free(t)
  /\ pc' = [pc EXCEPT ![t] = place]
  /\ at' = [at EXCEPT ![t] = 1] /\ io' = [io EXCEPT ![t] = "submitted"]
  /\ overlapped' = (overlapped \/ ~AtRest)

\* The task at a place goes on to another one, from the first output.
GoesOn(t, place) ==
  /\ pc' = [pc EXCEPT ![t] = place]
  /\ UNCHANGED <<at, io, overlapped>>

CancelAllTimers ==
  armingTimer' = FALSE /\ delayTimer' = FALSE /\ triggerTimer' = FALSE /\ UNCHANGED orphans

\* _trigger
Trigger ==
  /\ CancelAllTimers
  /\ state' = "triggered"
  /\ UNCHANGED <<target, stored>>

\* Fault for the runs: the timers go on.
DisarmKeepsTimers ==
  /\ state' = "disarmed" /\ target' = None
  /\ UNCHANGED <<timers, stored>>

\* _disarm
Disarm ==
  /\ CancelAllTimers
  /\ state' = "disarmed" /\ target' = None
  /\ UNCHANGED stored

\* _complete_arming: unless it was disarmed meanwhile.
CompleteArming(m) ==
  /\ state' = m /\ target' = None
  /\ kept' = m
  /\ UNCHANGED <<disk, restarts>>

\* _check_zones_clear
Blocked(m) == \E z \in Zones : m \in ArmModes[z] /\ ZoneInputs[z] \cap tripped # {}

\* Fault for the runs: the timers are cancelled before the zones are checked.
ArmCancelsFirst(m) ==
  \/ /\ Blocked(m) /\ CancelAllTimers
     /\ UNCHANGED <<state, target, stored, rearmed>>
  \/ /\ ~Blocked(m) /\ CancelAllTimers
     /\ CompleteArming(m)
     /\ UNCHANGED rearmed

\* _arm, which asks for no state to arm from.
Arm(m) ==
  /\ ~Blocked(m)
  /\ rearmed' = (rearmed \/ ~AtRest \/ ~Silent)
  /\ \/ /\ config.exit
        /\ state' = "arming" /\ target' = m
        /\ armingTimer' = TRUE /\ delayTimer' = FALSE /\ triggerTimer' = FALSE
        /\ UNCHANGED <<orphans, stored>>
     \/ /\ ~config.exit
        /\ CancelAllTimers
        /\ CompleteArming(m)

\* handle_command
Command ==
  /\ cmds < MaxCommands /\ cmds' = cmds + 1
  /\ \/ /\ \/ Disarm /\ \E t \in Tasks : Begins(t, "deactivating")
           \/ Trigger /\ \E t \in Tasks : Begins(t, "activating")
        /\ UNCHANGED rearmed
     \/ /\ \E m \in Modes : Arm(m)
        /\ overlapped' = (overlapped \/ ~AtRest)
        /\ UNCHANGED task
  /\ UNCHANGED <<config, siren, inputs, faults>>

-----------------------------------------------------------------------------
\* Tasks.

\* A task created by a timer or an input runs.
Runs(t) ==
  /\ \/ pc[t] = "toTrigger" /\ Trigger /\ GoesOn(t, "activating")
     \/ pc[t] = "toDisarm" /\ Disarm /\ GoesOn(t, "deactivating")
     \/ /\ pc[t] = "toArm" /\ GoesOn(t, "free")
        /\ IF target = None
           THEN UNCHANGED <<state, target, stored>>
           ELSE CompleteArming(target)
        /\ UNCHANGED timers
  /\ UNCHANGED <<config, siren, inputs, rearmed, cmds, faults>>

\* A thread of the executor switches the output, or raises, which is logged only.
Write(t) ==
  /\ pc[t] \in {"activating", "deactivating"} /\ io[t] = "submitted"
  /\ io' = [io EXCEPT ![t] = "done"]
  /\ \/ /\ siren' = [siren EXCEPT ![at[t]] = pc[t] = "activating"]
        /\ UNCHANGED faults
     \/ /\ faults < MaxFaults /\ faults' = faults + 1
        /\ UNCHANGED siren
  /\ UNCHANGED <<config, state, target, timers, pc, at, inputs, stored, overlapped, rearmed, cmds>>

\* The next iteration of _activate_outputs or _deactivate_outputs.
NextOutput(t) ==
  /\ pc[t] \in {"activating", "deactivating"} /\ io[t] = "done" /\ at[t] < NumOutputs
  /\ at' = [at EXCEPT ![t] = @ + 1]
  /\ io' = [io EXCEPT ![t] = "submitted"]
  /\ UNCHANGED <<config, state, target, timers, siren, pc, inputs, stored, overlapped, rearmed,
                 cmds, faults>>

\* Fault for the runs: the alarm has no end.
ActivatedForEver(t) ==
  /\ pc[t] = "activating" /\ io[t] = "done" /\ at[t] = NumOutputs
  /\ GoesOn(t, "free")
  /\ UNCHANGED <<config, state, target, timers, siren, inputs, stored, rearmed, cmds, faults>>

\* The rest of _trigger: a handle still pending is overwritten, not cancelled.
Activated(t) ==
  /\ pc[t] = "activating" /\ io[t] = "done" /\ at[t] = NumOutputs
  /\ GoesOn(t, "free")
  /\ IF config.autoDisarm
     THEN /\ triggerTimer' = TRUE
          /\ orphans' = IF triggerTimer THEN orphans + 1 ELSE orphans
     ELSE UNCHANGED <<triggerTimer, orphans>>
  /\ UNCHANGED <<config, state, target, armingTimer, delayTimer, siren, inputs, stored, rearmed,
                 cmds, faults>>

\* Fault for the runs: the panel is not saved.
DeactivatedUnsaved(t) ==
  /\ pc[t] = "deactivating" /\ io[t] = "done" /\ at[t] = NumOutputs
  /\ GoesOn(t, "free")
  /\ UNCHANGED <<config, state, target, timers, siren, inputs, stored, rearmed, cmds, faults>>

\* The rest of _disarm: _persist_state saves the state of now, if it is stable.
Deactivated(t) ==
  /\ pc[t] = "deactivating" /\ io[t] = "done" /\ at[t] = NumOutputs
  /\ GoesOn(t, "free")
  /\ kept' = IF state \in Stable THEN state ELSE kept
  /\ UNCHANGED <<config, state, target, timers, siren, inputs, disk, restarts, rearmed, cmds,
                 faults>>

\* A call_later handle fires: its callback creates a task.
TimerFires(t) ==
  /\ \/ /\ armingTimer /\ armingTimer' = FALSE /\ Begins(t, "toArm")
        /\ UNCHANGED <<delayTimer, triggerTimer, orphans>>
     \/ /\ delayTimer /\ delayTimer' = FALSE /\ Begins(t, "toTrigger")
        /\ UNCHANGED <<armingTimer, triggerTimer, orphans>>
     \/ /\ triggerTimer /\ triggerTimer' = FALSE /\ Begins(t, "toDisarm")
        /\ UNCHANGED <<armingTimer, delayTimer, orphans>>
     \/ /\ orphans > 0 /\ orphans' = orphans - 1 /\ Begins(t, "toDisarm")
        /\ UNCHANGED <<armingTimer, delayTimer, triggerTimer>>
  /\ UNCHANGED <<config, state, target, siren, inputs, stored, rearmed, cmds, faults>>

-----------------------------------------------------------------------------
\* Inputs.

\* The world opens a door or a window, or closes it.
InputChanges(i) ==
  /\ changes < MaxChanges /\ changes' = changes + 1
  /\ tripped' = IF i \in tripped THEN tripped \ {i} ELSE tripped \cup {i}
  /\ queue' = Append(queue, [input |-> i, trips |-> i \notin tripped])
  /\ UNCHANGED <<config, state, target, timers, siren, task, stored, overlapped, rearmed, cmds,
                 faults>>

\* The zone an event is for: the first one active that has the input.
Concerns(z, i) == i \in ZoneInputs[z] /\ state \in ArmModes[z]
First(z, i) == Concerns(z, i) /\ \A y \in Zones : y < z => ~Concerns(y, i)

\* on_input_event, in the worker of the event bus.
InputEvent ==
  /\ queue # <<>> /\ queue' = Tail(queue)
  /\ LET e == Head(queue)
         heard == {z \in Zones : e.trips /\ state \in Modes /\ First(z, e.input)}
     IN \/ /\ heard = {}
           /\ UNCHANGED <<state, delayTimer, task, overlapped>>
        \/ /\ \E z \in heard : EntryDelay[z]
           /\ state' = "pending" /\ delayTimer' = TRUE
           /\ overlapped' = (overlapped \/ ~AtRest)
           /\ UNCHANGED task
        \/ /\ \E z \in heard : ~EntryDelay[z]
           /\ \E t \in Tasks : Begins(t, "toTrigger")
           /\ UNCHANGED <<state, delayTimer>>
  /\ UNCHANGED <<config, target, armingTimer, triggerTimer, orphans, siren, tripped, changes,
                 stored, rearmed, cmds, faults>>

-----------------------------------------------------------------------------
\* Persistence.

\* The state manager writes its file, a second after the last save_attribute.
SaveState ==
  /\ disk # kept /\ disk' = kept
  /\ UNCHANGED <<config, state, target, timers, siren, task, inputs, kept, restarts, overlapped,
                 rearmed, cmds, faults>>

\* At start every input reports, in some order, whether it is tripped.
Reports == {q \in [1..Cardinality(Inputs) -> [input : Inputs, trips : BOOLEAN]] :
              \A i \in Inputs : \E n \in DOMAIN q : q[n] = [input |-> i, trips |-> i \in tripped]}

\* A crash: the panel comes up with what the file says, its outputs off.
Restart ==
  /\ restarts < MaxRestarts /\ restarts' = restarts + 1
  /\ kept' = disk /\ state' = IF disk = None THEN "disarmed" ELSE disk
  /\ target' = None
  /\ armingTimer' = FALSE /\ delayTimer' = FALSE /\ triggerTimer' = FALSE /\ orphans' = 0
  /\ siren' = [o \in Outputs |-> FALSE]
  /\ pc' = [t \in Tasks |-> "free"] /\ at' = [t \in Tasks |-> 1]
  /\ io' = [t \in Tasks |-> "done"]
  /\ queue' \in Reports
  /\ UNCHANGED <<config, tripped, changes, disk, overlapped, rearmed, cmds, faults>>

-----------------------------------------------------------------------------
Init ==
  /\ config \in Configs
  /\ state = "disarmed" /\ target = None
  /\ armingTimer = FALSE /\ delayTimer = FALSE /\ triggerTimer = FALSE /\ orphans = 0
  /\ siren = [o \in Outputs |-> FALSE]
  /\ pc = [t \in Tasks |-> "free"] /\ at = [t \in Tasks |-> 1] /\ io = [t \in Tasks |-> "done"]
  /\ tripped = {} /\ queue = <<>>
  /\ kept = None /\ disk = None
  /\ overlapped = FALSE /\ rearmed = FALSE
  /\ cmds = 0 /\ changes = 0 /\ faults = 0 /\ restarts = 0

Step(t) == Runs(t) \/ Write(t) \/ NextOutput(t) \/ Activated(t) \/ Deactivated(t)

Next ==
  \/ Command \/ InputEvent \/ SaveState \/ Restart
  \/ \E t \in Tasks : Step(t) \/ TimerFires(t)
  \/ \E i \in Inputs : InputChanges(i)

\* The loop runs every task and serves the event bus, the executor writes, timers
\* fire and the file is saved; commands, inputs and crashes are owed nothing.
Fairness ==
  /\ WF_vars(InputEvent) /\ WF_vars(SaveState)
  /\ \A t \in Tasks : WF_vars(Step(t)) /\ WF_vars(TimerFires(t))

Spec == Init /\ [][Next]_vars
FairSpec == Spec /\ Fairness

Events == [input : Inputs, trips : BOOLEAN]

TypeOK ==
  /\ config \in Delays /\ state \in States /\ target \in Modes \cup {None}
  /\ armingTimer \in BOOLEAN /\ delayTimer \in BOOLEAN /\ triggerTimer \in BOOLEAN
  /\ orphans \in Nat /\ siren \in [Outputs -> BOOLEAN]
  /\ pc \in [Tasks -> Places] /\ at \in [Tasks -> Outputs]
  /\ io \in [Tasks -> {"submitted", "done"}]
  /\ tripped \in SUBSET Inputs /\ queue \in Seq(Events)
  /\ kept \in Stable \cup {None} /\ disk \in Stable \cup {None}
  /\ overlapped \in BOOLEAN /\ rearmed \in BOOLEAN
  /\ cmds \in 0..MaxCommands /\ changes \in 0..MaxChanges
  /\ faults \in 0..MaxFaults /\ restarts \in 0..MaxRestarts

-----------------------------------------------------------------------------
\* Properties.

\* However commands, inputs and timers overlap, the states that are to last for a
\* time only have their timer, or the task it created: a panel never stays arming,
\* and a pending alarm is never forgotten.
TransientIsTimed ==
  /\ state = "arming" => target # None /\ (armingTimer \/ \E t \in Tasks : pc[t] = "toArm")
  /\ state = "pending" => delayTimer \/ \E t \in Tasks : pc[t] = "toTrigger"

\* _disarm: "Disarm the alarm, cancel all timers, turn off outputs."
DisarmedIsSilent ==
  AtRest /\ faults = 0 /\ state = "disarmed" =>
    Silent /\ ~armingTimer /\ ~delayTimer /\ ~triggerTimer /\ orphans = 0

\* It is as long as commands, inputs and timers do not overlap.
DisarmedIsSilentInTurn == ~overlapped => DisarmedIsSilent

\* However they overlap, a panel at rest in a state worth saving has saved it: a
\* disarm that took long does not save over an arming that overtook it.
KeptIsState ==
  AtRest /\ state \in Stable => kept = state \/ (kept = None /\ state = "disarmed")

\* A timer of an earlier alarm, arming or entry disturbs no later state: an armed
\* panel is disarmed, and a disarmed one armed or triggered, by commands only.
OnlyCommandsTurn ==
  [][~overlapped' /\ restarts' = restarts /\ cmds' = cmds =>
       /\ state \in Modes => state' # "disarmed"
       /\ state = "disarmed" => state' = "disarmed"]_vars

\* A panel with a trigger time falls silent once commands and inputs stop, however
\* they overlapped, unless it was armed again while its sirens were on.
AlarmEnds ==
  <>[](Silent \/ rearmed \/ faults > 0 \/ ~config.autoDisarm)

=============================================================================
