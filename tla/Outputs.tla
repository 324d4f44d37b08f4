------------------------------ MODULE Outputs -------------------------------
(***************************************************************************)
(* The outputs of an MCP23017 expander: components/output/basic.py and     *)
(* mcp.py, with the software interlock (integration/interlock.py) and the  *)
(* auto-off timer of momentary and adjustable-duration outputs.            *)
(*                                                                         *)
(* A command is a coroutine of the event loop: it checks the interlock     *)
(* there and leaves the switching to a thread of the executor, which       *)
(* writes the pin, the software state and the timer handle in that order.  *)
(* The interlock reads the software state, not the pin.                    *)
(***************************************************************************)
EXTENDS Integers, FiniteSets

CONSTANTS
  NumOutputs,    \* outputs are numbered in configuration order
  Groups,        \* the interlock groups, sets of outputs
  Momentary,     \* the outputs with momentary_turn_on or adjustable_duration
  SavedOn,       \* the sets of outputs the saved state may turn on at startup
  Tasks,         \* slots for commands and timer callbacks in progress
  Timers,        \* slots for call_later handles
  MaxCommands,   \* bound on commands
  MaxFaults,     \* bound on pin writes that raise (I2C errors)
  None

Outputs == 1..NumOutputs
Rivals(o, p) == o # p /\ \E g \in Groups : {o, p} \subseteq g

ASSUME OutputsAssumption ==
  /\ NumOutputs \in Nat \ {0} /\ Momentary \subseteq Outputs
  /\ Groups \subseteq SUBSET Outputs /\ SavedOn \subseteq SUBSET Outputs
ASSUME NoneAssumption == None \notin Timers \cup Outputs
ASSUME BoundsAssumption == MaxCommands \in Nat /\ MaxFaults \in Nat

VARIABLES
  pin,         \* the relays
  state,       \* _state of each output, TRUE for ON
  handle,      \* _momentary_action: the timer it cancels
  armed,       \* the output each pending timer switches off, None if not pending
  pc,          \* where each task is, in its coroutine or in its thread
  out,         \* the output it switches
  stamped,     \* it was called with a timestamp: by a timer
  sends,       \* async_send_state tasks created and not yet run, per output
  restored,    \* the outputs that are as the startup left them, on
  overlapped,  \* two tasks were once in progress together
  cmds,        \* commands sent, up to MaxCommands
  faults       \* writes failed, up to MaxFaults

vars == <<pin, state, handle, armed, pc, out, stamped, sends, restored, overlapped, cmds, faults>>

Places == {"free", "denied", "asleep", "onPin", "onState", "onCancel", "onArm", "onDone",
           "offPin", "offState", "offCancel", "offDone"}
Free(t) == pc[t] = "free"
Goto(t, place) == pc' = [pc EXCEPT ![t] = place]
Quiet == (\A t \in Tasks : Free(t)) /\ \A o \in Outputs : sends[o] = 0

-----------------------------------------------------------------------------
\* The event loop.

\* check_interlock
CanTurnOn(o) == \A p \in Outputs : Rivals(o, p) => ~state[p]

\* A task for output o begins at a place; it is known if another is in progress.
Begins(t, o, place, stamp) ==
  /\ Free(t)
  /\ Goto(t, place)
  /\ out' = [out EXCEPT ![t] = o]
  /\ stamped' = [stamped EXCEPT ![t] = stamp]
  /\ overlapped' = (overlapped \/ \E u \in Tasks : ~Free(u))

TurnOn(t, o) == Begins(t, o, IF CanTurnOn(o) THEN "onPin" ELSE "denied", FALSE)
TurnOff(t, o) == Begins(t, o, "offPin", FALSE)

\* async_turn_on, async_turn_off and async_toggle, up to their first await.
Command(t) ==
  /\ cmds < MaxCommands /\ cmds' = cmds + 1
  /\ \E o \in Outputs :
       \/ TurnOn(t, o)
       \/ TurnOff(t, o)
       \/ state[o] /\ TurnOff(t, o)
       \/ ~state[o] /\ TurnOn(t, o)
  /\ UNCHANGED <<pin, state, handle, armed, sends, restored, faults>>

\* A denied output claims ON for 10 ms, so that Home Assistant sees it go OFF again.
SendOptimistic(t) ==
  /\ pc[t] = "denied"
  /\ state' = [state EXCEPT ![out[t]] = TRUE]
  /\ Goto(t, "asleep")
  /\ UNCHANGED <<pin, handle, armed, out, stamped, sends, restored, overlapped, cmds, faults>>

\* The rest of async_turn_on, after the thread or after the sleep.
TurnedOn(t) ==
  /\ pc[t] \in {"asleep", "onDone"}
  /\ sends' = [sends EXCEPT ![out[t]] = @ + 1]
  /\ Goto(t, "free")
  /\ UNCHANGED <<pin, state, handle, armed, out, stamped, restored, overlapped, cmds, faults>>

\* A created async_send_state task: the state is read back from the expander.
SendState(o) ==
  /\ sends[o] > 0
  /\ sends' = [sends EXCEPT ![o] = @ - 1]
  /\ state' = [state EXCEPT ![o] = pin[o]]
  /\ UNCHANGED <<pin, handle, armed, pc, out, stamped, restored, overlapped, cmds, faults>>

\* Fault for the runs: the state is not read back.
TurnedOffSilently(t) ==
  /\ pc[t] = "offDone"
  /\ handle' = IF stamped[t] THEN [handle EXCEPT ![out[t]] = None] ELSE handle
  /\ Goto(t, "free")
  /\ UNCHANGED <<pin, state, armed, out, stamped, sends, restored, overlapped, cmds, faults>>

\* The rest of async_turn_off and, for a timer, of _momentary_callback.
TurnedOff(t) ==
  /\ pc[t] = "offDone"
  /\ state' = [state EXCEPT ![out[t]] = pin[out[t]]]
  /\ handle' = IF stamped[t] THEN [handle EXCEPT ![out[t]] = None] ELSE handle
  /\ Goto(t, "free")
  /\ UNCHANGED <<pin, armed, out, stamped, sends, restored, overlapped, cmds, faults>>

\* A timer comes due: _momentary_callback awaits async_turn_off(timestamp).
TimerFires(t) ==
  /\ \E m \in Timers :
       /\ armed[m] # None
       /\ armed' = [armed EXCEPT ![m] = None]
       /\ Begins(t, armed[m], "offPin", TRUE)
  /\ UNCHANGED <<pin, state, handle, sends, restored, cmds, faults>>

-----------------------------------------------------------------------------
\* The executor's threads, turn_on and turn_off of MCPOutput.

WritePin(t) ==
  /\ \/ pc[t] = "onPin" /\ pin' = [pin EXCEPT ![out[t]] = TRUE] /\ Goto(t, "onState")
     \/ pc[t] = "offPin" /\ pin' = [pin EXCEPT ![out[t]] = FALSE] /\ Goto(t, "offState")
  /\ restored' = restored \ {out[t]}
  /\ UNCHANGED <<state, handle, armed, out, stamped, sends, overlapped, cmds, faults>>

\* set_pin_value raises: so does the coroutine, which ends there.
WriteFails(t) ==
  /\ pc[t] \in {"onPin", "offPin"} /\ faults < MaxFaults
  /\ faults' = faults + 1
  /\ Goto(t, "free")
  /\ UNCHANGED <<pin, state, handle, armed, out, stamped, sends, restored, overlapped, cmds>>

\* Fault for the runs: the software state is left to async_send_state.
WriteStateLater(t) ==
  /\ \/ pc[t] = "onState" /\ Goto(t, IF stamped[t] THEN "onDone" ELSE "onCancel")
     \/ pc[t] = "offState" /\ Goto(t, IF stamped[t] THEN "offDone" ELSE "offCancel")
  /\ UNCHANGED <<pin, state, handle, armed, out, stamped, sends, restored, overlapped, cmds, faults>>

WriteState(t) ==
  /\ \/ /\ pc[t] = "onState"
        /\ state' = [state EXCEPT ![out[t]] = TRUE]
        /\ Goto(t, "onCancel")
     \/ /\ pc[t] = "offState"
        /\ state' = [state EXCEPT ![out[t]] = FALSE]
        /\ Goto(t, IF stamped[t] THEN "offDone" ELSE "offCancel")
  /\ UNCHANGED <<pin, handle, armed, out, stamped, sends, restored, overlapped, cmds, faults>>

\* _execute_momentary_turn cancels the timer of the handle, which it keeps.
CancelTimer(t) ==
  /\ \/ pc[t] = "onCancel" /\ Goto(t, "onArm")
     \/ pc[t] = "offCancel" /\ Goto(t, "offDone")
  /\ LET m == handle[out[t]]
     IN armed' = IF m = None THEN armed ELSE [armed EXCEPT ![m] = None]
  /\ UNCHANGED <<pin, state, handle, out, stamped, sends, restored, overlapped, cmds, faults>>

\* Fault for the runs: an output that has a handle is taken to be timed already.
ArmTimerOnce(t) ==
  /\ pc[t] = "onArm"
  /\ \/ /\ out[t] \in Momentary /\ handle[out[t]] = None
        /\ \E m \in Timers :
             /\ armed[m] = None /\ \A o \in Outputs \ {out[t]} : handle[o] # m
             /\ armed' = [armed EXCEPT ![m] = out[t]]
             /\ handle' = [handle EXCEPT ![out[t]] = m]
     \/ (out[t] \notin Momentary \/ handle[out[t]] # None) /\ UNCHANGED <<armed, handle>>
  /\ Goto(t, "onDone")
  /\ UNCHANGED <<pin, state, out, stamped, sends, restored, overlapped, cmds, faults>>

\* A slot is taken again only when no handle refers to it.
ArmTimer(t) ==
  /\ pc[t] = "onArm"
  /\ \/ /\ out[t] \in Momentary
        /\ \E m \in Timers :
             /\ armed[m] = None /\ \A o \in Outputs \ {out[t]} : handle[o] # m
             /\ armed' = [armed EXCEPT ![m] = out[t]]
             /\ handle' = [handle EXCEPT ![out[t]] = m]
     \/ out[t] \notin Momentary /\ UNCHANGED <<armed, handle>>
  /\ Goto(t, "onDone")
  /\ UNCHANGED <<pin, state, out, stamped, sends, restored, overlapped, cmds, faults>>

-----------------------------------------------------------------------------
\* At startup an output is restored ON unless the interlock denies it; the denied
\* one keeps its restored software state until its delayed async_send_state.
Init ==
  /\ \E on \in SavedOn :
       /\ state = [o \in Outputs |-> o \in on]
       /\ pin = [o \in Outputs |-> o \in on /\ \A p \in on : p < o => ~Rivals(o, p)]
  /\ handle = [o \in Outputs |-> None] /\ armed = [m \in Timers |-> None]
  /\ pc = [t \in Tasks |-> "free"] /\ out = [t \in Tasks |-> 1]
  /\ stamped = [t \in Tasks |-> FALSE]
  /\ sends = [o \in Outputs |-> 1]
  /\ restored = {o \in Outputs : pin[o]}
  /\ overlapped = FALSE /\ cmds = 0 /\ faults = 0

Step(t) ==
  \/ SendOptimistic(t) \/ TurnedOn(t) \/ TurnedOff(t)
  \/ WritePin(t) \/ WriteFails(t) \/ WriteState(t) \/ CancelTimer(t) \/ ArmTimer(t)

Next ==
  \/ \E t \in Tasks : Command(t) \/ TimerFires(t) \/ Step(t)
  \/ \E o \in Outputs : SendState(o)

\* Threads and tasks are served and timers come due; nothing obliges a command.
Fairness ==
  /\ \A t \in Tasks : WF_vars(Step(t)) /\ WF_vars(TimerFires(t))
  /\ \A o \in Outputs : WF_vars(SendState(o))

Spec == Init /\ [][Next]_vars
FairSpec == Spec /\ Fairness

TypeOK ==
  /\ pin \in [Outputs -> BOOLEAN] /\ state \in [Outputs -> BOOLEAN]
  /\ handle \in [Outputs -> Timers \cup {None}] /\ armed \in [Timers -> Outputs \cup {None}]
  /\ pc \in [Tasks -> Places] /\ out \in [Tasks -> Outputs] /\ stamped \in [Tasks -> BOOLEAN]
  /\ sends \in [Outputs -> Nat] /\ restored \subseteq Outputs /\ overlapped \in BOOLEAN
  /\ cmds \in 0..MaxCommands /\ faults \in 0..MaxFaults

-----------------------------------------------------------------------------
\* Properties.

Exclusive == \A o, p \in Outputs : Rivals(o, p) => ~(pin[o] /\ pin[p])

\* As long as commands do not overlap, no two outputs of a group are ever on, with
\* whatever was restored at startup and for as long as a denied output claims ON.
ExclusiveInTurn == ~overlapped => Exclusive

\* However commands, callbacks, denials and failures overlap, once all is done the
\* software state the interlock and toggle rely on is that of the relay.
StateIsPin == Quiet => state = pin

\* adjustable_duration, schema/schema.yaml: "When ON is pressed, auto-OFF after this
\* duration": an output left on by commands has its timer.  One that was restored on has none.
OnIsTimed ==
  Quiet /\ faults = 0 =>
    \A o \in Momentary \ restored : pin[o] => \E m \in Timers : armed[m] = o

\* It does as long as commands do not overlap.
OnIsTimedInTurn == ~overlapped => OnIsTimed

\* Once commands stop, an output switched on for a time goes off again, unless
\* commands overlapped or the write that was to switch it off failed.
GoesOff ==
  <>[](overlapped \/ faults > 0 \/ \A o \in Momentary \ restored : ~pin[o])

=============================================================================
