-------------------------- MODULE AlarmPanelProofs --------------------------
(***************************************************************************)
(* Theorems about AlarmPanel, for any number of zones, inputs, outputs and *)
(* tasks, any delays, and any commands, faults and crashes.                *)
(***************************************************************************)
EXTENDS AlarmPanel, FiniteSetTheorems, TLAPS

\* What the state machine leaves behind before its first await.
LEMMA DisarmTyped ==
  ASSUME TypeOK, Disarm
  PROVE  /\ state' \in States /\ target' \in Modes \cup {None}
         /\ armingTimer' \in BOOLEAN /\ delayTimer' \in BOOLEAN /\ triggerTimer' \in BOOLEAN
         /\ orphans' \in Nat /\ UNCHANGED <<kept, disk, restarts>>
BY DEF TypeOK, Disarm, CancelAllTimers, States, Stable, stored

LEMMA TriggerTyped ==
  ASSUME TypeOK, Trigger
  PROVE  /\ state' \in States /\ target' \in Modes \cup {None}
         /\ armingTimer' \in BOOLEAN /\ delayTimer' \in BOOLEAN /\ triggerTimer' \in BOOLEAN
         /\ orphans' \in Nat /\ UNCHANGED <<kept, disk, restarts>>
BY DEF TypeOK, Trigger, CancelAllTimers, States, stored

LEMMA CompleteArmingTyped ==
  ASSUME TypeOK, NEW m \in Modes, CompleteArming(m)
  PROVE  /\ state' \in States /\ target' \in Modes \cup {None}
         /\ kept' \in Stable \cup {None} /\ UNCHANGED <<disk, restarts>>
BY DEF TypeOK, CompleteArming, States, Stable

LEMMA ArmTyped ==
  ASSUME TypeOK, NEW m \in Modes, Arm(m)
  PROVE  /\ state' \in States /\ target' \in Modes \cup {None}
         /\ armingTimer' \in BOOLEAN /\ delayTimer' \in BOOLEAN /\ triggerTimer' \in BOOLEAN
         /\ orphans' \in Nat /\ kept' \in Stable \cup {None} /\ rearmed' \in BOOLEAN
         /\ UNCHANGED <<disk, restarts>>
<1>1. rearmed' \in BOOLEAN
  BY Zenon DEF Arm
<1>2. CASE config.exit /\ state' = "arming" /\ target' = m /\ armingTimer' = TRUE
           /\ delayTimer' = FALSE /\ triggerTimer' = FALSE /\ UNCHANGED <<orphans, stored>>
  BY <1>1, <1>2 DEF TypeOK, States, stored
<1>3. CASE CancelAllTimers /\ CompleteArming(m)
  BY <1>1, <1>3, CompleteArmingTyped DEF TypeOK, CancelAllTimers
<1> QED
  BY <1>2, <1>3 DEF Arm

LEMMA BeginsTyped ==
  ASSUME TypeOK, NEW t \in Tasks, NEW place \in Places, Begins(t, place)
  PROVE  /\ pc' \in [Tasks -> Places] /\ at' \in [Tasks -> Outputs]
         /\ io' \in [Tasks -> {"submitted", "done"}] /\ overlapped' \in BOOLEAN
<1>1. 1 \in Outputs
  BY OutputsAssumption DEF Outputs
<1>2. overlapped' \in BOOLEAN
  BY Zenon DEF Begins
<1> QED
  BY <1>1, <1>2 DEF TypeOK, Begins

LEMMA CommandTyped ==
  ASSUME TypeOK, Command
  PROVE  TypeOK'
<1>1. cmds' \in 0..MaxCommands
  BY BoundsAssumption DEF TypeOK, Command
<1>2. UNCHANGED <<config, siren, tripped, queue, changes, faults>>
  BY DEF Command, inputs
<1>3. ASSUME NEW t \in Tasks, Disarm, Begins(t, "deactivating"), UNCHANGED rearmed
      PROVE  TypeOK'
  BY <1>1, <1>2, <1>3, DisarmTyped, BeginsTyped DEF TypeOK, Places
<1>4. ASSUME NEW t \in Tasks, Trigger, Begins(t, "activating"), UNCHANGED rearmed
      PROVE  TypeOK'
  BY <1>1, <1>2, <1>4, TriggerTyped, BeginsTyped DEF TypeOK, Places
<1>5. ASSUME NEW m \in Modes, Arm(m), overlapped' = (overlapped \/ ~AtRest), UNCHANGED task
      PROVE  TypeOK'
  <2>1. overlapped' \in BOOLEAN
    BY <1>5, Zenon
  <2> QED
    BY <1>1, <1>2, <1>5, <2>1, ArmTyped DEF TypeOK, task
<1> QED
  BY <1>3, <1>4, <1>5 DEF Command

LEMMA RunsTyped ==
  ASSUME TypeOK, NEW t \in Tasks, Runs(t)
  PROVE  TypeOK'
<1>1. UNCHANGED <<config, siren, tripped, queue, changes, rearmed, cmds, faults>>
  BY DEF Runs, inputs
<1>2. CASE Trigger /\ GoesOn(t, "activating")
  BY <1>1, <1>2, TriggerTyped DEF TypeOK, GoesOn, Places
<1>3. CASE Disarm /\ GoesOn(t, "deactivating")
  BY <1>1, <1>3, DisarmTyped DEF TypeOK, GoesOn, Places
<1>4. CASE GoesOn(t, "free") /\ UNCHANGED timers /\ UNCHANGED <<state, target, stored>>
  BY <1>1, <1>4 DEF TypeOK, GoesOn, Places, timers, stored
<1>5. CASE target # None /\ GoesOn(t, "free") /\ UNCHANGED timers /\ CompleteArming(target)
  <2>1. target \in Modes
    BY <1>5 DEF TypeOK
  <2> QED
    BY <1>1, <1>5, <2>1, CompleteArmingTyped DEF TypeOK, GoesOn, Places, timers
<1> QED
  BY <1>2, <1>3, <1>4, <1>5 DEF Runs

LEMMA StepTyped ==
  ASSUME TypeOK, NEW t \in Tasks, Step(t)
  PROVE  TypeOK'
<1>1. CASE Runs(t)
  BY <1>1, RunsTyped
<1>2. CASE Write(t)
  <2>1. faults' \in 0..MaxFaults
    BY <1>2, BoundsAssumption DEF TypeOK, Write
  <2>2. siren' \in [Outputs -> BOOLEAN]
    <3> DEFINE on == pc[t] = "activating"
    <3>1. on \in BOOLEAN /\ at[t] \in Outputs
      BY DEF TypeOK
    <3>2. siren' = [siren EXCEPT ![at[t]] = on] \/ siren' = siren
      BY <1>2, Zenon DEF Write
    <3> HIDE DEF on
    <3> QED
      BY <3>1, <3>2 DEF TypeOK
  <2> QED
    BY <1>2, <2>1, <2>2 DEF TypeOK, Write, timers, inputs, stored
<1>3. CASE NextOutput(t)
  <2>1. at[t] + 1 \in Outputs
    BY <1>3, OutputsAssumption DEF TypeOK, NextOutput, Outputs
  <2> QED
    BY <1>3, <2>1 DEF TypeOK, NextOutput, timers, inputs, stored
<1>4. CASE Activated(t)
  <2>1. triggerTimer' \in BOOLEAN /\ orphans' \in Nat
    <3>1. triggerTimer' \in BOOLEAN
      BY <1>4 DEF TypeOK, Activated
    <3>2. orphans' = orphans + 1 \/ orphans' = orphans
      BY <1>4, Zenon DEF Activated
    <3> QED
      BY <3>1, <3>2 DEF TypeOK
  <2>2. pc' = [pc EXCEPT ![t] = "free"] /\ UNCHANGED <<at, io, overlapped>>
    BY <1>4 DEF Activated, GoesOn
  <2> QED
    BY <1>4, <2>1, <2>2 DEF TypeOK, Activated, Places, inputs, stored
<1>5. CASE Deactivated(t)
  BY <1>5 DEF TypeOK, Deactivated, GoesOn, Places, timers, inputs
<1> QED
  BY <1>1, <1>2, <1>3, <1>4, <1>5 DEF Step

\* A timer that fires begins a task, whichever it is.
LEMMA TimerTyped ==
  ASSUME TypeOK, NEW t \in Tasks, TimerFires(t)
  PROVE  TypeOK'
<1>1. PICK place \in {"toArm", "toTrigger", "toDisarm"} : Begins(t, place)
  BY DEF TimerFires
<1>2. /\ armingTimer' \in BOOLEAN /\ delayTimer' \in BOOLEAN /\ triggerTimer' \in BOOLEAN
      /\ orphans' \in Nat
  <2>1. /\ armingTimer' \in {FALSE, armingTimer} /\ delayTimer' \in {FALSE, delayTimer}
        /\ triggerTimer' \in {FALSE, triggerTimer}
    BY DEF TimerFires
  <2>2. orphans' = orphans \/ (orphans > 0 /\ orphans' = orphans - 1)
    BY DEF TimerFires
  <2>3. armingTimer \in BOOLEAN /\ delayTimer \in BOOLEAN /\ triggerTimer \in BOOLEAN
    BY DEF TypeOK
  <2>4. orphans' \in Nat
    BY <2>2 DEF TypeOK
  <2> QED
    BY <2>1, <2>3, <2>4, Zenon
<1> QED
  BY <1>1, <1>2, BeginsTyped DEF TypeOK, TimerFires, Places, inputs, stored

LEMMA InputTyped ==
  ASSUME TypeOK, NEW i \in Inputs, InputChanges(i)
  PROVE  TypeOK'
<1>1. changes' \in 0..MaxChanges
  BY BoundsAssumption DEF TypeOK, InputChanges
<1>2. queue' \in Seq(Events)
  <2> DEFINE trips == i \notin tripped
  <2>1. [input |-> i, trips |-> trips] \in Events
    BY DEF Events
  <2> QED
    BY <2>1 DEF TypeOK, InputChanges
<1> QED
  BY <1>1, <1>2 DEF TypeOK, InputChanges, timers, task, stored

LEMMA EventTyped ==
  ASSUME TypeOK, InputEvent
  PROVE  TypeOK'
<1>1. queue' \in Seq(Events)
  BY DEF TypeOK, InputEvent
<1>2. UNCHANGED <<config, target, armingTimer, triggerTimer, orphans, siren, tripped, changes,
                  kept, disk, restarts, rearmed, cmds, faults>>
  BY DEF InputEvent, stored
<1>3. CASE UNCHANGED <<state, delayTimer, task, overlapped>>
  BY <1>1, <1>2, <1>3 DEF TypeOK, task
<1>4. CASE state' = "pending" /\ delayTimer' = TRUE
           /\ overlapped' = (overlapped \/ ~AtRest) /\ UNCHANGED task
  <2>1. overlapped' \in BOOLEAN
    BY <1>4, Zenon
  <2> QED
    BY <1>1, <1>2, <1>4, <2>1 DEF TypeOK, task, States
<1>5. ASSUME NEW t \in Tasks, Begins(t, "toTrigger"), UNCHANGED <<state, delayTimer>>
      PROVE  TypeOK'
  BY <1>1, <1>2, <1>5, BeginsTyped DEF TypeOK, Places
<1> QED
  BY <1>3, <1>4, <1>5 DEF InputEvent

LEMMA RestartTyped ==
  ASSUME TypeOK, Restart
  PROVE  TypeOK'
<1>1. queue' \in Seq(Events)
  <2>1. Cardinality(Inputs) \in Nat
    BY ZonesAssumption, FS_CardinalityType
  <2>2. queue' \in [1..Cardinality(Inputs) -> Events]
    BY DEF Restart, Reports, Events
  <2> QED
    BY <2>1, <2>2
<1>2. restarts' \in 0..MaxRestarts
  BY BoundsAssumption DEF TypeOK, Restart
<1>3. 1 \in Outputs
  BY OutputsAssumption DEF Outputs
<1> QED
  BY <1>1, <1>2, <1>3 DEF TypeOK, Restart, States, Stable, Places

\* In every reachable state each variable has its type. In particular the panel saves
\* states worth saving only (_persist_state), whatever the state has become while the
\* outputs were being switched, and so restarts in one.
THEOREM PanelTypeCorrect == Spec => []TypeOK
<1>1. Init => TypeOK
  <2> SUFFICES ASSUME Init PROVE TypeOK
    OBVIOUS
  <2>1. 1 \in Outputs /\ config \in Delays
    BY OutputsAssumption DEF Init, Outputs
  <2>2. /\ cmds \in 0..MaxCommands /\ changes \in 0..MaxChanges
        /\ faults \in 0..MaxFaults /\ restarts \in 0..MaxRestarts
    BY BoundsAssumption DEF Init
  <2>3. siren \in [Outputs -> BOOLEAN] /\ queue \in Seq(Events)
    BY DEF Init
  <2>4. /\ pc \in [Tasks -> Places] /\ at \in [Tasks -> Outputs]
        /\ io \in [Tasks -> {"submitted", "done"}]
    BY <2>1 DEF Init, Places
  <2> QED
    BY <2>1, <2>2, <2>3, <2>4 DEF Init, TypeOK, States, Stable
<1>2. TypeOK /\ [Next]_vars => TypeOK'
  <2> SUFFICES ASSUME TypeOK, [Next]_vars PROVE TypeOK'
    OBVIOUS
  <2>1. CASE Command
    BY <2>1, CommandTyped
  <2>2. CASE InputEvent
    BY <2>2, EventTyped
  <2>3. CASE SaveState
    BY <2>3 DEF SaveState, TypeOK, timers, task, inputs
  <2>4. CASE Restart
    BY <2>4, RestartTyped
  <2>5. CASE \E t \in Tasks : Step(t) \/ TimerFires(t)
    BY <2>5, StepTyped, TimerTyped
  <2>6. CASE \E i \in Inputs : InputChanges(i)
    BY <2>6, InputTyped
  <2>7. CASE UNCHANGED vars
    BY <2>7 DEF vars, timers, task, inputs, stored, TypeOK
  <2> QED
    BY <2>1, <2>2, <2>3, <2>4, <2>5, <2>6, <2>7 DEF Next
<1> QED
  BY <1>1, <1>2, PTL DEF Spec

-----------------------------------------------------------------------------
\* Transient states. A task created by a timer stays what it is until it runs, and a
\* new one takes the place of no other.
Waits(place) == \E t \in Tasks : pc[t] = place

LEMMA BeginsKeepsWaiting ==
  ASSUME TypeOK, NEW t \in Tasks, NEW place, Begins(t, place),
         NEW other \in {"toArm", "toTrigger"}
  PROVE  /\ Waits(other) => Waits(other)'
         /\ place = other => Waits(other)'
BY DEF TypeOK, Begins, Free, Waits

LEMMA GoesOnKeepsWaiting ==
  ASSUME TypeOK, NEW t \in Tasks, NEW place, GoesOn(t, place),
         NEW other \in {"toArm", "toTrigger"}, pc[t] # other, Waits(other)
  PROVE  Waits(other)'
BY DEF TypeOK, GoesOn, Waits

Timed ==
  /\ state = "arming" => target # None /\ (armingTimer \/ Waits("toArm"))
  /\ state = "pending" => delayTimer \/ Waits("toTrigger")

\* The states that last have no timer to lose.
LEMMA StableIsTimed ==
  ASSUME state' \in Stable \cup {"triggered"}
  PROVE  Timed'
BY ModesAssumption DEF Timed, Stable

\* Nothing that concerns a transient state changes.
LEMMA WaitingIsTimed ==
  ASSUME Timed, UNCHANGED <<state, target, armingTimer, delayTimer>>,
         Waits("toArm") => Waits("toArm")', Waits("toTrigger") => Waits("toTrigger")'
  PROVE  Timed'
BY DEF Timed

LEMMA ArmTimed ==
  ASSUME TypeOK, NEW m \in Modes, Arm(m)
  PROVE  Timed'
<1>1. CASE state' = "arming" /\ target' = m /\ armingTimer' = TRUE
  BY <1>1, NoneAssumption DEF Timed, States, Stable
<1>2. CASE CompleteArming(m)
  BY <1>2, StableIsTimed DEF CompleteArming, Stable
<1> QED
  BY <1>1, <1>2 DEF Arm

LEMMA CommandTimed ==
  ASSUME TypeOK, Timed, Command
  PROVE  Timed'
<1>1. CASE Disarm
  BY <1>1, StableIsTimed DEF Disarm, Stable
<1>2. CASE Trigger
  BY <1>2, StableIsTimed DEF Trigger
<1>3. CASE \E m \in Modes : Arm(m)
  BY <1>3, ArmTimed
<1> QED
  BY <1>1, <1>2, <1>3 DEF Command

\* The task that completes the arming is needed by no other state than arming, which
\* it ends; one without a target finds none because the panel is not arming.
LEMMA RunsTimed ==
  ASSUME TypeOK, Timed, NEW t \in Tasks, Runs(t)
  PROVE  Timed'
<1>1. CASE Trigger
  BY <1>1, StableIsTimed DEF Trigger
<1>2. CASE Disarm
  BY <1>2, StableIsTimed DEF Disarm, Stable
<1>3. CASE target # None /\ CompleteArming(target)
  BY <1>3, StableIsTimed DEF CompleteArming, TypeOK, Stable
<1>4. CASE /\ pc[t] = "toArm" /\ GoesOn(t, "free") /\ target = None
           /\ UNCHANGED <<state, target, stored>> /\ UNCHANGED timers
  <2>1. Waits("toTrigger") => Waits("toTrigger")'
    BY <1>4, GoesOnKeepsWaiting
  <2> QED
    BY <1>4, <2>1 DEF Timed, timers
<1> QED
  BY <1>1, <1>2, <1>3, <1>4 DEF Runs

LEMMA StepTimed ==
  ASSUME TypeOK, Timed, NEW t \in Tasks, Step(t)
  PROVE  Timed'
<1>1. CASE Runs(t)
  BY <1>1, RunsTimed
<1>2. CASE Write(t) \/ NextOutput(t)
  <2>1. UNCHANGED <<state, target, armingTimer, delayTimer, pc>>
    BY <1>2 DEF Write, NextOutput, timers
  <2> QED
    BY <2>1 DEF Timed, Waits
<1>3. CASE Activated(t) \/ Deactivated(t)
  <2>1. UNCHANGED <<state, target, armingTimer, delayTimer>>
    BY <1>3 DEF Activated, Deactivated, timers
  <2>2. GoesOn(t, "free") /\ pc[t] \in {"activating", "deactivating"}
    BY <1>3 DEF Activated, Deactivated
  <2> QED
    BY <2>1, <2>2, GoesOnKeepsWaiting, WaitingIsTimed
<1> QED
  BY <1>1, <1>2, <1>3 DEF Step

\* A timer that fires hands its duty to the task it creates.
LEMMA TimerTimed ==
  ASSUME TypeOK, Timed, NEW t \in Tasks, TimerFires(t)
  PROVE  Timed'
<1>1. UNCHANGED <<state, target>>
  BY DEF TimerFires
<1>2. PICK place : Begins(t, place)
  BY DEF TimerFires
<1>3. /\ Waits("toArm") => Waits("toArm")'
      /\ Waits("toTrigger") => Waits("toTrigger")'
  BY <1>2, BeginsKeepsWaiting
<1>4. armingTimer' = armingTimer \/ Waits("toArm")'
  BY BeginsKeepsWaiting DEF TimerFires
<1>5. delayTimer' = delayTimer \/ Waits("toTrigger")'
  BY BeginsKeepsWaiting DEF TimerFires
<1> QED
  BY <1>1, <1>3, <1>4, <1>5 DEF Timed

LEMMA EventTimed ==
  ASSUME TypeOK, Timed, InputEvent
  PROVE  Timed'
<1>1. UNCHANGED <<target, armingTimer>>
  BY DEF InputEvent
<1>2. CASE UNCHANGED <<state, delayTimer, task>>
  BY <1>1, <1>2 DEF Timed, Waits, task
<1>3. CASE state' = "pending" /\ delayTimer' = TRUE
  BY <1>3 DEF Timed
<1>4. ASSUME NEW t \in Tasks, Begins(t, "toTrigger"), UNCHANGED <<state, delayTimer>>
      PROVE  Timed'
  BY <1>1, <1>4, BeginsKeepsWaiting, WaitingIsTimed
<1> QED
  BY <1>2, <1>3, <1>4 DEF InputEvent

LEMMA RestartTimed ==
  ASSUME TypeOK, Restart
  PROVE  Timed'
<1>1. state' \in Stable
  BY DEF TypeOK, Restart, Stable
<1> QED
  BY <1>1, StableIsTimed

\* However commands, inputs and timers overlap, writes fail and the panel restarts, it
\* is arming only with a target and a timer, or the task that timer created, to complete
\* the arming; and pending only with one to trigger: _cancel_all_timers never leaves
\* a transient state without its end.
THEOREM TransientAlwaysTimed == Spec => []TransientIsTimed
<1>1. Init => Timed
  BY DEF Init, Timed
<1>2. TypeOK /\ Timed /\ [Next]_vars => Timed'
  <2> SUFFICES ASSUME TypeOK, Timed, [Next]_vars PROVE Timed'
    OBVIOUS
  <2>1. CASE Command
    BY <2>1, CommandTimed
  <2>2. CASE InputEvent
    BY <2>2, EventTimed
  <2>3. CASE SaveState \/ \E i \in Inputs : InputChanges(i)
    <3>1. UNCHANGED <<state, target, armingTimer, delayTimer, pc>>
      BY <2>3 DEF SaveState, InputChanges, timers, task
    <3> QED
      BY <3>1 DEF Timed, Waits
  <2>4. CASE Restart
    BY <2>4, RestartTimed
  <2>5. CASE \E t \in Tasks : Step(t) \/ TimerFires(t)
    BY <2>5, StepTimed, TimerTimed
  <2>6. CASE UNCHANGED vars
    BY <2>6 DEF vars, timers, task, Timed, Waits
  <2> QED
    BY <2>1, <2>2, <2>3, <2>4, <2>5, <2>6 DEF Next
<1>3. Timed => TransientIsTimed
  BY DEF Timed, TransientIsTimed, Waits
<1> QED
  BY <1>1, <1>2, <1>3, PanelTypeCorrect, PTL DEF Spec

-----------------------------------------------------------------------------
\* Persistence. A stable state is saved already, or a disarm that is switching the
\* outputs off will save it.
IsKept == kept = state \/ (kept = None /\ state = "disarmed")
Saving == state \in Stable => IsKept \/ \E t \in Tasks : pc[t] = "deactivating"

LEMMA UnstableIsSaving ==
  ASSUME state' \in {"arming", "pending", "triggered"}
  PROVE  Saving'
BY ModesAssumption DEF Saving, Stable

LEMMA CommandSaving ==
  ASSUME TypeOK, Saving, Command
  PROVE  Saving'
<1>1. ASSUME NEW t \in Tasks, Begins(t, "deactivating")
      PROVE  Saving'
  BY <1>1 DEF Saving, Begins, TypeOK
<1>2. CASE Trigger
  BY <1>2, UnstableIsSaving DEF Trigger
<1>3. ASSUME NEW m \in Modes, Arm(m)
      PROVE  Saving'
  BY <1>3, UnstableIsSaving DEF Arm, CompleteArming, Saving, IsKept
<1> QED
  BY <1>1, <1>2, <1>3 DEF Command

LEMMA StepSaving ==
  ASSUME TypeOK, Saving, NEW t \in Tasks, Step(t)
  PROVE  Saving'
<1>1. CASE pc[t] = "toTrigger" /\ Trigger
  BY <1>1, UnstableIsSaving DEF Trigger
<1>2. CASE Disarm /\ GoesOn(t, "deactivating")
  BY <1>2 DEF Saving, GoesOn, TypeOK
<1>3. CASE CompleteArming(target)
  BY <1>3 DEF CompleteArming, Saving, IsKept
<1>4. CASE pc[t] = "toArm" /\ GoesOn(t, "free") /\ UNCHANGED <<state, target, stored>>
  BY <1>4 DEF GoesOn, Saving, IsKept, stored, TypeOK
<1>5. CASE Write(t) \/ NextOutput(t)
  BY <1>5 DEF Write, NextOutput, Saving, IsKept, stored
<1>6. CASE Activated(t)
  BY <1>6 DEF Activated, GoesOn, Saving, IsKept, stored, TypeOK
<1>7. CASE Deactivated(t)
  BY <1>7 DEF Deactivated, Saving, IsKept
<1> QED
  BY <1>1, <1>2, <1>3, <1>4, <1>5, <1>6, <1>7 DEF Step, Runs

\* A task that begins leaves the others alone.
LEMMA BeginsSaving ==
  ASSUME TypeOK, Saving, NEW t \in Tasks, NEW place, Begins(t, place),
         UNCHANGED <<state, kept>>
  PROVE  Saving'
BY DEF TypeOK, Begins, Free, Saving, IsKept

\* However long switching the outputs takes and whatever overtakes it, a panel at rest
\* in a state worth saving has saved that state and no other: _disarm, which calls
\* _persist_state after its awaits, never saves "disarmed" over a later arming.
THEOREM StateIsKept == Spec => []KeptIsState
<1>1. Init => Saving
  BY DEF Init, Saving, IsKept
<1>2. TypeOK /\ Saving /\ [Next]_vars => Saving'
  <2> SUFFICES ASSUME TypeOK, Saving, [Next]_vars PROVE Saving'
    OBVIOUS
  <2>1. CASE Command
    BY <2>1, CommandSaving
  <2>2. CASE InputEvent
    <3>1. CASE UNCHANGED <<state, task>>
      BY <2>2, <3>1 DEF InputEvent, Saving, IsKept, task, stored
    <3>2. CASE state' = "pending"
      BY <3>2, UnstableIsSaving
    <3>3. ASSUME NEW t \in Tasks, Begins(t, "toTrigger"), UNCHANGED state
          PROVE  Saving'
      BY <2>2, <3>3, BeginsSaving DEF InputEvent, stored
    <3> QED
      BY <2>2, <3>1, <3>2, <3>3 DEF InputEvent
  <2>3. CASE SaveState \/ \E i \in Inputs : InputChanges(i)
    BY <2>3 DEF SaveState, InputChanges, Saving, IsKept, task, stored
  <2>4. CASE Restart
    BY <2>4 DEF Restart, Saving, IsKept
  <2>5. ASSUME NEW t \in Tasks, Step(t) PROVE Saving'
    BY <2>5, StepSaving
  <2>6. ASSUME NEW t \in Tasks, TimerFires(t) PROVE Saving'
    BY <2>6, BeginsSaving DEF TimerFires, stored
  <2>7. CASE UNCHANGED vars
    BY <2>7 DEF vars, task, stored, Saving, IsKept
  <2> QED
    BY <2>1, <2>2, <2>3, <2>4, <2>5, <2>6, <2>7 DEF Next
<1>3. Saving => KeptIsState
  BY DEF Saving, IsKept, KeptIsState, AtRest, Free
<1> QED
  BY <1>1, <1>2, <1>3, PanelTypeCorrect, PTL DEF Spec

-----------------------------------------------------------------------------
\* In turn: as long as no command, event or timer comes to a task in progress.
Lone == \A t, u \in Tasks : Free(t) \/ Free(u) \/ t = u

\* What a task is doing tells the state, and a task that has not run is at its first output.
TaskFits(t) ==
  /\ pc[t] = "toArm" => state = "arming" /\ ~armingTimer
  /\ pc[t] = "toTrigger" => state \in Modes \cup {"pending"}
  /\ pc[t] \in {"toDisarm", "activating"} => state = "triggered"
  /\ pc[t] = "deactivating" => state = "disarmed"
  /\ pc[t] \in {"toArm", "toTrigger", "toDisarm"} => at[t] = 1 /\ io[t] = "submitted"
  /\ pc[t] = "activating" => ~triggerTimer

\* So does a pending timer, and no handle was ever overwritten.
TimersFit ==
  /\ armingTimer => state = "arming"
  /\ delayTimer => state = "pending"
  /\ triggerTimer => state = "triggered"
  /\ orphans = 0

\* A siren that is on while disarmed is still to be switched off.
Silencing(o) ==
  \E t \in Tasks : pc[t] = "deactivating" /\ (at[t] < o \/ (at[t] = o /\ io[t] = "submitted"))
Silenced == (faults = 0 /\ state = "disarmed") => \A o \in Outputs : siren[o] => Silencing(o)

InTurn == ~overlapped => Lone /\ (\A t \in Tasks : TaskFits(t)) /\ TimersFit /\ Silenced

\* A step after which one task at most is in progress.
OnlyAt(t, place) == \A u \in Tasks : pc'[u] = IF u = t THEN place ELSE "free"

LEMMA OnlyAtInTurn ==
  ASSUME TypeOK, NEW t \in Tasks, NEW place, OnlyAt(t, place),
         TaskFits(t)', TimersFit', Silenced'
  PROVE  InTurn'
<1>1. Lone'
  BY DEF OnlyAt, Lone, Free
<1>2. ASSUME NEW u \in Tasks PROVE TaskFits(u)'
  BY DEF OnlyAt, TaskFits
<1> QED
  BY <1>1, <1>2 DEF InTurn

LEMMA BeginsAlone ==
  ASSUME TypeOK, NEW t \in Tasks, NEW place, Begins(t, place), ~overlapped'
  PROVE  /\ ~overlapped /\ AtRest /\ OnlyAt(t, place)
         /\ at'[t] = 1 /\ io'[t] = "submitted"
BY DEF TypeOK, Begins, AtRest, Free, OnlyAt

LEMMA GoesOnAlone ==
  ASSUME TypeOK, NEW t \in Tasks, NEW place, GoesOn(t, place), Lone, ~Free(t)
  PROVE  /\ OnlyAt(t, place)
         /\ at'[t] = at[t] /\ io'[t] = io[t]
BY DEF TypeOK, GoesOn, Lone, Free, OnlyAt

\* Nothing changes that these speak of.
LEMMA OthersInTurn ==
  ASSUME InTurn, UNCHANGED <<state, timers, siren, task, overlapped, faults>>
  PROVE  InTurn'
BY DEF InTurn, Lone, TaskFits, TimersFit, Silenced, Silencing, Free, timers, task

\* A disarm that begins has every output before it.
LEMMA DisarmInTurn ==
  ASSUME TypeOK, InTurn, ~overlapped, NEW t \in Tasks, Disarm, OnlyAt(t, "deactivating"),
         at'[t] = 1, io'[t] = "submitted"
  PROVE  InTurn'
<1>1. state' = "disarmed" /\ TimersFit'
  BY DEF Disarm, CancelAllTimers, TimersFit, InTurn
<1>2. TaskFits(t)'
  BY <1>1 DEF TaskFits, OnlyAt
<1>3. \A o \in Outputs : Silencing(o)'
  BY OutputsAssumption DEF Silencing, OnlyAt, Outputs
<1> QED
  BY <1>1, <1>2, <1>3, OnlyAtInTurn DEF Silenced

LEMMA TriggerInTurn ==
  ASSUME TypeOK, InTurn, ~overlapped, NEW t \in Tasks, Trigger, OnlyAt(t, "activating")
  PROVE  InTurn'
<1>1. state' = "triggered" /\ ~triggerTimer' /\ TimersFit'
  BY DEF Trigger, CancelAllTimers, TimersFit, InTurn
<1>2. TaskFits(t)'
  BY <1>1 DEF TaskFits, OnlyAt
<1> QED
  BY <1>1, <1>2, OnlyAtInTurn DEF Silenced

\* Armed states are none of the others.
LEMMA ArmedIsStable ==
  ASSUME NEW m \in Modes
  PROVE  m \notin {"disarmed", "arming", "pending", "triggered"}
BY ModesAssumption

LEMMA ArmInTurn ==
  ASSUME TypeOK, InTurn, ~overlapped, NEW m \in Modes, Arm(m), AtRest, UNCHANGED task
  PROVE  InTurn'
<1>1. state' # "disarmed" /\ TimersFit'
  BY ArmedIsStable DEF Arm, CancelAllTimers, CompleteArming, TimersFit, InTurn
<1>2. Lone' /\ \A t \in Tasks : TaskFits(t)'
  BY DEF AtRest, Free, Lone, TaskFits, task
<1> QED
  BY <1>1, <1>2 DEF InTurn, Silenced

LEMMA CommandInTurn ==
  ASSUME TypeOK, InTurn, Command
  PROVE  InTurn'
<1> SUFFICES ASSUME ~overlapped' PROVE InTurn'
  BY DEF InTurn
<1>1. ASSUME NEW t \in Tasks, Disarm, Begins(t, "deactivating") PROVE InTurn'
  BY <1>1, BeginsAlone, DisarmInTurn
<1>2. ASSUME NEW t \in Tasks, Trigger, Begins(t, "activating") PROVE InTurn'
  BY <1>2, BeginsAlone, TriggerInTurn
<1>3. ASSUME NEW m \in Modes, Arm(m), overlapped' = (overlapped \/ ~AtRest), UNCHANGED task
      PROVE  InTurn'
  BY <1>3, ArmInTurn
<1> QED
  BY <1>1, <1>2, <1>3 DEF Command

LEMMA RunsInTurn ==
  ASSUME TypeOK, InTurn, ~overlapped, NEW t \in Tasks, Runs(t)
  PROVE  InTurn'
<1>1. Lone /\ TaskFits(t) /\ TimersFit
  BY DEF InTurn
<1>2. CASE pc[t] = "toTrigger" /\ Trigger /\ GoesOn(t, "activating")
  BY <1>1, <1>2, GoesOnAlone, TriggerInTurn DEF Free
<1>3. CASE pc[t] = "toDisarm" /\ Disarm /\ GoesOn(t, "deactivating")
  BY <1>1, <1>3, GoesOnAlone, DisarmInTurn DEF Free, TaskFits
<1>4. CASE /\ pc[t] = "toArm" /\ GoesOn(t, "free") /\ UNCHANGED timers
           /\ \/ UNCHANGED <<state, target, stored>>
              \/ target # None /\ CompleteArming(target)
  <2>1. OnlyAt(t, "free")
    BY <1>1, <1>4, GoesOnAlone DEF Free
  <2>2. TaskFits(t)'
    BY <2>1 DEF OnlyAt, TaskFits
  <2>3. state = "arming"
    BY <1>1, <1>4 DEF TaskFits
  <2>4. state' # "disarmed"
    BY <1>4, <2>3, ArmedIsStable DEF CompleteArming, TypeOK
  <2>5. TimersFit'
    BY <1>1, <1>4, <2>3 DEF TimersFit, TaskFits, timers
  <2> QED
    BY <2>1, <2>2, <2>4, <2>5, OnlyAtInTurn DEF Silenced
<1> QED
  BY <1>2, <1>3, <1>4 DEF Runs

LEMMA WriteInTurn ==
  ASSUME TypeOK, InTurn, ~overlapped, NEW t \in Tasks, Write(t) \/ NextOutput(t)
  PROVE  InTurn'
<1>1. Lone /\ TimersFit /\ Silenced /\ \A u \in Tasks : TaskFits(u)
  BY DEF InTurn
<1>2. UNCHANGED <<state, timers, pc, overlapped>>
  BY DEF Write, NextOutput
<1>3. \A u \in Tasks : u # t => at'[u] = at[u] /\ io'[u] = io[u]
  BY DEF Write, NextOutput, TypeOK
<1>4. pc[t] \in {"activating", "deactivating"}
  BY DEF Write, NextOutput
<1>5. Lone' /\ TimersFit'
  BY <1>1, <1>2 DEF Lone, Free, TimersFit, timers
<1>6. ASSUME NEW u \in Tasks PROVE TaskFits(u)'
  BY <1>1, <1>2, <1>3, <1>4 DEF TaskFits, timers
<1>7. ASSUME faults' = 0, state' = "disarmed", NEW o \in Outputs, siren'[o]
      PROVE  Silencing(o)'
  <2>1. pc[t] = "deactivating" /\ \A u \in Tasks : u # t => pc[u] = "free"
    BY <1>1, <1>2, <1>4, <1>7 DEF TaskFits, Lone, Free
  <2>2. at[t] \in Nat /\ o \in Nat
    BY DEF TypeOK, Outputs
  <2>3. CASE Write(t)
    <3>1. faults = 0 /\ siren' = [siren EXCEPT ![at[t]] = FALSE]
      BY <1>7, <2>1, <2>3 DEF Write, TypeOK
    <3>2. o # at[t] /\ siren[o]
      BY <3>1, <1>7 DEF TypeOK
    <3>3. at[t] < o
      BY <1>1, <1>2, <1>7, <2>1, <3>1, <3>2 DEF Silenced, Silencing
    <3> QED
      BY <1>2, <2>1, <2>3, <3>3 DEF Silencing, Write
  <2>4. CASE NextOutput(t)
    <3>1. faults = 0 /\ siren[o]
      BY <1>7, <2>4 DEF NextOutput
    <3>2. at[t] < o
      BY <1>1, <1>2, <1>7, <2>1, <2>4, <3>1 DEF Silenced, Silencing, NextOutput
    <3>3. at'[t] = at[t] + 1 /\ io'[t] = "submitted"
      BY <2>4 DEF NextOutput, TypeOK
    <3> QED
      BY <1>2, <2>1, <2>2, <3>2, <3>3 DEF Silencing
  <2> QED
    BY <2>3, <2>4
<1> QED
  BY <1>5, <1>6, <1>7 DEF InTurn, Silenced

\* The trigger timer is armed once: the trigger cancelled the one before.
LEMMA EndInTurn ==
  ASSUME TypeOK, InTurn, ~overlapped, NEW t \in Tasks, Activated(t) \/ Deactivated(t)
  PROVE  InTurn'
<1>1. Lone /\ TaskFits(t) /\ TimersFit /\ Silenced
  BY DEF InTurn
<1>2. OnlyAt(t, "free") /\ UNCHANGED <<state, armingTimer, delayTimer, siren, faults>>
  BY <1>1, GoesOnAlone DEF Activated, Deactivated, Free, timers
<1>3. TaskFits(t)'
  BY <1>2 DEF OnlyAt, TaskFits
<1>4. CASE Activated(t)
  <2>1. state = "triggered" /\ ~triggerTimer
    BY <1>1, <1>4 DEF TaskFits, Activated
  <2>2. TimersFit'
    BY <1>1, <1>2, <1>4, <2>1 DEF TimersFit, Activated
  <2> QED
    BY <1>2, <1>3, <2>1, <2>2, OnlyAtInTurn DEF Silenced
<1>5. CASE Deactivated(t)
  <2>1. TimersFit'
    BY <1>1, <1>5 DEF TimersFit, Deactivated, timers
  <2>2. ASSUME faults = 0, state = "disarmed", NEW o \in Outputs PROVE ~siren[o]
    <3>1. ~Silencing(o)
      BY <1>1, <1>5 DEF Silencing, Lone, Free, Deactivated, TypeOK, Outputs
    <3> QED
      BY <1>1, <2>2, <3>1 DEF Silenced
  <2> QED
    BY <1>2, <1>3, <2>1, <2>2, OnlyAtInTurn DEF Silenced
<1> QED
  BY <1>4, <1>5

LEMMA StepInTurn ==
  ASSUME TypeOK, InTurn, NEW t \in Tasks, Step(t)
  PROVE  InTurn'
<1> SUFFICES ASSUME ~overlapped' PROVE InTurn'
  BY DEF InTurn
<1>1. ~overlapped
  BY DEF Step, Runs, GoesOn, Write, NextOutput, Activated, Deactivated
<1> QED
  BY <1>1, RunsInTurn, WriteInTurn, EndInTurn DEF Step

LEMMA TimerInTurn ==
  ASSUME TypeOK, InTurn, NEW t \in Tasks, TimerFires(t)
  PROVE  InTurn'
<1> SUFFICES ASSUME ~overlapped' PROVE InTurn'
  BY DEF InTurn
<1>1. PICK place : Begins(t, place)
  BY DEF TimerFires
<1>2. ~overlapped /\ UNCHANGED <<state, siren, faults>>
  BY <1>1, BeginsAlone DEF TimerFires
<1>3. TimersFit /\ Silenced /\ AtRest
  BY <1>1, <1>2, BeginsAlone DEF InTurn
<1>4. TimersFit'
  BY <1>2, <1>3 DEF TimersFit, TimerFires
<1>5. CASE armingTimer /\ armingTimer' = FALSE /\ Begins(t, "toArm")
  <2>1. OnlyAt(t, "toArm") /\ at'[t] = 1 /\ io'[t] = "submitted" /\ state' = "arming"
    BY <1>2, <1>3, <1>5, BeginsAlone DEF TimersFit
  <2>2. TaskFits(t)'
    BY <1>5, <2>1 DEF TaskFits, OnlyAt
  <2> QED
    BY <1>4, <2>1, <2>2, OnlyAtInTurn DEF Silenced
<1>6. CASE delayTimer /\ Begins(t, "toTrigger")
  <2>1. OnlyAt(t, "toTrigger") /\ at'[t] = 1 /\ io'[t] = "submitted" /\ state' = "pending"
    BY <1>2, <1>3, <1>6, BeginsAlone DEF TimersFit
  <2>2. TaskFits(t)'
    BY <2>1 DEF TaskFits, OnlyAt
  <2> QED
    BY <1>4, <2>1, <2>2, OnlyAtInTurn DEF Silenced
<1>7. CASE triggerTimer /\ Begins(t, "toDisarm")
  <2>1. OnlyAt(t, "toDisarm") /\ at'[t] = 1 /\ io'[t] = "submitted" /\ state' = "triggered"
    BY <1>2, <1>3, <1>7, BeginsAlone DEF TimersFit
  <2>2. TaskFits(t)'
    BY <2>1 DEF TaskFits, OnlyAt
  <2> QED
    BY <1>4, <2>1, <2>2, OnlyAtInTurn DEF Silenced
<1>8. ~(orphans > 0)
  BY <1>3 DEF TimersFit
<1> QED
  BY <1>5, <1>6, <1>7, <1>8 DEF TimerFires

LEMMA EventInTurn ==
  ASSUME TypeOK, InTurn, InputEvent
  PROVE  InTurn'
<1> SUFFICES ASSUME ~overlapped' PROVE InTurn'
  BY DEF InTurn
<1>1. UNCHANGED <<armingTimer, triggerTimer, orphans, siren, faults>>
  BY DEF InputEvent
<1>2. CASE UNCHANGED <<state, delayTimer, task, overlapped>>
  BY <1>1, <1>2, OthersInTurn DEF timers
<1>3. CASE /\ state \in Modes /\ state' = "pending" /\ delayTimer' = TRUE
           /\ overlapped' = (overlapped \/ ~AtRest) /\ UNCHANGED task
  <2>1. TimersFit'
    BY <1>1, <1>3, ArmedIsStable DEF InTurn, TimersFit
  <2>2. Lone' /\ \A t \in Tasks : TaskFits(t)'
    BY <1>3 DEF AtRest, Free, Lone, TaskFits, task
  <2> QED
    BY <1>3, <2>1, <2>2 DEF InTurn, Silenced
<1>4. ASSUME NEW t \in Tasks, state \in Modes, Begins(t, "toTrigger"),
             UNCHANGED <<state, delayTimer>>
      PROVE  InTurn'
  <2>1. ~overlapped /\ OnlyAt(t, "toTrigger") /\ at'[t] = 1 /\ io'[t] = "submitted"
    BY <1>4, BeginsAlone
  <2>2. TimersFit'
    BY <1>1, <1>4, <2>1 DEF InTurn, TimersFit
  <2>3. TaskFits(t)'
    BY <1>4, <2>1 DEF OnlyAt, TaskFits
  <2>4. state' # "disarmed"
    BY <1>4, ArmedIsStable
  <2> QED
    BY <2>1, <2>2, <2>3, <2>4, OnlyAtInTurn DEF Silenced
<1> QED
  BY <1>2, <1>3, <1>4 DEF InputEvent

LEMMA RestartInTurn ==
  ASSUME TypeOK, Restart
  PROVE  InTurn'
<1>1. Lone' /\ \A t \in Tasks : TaskFits(t)'
  BY DEF Restart, Lone, Free, TaskFits
<1>2. TimersFit' /\ Silenced'
  BY DEF Restart, TimersFit, Silenced
<1> QED
  BY <1>1, <1>2 DEF InTurn

LEMMA InTurnInvariant == Spec => []InTurn
<1>1. Init => InTurn
  BY DEF Init, InTurn, Lone, Free, TaskFits, TimersFit, Silenced
<1>2. TypeOK /\ InTurn /\ [Next]_vars => InTurn'
  <2> SUFFICES ASSUME TypeOK, InTurn, [Next]_vars PROVE InTurn'
    OBVIOUS
  <2>1. CASE Command
    BY <2>1, CommandInTurn
  <2>2. CASE InputEvent
    BY <2>2, EventInTurn
  <2>3. CASE SaveState \/ \E i \in Inputs : InputChanges(i)
    BY <2>3, OthersInTurn DEF SaveState, InputChanges
  <2>4. CASE Restart
    BY <2>4, RestartInTurn
  <2>5. CASE \E t \in Tasks : Step(t) \/ TimerFires(t)
    BY <2>5, StepInTurn, TimerInTurn
  <2>6. CASE UNCHANGED vars
    BY <2>6, OthersInTurn DEF vars
  <2> QED
    BY <2>1, <2>2, <2>3, <2>4, <2>5, <2>6 DEF Next
<1> QED
  BY <1>1, <1>2, PanelTypeCorrect, PTL DEF Spec

\* As long as commands, inputs and timers do not overlap, a disarmed panel at rest whose
\* writes succeed has every output off and no timer pending (_disarm), whatever it was
\* doing when it was disarmed and however many outputs it has.
THEOREM DisarmedStaysSilent == Spec => []DisarmedIsSilentInTurn
<1>1. InTurn => DisarmedIsSilentInTurn
  BY DEF InTurn, DisarmedIsSilentInTurn, DisarmedIsSilent, AtRest, Free, Silent, TimersFit,
         Silenced, Silencing
<1> QED
  BY <1>1, InTurnInvariant, PTL

\* As long as they do not overlap, no timer of an earlier state and no input disarms an
\* armed panel or rouses a disarmed one.
THEOREM OnlyCommandsTurnIt == Spec => OnlyCommandsTurn
<1> DEFINE Turns == ~overlapped' /\ restarts' = restarts /\ cmds' = cmds =>
                      /\ state \in Modes => state' # "disarmed"
                      /\ state = "disarmed" => state' = "disarmed"
<1>1. TypeOK /\ InTurn /\ [Next]_vars => [Turns]_vars
  <2> SUFFICES ASSUME TypeOK, InTurn, Next, ~overlapped', restarts' = restarts, cmds' = cmds
               PROVE  /\ state \in Modes => state' # "disarmed"
                      /\ state = "disarmed" => state' = "disarmed"
    OBVIOUS
  <2>1. CASE SaveState \/ \E i \in Inputs : InputChanges(i)
    BY <2>1, ArmedIsStable DEF SaveState, InputChanges
  <2>2. CASE InputEvent
    BY <2>2, ArmedIsStable DEF InputEvent
  <2>3. ASSUME NEW t \in Tasks, Runs(t)
        PROVE  /\ state \in Modes => state' # "disarmed"
               /\ state = "disarmed" => state' = "disarmed"
    <3>1. TaskFits(t)
      BY <2>3 DEF InTurn, Runs, GoesOn
    <3>2. CASE pc[t] = "toTrigger"
      BY <2>3, <3>1, <3>2, ArmedIsStable DEF Runs, Trigger, TaskFits
    <3>3. CASE pc[t] = "toDisarm"
      BY <3>1, <3>3, ArmedIsStable DEF TaskFits
    <3>4. CASE pc[t] = "toArm"
      BY <3>1, <3>4, ArmedIsStable DEF TaskFits
    <3> QED
      BY <2>3, <3>2, <3>3, <3>4 DEF Runs
  <2>4. ASSUME NEW t \in Tasks, Write(t) \/ NextOutput(t) \/ Activated(t) \/ Deactivated(t) \/ TimerFires(t)
        PROVE  state' = state
    BY <2>4 DEF Write, NextOutput, Activated, Deactivated, TimerFires
  <2>5. ~Command /\ ~Restart
    BY DEF Command, Restart, TypeOK
  <2> QED
    BY <2>1, <2>2, <2>3, <2>4, <2>5, ArmedIsStable DEF Next, Step
<1> QED
  BY <1>1, PanelTypeCorrect, InTurnInvariant, PTL DEF Spec, OnlyCommandsTurn

=============================================================================
