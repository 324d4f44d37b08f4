--------------------------- MODULE OutputsProofs ----------------------------
(***************************************************************************)
(* Theorems about Outputs, for any number of outputs, groups, tasks and    *)
(* timers, any saved state and any failing writes; and, at the end, about  *)
(* Thermostat, for any sensors, temperatures and bounds.                   *)
(***************************************************************************)
EXTENDS Outputs, TLAPS

\* What every step of a task, or of the loop on its behalf, keeps to.
LEMMA StepTyped ==
  ASSUME TypeOK, NEW t \in Tasks, Step(t)
  PROVE  TypeOK'
<1> USE DEF TypeOK, Goto, Places
<1>1. CASE SendOptimistic(t)
  BY <1>1 DEF SendOptimistic
<1>2. CASE TurnedOn(t)
  BY <1>2 DEF TurnedOn
<1>3. CASE TurnedOff(t)
  BY <1>3 DEF TurnedOff
<1>4. CASE WritePin(t)
  BY <1>4 DEF WritePin
<1>5. CASE WriteFails(t)
  BY <1>5, BoundsAssumption DEF WriteFails
<1>6. CASE WriteState(t)
  BY <1>6 DEF WriteState
<1>7. CASE CancelTimer(t)
  BY <1>7 DEF CancelTimer
<1>8. CASE ArmTimer(t)
  BY <1>8 DEF ArmTimer
<1> QED
  BY <1>1, <1>2, <1>3, <1>4, <1>5, <1>6, <1>7, <1>8 DEF Step

LEMMA BeginsTyped ==
  ASSUME TypeOK, NEW t \in Tasks, NEW o \in Outputs, NEW place \in Places,
         NEW stamp \in BOOLEAN, Begins(t, o, place, stamp)
  PROVE  /\ pc' \in [Tasks -> Places] /\ out' \in [Tasks -> Outputs]
         /\ stamped' \in [Tasks -> BOOLEAN] /\ overlapped' \in BOOLEAN
BY DEF TypeOK, Begins, Goto

\* A command begins one task, at the pin, or denied by the interlock.
LEMMA CommandMeans ==
  ASSUME TypeOK, NEW t \in Tasks, Command(t)
  PROVE  \E o \in Outputs : TurnOn(t, o) \/ TurnOff(t, o)
BY DEF Command

LEMMA CommandTyped ==
  ASSUME TypeOK, NEW t \in Tasks, Command(t)
  PROVE  TypeOK'
<1>1. PICK o \in Outputs : TurnOn(t, o) \/ TurnOff(t, o)
  BY CommandMeans
<1>2. PICK place \in Places : Begins(t, o, place, FALSE)
  BY <1>1 DEF TurnOn, TurnOff, Places
<1>3. cmds' \in 0..MaxCommands
  BY BoundsAssumption DEF Command, TypeOK
<1> QED
  BY <1>2, <1>3, BeginsTyped DEF Command, TypeOK

LEMMA TimerTyped ==
  ASSUME TypeOK, NEW t \in Tasks, TimerFires(t)
  PROVE  TypeOK'
<1>1. PICK m \in Timers : /\ armed[m] # None
                          /\ armed' = [armed EXCEPT ![m] = None]
                          /\ Begins(t, armed[m], "offPin", TRUE)
  BY DEF TimerFires
<1>2. armed[m] \in Outputs /\ "offPin" \in Places
  BY <1>1 DEF TypeOK, Places
<1> QED
  BY <1>1, <1>2, BeginsTyped DEF TimerFires, TypeOK

\* In every reachable state each variable has its type: a pin, a state, a timer or a
\* task's place is never left undefined, however tasks overlap and writes fail.
THEOREM OutputsTypeCorrect == Spec => []TypeOK
<1>1. Init => TypeOK
  <2> SUFFICES ASSUME Init PROVE TypeOK
    OBVIOUS
  <2>1. pin \in [Outputs -> BOOLEAN] /\ state \in [Outputs -> BOOLEAN]
    <3>1. PICK on \in SavedOn :
            /\ state = [o \in Outputs |-> o \in on]
            /\ pin = [o \in Outputs |-> o \in on /\ \A p \in on : p < o => ~Rivals(o, p)]
      BY DEF Init
    <3>2. state \in [Outputs -> BOOLEAN]
      <4> DEFINE Saved(o) == o \in on
      <4>1. state = [o \in Outputs |-> Saved(o)]
        BY <3>1
      <4>2. \A o \in Outputs : Saved(o) \in BOOLEAN
        OBVIOUS
      <4> HIDE DEF Saved
      <4> QED
        BY <4>1, <4>2, Zenon
    <3>3. pin \in [Outputs -> BOOLEAN]
      <4> DEFINE Restored(o) == o \in on /\ \A p \in on : p < o => ~Rivals(o, p)
      <4>1. pin = [o \in Outputs |-> Restored(o)]
        BY <3>1
      <4>2. \A o \in Outputs : Restored(o) \in BOOLEAN
        OBVIOUS
      <4> HIDE DEF Restored
      <4> QED
        BY <4>1, <4>2, Zenon
    <3> QED
      BY <3>2, <3>3
  <2>2. 1 \in Outputs /\ cmds \in 0..MaxCommands /\ faults \in 0..MaxFaults
    BY OutputsAssumption, BoundsAssumption DEF Init, Outputs
  <2> QED
    BY <2>1, <2>2 DEF Init, TypeOK, Places
<1>2. TypeOK /\ [Next]_vars => TypeOK'
  <2> SUFFICES ASSUME TypeOK, [Next]_vars PROVE TypeOK'
    OBVIOUS
  <2>1. CASE \E t \in Tasks : Command(t) \/ TimerFires(t) \/ Step(t)
    BY <2>1, CommandTyped, TimerTyped, StepTyped
  <2>2. ASSUME NEW o \in Outputs, SendState(o) PROVE TypeOK'
    BY <2>2 DEF SendState, TypeOK
  <2>3. CASE UNCHANGED vars
    BY <2>3 DEF vars, TypeOK
  <2> QED
    BY <2>1, <2>2, <2>3 DEF Next
<1> QED
  BY <1>1, <1>2, PTL DEF Spec

-----------------------------------------------------------------------------
\* Interlock. The strengthening: until tasks overlap only one is in progress; a relay
\* that is on shows in the state the interlock reads, but for the moment between the
\* two writes; and the task that was granted its turn-on has no rival that is on, nor is the output on of
\* a task that has just cleared its pin.
Lone == \A t, u \in Tasks : ~Free(t) /\ ~Free(u) => t = u
Shown == \A o \in Outputs :
           pin[o] => state[o] \/ \E t \in Tasks : pc[t] = "onState" /\ out[t] = o
Granted == \A t \in Tasks : pc[t] \in {"onPin", "onState"} =>
             \A p \in Outputs : Rivals(out[t], p) => ~pin[p]
Cleared == \A t \in Tasks : pc[t] = "offState" => ~pin[out[t]]
InTurn == ~overlapped => Lone /\ Shown /\ Granted /\ Cleared /\ Exclusive

LEMMA RivalsSymmetric ==
  ASSUME NEW o, NEW p, Rivals(o, p)
  PROVE  Rivals(p, o) /\ o # p
BY DEF Rivals

\* A task that begins, the first since all were free, leaves the relays alone.
LEMMA BeginsInTurn ==
  ASSUME TypeOK, InTurn, NEW t \in Tasks, NEW o \in Outputs,
         NEW place \in {"onPin", "denied", "offPin"}, NEW stamp \in BOOLEAN,
         Begins(t, o, place, stamp), pin' = pin, state' = state,
         place = "onPin" => CanTurnOn(o)
  PROVE  InTurn'
<1> SUFFICES ASSUME ~overlapped' PROVE Lone' /\ Shown' /\ Granted' /\ Cleared' /\ Exclusive'
  BY DEF InTurn
<1>1. ~overlapped /\ \A u \in Tasks : Free(u)
  BY DEF Begins
<1>2. /\ \A u \in Tasks : u # t => pc'[u] = "free"
      /\ pc'[t] = place /\ out'[t] = o
  BY <1>1 DEF Begins, Goto, TypeOK, Free
<1>3. Lone'
  BY <1>2 DEF Lone, Free
<1>4. \A p \in Outputs : pin[p] => state[p]
  BY <1>1 DEF InTurn, Shown, Free
<1>5. Shown'
  BY <1>4 DEF Shown
<1>6. Granted'
  BY <1>2, <1>4 DEF Granted, CanTurnOn
<1>7. Cleared'
  BY <1>2 DEF Cleared
<1>8. Exclusive'
  BY <1>1 DEF InTurn, Exclusive
<1> QED
  BY <1>3, <1>5, <1>6, <1>7, <1>8

LEMMA StepInTurn ==
  ASSUME TypeOK, InTurn, NEW t \in Tasks, Step(t)
  PROVE  InTurn'
<1> SUFFICES ASSUME ~overlapped' PROVE Lone' /\ Shown' /\ Granted' /\ Cleared' /\ Exclusive'
  BY DEF InTurn
<1>1. ~overlapped /\ out' = out /\ ~Free(t)
  BY DEF Step, SendOptimistic, TurnedOn, TurnedOff, WritePin, WriteFails, WriteState,
         CancelTimer, ArmTimer, Free
<1>2. Lone /\ Shown /\ Granted /\ Cleared /\ Exclusive
  BY <1>1 DEF InTurn
<1>3. \A u \in Tasks : u # t => pc[u] = "free" /\ pc'[u] = pc[u]
  BY <1>1, <1>2 DEF Lone, Free, TypeOK, Step, Goto, SendOptimistic, TurnedOn, TurnedOff,
         WritePin, WriteFails, WriteState, CancelTimer, ArmTimer
<1>4. Lone'
  BY <1>3 DEF Lone, Free
<1> SUFFICES Shown' /\ Granted' /\ Cleared' /\ Exclusive'
  BY <1>4
<1> DEFINE Elsewhere == /\ pin' = pin
                        /\ pc[t] # "onState" /\ pc'[t] \notin {"onPin", "onState", "offState"}
                        /\ \A o \in Outputs : state[o] /\ pin[o] => state'[o]
<1>5. ASSUME Elsewhere PROVE Shown' /\ Granted' /\ Cleared' /\ Exclusive'
  <2>1. \A u \in Tasks : pc[u] # "onState"
    BY <1>3, <1>5
  <2>2. Shown'
    BY <1>2, <1>5, <2>1 DEF Shown
  <2>3. Granted' /\ Cleared'
    BY <1>3, <1>5 DEF Granted, Cleared
  <2> QED
    BY <1>2, <1>5, <2>2, <2>3 DEF Exclusive
<1>6. CASE SendOptimistic(t)
  BY <1>5, <1>6 DEF SendOptimistic, Goto, TypeOK
<1>7. CASE TurnedOn(t)
  BY <1>5, <1>7 DEF TurnedOn, Goto, TypeOK
<1>8. CASE TurnedOff(t)
  BY <1>5, <1>8 DEF TurnedOff, Goto, TypeOK
<1>9. CASE WritePin(t)
  <2>1. CASE pc[t] = "onPin"
    <3>1. /\ pin' = [pin EXCEPT ![out[t]] = TRUE] /\ pc'[t] = "onState" /\ state' = state
      BY <1>9, <2>1 DEF WritePin, Goto, TypeOK
    <3>2. \A p \in Outputs : Rivals(out[t], p) => ~pin[p]
      BY <1>2, <2>1 DEF Granted
    <3>3. \A p \in Outputs : Rivals(out[t], p) => ~pin'[p]
      BY <3>1, <3>2, RivalsSymmetric DEF TypeOK
    <3>4. Shown'
      <4> SUFFICES ASSUME NEW o \in Outputs, pin'[o]
                   PROVE  state'[o] \/ \E u \in Tasks : pc'[u] = "onState" /\ out'[u] = o
        BY DEF Shown
      <4>1. CASE o = out[t]
        BY <1>1, <3>1, <4>1
      <4>2. CASE o # out[t]
        BY <1>2, <1>3, <2>1, <3>1, <4>2 DEF Shown, TypeOK
      <4> QED
        BY <4>1, <4>2
    <3>5. Granted' /\ Cleared'
      BY <1>1, <1>3, <3>1, <3>3 DEF Granted, Cleared
    <3>6. Exclusive'
      <4> SUFFICES ASSUME NEW o \in Outputs, NEW p \in Outputs, Rivals(o, p)
                   PROVE  ~(pin'[o] /\ pin'[p])
        BY DEF Exclusive
      <4>1. CASE o = out[t]
        BY <3>3, <4>1
      <4>2. CASE p = out[t]
        BY <3>3, <4>2, RivalsSymmetric
      <4>3. CASE o # out[t] /\ p # out[t]
        BY <1>2, <3>1, <4>3 DEF Exclusive, TypeOK
      <4> QED
        BY <4>1, <4>2, <4>3
    <3> QED
      BY <3>4, <3>5, <3>6
  <2>2. CASE pc[t] = "offPin"
    <3>1. /\ pin' = [pin EXCEPT ![out[t]] = FALSE] /\ pc'[t] = "offState" /\ state' = state
      BY <1>9, <2>2 DEF WritePin, Goto, TypeOK
    <3>2. \A o \in Outputs : pin'[o] => pin[o]
      BY <3>1 DEF TypeOK
    <3>3. Shown'
      BY <1>2, <1>3, <2>2, <3>1, <3>2 DEF Shown
    <3>4. Granted' /\ Cleared'
      BY <1>1, <1>3, <3>1 DEF Granted, Cleared, TypeOK
    <3>5. Exclusive'
      BY <1>2, <3>2 DEF Exclusive
    <3> QED
      BY <3>3, <3>4, <3>5
  <2> QED
    BY <1>9, <2>1, <2>2 DEF WritePin
<1>10. CASE WriteFails(t)
  BY <1>5, <1>10 DEF WriteFails, Goto, TypeOK
<1>11. CASE WriteState(t)
  <2>1. CASE pc[t] = "onState"
    <3>1. /\ state' = [state EXCEPT ![out[t]] = TRUE] /\ pc'[t] = "onCancel" /\ pin' = pin
      BY <1>11, <2>1 DEF WriteState, Goto, TypeOK
    <3>2. Shown'
      <4> SUFFICES ASSUME NEW o \in Outputs, pin[o] PROVE state'[o]
        BY <3>1 DEF Shown
      <4>1. state[o] \/ o = out[t]
        BY <1>2, <1>3 DEF Shown
      <4> QED
        BY <3>1, <4>1 DEF TypeOK
    <3>3. Granted' /\ Cleared' /\ Exclusive'
      BY <1>2, <1>3, <3>1 DEF Granted, Cleared, Exclusive
    <3> QED
      BY <3>2, <3>3
  <2>2. CASE pc[t] = "offState"
    <3>1. /\ state' = [state EXCEPT ![out[t]] = FALSE] /\ pin' = pin
          /\ pc'[t] \notin {"onPin", "onState", "offState"}
      BY <1>11, <2>2 DEF WriteState, Goto, TypeOK
    <3>2. Shown'
      BY <1>2, <1>3, <2>2, <3>1 DEF Shown, Cleared, TypeOK
    <3>3. Granted' /\ Cleared' /\ Exclusive'
      BY <1>2, <1>3, <3>1 DEF Granted, Cleared, Exclusive
    <3> QED
      BY <3>2, <3>3
  <2> QED
    BY <1>11, <2>1, <2>2 DEF WriteState
<1>12. CASE CancelTimer(t)
  BY <1>5, <1>12 DEF CancelTimer, Goto, TypeOK
<1>13. CASE ArmTimer(t)
  BY <1>5, <1>13 DEF ArmTimer, Goto, TypeOK
<1> QED
  BY <1>6, <1>7, <1>8, <1>9, <1>10, <1>11, <1>12, <1>13 DEF Step

LEMMA SendInTurn ==
  ASSUME TypeOK, InTurn, NEW o \in Outputs, SendState(o)
  PROVE  InTurn'
<1>1. /\ \A p \in Outputs : pin[p] /\ state[p] => state'[p]
      /\ pin' = pin /\ pc' = pc /\ out' = out /\ overlapped' = overlapped
  BY DEF SendState, TypeOK
<1> QED
  BY <1>1 DEF InTurn, Lone, Free, Shown, Granted, Cleared, Exclusive

LEMMA InTurnInvariant == Spec => []InTurn
<1>1. Init => InTurn
  <2> SUFFICES ASSUME Init PROVE Lone /\ Shown /\ Granted /\ Cleared /\ Exclusive
    BY DEF InTurn
  <2>1. Lone /\ Shown /\ Granted /\ Cleared
    BY DEF Init, Lone, Free, Shown, Granted, Cleared
  <2>2. ASSUME NEW o \in Outputs, NEW p \in Outputs, Rivals(o, p) PROVE ~(pin[o] /\ pin[p])
    <3>1. PICK on \in SavedOn :
            pin = [q \in Outputs |-> q \in on /\ \A r \in on : r < q => ~Rivals(q, r)]
      BY DEF Init
    <3>2. o < p \/ p < o
      BY <2>2, RivalsSymmetric, OutputsAssumption DEF Outputs
    <3> QED
      BY <2>2, <3>1, <3>2, RivalsSymmetric
  <2> QED
    BY <2>1, <2>2 DEF Exclusive
<1>2. TypeOK /\ InTurn /\ [Next]_vars => InTurn'
  <2> SUFFICES ASSUME TypeOK, InTurn, [Next]_vars PROVE InTurn'
    OBVIOUS
  <2>1. ASSUME NEW t \in Tasks, Command(t) PROVE InTurn'
    <3>1. PICK o \in Outputs : TurnOn(t, o) \/ TurnOff(t, o)
      BY <2>1, CommandMeans
    <3>2. pin' = pin /\ state' = state
      BY <2>1 DEF Command
    <3>3. \E place \in {"onPin", "denied", "offPin"} :
             Begins(t, o, place, FALSE) /\ (place = "onPin" => CanTurnOn(o))
      BY <3>1 DEF TurnOn, TurnOff
    <3> QED
      BY <3>2, <3>3, BeginsInTurn
  <2>2. ASSUME NEW t \in Tasks, TimerFires(t) PROVE InTurn'
    <3>1. PICK m \in Timers : armed[m] # None /\ Begins(t, armed[m], "offPin", TRUE)
      BY <2>2 DEF TimerFires
    <3>2. armed[m] \in Outputs /\ pin' = pin /\ state' = state
      BY <2>2, <3>1 DEF TimerFires, TypeOK
    <3> QED
      BY <3>1, <3>2, BeginsInTurn
  <2>3. ASSUME NEW t \in Tasks, Step(t) PROVE InTurn'
    BY <2>3, StepInTurn
  <2>4. ASSUME NEW o \in Outputs, SendState(o) PROVE InTurn'
    BY <2>4, SendInTurn
  <2>5. CASE UNCHANGED vars
    BY <2>5 DEF vars, InTurn, Lone, Free, Shown, Granted, Cleared, Exclusive
  <2> QED
    BY <2>1, <2>2, <2>3, <2>4, <2>5 DEF Next
<1> QED
  BY <1>1, <1>2, OutputsTypeCorrect, PTL DEF Spec

\* As long as commands do not overlap, the interlock does what it is for: no two outputs
\* of a group are on, whatever is restored, denied, timed or fails to be written.
THEOREM InterlockHolds == Spec => []ExclusiveInTurn
<1>1. InTurn => ExclusiveInTurn
  BY DEF InTurn, ExclusiveInTurn
<1> QED
  BY <1>1, InTurnInvariant, PTL

-----------------------------------------------------------------------------
\* State and pin. The strengthening: an output whose state is not its pin has a task that is
\* past its first write to either, or a message on its way, and both end by reading it back.
Unsettled == {"onState", "onCancel", "onArm", "onDone", "asleep",
              "offState", "offCancel", "offDone"}
Settling(o) == sends[o] > 0 \/ \E t \in Tasks : pc[t] \in Unsettled /\ out[t] = o
Settles == \A o \in Outputs : state[o] = pin[o] \/ Settling(o)

\* A step that keeps an output's state and pin, its messages and its tasks keeps this.
LEMMA StepSettles ==
  ASSUME TypeOK, Settles, NEW t \in Tasks, Step(t)
  PROVE  Settles'
<1> SUFFICES ASSUME NEW o \in Outputs, state'[o] # pin'[o] PROVE Settling(o)'
  BY DEF Settles
<1>1. out' = out /\ \A u \in Tasks : u # t => pc'[u] = pc[u]
  BY DEF Step, Goto, TypeOK, SendOptimistic, TurnedOn, TurnedOff, WritePin, WriteFails,
         WriteState, CancelTimer, ArmTimer
<1>2. CASE out[t] # o
  <2>1. state'[o] = state[o] /\ pin'[o] = pin[o] /\ sends'[o] = sends[o]
    BY <1>2 DEF Step, TypeOK, SendOptimistic, TurnedOn, TurnedOff, WritePin, WriteFails,
           WriteState, CancelTimer, ArmTimer
  <2> QED
    BY <1>1, <1>2, <2>1 DEF Settles, Settling
<1>3. CASE out[t] = o
  <2>1. CASE SendOptimistic(t) \/ WritePin(t) \/ WriteState(t) \/ CancelTimer(t) \/ ArmTimer(t)
    <3>1. pc'[t] \in Unsettled
      BY <2>1 DEF Unsettled, Goto, TypeOK, SendOptimistic, WritePin, WriteState, CancelTimer,
             ArmTimer
    <3> QED
      BY <1>1, <1>3, <3>1 DEF Settling
  <2>2. CASE TurnedOn(t)
    BY <1>3, <2>2 DEF TurnedOn, Settling, TypeOK
  <2>3. CASE TurnedOff(t)
    BY <1>3, <2>3 DEF TurnedOff, TypeOK
  <2>4. CASE WriteFails(t)
    <3>1. pc[t] \notin Unsettled /\ state' = state /\ pin' = pin /\ sends' = sends
      BY <2>4 DEF WriteFails, Unsettled
    <3> QED
      BY <1>1, <3>1 DEF Settles, Settling
  <2> QED
    BY <2>1, <2>2, <2>3, <2>4 DEF Step
<1> QED
  BY <1>2, <1>3

\* A command or a timer that begins in a free slot unsettles nothing.
LEMMA BeginsSettles ==
  ASSUME TypeOK, Settles, NEW t \in Tasks, NEW o \in Outputs, NEW place \in Places,
         NEW stamp \in BOOLEAN, Begins(t, o, place, stamp), UNCHANGED <<pin, state, sends>>
  PROVE  Settles'
<1>1. pc[t] \notin Unsettled /\ \A u \in Tasks \ {t} : pc'[u] = pc[u] /\ out'[u] = out[u]
  BY DEF Begins, Goto, Free, Unsettled, TypeOK
<1> QED
  BY <1>1 DEF Settles, Settling

\* However commands, timers, denials and failures overlap, an output at rest has the state
\* of its relay.
THEOREM StateFollowsPin == Spec => []StateIsPin
<1>1. Init => Settles
  BY DEF Init, Settles, Settling
<1>2. TypeOK /\ Settles /\ [Next]_vars => Settles'
  <2> SUFFICES ASSUME TypeOK, Settles, [Next]_vars PROVE Settles'
    OBVIOUS
  <2>1. ASSUME NEW t \in Tasks, Command(t) PROVE Settles'
    <3>1. PICK o \in Outputs : TurnOn(t, o) \/ TurnOff(t, o)
      BY <2>1, CommandMeans
    <3>2. \E place \in Places : Begins(t, o, place, FALSE)
      BY <3>1 DEF TurnOn, TurnOff, Places
    <3> QED
      BY <2>1, <3>2, BeginsSettles DEF Command
  <2>2. ASSUME NEW t \in Tasks, TimerFires(t) PROVE Settles'
    <3>1. PICK m \in Timers : armed[m] # None /\ Begins(t, armed[m], "offPin", TRUE)
      BY <2>2 DEF TimerFires
    <3>2. armed[m] \in Outputs /\ "offPin" \in Places
      BY <3>1 DEF TypeOK, Places
    <3> QED
      BY <2>2, <3>1, <3>2, BeginsSettles DEF TimerFires
  <2>3. ASSUME NEW t \in Tasks, Step(t) PROVE Settles'
    BY <2>3, StepSettles
  <2>4. ASSUME NEW o \in Outputs, SendState(o) PROVE Settles'
    BY <2>4 DEF SendState, Settles, Settling, TypeOK
  <2>5. CASE UNCHANGED vars
    BY <2>5 DEF vars, Settles, Settling
  <2> QED
    BY <2>1, <2>2, <2>3, <2>4, <2>5 DEF Next
<1>3. TypeOK /\ Settles => StateIsPin
  <2> SUFFICES ASSUME TypeOK, Settles, Quiet PROVE state = pin
    BY DEF StateIsPin
  <2>1. \A o \in Outputs : state[o] = pin[o]
    BY DEF Settles, Settling, Quiet, Free, Unsettled
  <2> QED
    BY <2>1 DEF TypeOK
<1> QED
  BY <1>1, <1>2, <1>3, OutputsTypeCorrect, PTL DEF Spec

-----------------------------------------------------------------------------
\* Auto-off. A handle refers to a timer of its own output or to one that is gone, so that
\* what an output cancels is never another one's timer.
HandleOwn == \A o \in Outputs : \A m \in Timers : handle[o] = m => armed[m] \in {None, o}

\* In turn, and while writes succeed, an output that is on and was not restored so has its
\* timer, or the task that is to arm it, or the one that the timer began.
Timing == {"onState", "onCancel", "onArm", "offPin"}
Timed == \A o \in Momentary \ restored :
           pin[o] => \/ \E m \in Timers : armed[m] = o
                     \/ \E t \in Tasks : pc[t] \in Timing /\ out[t] = o
OffIsOff == \A t \in Tasks : pc[t] \in {"offState", "offCancel"} => ~pin[out[t]]
TimedInTurn == HandleOwn /\ (~overlapped /\ faults = 0 => Timed /\ OffIsOff)

LEMMA BeginsTimed ==
  ASSUME TypeOK, TimedInTurn, NEW t \in Tasks, NEW o \in Outputs, NEW stamp \in BOOLEAN,
         NEW place \in {"onPin", "denied", "offPin"}, Begins(t, o, place, stamp),
         UNCHANGED <<pin, handle, restored, faults>>,
         \A m \in Timers : armed'[m] = armed[m] \/ (armed'[m] = None /\ place = "offPin" /\ armed[m] = o)
  PROVE  TimedInTurn'
<1>1. HandleOwn'
  BY DEF TimedInTurn, HandleOwn
<1>2. ASSUME ~overlapped', faults = 0 PROVE Timed' /\ OffIsOff'
  <2>1. ~overlapped /\ \A u \in Tasks : pc[u] = "free"
    BY <1>2 DEF Begins, Free
  <2>2. pc' = [pc EXCEPT ![t] = place] /\ out' = [out EXCEPT ![t] = o]
    BY DEF Begins, Goto
  <2>3. Timed /\ OffIsOff
    BY <1>2, <2>1 DEF TimedInTurn
  <2>4. ASSUME NEW p \in Momentary \ restored, pin[p]
        PROVE  \/ \E m \in Timers : armed'[m] = p
               \/ \E u \in Tasks : pc'[u] \in Timing /\ out'[u] = p
    <3>1. PICK m \in Timers : armed[m] = p
      BY <2>1, <2>3, <2>4 DEF Timed, Timing
    <3>2. CASE armed'[m] = armed[m]
      BY <3>1, <3>2
    <3>3. CASE place = "offPin" /\ armed[m] = o
      BY <2>2, <3>1, <3>3 DEF TypeOK, Timing
    <3> QED
      BY <3>2, <3>3
  <2>5. Timed'
    BY <2>4 DEF Timed
  <2>6. OffIsOff'
    BY <2>1, <2>2 DEF OffIsOff, TypeOK
  <2> QED
    BY <2>5, <2>6
<1> QED
  BY <1>1, <1>2 DEF TimedInTurn

LEMMA StepTimed ==
  ASSUME TypeOK, TypeOK', InTurn, TimedInTurn, NEW t \in Tasks, Step(t)
  PROVE  TimedInTurn'
<1>1. out' = out /\ overlapped' = overlapped /\ \A u \in Tasks : u # t => pc'[u] = pc[u]
  BY DEF Step, Goto, TypeOK, SendOptimistic, TurnedOn, TurnedOff, WritePin, WriteFails,
         WriteState, CancelTimer, ArmTimer
<1>2. HandleOwn'
  <2>1. CASE SendOptimistic(t) \/ TurnedOn(t) \/ WritePin(t) \/ WriteFails(t) \/ WriteState(t)
    BY <2>1 DEF TimedInTurn, HandleOwn, SendOptimistic, TurnedOn, WritePin, WriteFails, WriteState
  <2>2. CASE TurnedOff(t)
    BY <2>2, NoneAssumption DEF TimedInTurn, HandleOwn, TurnedOff, TypeOK
  <2>3. CASE CancelTimer(t)
    BY <2>3 DEF TimedInTurn, HandleOwn, CancelTimer, TypeOK
  <2>4. CASE ArmTimer(t)
    <3>1. CASE UNCHANGED <<armed, handle>>
      BY <3>1 DEF TimedInTurn, HandleOwn
    <3>2. ASSUME NEW m \in Timers, \A o \in Outputs \ {out[t]} : handle[o] # m,
                 armed' = [armed EXCEPT ![m] = out[t]], handle' = [handle EXCEPT ![out[t]] = m]
          PROVE  HandleOwn'
      <4> SUFFICES ASSUME NEW o \in Outputs, NEW n \in Timers, handle'[o] = n
                   PROVE  armed'[n] \in {None, o}
        BY DEF HandleOwn
      <4>1. CASE o = out[t]
        BY <3>2, <4>1 DEF TypeOK
      <4>2. CASE o # out[t]
        BY <3>2, <4>2 DEF TypeOK, TimedInTurn, HandleOwn
      <4> QED
        BY <4>1, <4>2
    <3> QED
      BY <2>4, <3>1, <3>2 DEF ArmTimer
  <2> QED
    BY <2>1, <2>2, <2>3, <2>4 DEF Step
<1>3. ASSUME ~overlapped, faults' = 0 PROVE Timed' /\ OffIsOff'
  <2>1. faults = 0 /\ ~WriteFails(t)
    BY <1>3 DEF Step, TypeOK, SendOptimistic, TurnedOn, TurnedOff, WritePin, WriteFails,
           WriteState, CancelTimer, ArmTimer
  <2>2. Timed /\ OffIsOff /\ Lone
    BY <1>3, <2>1 DEF TimedInTurn, InTurn
  <2>3. \A u \in Tasks : u # t => pc[u] = "free" /\ pc'[u] = "free"
    BY <1>1, <2>2 DEF Lone, Free, Step, SendOptimistic, TurnedOn, TurnedOff, WritePin,
           WriteFails, WriteState, CancelTimer, ArmTimer
  <2>4. OffIsOff'
    <3>1. CASE SendOptimistic(t) \/ TurnedOn(t) \/ TurnedOff(t) \/ WriteState(t) \/ CancelTimer(t)
               \/ ArmTimer(t)
      BY <1>1, <2>2, <2>3, <3>1 DEF OffIsOff, Goto, TypeOK, SendOptimistic, TurnedOn, TurnedOff,
             WriteState, CancelTimer, ArmTimer
    <3>2. CASE WritePin(t)
      BY <1>1, <2>2, <2>3, <3>2 DEF OffIsOff, Goto, TypeOK, WritePin
    <3> QED
      BY <2>1, <3>1, <3>2 DEF Step
  <2>5. Timed'
    <3> SUFFICES ASSUME NEW o \in Momentary \ restored', pin'[o]
                 PROVE  \/ \E m \in Timers : armed'[m] = o
                        \/ \E u \in Tasks : pc'[u] \in Timing /\ out'[u] = o
      BY DEF Timed
    <3>1. o \in Outputs
      BY OutputsAssumption
    <3>2. CASE SendOptimistic(t) \/ TurnedOn(t) \/ TurnedOff(t)
      BY <1>1, <2>2, <3>2 DEF Timed, Timing, Goto, TypeOK, SendOptimistic, TurnedOn, TurnedOff
    <3>3. CASE WritePin(t)
      <4>1. CASE o = out[t]
        BY <1>1, <3>1, <3>3, <4>1 DEF WritePin, Timing, Goto, TypeOK
      <4>2. CASE o # out[t]
        BY <1>1, <2>2, <2>3, <3>1, <3>3, <4>2 DEF WritePin, Timed, Timing, TypeOK
      <4> QED
        BY <4>1, <4>2
    <3>4. CASE WriteState(t)
      <4>1. pc[t] = "onState" \/ ~pin[out[t]]
        BY <2>2, <3>4 DEF WriteState, OffIsOff
      <4> QED
        BY <1>1, <2>2, <2>3, <3>1, <3>4, <4>1 DEF WriteState, Timed, Timing, Goto, TypeOK
    <3>5. CASE CancelTimer(t)
      <4>1. CASE o = out[t]
        BY <1>1, <2>2, <3>1, <3>5, <4>1 DEF CancelTimer, OffIsOff, Timing, Goto, TypeOK
      <4>2. CASE o # out[t]
        <5>1. PICK m \in Timers : armed[m] = o
          BY <1>1, <2>2, <2>3, <3>1, <3>5, <4>2 DEF CancelTimer, Timed, Timing
        <5>2. m # handle[out[t]]
          BY <3>1, <4>2, <5>1, NoneAssumption DEF TimedInTurn, HandleOwn, TypeOK
        <5>3. armed'[m] = o
          BY <3>5, <5>1, <5>2 DEF CancelTimer, TypeOK
        <5> QED
          BY <5>3
      <4> QED
        BY <4>1, <4>2
    <3>6. CASE ArmTimer(t)
      <4>1. CASE o = out[t]
        BY <3>1, <3>6, <4>1 DEF ArmTimer, TypeOK
      <4>2. CASE o # out[t]
        <5>1. PICK m \in Timers : armed[m] = o
          BY <1>1, <2>2, <2>3, <3>1, <3>6, <4>2 DEF ArmTimer, Timed, Timing
        <5>2. armed'[m] = o
          BY <3>1, <3>6, <5>1, NoneAssumption DEF ArmTimer, TypeOK
        <5> QED
          BY <5>2
      <4> QED
        BY <4>1, <4>2
    <3> QED
      BY <2>1, <3>2, <3>3, <3>4, <3>5, <3>6 DEF Step
  <2> QED
    BY <2>4, <2>5
<1> QED
  BY <1>1, <1>2, <1>3 DEF TimedInTurn

\* As long as commands do not overlap, every output that a command left on has the timer
\* that switches it off.
THEOREM OnAlwaysTimed == Spec => []OnIsTimedInTurn
<1>1. Init => TimedInTurn
  <2> SUFFICES ASSUME Init PROVE TimedInTurn
    OBVIOUS
  <2>1. HandleOwn /\ OffIsOff
    BY NoneAssumption DEF Init, HandleOwn, OffIsOff
  <2>2. Timed
    BY OutputsAssumption DEF Init, Timed
  <2> QED
    BY <2>1, <2>2 DEF TimedInTurn
<1>2. TypeOK /\ TypeOK' /\ InTurn /\ TimedInTurn /\ [Next]_vars => TimedInTurn'
  <2> SUFFICES ASSUME TypeOK, TypeOK', InTurn, TimedInTurn, [Next]_vars PROVE TimedInTurn'
    OBVIOUS
  <2>1. ASSUME NEW t \in Tasks, Command(t) PROVE TimedInTurn'
    <3>1. PICK o \in Outputs : TurnOn(t, o) \/ TurnOff(t, o)
      BY <2>1, CommandMeans
    <3>2. \E place \in {"onPin", "denied", "offPin"} : Begins(t, o, place, FALSE)
      BY <3>1 DEF TurnOn, TurnOff
    <3> QED
      BY <2>1, <3>2, BeginsTimed DEF Command
  <2>2. ASSUME NEW t \in Tasks, TimerFires(t) PROVE TimedInTurn'
    <3>1. PICK m \in Timers : /\ armed[m] # None /\ armed' = [armed EXCEPT ![m] = None]
                              /\ Begins(t, armed[m], "offPin", TRUE)
      BY <2>2 DEF TimerFires
    <3>2. armed[m] \in Outputs
      BY <3>1 DEF TypeOK
    <3>3. \A n \in Timers : armed'[n] = armed[n] \/ (armed'[n] = None /\ armed[n] = armed[m])
      BY <3>1 DEF TypeOK
    <3> QED
      BY <2>2, <3>1, <3>2, <3>3, BeginsTimed DEF TimerFires
  <2>3. ASSUME NEW t \in Tasks, Step(t) PROVE TimedInTurn'
    BY <2>3, StepTimed
  <2>4. ASSUME NEW o \in Outputs, SendState(o) PROVE TimedInTurn'
    BY <2>4 DEF SendState, TimedInTurn, HandleOwn, Timed, OffIsOff
  <2>5. CASE UNCHANGED vars
    BY <2>5 DEF vars, TimedInTurn, HandleOwn, Timed, OffIsOff
  <2> QED
    BY <2>1, <2>2, <2>3, <2>4, <2>5 DEF Next
<1>3. TimedInTurn => OnIsTimedInTurn
  BY DEF TimedInTurn, Timed, Timing, OnIsTimedInTurn, OnIsTimed, Quiet, Free
<1> QED
  BY <1>1, <1>2, <1>3, OutputsTypeCorrect, InTurnInvariant, PTL DEF Spec

-----------------------------------------------------------------------------
\* The thermostat.
CONSTANTS Sensors, Temps, Asked, MinTemp, MaxTemp, Hysteresis, Target, Mode, MaxReadings
VARIABLES mode, action, target, readings, heater, writes, orphaned, crossed, failures,
          commands, events

Heat == INSTANCE Thermostat WITH pin <- heater, overlapped <- crossed, faults <- failures

\* Until something goes wrong there is one switch at most, and it or the relay says what the
\* action says.
SwitchIsAction ==
    (failures = 0 /\ ~crossed /\ ~orphaned) =>
        /\ writes = {} => (heater <=> action = "heating")
        /\ \A w \in writes : writes = {w} /\ (w.on <=> action = "heating")

SwitchInv == Heat!TypeOK /\ SwitchIsAction

\* A switch that goes with a change of the action.
LEMMA BecomeKeeps ==
    ASSUME SwitchInv, NEW a \in {"heating", "idle", "off"}, NEW on \in BOOLEAN,
           on <=> a = "heating", Heat!Become(a, on), UNCHANGED <<heater, orphaned, failures>>
    PROVE  /\ action' \in {"heating", "idle", "off"}
           /\ writes' \subseteq [id : Nat, on : BOOLEAN] /\ crossed' \in BOOLEAN
           /\ SwitchIsAction'
  <1>. DEFINE w == [id |-> commands + events, on |-> on]
  <1>1. action' = a /\ writes' = writes \union {w} /\ crossed' = (crossed \/ writes # {})
    BY DEF Heat!Become, Heat!Switch
  <1>2. w \in [id : Nat, on : BOOLEAN]
    BY DEF SwitchInv, Heat!TypeOK
  <1>3. crossed' \in BOOLEAN /\ writes' \subseteq [id : Nat, on : BOOLEAN]
    BY <1>1, <1>2 DEF SwitchInv, Heat!TypeOK
  <1>4. w.on <=> action' = "heating"
    BY <1>1
  <1>5. ~crossed' => writes' = {w}
    BY <1>1
  <1>. HIDE DEF w
  <1>6. SwitchIsAction'
    BY <1>4, <1>5 DEF SwitchIsAction
  <1>. QED BY <1>1, <1>3, <1>6

\* _evaluate leaves the action typed and the switch agreeing with it.
LEMMA EvaluateKeeps ==
    ASSUME SwitchInv, Heat!Evaluate, UNCHANGED <<mode, heater, orphaned, failures>>
    PROVE  /\ action' \in {"heating", "idle", "off"}
           /\ writes' \subseteq [id : Nat, on : BOOLEAN] /\ crossed' \in BOOLEAN
           /\ SwitchIsAction'
  <1>1. action' \in {"heating", "idle", "off"}
    BY DEF Heat!Evaluate, Heat!Become, SwitchInv, Heat!TypeOK
  <1>2. CASE Heat!Become("off", FALSE)
    BY <1>2, BecomeKeeps
  <1>3. CASE Heat!Become("heating", TRUE)
    BY <1>3, BecomeKeeps
  <1>4. CASE Heat!Become("idle", FALSE)
    BY <1>4, BecomeKeeps
  <1>5. CASE UNCHANGED action /\ Heat!NoSwitch
    BY <1>1, <1>5 DEF Heat!NoSwitch, SwitchInv, Heat!TypeOK, SwitchIsAction
  <1>. QED BY <1>2, <1>3, <1>4, <1>5 DEF Heat!Evaluate

LEMMA EvaluationKeeps == SwitchInv /\ [Heat!Next]_(Heat!vars) => SwitchInv'
  <1>. SUFFICES ASSUME SwitchInv, [Heat!Next]_(Heat!vars) PROVE SwitchInv'
    OBVIOUS
  <1>1. ASSUME NEW s \in Sensors, NEW t \in Temps, Heat!SensorEvent(s, t) PROVE SwitchInv'
    <2>1. UNCHANGED <<mode, target, heater, orphaned, failures, commands>> /\ Heat!Evaluate
      BY <1>1 DEF Heat!SensorEvent
    <2>2. events' \in Nat /\ readings' \in [Sensors -> Temps \union {None}]
      BY <1>1 DEF Heat!SensorEvent, SwitchInv, Heat!TypeOK
    <2>. QED BY <2>1, <2>2, EvaluateKeeps DEF SwitchInv, Heat!TypeOK
  <1>2. ASSUME NEW t \in Asked, Heat!TemperatureCommand(t) PROVE SwitchInv'
    <2>1. UNCHANGED <<mode, readings, heater, orphaned, failures, events>> /\ Heat!Evaluate
      BY <1>2 DEF Heat!TemperatureCommand
    <2>2. commands' \in Nat
      BY <1>2 DEF Heat!TemperatureCommand, SwitchInv, Heat!TypeOK
    <2>. QED BY <2>1, <2>2, EvaluateKeeps DEF SwitchInv, Heat!TypeOK
  <1>3. CASE Heat!TurnOff
    <2>1. Heat!Become("off", FALSE) /\ UNCHANGED <<target, readings, heater, orphaned, failures, events>>
      BY <1>3 DEF Heat!TurnOff
    <2>2. commands' \in Nat /\ mode' = "off"
      BY <1>3 DEF Heat!TurnOff, SwitchInv, Heat!TypeOK
    <2>. QED BY <2>1, <2>2, BecomeKeeps DEF SwitchInv, Heat!TypeOK
  <1>4. CASE Heat!TurnToHeat
    BY <1>4 DEF Heat!TurnToHeat, Heat!NoSwitch, SwitchInv, Heat!TypeOK, SwitchIsAction
  <1>5. CASE Heat!Reload
    <2>1. Heat!Initially \in {"idle", "off"} /\ Heat!Configured \in {"heat", "off"}
      BY DEF Heat!Initially, Heat!Configured
    <2>2. mode' \in {"heat", "off"} /\ action' \in {"idle", "off"}
      BY <1>5, <2>1 DEF Heat!Reload
    <2>. QED BY <1>5, <2>1, <2>2 DEF Heat!Reload, Heat!NoSwitch, SwitchInv, Heat!TypeOK, SwitchIsAction
  <1>6. ASSUME NEW w \in writes, Heat!Done(w) PROVE SwitchInv'
    <2>1. CASE Heat!Written(w)
      BY <1>6, <2>1 DEF Heat!Done, Heat!Written, SwitchInv, Heat!TypeOK, SwitchIsAction
    <2>2. CASE Heat!WriteFails(w)
      BY <1>6, <2>2 DEF Heat!Done, Heat!WriteFails, SwitchInv, Heat!TypeOK, SwitchIsAction
    <2>. QED BY <1>6, <2>1, <2>2 DEF Heat!Done
  <1>7. CASE UNCHANGED Heat!vars
    BY <1>7 DEF Heat!vars, SwitchInv, Heat!TypeOK, SwitchIsAction
  <1>. QED BY <1>1, <1>2, <1>3, <1>4, <1>5, <1>6, <1>7 DEF Heat!Next

\* As long as no two switches overlap and none fails, the heating output follows the action
\* that _evaluate relies on, up to a mode command or a reload that takes the action away.
THEOREM OutputFollowsAction == Heat!Spec => []Heat!PinIsAction
  <1>1. Heat!Init => SwitchInv
    <2>1. Heat!Initially \in {"idle", "off"} /\ Heat!Configured \in {"heat", "off"}
      BY DEF Heat!Initially, Heat!Configured
    <2>2. Heat!Init => Heat!TypeOK
      <3>1. Heat!Init => mode \in {"heat", "off"} /\ action \in {"heating", "idle", "off"}
        BY <2>1 DEF Heat!Init
      <3>3. Heat!Init => readings \in [Sensors -> Temps \union {None}]
        BY DEF Heat!Init
      <3>4. Heat!Init => writes \subseteq [id : Nat, on : BOOLEAN]
        BY DEF Heat!Init
      <3>5. Heat!Init => heater \in BOOLEAN /\ orphaned \in BOOLEAN /\ crossed \in BOOLEAN
        BY DEF Heat!Init
      <3>6. Heat!Init => failures \in Nat /\ commands \in Nat /\ events \in Nat
        BY DEF Heat!Init
      <3>. QED BY <3>1, <3>3, <3>4, <3>5, <3>6 DEF Heat!TypeOK
    <2>3. Heat!Init => SwitchIsAction
      BY <2>1 DEF Heat!Init, SwitchIsAction
    <2>. QED BY <2>2, <2>3 DEF SwitchInv
  <1>2. SwitchInv => Heat!PinIsAction
    BY DEF SwitchInv, SwitchIsAction, Heat!PinIsAction, Heat!Settled
  <1>. QED BY <1>1, <1>2, EvaluationKeeps, PTL DEF Heat!Spec
=============================================================================
