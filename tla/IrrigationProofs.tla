-------------------------- MODULE IrrigationProofs --------------------------
(***************************************************************************)
(* Theorems about Irrigation, for any number of zones, sources, clients    *)
(* and schedules.  The first four hold for any bound on overlapping tasks  *)
(* and any number of faults; the theorems about the calm controller, for   *)
(* commands that do not overlap and writes that do not fail.               *)
(***************************************************************************)
EXTENDS Irrigation, FiniteSetTheorems, SequenceTheorems, TLAPS

\* Every operation the actions call is one of Ops.
LEMMA OpsTyped ==
  /\ \A do \in PlainOps : Call(do) \in Ops
  /\ \A do \in ValveWrites \cup ZoneOps, z \in Zones : Op(do, z) \in Ops
  /\ \A do \in PumpWrites, s \in Sources : Op(do, s) \in Ops
BY DEF Ops, Op, Call

\* Short sequences of operations.
LEMMA ShortSeqs ==
  ASSUME NEW a \in Ops, NEW b \in Ops, NEW c \in Ops, NEW d \in Ops
  PROVE  /\ <<>> \in Seq(Ops)
         /\ <<a>> \in Seq(Ops)
         /\ <<a, b>> \in Seq(Ops)
         /\ <<a, b, c>> \in Seq(Ops)
         /\ <<a, b, c, d>> \in Seq(Ops)
OBVIOUS

\* A task that holds the loop goes on to operations of its own.
Proceeds(t) == loop = t /\ todo[t] # <<>> /\ \E ops \in Seq(Ops) : Calls(t, ops)

LEMMA ReturnProceeds ==
  ASSUME NEW t \in Tasks, loop = t, todo[t] # <<>>, Returns(t)
  PROVE  Proceeds(t)
<1>1. <<>> \in Seq(Ops)
  OBVIOUS
<1> QED
  BY <1>1 DEF Returns, Proceeds

LEMMA ProceedsTyped ==
  ASSUME TasksTyped, NEW t \in Tasks, Proceeds(t)
  PROVE  TasksTyped'
<1>1. PICK ops \in Seq(Ops) : Calls(t, ops)
  BY DEF Proceeds
<1>2. Tail(todo[t]) \in Seq(Ops)
  BY HeadTailProperties DEF TasksTyped, Proceeds
<1>3. ops \o Tail(todo[t]) \in Seq(Ops)
  BY <1>2, ConcatProperties
<1> QED
  BY <1>1, <1>3 DEF Calls, TasksTyped, relays, budget

\* Calls of plain operations, the commonest.
LEMMA PlainCalls ==
  ASSUME NEW a \in PlainOps, NEW b \in PlainOps, NEW c \in PlainOps
  PROVE  /\ <<Call(a)>> \in Seq(Ops)
         /\ <<Call(a), Call(b)>> \in Seq(Ops)
         /\ <<Call(a), Call(b), Call(c)>> \in Seq(Ops)
BY OpsTyped, ShortSeqs

\* The operations on a zone that the actions call.
LEMMA ZoneOpsTyped ==
  ASSUME NEW z \in Zones
  PROVE  /\ Op("open", z) \in Ops /\ Op("openBeforePump", z) \in Ops
         /\ Op("openOverlap", z) \in Ops /\ Op("close", z) \in Ops
         /\ Op("zoneAlone", z) \in Ops /\ Op("startZone", z) \in Ops
         /\ Op("gap", z) \in Ops /\ Op("handover", z) \in Ops
         /\ Op("singleZone", z) \in Ops
BY OpsTyped DEF ValveWrites, ZoneOps

\* The plain operations they call before it.
LEMMA PlainOpsTyped ==
  /\ Call("activate") \in Ops /\ Call("deactivate") \in Ops /\ Call("sleep") \in Ops
  /\ Call("shutdown") \in Ops /\ Call("stopZone") \in Ops
BY OpsTyped DEF PlainOps

\* The argument of an operation on a zone is a zone.
LEMMA ArgTyped ==
  ASSUME TasksTyped, NEW t \in Tasks, NEW do \in ZoneOps, Running(t, do)
  PROVE  Arg(t) \in Zones
<1>1. Head(todo[t]) \in Ops
  BY HeadTailProperties DEF TasksTyped, Running
<1> QED
  BY <1>1 DEF Running, Arg, Ops, ZoneOps, ValveWrites, PumpWrites, PlainOps

-----------------------------------------------------------------------------
\* One lemma per group of operations: the task that holds the loop goes on to operations.

LEMMA StopProceeds ==
  ASSUME TypeOK, NEW t \in Tasks,
         Shutdown(t) \/ StopZone(t) \/ PumpStop(t) \/ SwitchSource(t) \/ ToIdle(t)
  PROVE  Proceeds(t)
<1> USE DEF TypeOK, Running, Proceeds
<1>1. CASE Shutdown(t)
  <2>1. <<Call("stopZone"), Call("pumpStop"), Call("toIdle")>> \in Seq(Ops)
    BY PlainCalls DEF PlainOps
  <2> QED
    BY <1>1, <2>1 DEF Shutdown
<1>2. CASE StopZone(t)
  <2>1. active # None => <<Op("close", active)>> \in Seq(Ops)
    BY ZoneOpsTyped DEF ControlTyped
  <2> QED
    BY <1>2, <2>1, ReturnProceeds DEF StopZone
<1>3. CASE PumpStop(t)
  <2>1. /\ <<Call("deactivate"), Call("sleep")>> \in Seq(Ops)
        /\ <<Call("sleep"), Call("deactivate")>> \in Seq(Ops)
        /\ <<Call("deactivate")>> \in Seq(Ops)
    BY PlainCalls DEF PlainOps
  <2> QED
    BY <1>3, <2>1, ReturnProceeds DEF PumpStop
<1>4. CASE SwitchSource(t)
  <2>1. source # None => Op("pumpOn", source) \in Ops /\ Op("pumpOff", source) \in Ops
    BY OpsTyped DEF PumpWrites, ControlTyped
  <2>2. source # None => <<Op("pumpOn", source)>> \in Seq(Ops) /\ <<Op("pumpOff", source)>> \in Seq(Ops)
    BY <2>1
  <2> QED
    BY <1>4, <2>2, ReturnProceeds DEF SwitchSource
<1>5. CASE ToIdle(t)
  BY <1>5, ReturnProceeds DEF ToIdle
<1> QED
  BY <1>1, <1>2, <1>3, <1>4, <1>5

LEMMA PauseProceeds ==
  ASSUME TypeOK, NEW t \in Tasks,
         Pause(t) \/ Paused(t) \/ ResumeZone(t) \/ NextValve(t)
  PROVE  Proceeds(t)
<1> USE DEF TypeOK, Running, Proceeds
<1>1. /\ <<Call("stopZone"), Call("paused")>> \in Seq(Ops)
      /\ <<Call("resume"), Call("nextAdvance")>> \in Seq(Ops)
      /\ <<Call("nextAdvance")>> \in Seq(Ops)
      /\ <<Call("forceAdvance")>> \in Seq(Ops)
  BY PlainCalls DEF PlainOps
<1>2. active # None => <<Op("startZone", active)>> \in Seq(Ops)
  BY ZoneOpsTyped DEF ControlTyped
<1>3. CASE Pause(t)
  BY <1>1, <1>3, ReturnProceeds DEF Pause
<1>4. CASE Paused(t)
  BY <1>4, ReturnProceeds DEF Paused
<1>5. CASE ResumeZone(t)
  BY <1>2, <1>5, ReturnProceeds DEF ResumeZone
<1>6. CASE NextValve(t)
  BY <1>1, <1>6, ReturnProceeds DEF NextValve
<1> QED
  BY <1>3, <1>4, <1>5, <1>6

LEMMA StartProceeds ==
  ASSUME TypeOK, NEW t \in Tasks,
         \/ FullCycle(t) \/ NewCycle(t) \/ SingleZone(t) \/ ZoneAlone(t)
         \/ StartCycle(t) \/ StartZone(t) \/ Arm(t)
  PROVE  Proceeds(t)
<1> USE DEF TypeOK, Running, Proceeds
<1>1. CASE FullCycle(t)
  <2>1. /\ <<Call("shutdown"), Call("newCycle")>> \in Seq(Ops)
        /\ <<Call("newCycle")>> \in Seq(Ops)
    BY PlainCalls DEF PlainOps
  <2> QED
    BY <1>1, <2>1, ReturnProceeds DEF FullCycle
<1>2. CASE NewCycle(t)
  <2>1. <<Call("startCycle")>> \in Seq(Ops)
    BY PlainCalls DEF PlainOps
  <2> QED
    BY <1>2, <2>1, ReturnProceeds DEF NewCycle
<1>3. CASE SingleZone(t)
  <2>1. Arg(t) \in Zones
    BY <1>3, ArgTyped DEF SingleZone, ZoneOps
  <2>2. /\ <<Call("shutdown"), Op("zoneAlone", Arg(t))>> \in Seq(Ops)
        /\ <<Op("zoneAlone", Arg(t))>> \in Seq(Ops)
    BY <2>1, ZoneOpsTyped, PlainOpsTyped
  <2> QED
    BY <1>3, <2>2, ReturnProceeds DEF SingleZone
<1>4. CASE ZoneAlone(t)
  <2>1. Arg(t) \in Zones
    BY <1>4, ArgTyped DEF ZoneAlone, ZoneOps
  <2>2. <<Op("startZone", Arg(t))>> \in Seq(Ops)
    BY <2>1, ZoneOpsTyped, PlainOpsTyped
  <2> QED
    BY <1>4, <2>2 DEF ZoneAlone
<1>5. CASE StartCycle(t)
  <2>1. CASE Returns(t)
    BY <1>5, <2>1, ReturnProceeds DEF StartCycle
  <2>2. ASSUME NEW z \in Zones, Calls(t, <<Op("startZone", z)>>)
        PROVE  Proceeds(t)
    <3>1. <<Op("startZone", z)>> \in Seq(Ops)
      BY ZoneOpsTyped, PlainOpsTyped
    <3> QED
      BY <1>5, <2>2, <3>1 DEF StartCycle
  <2> QED
    BY <1>5, <2>1, <2>2 DEF StartCycle
<1>6. CASE StartZone(t)
  <2>1. Arg(t) \in Zones
    BY <1>6, ArgTyped DEF StartZone, ZoneOps
  <2>2. /\ <<Op("open", Arg(t))>> \in Seq(Ops)
        /\ <<Op("openBeforePump", Arg(t))>> \in Seq(Ops)
        /\ <<Call("activate"), Call("sleep"), Op("open", Arg(t))>> \in Seq(Ops)
        /\ <<Call("activate"), Op("open", Arg(t))>> \in Seq(Ops)
    BY <2>1, ZoneOpsTyped, PlainOpsTyped
  <2> QED
    BY <1>6, <2>2 DEF StartZone
<1>7. CASE Arm(t)
  BY <1>7, ReturnProceeds DEF Arm
<1> QED
  BY <1>1, <1>2, <1>3, <1>4, <1>5, <1>6, <1>7

LEMMA AdvanceProceeds ==
  ASSUME TypeOK, NEW t \in Tasks, Advance(t) \/ Gap(t) \/ Handover(t)
  PROVE  Proceeds(t)
<1> USE DEF TypeOK, Running, Proceeds
<1>1. CASE Advance(t)
  <2>1. /\ <<Call("shutdown")>> \in Seq(Ops)
        /\ <<Call("stopZone"), Call("pumpStop"), Call("shutdown")>> \in Seq(Ops)
        /\ <<Call("startCycle")>> \in Seq(Ops)
    BY PlainCalls DEF PlainOps
  <2>2. \A z \in Zones :
          /\ <<Op("openOverlap", z), Call("sleep"), Call("stopZone"), Op("handover", z)>> \in Seq(Ops)
          /\ <<Call("stopZone"), Op("gap", z)>> \in Seq(Ops)
    BY ZoneOpsTyped, PlainOpsTyped
  <2>3. loop = t /\ todo[t] # <<>>
    BY <1>1 DEF Advance
  <2>4. ASSUME NEW force \in BOOLEAN, AdvanceEnds(t, force)
        PROVE  Proceeds(t)
    BY <2>1, <2>3, <2>4 DEF AdvanceEnds
  <2>5. ASSUME NEW force \in BOOLEAN, AdvanceOn(t, force)
        PROVE  Proceeds(t)
    BY <2>1, <2>2, <2>3, <2>5 DEF AdvanceOn
  <2> QED
    BY <1>1, <2>4, <2>5 DEF Advance
<1>2. CASE Gap(t)
  <2>1. Arg(t) \in Zones
    BY <1>2, ArgTyped DEF Gap, ZoneOps
  <2>2. /\ <<Op("startZone", Arg(t))>> \in Seq(Ops)
        /\ <<Call("sleep"), Op("startZone", Arg(t))>> \in Seq(Ops)
        /\ <<Call("deactivate"), Call("sleep"), Call("activate"),
              Op("startZone", Arg(t))>> \in Seq(Ops)
    BY <2>1, ZoneOpsTyped, PlainOpsTyped
  <2> QED
    BY <1>2, <2>2 DEF Gap
<1>3. CASE Handover(t)
  BY <1>3, ReturnProceeds DEF Handover
<1> QED
  BY <1>1, <1>2, <1>3

\* Every step of a task but its awaits is such a step.
LEMMA StepsProceed ==
  ASSUME TypeOK, NEW t \in Tasks, Step(t), ~(Suspend(t) \/ Resume(t) \/ Die(t))
  PROVE  Proceeds(t)
BY StopProceeds, PauseProceeds, StartProceeds, AdvanceProceeds DEF Step

\* What a suspended task goes on to do is typed, whatever its write did.
LEMMA ContinuationsTyped ==
  ASSUME NEW op
  PROVE  OnSuccess(op) \in Seq(Ops) /\ OnFailure(op) \in Seq(Ops)
<1>1. /\ <<>> \in Seq(Ops)
      /\ <<Call("arm")>> \in Seq(Ops)
      /\ <<Call("sleep"), Call("activate"), Call("arm")>> \in Seq(Ops)
      /\ <<Call("shutdown")>> \in Seq(Ops)
  BY PlainCalls DEF PlainOps
<1>2. OnSuccess(op) \in Seq(Ops)
  BY <1>1 DEF OnSuccess
<1>3. OnFailure(op) \in Seq(Ops)
  BY <1>1 DEF OnFailure
<1> QED
  BY <1>2, <1>3

LEMMA DriveTyped ==
  ASSUME TasksTyped, NEW op, Drive(op)
  PROVE  valve' \in [Zones -> BOOLEAN] /\ pump' \in [Sources -> BOOLEAN]
BY DEF TasksTyped, Drive

LEMMA RemainingTyped ==
  ASSUME TasksTyped, NEW t \in Tasks, todo[t] # <<>>,
         io[t] \in {"spawned", "asleep", "written", "failed"}
  PROVE  Remaining(t) \in Seq(Ops)
<1>1. todo[t] \in Seq(Ops) /\ Tail(todo[t]) \in Seq(Ops)
  BY HeadTailProperties DEF TasksTyped
<1>2. /\ OnSuccess(Head(todo[t])) \o Tail(todo[t]) \in Seq(Ops)
      /\ OnFailure(Head(todo[t])) \o Tail(todo[t]) \in Seq(Ops)
  BY <1>1, ContinuationsTyped, ConcatProperties
<1> QED
  BY <1>1, <1>2 DEF Remaining

LEMMA SuspensionTyped ==
  ASSUME TasksTyped, NEW t \in Tasks,
         Suspend(t) \/ WriteLands(t) \/ WriteFails(t) \/ Resume(t) \/ Die(t)
  PROVE  TasksTyped'
<1> USE DEF TasksTyped
<1>1. CASE Suspend(t)
  BY <1>1 DEF Suspend, relays, budget
<1>2. CASE WriteLands(t)
  <2>1. valve' \in [Zones -> BOOLEAN] /\ pump' \in [Sources -> BOOLEAN]
    BY <1>2, DriveTyped DEF WriteLands
  <2> QED
    BY <1>2, <2>1 DEF WriteLands, budget
<1>3. CASE WriteFails(t)
  BY <1>3, BoundsAssumption DEF WriteFails, relays
<1>4. CASE Resume(t)
  BY <1>4, RemainingTyped DEF Resume, relays, budget
<1>5. CASE Die(t)
  <2>1. valve' \in [Zones -> BOOLEAN] /\ pump' \in [Sources -> BOOLEAN]
    BY <1>5, DriveTyped DEF Die, relays
  <2> QED
    BY <1>5, <2>1 DEF Die, budget
<1> QED
  BY <1>1, <1>2, <1>3, <1>4, <1>5

\* A new task, and the bounded count of commands.
LEMMA EntersTyped ==
  ASSUME TasksTyped, NEW t \in Tasks, NEW ops \in Seq(Ops), Enters(t, ops)
  PROVE  todo' \in [Tasks -> Seq(Ops)] /\ loop' \in Tasks \cup {None}
BY DEF TasksTyped, Enters

LEMMA CmdsTyped ==
  ASSUME TasksTyped, cmds < MaxCommands
  PROVE  cmds + 1 \in 0..MaxCommands
BY BoundsAssumption DEF TasksTyped

LEMMA EnvironmentTyped ==
  ASSUME TasksTyped,
         \/ \E c \in Clients : Command(c) \/ Set(c) \/ Standby(c)
         \/ \E t \in Timers : TimerFires(t)
         \/ \E s \in Schedules : ScheduleFires(s)
  PROVE  TasksTyped'
<1> USE DEF TasksTyped, relays, budget
<1>1. ASSUME NEW c \in Clients, Command(c)
      PROVE  TasksTyped'
  <2>1. /\ <<Call("fullCycle")>> \in Seq(Ops) /\ <<Call("shutdown")>> \in Seq(Ops)
        /\ <<Call("pause")>> \in Seq(Ops) /\ <<Call("resume")>> \in Seq(Ops)
        /\ <<Call("nextValve")>> \in Seq(Ops)
        /\ \A z \in Zones : <<Op("singleZone", z)>> \in Seq(Ops)
    BY PlainCalls, ZoneOpsTyped DEF PlainOps
  <2>2. ASSUME NEW ops \in Seq(Ops), NEW name, Sends(c, name, ops)
        PROVE  TasksTyped'
    BY <1>1, <2>2, BoundsAssumption DEF Command, Sends, Enters, Tasks
  <2> QED
    BY <1>1, <2>1, <2>2 DEF Command
<1>2. ASSUME NEW c \in Clients, Set(c)
      PROVE  TasksTyped'
  BY <1>2, BoundsAssumption DEF Set
<1>3. ASSUME NEW c \in Clients, Standby(c)
      PROVE  TasksTyped'
  <2>1. <<Call("shutdown")>> \in Seq(Ops)
    BY PlainCalls DEF PlainOps
  <2>2. CASE state = "IDLE"
    BY <1>3, <2>2, BoundsAssumption DEF Standby
  <2>3. CASE state # "IDLE"
    BY <1>3, <2>1, <2>3, EntersTyped, CmdsTyped DEF Standby, Sends, Tasks
  <2> QED
    BY <2>2, <2>3
<1>4. ASSUME NEW t \in Timers, TimerFires(t)
      PROVE  TasksTyped'
  <2>1. <<Call("advance")>> \in Seq(Ops)
    BY PlainCalls DEF PlainOps
  <2> QED
    BY <1>4, <2>1 DEF TimerFires, Tasks
<1>5. ASSUME NEW s \in Schedules, ScheduleFires(s)
      PROVE  TasksTyped'
  <2>1. <<Call("fullCycle")>> \in Seq(Ops)
    BY PlainCalls DEF PlainOps
  <2>2. todo' \in [Tasks -> Seq(Ops)] /\ loop' \in Tasks \cup {None}
    BY <1>5, <2>1, EntersTyped DEF ScheduleFires, Tasks
  <2> QED
    BY <1>5, <2>2, CmdsTyped DEF ScheduleFires
<1> QED
  BY <1>1, <1>2, <1>3, <1>4, <1>5

-----------------------------------------------------------------------------
\* The controller's own state stays typed.

LEMMA CountedTyped ==
  ASSUME NEW sc \in [Zones -> Nat]
  PROVE  Counted(sc) \in [Zones -> Nat]
BY DEF Counted

LEMMA ControlStaysTyped ==
  ASSUME TypeOK, Next
  PROVE  ControlTyped'
<1> USE DEF TypeOK, ControlTyped, States, ctl, settings
<1>1. ASSUME NEW t \in Tasks,
             Shutdown(t) \/ StopZone(t) \/ PumpStop(t) \/ SwitchSource(t) \/ ToIdle(t)
      PROVE  ControlTyped'
  BY <1>1 DEF Shutdown, StopZone, PumpStop, SwitchSource, ToIdle
<1>2. ASSUME NEW t \in Tasks, Pause(t) \/ Paused(t) \/ ResumeZone(t) \/ NextValve(t)
      PROVE  ControlTyped'
  BY <1>2 DEF Pause, Paused, ResumeZone, NextValve
<1>3. ASSUME NEW t \in Tasks,
             FullCycle(t) \/ SingleZone(t) \/ ZoneAlone(t) \/ Arm(t) \/ Gap(t)
      PROVE  ControlTyped'
  BY <1>3 DEF FullCycle, SingleZone, ZoneAlone, Arm, Gap
<1>4. ASSUME NEW t \in Tasks, NewCycle(t)
      PROVE  ControlTyped'
  BY <1>4 DEF NewCycle, Options
<1>5. ASSUME NEW t \in Tasks, StartCycle(t)
      PROVE  ControlTyped'
  BY <1>5, CountedTyped DEF StartCycle
<1>6. ASSUME NEW t \in Tasks, StartZone(t)
      PROVE  ControlTyped'
  <2>1. Arg(t) \in Zones
    BY <1>6, ArgTyped DEF StartZone, ZoneOps
  <2> QED
    BY <1>6, <2>1 DEF StartZone
<1>7. ASSUME NEW t \in Tasks, Advance(t)
      PROVE  ControlTyped'
  <2>1. ASSUME NEW force \in BOOLEAN, AdvanceEnds(t, force)
        PROVE  ControlTyped'
    BY <1>7, <2>1 DEF Advance, AdvanceEnds
  <2>2. ASSUME NEW force \in BOOLEAN, AdvanceOn(t, force)
        PROVE  ControlTyped'
    <3>1. Counted([skipCount EXCEPT ![active] = 0]) \in [Zones -> Nat]
      BY CountedTyped
    <3>2. skipCount' \in [Zones -> Nat] /\ UNCHANGED <<state, active, single, timer, orphaned>>
      BY <2>2, <3>1 DEF AdvanceOn
    <3>3. repeatIdx' \in Nat
      <4>1. repeatIdx' = repeatIdx \/ repeatIdx' = repeatIdx + 1
        BY <2>2 DEF AdvanceOn
      <4> QED
        BY <4>1
    <3>4. UNCHANGED <<settings, sched>>
      BY <1>7 DEF Advance
    <3> QED
      BY <3>2, <3>3, <3>4
  <2> QED
    BY <1>7, <2>1, <2>2 DEF Advance
<1>8. ASSUME NEW t \in Tasks, Handover(t)
      PROVE  ControlTyped'
  <2>1. Arg(t) \in Zones
    BY <1>8, ArgTyped DEF Handover, ZoneOps
  <2> QED
    BY <1>8, <2>1 DEF Handover
<1>9. ASSUME NEW t \in Tasks,
             Suspend(t) \/ Resume(t) \/ Die(t) \/ WriteLands(t) \/ WriteFails(t)
      PROVE  ControlTyped'
  BY <1>9 DEF Suspend, Resume, Die, WriteLands, WriteFails
<1>10. ASSUME NEW c \in Clients, Command(c) \/ Set(c) \/ Standby(c)
       PROVE  ControlTyped'
  <2>1. CASE Command(c)
    BY <2>1 DEF Command
  <2>2. CASE Set(c)
    <3>1. /\ \A b \in BOOLEAN : /\ [opt EXCEPT !.autoAdvance = b] \in Options
                               /\ [opt EXCEPT !.reverse = b] \in Options
                               /\ [opt EXCEPT !.skipNext = b] \in Options
          /\ \A n \in Repeats : [opt EXCEPT !.repeat = n] \in Options
      BY DEF Options
    <3>2. [opt EXCEPT !.standby = FALSE] \in Options
      BY DEF Options
    <3> QED
      BY <2>2, <3>1, <3>2 DEF Set
  <2>3. CASE Standby(c)
    <3>1. [opt EXCEPT !.standby = TRUE] \in Options
      BY DEF Options
    <3> QED
      BY <2>3, <3>1 DEF Standby
  <2> QED
    BY <1>10, <2>1, <2>2, <2>3
<1>11. ASSUME NEW t \in Timers, TimerFires(t)
       PROVE  ControlTyped'
  BY <1>11 DEF TimerFires
<1>12. ASSUME NEW s \in Schedules, ScheduleFires(s)
       PROVE  ControlTyped'
  BY <1>12 DEF ScheduleFires
<1> QED
  BY <1>1, <1>2, <1>3, <1>4, <1>5, <1>6, <1>7, <1>8, <1>9, <1>10, <1>11, <1>12
     DEF Next, Step

LEMMA InitTyped == Init => TypeOK
<1> SUFFICES ASSUME Init
             PROVE  TypeOK
  OBVIOUS
<1>1. source \in Sources \cup {None}
  BY DEF Init
<1>2. opt \in Options /\ enabled \in [Zones -> BOOLEAN]
  BY BoundsAssumption DEF Init
<1>3. todo \in [Tasks -> Seq(Ops)]
  <2>1. <<>> \in Seq(Ops)
    OBVIOUS
  <2> QED
    BY <2>1 DEF Init
<1>4. ControlTyped
  BY <1>1, <1>2 DEF Init, ControlTyped, States
<1>5. 0 \in 0..MaxCommands /\ 0 \in 0..MaxFaults
  BY BoundsAssumption
<1>6. TasksTyped
  BY <1>3, <1>5 DEF Init, TasksTyped
<1> QED
  BY <1>4, <1>6 DEF TypeOK

LEMMA NextTyped == TypeOK /\ [Next]_vars => TypeOK'
<1> SUFFICES ASSUME TypeOK, [Next]_vars
             PROVE  TypeOK'
  OBVIOUS
<1>1. CASE UNCHANGED vars
  BY <1>1 DEF vars, ctl, settings, relays, budget, TypeOK, ControlTyped, TasksTyped
<1>2. CASE Next
  <2>1. ControlTyped'
    BY <1>2, ControlStaysTyped
  <2>2. TasksTyped'
    BY <1>2, StepsProceed, ProceedsTyped, SuspensionTyped, EnvironmentTyped DEF TypeOK, Next, Step
  <2> QED
    BY <2>1, <2>2 DEF TypeOK
<1> QED
  BY <1>1, <1>2

\* Every reachable state is typed: every operation a task has still to do is one
\* the controller defines, and the zone and the source it names exist.
THEOREM TypeCorrect == Spec => []TypeOK
BY InitTyped, NextTyped, PTL DEF Spec

-----------------------------------------------------------------------------
\* A controller that says RUNNING has an active zone, however its tasks overlap
\* and whatever fails: the two are set together, between two awaits, wherever
\* either is set.
THEOREM RunningAlwaysHasZone == Spec => []RunningHasZone
<1>1. Init => RunningHasZone
  BY DEF Init, RunningHasZone
<1>2. TypeOK /\ RunningHasZone /\ [Next]_vars => RunningHasZone'
  <2> SUFFICES ASSUME TypeOK, RunningHasZone, [Next]_vars
               PROVE  RunningHasZone'
    OBVIOUS
  <2> USE DEF RunningHasZone, ctl
  <2>1. CASE UNCHANGED vars
    BY <2>1 DEF vars
  <2>2. ASSUME NEW t \in Tasks,
               Shutdown(t) \/ StopZone(t) \/ PumpStop(t) \/ SwitchSource(t) \/ ToIdle(t)
        PROVE  RunningHasZone'
    BY <2>2 DEF Shutdown, StopZone, PumpStop, SwitchSource, ToIdle
  <2>3. ASSUME NEW t \in Tasks, Pause(t) \/ Paused(t) \/ ResumeZone(t) \/ NextValve(t)
        PROVE  RunningHasZone'
    BY <2>3 DEF Pause, Paused, ResumeZone, NextValve
  <2>4. ASSUME NEW t \in Tasks,
               \/ FullCycle(t) \/ NewCycle(t) \/ SingleZone(t) \/ ZoneAlone(t)
               \/ StartCycle(t) \/ Arm(t)
        PROVE  RunningHasZone'
    BY <2>4 DEF FullCycle, NewCycle, SingleZone, ZoneAlone, StartCycle, Arm
  <2>5. ASSUME NEW t \in Tasks, StartZone(t) \/ Handover(t)
        PROVE  RunningHasZone'
    <3>1. Arg(t) \in Zones
      BY <2>5, ArgTyped DEF StartZone, Handover, ZoneOps, TypeOK
    <3> QED
      BY <2>5, <3>1, NoneAssumption DEF StartZone, Handover
  <2>6. ASSUME NEW t \in Tasks, Advance(t) \/ Gap(t)
        PROVE  RunningHasZone'
    BY <2>6 DEF Advance, AdvanceEnds, AdvanceOn, Gap
  <2>7. ASSUME NEW t \in Tasks,
               Suspend(t) \/ Resume(t) \/ Die(t) \/ WriteLands(t) \/ WriteFails(t)
        PROVE  RunningHasZone'
    BY <2>7 DEF Suspend, Resume, Die, WriteLands, WriteFails
  <2>8. CASE \/ \E c \in Clients : Command(c) \/ Set(c) \/ Standby(c)
             \/ \E t \in Timers : TimerFires(t)
             \/ \E s \in Schedules : ScheduleFires(s)
    BY <2>8 DEF Command, Set, Standby, TimerFires, ScheduleFires
  <2> QED
    BY <2>1, <2>2, <2>3, <2>4, <2>5, <2>6, <2>7, <2>8 DEF Next, Step
<1> QED
  BY <1>1, <1>2, TypeCorrect, PTL DEF Spec

-----------------------------------------------------------------------------
\* Counting the zones passed over keeps every counter below its run_every_n.
LEMMA CountedBounded ==
  ASSUME NEW sc \in [Zones -> Nat], \A z \in Zones : sc[z] < Every[z]
  PROVE  \A z \in Zones : Counted(sc)[z] < Every[z]
<1> SUFFICES ASSUME NEW z \in Zones
             PROVE  Counted(sc)[z] < Every[z]
  OBVIOUS
<1>1. sc[z] \in Nat /\ Every[z] \in Nat \ {0} /\ sc[z] < Every[z]
  BY ZonesAssumption
<1>2. CASE enabled[z] /\ z \notin Eligible(sc)
  BY <1>1, <1>2 DEF Counted, Eligible
<1>3. CASE ~(enabled[z] /\ z \notin Eligible(sc))
  BY <1>1, <1>3 DEF Counted
<1> QED
  BY <1>2, <1>3

\* No zone is ever passed over run_every_n times, however many cycles, manual
\* starts and forced advances mix: its counter stays below run_every_n.
THEOREM SkipCountsStayBounded == Spec => []SkipCountBounded
<1>1. Init => SkipCountBounded
  BY ZonesAssumption DEF Init, SkipCountBounded
<1>2. TypeOK /\ SkipCountBounded /\ [Next]_vars => SkipCountBounded'
  <2> SUFFICES ASSUME TypeOK, SkipCountBounded, [Next]_vars
               PROVE  SkipCountBounded'
    OBVIOUS
  <2>1. skipCount \in [Zones -> Nat] /\ \A z \in Zones : skipCount[z] < Every[z]
    BY DEF TypeOK, ControlTyped, SkipCountBounded
  <2>2. ASSUME NEW z \in Zones
        PROVE  LET sc == [skipCount EXCEPT ![z] = 0]
               IN sc \in [Zones -> Nat] /\ \A y \in Zones : sc[y] < Every[y]
    BY <2>1, ZonesAssumption
  <2>3. ASSUME NEW t \in Tasks, StartCycle(t)
        PROVE  SkipCountBounded'
    BY <2>1, <2>3, CountedBounded DEF StartCycle, SkipCountBounded
  <2>4. ASSUME NEW t \in Tasks, Advance(t)
        PROVE  SkipCountBounded'
    <3>1. PICK force \in BOOLEAN : AdvanceEnds(t, force) \/ AdvanceOn(t, force)
      BY <2>4 DEF Advance
    <3>2. active \in Zones \cup {None}
      BY DEF TypeOK, ControlTyped
    <3>3. CASE AdvanceEnds(t, force)
      BY <2>1, <2>2, <3>2, <3>3 DEF AdvanceEnds, SkipCountBounded
    <3>4. CASE AdvanceOn(t, force)
      <4>1. active \in Zones
        BY <3>2, <3>4 DEF AdvanceOn
      <4>2. skipCount' = Counted([skipCount EXCEPT ![active] = 0])
        BY <3>4 DEF AdvanceOn
      <4> QED
        BY <2>2, <4>1, <4>2, CountedBounded DEF SkipCountBounded
    <3> QED
      BY <3>1, <3>3, <3>4
  <2>5. CASE UNCHANGED skipCount
    BY <2>1, <2>5 DEF SkipCountBounded
  <2>6. CASE Next /\ ~\E t \in Tasks : StartCycle(t) \/ Advance(t)
    <3>1. UNCHANGED skipCount
      BY <2>6 DEF Next, Step, Shutdown, StopZone, PumpStop, SwitchSource, ToIdle, Pause,
           Paused, ResumeZone, NextValve, FullCycle, NewCycle, SingleZone, ZoneAlone,
           StartZone, Arm, Gap, Handover, Suspend, Resume, Die, WriteLands, WriteFails,
           Command, Set, Standby, TimerFires, ScheduleFires
    <3> QED
      BY <3>1, <2>5
  <2> QED
    BY <2>3, <2>4, <2>5, <2>6 DEF vars
<1> QED
  BY <1>1, <1>2, TypeCorrect, PTL DEF Spec

-----------------------------------------------------------------------------
\* What the tasks await, and that a zone which waters is timed.

\* What a task is suspended on agrees with the operation it is at, the task that holds
\* the loop awaits nothing, and a schedule loop that was cancelled is never run again.
Awaits ==
  \A t \in Tasks :
    /\ io[t] = "cancelled" => t \in Schedules \ sched /\ todo[t] = <<>>
    /\ io[t] = "spawned" => todo[t] # <<>>
    /\ io[t] = "asleep" => todo[t] # <<>> /\ Head(todo[t]).do = "sleep"
    /\ io[t] \in {"submitted", "written", "failed"} =>
         todo[t] # <<>> /\ Head(todo[t]).do \in Writes
    /\ loop = t <=> (io[t] = "none" /\ todo[t] # <<>>)

LEMMA CallsAwait ==
  ASSUME TasksTyped, Awaits, NEW t \in Tasks, loop = t, NEW ops \in Seq(Ops), Calls(t, ops),
         sched' \subseteq sched
  PROVE  Awaits'
<1>1. DOMAIN todo = Tasks /\ io[t] = "none"
  BY DEF TasksTyped, Awaits
<1>2. /\ todo'[t] = ops \o Tail(todo[t])
      /\ \A u \in Tasks : u # t => todo'[u] = todo[u]
      /\ io' = io /\ loop' = IF todo'[t] = <<>> THEN None ELSE t
  BY <1>1 DEF Calls
<1> QED
  BY <1>1, <1>2, NoneAssumption DEF Awaits

LEMMA ProceedsAwaits ==
  ASSUME TasksTyped, Awaits, NEW t \in Tasks, Proceeds(t), sched' \subseteq sched
  PROVE  Awaits'
BY CallsAwait DEF Proceeds

\* No step starts a schedule loop again.
LEMMA SchedShrinks ==
  ASSUME TypeOK, Next
  PROVE  sched' \subseteq sched
<1> USE DEF TypeOK, ControlTyped
<1>1. ASSUME NEW t \in Tasks, Step(t) \/ WriteLands(t) \/ WriteFails(t)
      PROVE  sched' \subseteq sched
  BY <1>1 DEF Step, Shutdown, StopZone, PumpStop, SwitchSource, ToIdle, Pause, Paused,
     ResumeZone, NextValve, FullCycle, NewCycle, SingleZone, ZoneAlone, StartCycle, StartZone,
     Arm, Advance, Gap, Handover, Suspend, Resume, Die, WriteLands, WriteFails
<1>2. CASE \/ \E c \in Clients : Command(c) \/ Set(c) \/ Standby(c)
           \/ \E t \in Timers : TimerFires(t)
           \/ \E s \in Schedules : ScheduleFires(s)
  BY <1>2 DEF Command, Set, Standby, TimerFires, ScheduleFires
<1> QED
  BY <1>1, <1>2 DEF Next

LEMMA SuspensionAwaits ==
  ASSUME TasksTyped, Awaits, NEW t \in Tasks,
         Suspend(t) \/ WriteLands(t) \/ WriteFails(t) \/ Resume(t) \/ Die(t)
  PROVE  Awaits'
<1> USE DEF TasksTyped
<1>1. CASE Suspend(t)
  BY <1>1, NoneAssumption DEF Suspend, Awaits, Cancelled
<1>2. CASE WriteLands(t)
  BY <1>2, NoneAssumption DEF WriteLands, Awaits
<1>3. CASE WriteFails(t)
  BY <1>3, NoneAssumption DEF WriteFails, Awaits
<1>4. CASE Resume(t)
  <2>1. /\ todo'[t] = Remaining(t) /\ io'[t] = "none"
        /\ \A u \in Tasks : u # t => todo'[u] = todo[u] /\ io'[u] = io[u]
        /\ loop = None /\ sched' = sched
        /\ loop' = IF todo'[t] = <<>> THEN None ELSE t
    BY <1>4 DEF Resume
  <2> QED
    BY <2>1, NoneAssumption DEF Awaits
<1>5. CASE Die(t)
  <2>1. /\ todo'[t] = <<>> /\ io'[t] = "cancelled" /\ t \in Schedules \ sched
        /\ \A u \in Tasks : u # t => todo'[u] = todo[u] /\ io'[u] = io[u]
        /\ loop \in {None, t} /\ loop' = None /\ sched' = sched
    BY <1>5 DEF Die, Cancelled
  <2> QED
    BY <2>1, NoneAssumption DEF Awaits
<1> QED
  BY <1>1, <1>2, <1>3, <1>4, <1>5

LEMMA EnvironmentAwaits ==
  ASSUME TasksTyped, Awaits,
         \/ \E c \in Clients : Command(c) \/ Set(c) \/ Standby(c)
         \/ \E t \in Timers : TimerFires(t)
         \/ \E s \in Schedules : ScheduleFires(s)
  PROVE  Awaits'
<1> USE DEF TasksTyped
<1>1. ASSUME NEW t \in Tasks, NEW ops, ops # <<>>, Enters(t, ops), UNCHANGED <<io, sched>>,
             t \in Schedules => t \in sched
      PROVE  Awaits'
  <2>1. /\ todo'[t] = ops /\ todo[t] = <<>> /\ io'[t] = io[t] /\ io[t] = "none"
        /\ \A u \in Tasks : u # t => todo'[u] = todo[u] /\ io'[u] = io[u]
        /\ loop = None /\ loop' = t /\ sched' = sched
    BY <1>1 DEF Enters, Awaits
  <2> QED
    BY <1>1, <2>1, NoneAssumption DEF Awaits
<1>2. ASSUME UNCHANGED <<io, sched, todo, loop>>
      PROVE  Awaits'
  BY <1>2 DEF Awaits
<1>3. ASSUME NEW c \in Clients, Command(c) \/ Set(c) \/ Standby(c)
      PROVE  Awaits'
  <2>1. c \in Tasks /\ c \notin Schedules
    BY TasksAssumption DEF Tasks
  <2>2. CASE Command(c)
    <3>1. /\ <<Call("fullCycle")>> # <<>> /\ <<Call("shutdown")>> # <<>>
          /\ <<Call("pause")>> # <<>> /\ <<Call("resume")>> # <<>>
          /\ <<Call("nextValve")>> # <<>> /\ \A z \in Zones : <<Op("singleZone", z)>> # <<>>
      OBVIOUS
    <3> QED
      BY <1>1, <2>1, <2>2, <3>1 DEF Command, Sends
  <2>3. CASE Set(c)
    BY <1>2, <2>3 DEF Set
  <2>4. CASE Standby(c)
    <3>1. <<Call("shutdown")>> # <<>>
      OBVIOUS
    <3> QED
      BY <1>1, <1>2, <2>1, <2>4, <3>1 DEF Standby, Sends
  <2> QED
    BY <1>3, <2>2, <2>3, <2>4
<1>4. ASSUME NEW t \in Timers, TimerFires(t)
      PROVE  Awaits'
  <2>1. t \in Tasks /\ t \notin Schedules /\ <<Call("advance")>> # <<>>
    BY TasksAssumption DEF Tasks
  <2>2. /\ todo'[t] = <<Call("advance")>> /\ io'[t] = "spawned"
        /\ \A u \in Tasks : u # t => todo'[u] = todo[u] /\ io'[u] = io[u]
        /\ loop = None /\ loop' = None /\ sched' = sched
    BY <1>4, <2>1 DEF TimerFires
  <2> QED
    BY <2>1, <2>2, NoneAssumption DEF Awaits
<1>5. ASSUME NEW s \in Schedules, ScheduleFires(s)
      PROVE  Awaits'
  <2>1. s \in Tasks /\ s \in sched /\ <<Call("fullCycle")>> # <<>>
    BY <1>5 DEF Tasks, ScheduleFires
  <2> QED
    BY <1>1, <1>2, <1>5, <2>1 DEF ScheduleFires
<1> QED
  BY <1>3, <1>4, <1>5

LEMMA NextAwaits == TypeOK /\ Awaits /\ [Next]_vars => Awaits'
<1> SUFFICES ASSUME TypeOK, Awaits, [Next]_vars
             PROVE  Awaits'
  OBVIOUS
<1>1. CASE UNCHANGED vars
  BY <1>1 DEF vars, Awaits
<1>2. CASE Next
  BY <1>2, SchedShrinks, StepsProceed, ProceedsAwaits, SuspensionAwaits, EnvironmentAwaits
     DEF TypeOK, Next, Step
<1> QED
  BY <1>1, <1>2

LEMMA InitAwaits == Init => Awaits
BY NoneAssumption DEF Init, Awaits

-----------------------------------------------------------------------------
\* A zone that waters is timed: the operations that end by arming the timer or by
\* leaving RUNNING, and the tasks that have one of them to do.
Settling == {"startCycle", "startZone", "open", "openBeforePump", "arm", "gap", "handover",
             "advance", "shutdown", "toIdle", "paused"}
Settles(s) == \E i \in 1..Len(s) : s[i].do \in Settling

\* stopZone cancels the timer, so one of these follows it in every coroutine.
FollowedUp(s) ==
  \A i \in 1..Len(s) : s[i].do = "stopZone" => \E j \in (i+1)..Len(s) : s[j].do \in Settling

TimedOrSettling ==
  /\ \A t \in Tasks : FollowedUp(todo[t])
  /\ state = "RUNNING" => timer \/ orphaned \/ \E t \in Tasks : Settles(todo[t])

LEMMA SettlesConcat ==
  ASSUME NEW r \in Seq(Ops), NEW s \in Seq(Ops)
  PROVE  /\ Settles(r) => Settles(r \o s)
         /\ Settles(s) => Settles(r \o s)
         /\ FollowedUp(r) /\ FollowedUp(s) => FollowedUp(r \o s)
<1>1. /\ r \o s \in Seq(Ops) /\ Len(r \o s) = Len(r) + Len(s)
      /\ \A i \in 1..Len(r) + Len(s) :
           (r \o s)[i] = IF i <= Len(r) THEN r[i] ELSE s[i - Len(r)]
      /\ Len(r) \in Nat /\ Len(s) \in Nat
  BY ConcatProperties, LenProperties
<1>2. \A i \in 1..Len(r) : i \in 1..Len(r \o s) /\ (r \o s)[i] = r[i]
  BY <1>1
<1>3. \A i \in 1..Len(s) : i + Len(r) \in 1..Len(r \o s) /\ (r \o s)[i + Len(r)] = s[i]
  <2> SUFFICES ASSUME NEW i \in 1..Len(s)
               PROVE  i + Len(r) \in 1..Len(r \o s) /\ (r \o s)[i + Len(r)] = s[i]
    OBVIOUS
  <2>1. i + Len(r) \in 1..Len(r) + Len(s) /\ ~(i + Len(r) <= Len(r)) /\ (i + Len(r)) - Len(r) = i
    BY <1>1
  <2> QED
    BY <1>1, <2>1
<1>4. Settles(r) => Settles(r \o s)
  BY <1>2 DEF Settles
<1>5. Settles(s) => Settles(r \o s)
  BY <1>3 DEF Settles
<1>6. ASSUME FollowedUp(r), FollowedUp(s), NEW i \in 1..Len(r \o s), (r \o s)[i].do = "stopZone"
      PROVE  \E j \in (i+1)..Len(r \o s) : (r \o s)[j].do \in Settling
  <2>1. CASE i <= Len(r)
    <3>1. i \in 1..Len(r) /\ r[i].do = "stopZone"
      BY <1>1, <1>6, <2>1
    <3>2. PICK j \in (i+1)..Len(r) : r[j].do \in Settling
      BY <1>6, <3>1 DEF FollowedUp
    <3>3. j \in 1..Len(r) /\ j \in (i+1)..Len(r \o s)
      BY <1>1, <3>1
    <3> QED
      BY <1>2, <3>2, <3>3
  <2>2. CASE ~(i <= Len(r))
    <3>1. i - Len(r) \in 1..Len(s) /\ s[i - Len(r)].do = "stopZone"
      BY <1>1, <1>6, <2>2
    <3>2. PICK j \in (i - Len(r) + 1)..Len(s) : s[j].do \in Settling
      BY <1>6, <3>1 DEF FollowedUp
    <3>3. j \in 1..Len(s) /\ j + Len(r) \in (i+1)..Len(r \o s)
      BY <1>1, <3>1
    <3> QED
      BY <1>3, <3>2, <3>3
  <2> QED
    BY <2>1, <2>2
<1> QED
  BY <1>4, <1>5, <1>6 DEF FollowedUp

LEMMA SettlesTail ==
  ASSUME NEW s \in Seq(Ops), s # <<>>
  PROVE  /\ Tail(s) \in Seq(Ops)
         /\ Settles(s) /\ Head(s).do \notin Settling => Settles(Tail(s))
         /\ FollowedUp(s) => FollowedUp(Tail(s))
         /\ FollowedUp(s) /\ Head(s).do = "stopZone" => Settles(Tail(s))
<1>1. /\ Len(s) \in Nat /\ Len(s) > 0 /\ Tail(s) \in Seq(Ops) /\ Len(Tail(s)) = Len(s) - 1
      /\ Head(s) = s[1]
      /\ \A i \in 1..Len(s) - 1 : Tail(s)[i] = s[i + 1]
  BY HeadTailProperties, EmptySeq, LenProperties
<1>2. ASSUME NEW k \in 2..Len(s)
      PROVE  k - 1 \in 1..Len(Tail(s)) /\ Tail(s)[k - 1] = s[k]
  <2>1. k - 1 \in 1..Len(s) - 1 /\ (k - 1) + 1 = k
    BY <1>1
  <2> QED
    BY <1>1, <2>1
<1>3. Settles(s) /\ Head(s).do \notin Settling => Settles(Tail(s))
  <2> SUFFICES ASSUME NEW k \in 1..Len(s), s[k].do \in Settling, Head(s).do \notin Settling
               PROVE  Settles(Tail(s))
    BY DEF Settles
  <2>1. k \in 2..Len(s)
    BY <1>1
  <2> QED
    BY <1>2, <2>1 DEF Settles
<1>4. FollowedUp(s) => FollowedUp(Tail(s))
  <2> SUFFICES ASSUME FollowedUp(s), NEW i \in 1..Len(Tail(s)), Tail(s)[i].do = "stopZone"
               PROVE  \E j \in (i+1)..Len(Tail(s)) : Tail(s)[j].do \in Settling
    BY DEF FollowedUp
  <2>1. i + 1 \in 1..Len(s) /\ s[i + 1].do = "stopZone"
    BY <1>1
  <2>2. PICK j \in (i + 1 + 1)..Len(s) : s[j].do \in Settling
    BY <2>1 DEF FollowedUp
  <2>3. j \in 2..Len(s) /\ j - 1 \in (i+1)..Len(Tail(s))
    BY <1>1
  <2> QED
    BY <1>2, <2>2, <2>3
<1>5. FollowedUp(s) /\ Head(s).do = "stopZone" => Settles(Tail(s))
  <2> SUFFICES ASSUME FollowedUp(s), Head(s).do = "stopZone"
               PROVE  Settles(Tail(s))
    OBVIOUS
  <2>1. PICK j \in (1+1)..Len(s) : s[j].do \in Settling
    BY <1>1 DEF FollowedUp
  <2> QED
    BY <1>1, <1>2, <2>1 DEF Settles
<1> QED
  BY <1>1, <1>3, <1>4, <1>5

\* The operations that follow the one a task executes, and what that does to its duties.
LEMMA CallsKeepSettling ==
  ASSUME TasksTyped, \A u \in Tasks : FollowedUp(todo[u]),
         NEW t \in Tasks, todo[t] # <<>>,
         NEW ops \in Seq(Ops), FollowedUp(ops), Calls(t, ops)
  PROVE  /\ \A u \in Tasks : FollowedUp(todo'[u])
         /\ Settles(ops) => Settles(todo'[t])
         /\ Head(todo[t]).do = "stopZone" => Settles(todo'[t])
         /\ \A u \in Tasks : Settles(todo[u]) /\ (u = t => Head(todo[t]).do \notin Settling)
                              => Settles(todo'[u])
         /\ io' = io /\ \A u \in Tasks : todo[u] = <<>> => todo'[u] = <<>>
<1>1. todo[t] \in Seq(Ops) /\ DOMAIN todo = Tasks
  BY DEF TasksTyped
<1>2. /\ todo'[t] = ops \o Tail(todo[t])
      /\ \A u \in Tasks : u # t => todo'[u] = todo[u]
      /\ io' = io
  BY <1>1 DEF Calls
<1>3. /\ Tail(todo[t]) \in Seq(Ops) /\ FollowedUp(Tail(todo[t]))
      /\ Settles(todo[t]) /\ Head(todo[t]).do \notin Settling => Settles(Tail(todo[t]))
      /\ Head(todo[t]).do = "stopZone" => Settles(Tail(todo[t]))
  BY <1>1, SettlesTail
<1>4. /\ FollowedUp(todo'[t])
      /\ Settles(ops) => Settles(todo'[t])
      /\ Settles(Tail(todo[t])) => Settles(todo'[t])
  BY <1>2, <1>3, SettlesConcat
<1> QED
  BY <1>2, <1>3, <1>4

\* Short sequences without stopZone, or with what must follow it.
LEMMA ShortFollowed ==
  ASSUME NEW a \in Ops, NEW b \in Ops, NEW c \in Ops, NEW d \in Ops
  PROVE  /\ a.do # "stopZone" => FollowedUp(<<a>>)
         /\ b.do # "stopZone" /\ (a.do # "stopZone" \/ b.do \in Settling) => FollowedUp(<<a, b>>)
         /\ b.do # "stopZone" /\ c.do # "stopZone" /\ (a.do # "stopZone" \/ c.do \in Settling)
              => FollowedUp(<<a, b, c>>)
         /\ a.do # "stopZone" /\ b.do # "stopZone" /\ d.do \in Settling \ {"stopZone"}
              => FollowedUp(<<a, b, c, d>>)
         /\ a.do \in Settling => Settles(<<a>>)
         /\ b.do \in Settling => Settles(<<a, b>>)
         /\ c.do \in Settling => Settles(<<a, b, c>>)
         /\ d.do \in Settling => Settles(<<a, b, c, d>>)
<1>1. /\ Len(<<a>>) = 1 /\ Len(<<a, b>>) = 2 /\ Len(<<a, b, c>>) = 3 /\ Len(<<a, b, c, d>>) = 4
  OBVIOUS
<1>2. a.do # "stopZone" => FollowedUp(<<a>>)
  BY DEF FollowedUp
<1>3. b.do # "stopZone" /\ (a.do # "stopZone" \/ b.do \in Settling) => FollowedUp(<<a, b>>)
  BY DEF FollowedUp
<1>4. b.do # "stopZone" /\ c.do # "stopZone" /\ (a.do # "stopZone" \/ c.do \in Settling)
        => FollowedUp(<<a, b, c>>)
  BY DEF FollowedUp
<1>5. a.do # "stopZone" /\ b.do # "stopZone" /\ d.do \in Settling \ {"stopZone"}
        => FollowedUp(<<a, b, c, d>>)
  BY DEF FollowedUp
<1>6. /\ a.do \in Settling => Settles(<<a>>)
      /\ b.do \in Settling => Settles(<<a, b>>)
      /\ c.do \in Settling => Settles(<<a, b, c>>)
      /\ d.do \in Settling => Settles(<<a, b, c, d>>)
  BY DEF Settles
<1> QED
  BY <1>2, <1>3, <1>4, <1>5, <1>6

\* What an operation must do to keep the duty: one that cancels the timer, enters RUNNING
\* or was itself to settle leaves something that settles.
LEMMA CallsKeepTimed ==
  ASSUME TasksTyped, TimedOrSettling, NEW t \in Tasks, todo[t] # <<>>,
         NEW ops \in Seq(Ops), FollowedUp(ops), Calls(t, ops),
         state' = "RUNNING" => state = "RUNNING" \/ Settles(ops),
         orphaned => orphaned' \/ timer' \/ Settles(ops) \/ state' # "RUNNING",
         timer => timer' \/ Settles(ops) \/ Head(todo[t]).do = "stopZone",
         Head(todo[t]).do \in Settling => timer' \/ Settles(ops) \/ state' # "RUNNING"
  PROVE  TimedOrSettling'
<1>1. /\ \A u \in Tasks : FollowedUp(todo'[u])
      /\ Settles(ops) => Settles(todo'[t])
      /\ Head(todo[t]).do = "stopZone" => Settles(todo'[t])
      /\ \A u \in Tasks : Settles(todo[u]) /\ (u = t => Head(todo[t]).do \notin Settling)
                           => Settles(todo'[u])
      /\ io' = io /\ \A u \in Tasks : todo[u] = <<>> => todo'[u] = <<>>
  BY CallsKeepSettling DEF TimedOrSettling
<1>2. ASSUME state' = "RUNNING"
      PROVE  timer' \/ orphaned' \/ \E u \in Tasks : Settles(todo'[u])
  <2>1. CASE Settles(ops)
    BY <1>1, <2>1
  <2>2. CASE ~Settles(ops)
    <3>1. timer \/ orphaned \/ \E u \in Tasks : Settles(todo[u])
      BY <1>2, <2>2 DEF TimedOrSettling
    <3>2. CASE timer
      BY <1>1, <2>2, <3>2
    <3>3. CASE \E u \in Tasks : Settles(todo[u])
      BY <1>1, <1>2, <2>2, <3>3
    <3>4. CASE orphaned
      BY <1>2, <2>2, <3>4
    <3> QED
      BY <3>1, <3>2, <3>3, <3>4
  <2> QED
    BY <2>1, <2>2
<1>3. (\A u \in Tasks : FollowedUp(todo[u]))'
  BY <1>1 DEF FollowedUp
<1>4. (state = "RUNNING" => timer \/ orphaned \/ \E u \in Tasks : Settles(todo[u]))'
  BY <1>2 DEF Settles
<1> QED
  BY <1>3, <1>4 DEF TimedOrSettling

LEMMA ReturnsKeepTimed ==
  ASSUME TasksTyped, TimedOrSettling, NEW t \in Tasks, todo[t] # <<>>, Returns(t),
         state' = "RUNNING" => state = "RUNNING",
         orphaned => orphaned' \/ timer' \/ state' # "RUNNING",
         timer => timer' \/ Head(todo[t]).do = "stopZone",
         Head(todo[t]).do \in Settling => timer' \/ state' # "RUNNING"
  PROVE  TimedOrSettling'
<1>1. <<>> \in Seq(Ops) /\ FollowedUp(<<>>) /\ ~Settles(<<>>)
  BY DEF FollowedUp, Settles
<1> QED
  BY <1>1, CallsKeepTimed DEF Returns

LEMMA StoppingKeepsTimed ==
  ASSUME TypeOK, TimedOrSettling, NEW t \in Tasks,
         Shutdown(t) \/ StopZone(t) \/ PumpStop(t) \/ SwitchSource(t) \/ ToIdle(t)
  PROVE  TimedOrSettling'
<1> USE DEF TypeOK, Running, ctl, settings, Settling
<1>1. CASE Shutdown(t)
  <2>1. /\ <<Call("stopZone"), Call("pumpStop"), Call("toIdle")>> \in Seq(Ops)
        /\ Call("stopZone") \in Ops /\ Call("pumpStop") \in Ops /\ Call("toIdle") \in Ops
    BY PlainCalls, OpsTyped DEF PlainOps
  <2>2. /\ FollowedUp(<<Call("stopZone"), Call("pumpStop"), Call("toIdle")>>)
        /\ Settles(<<Call("stopZone"), Call("pumpStop"), Call("toIdle")>>)
    BY <2>1, ShortFollowed DEF Call, Op
  <2> QED
    BY <1>1, <2>1, <2>2, CallsKeepTimed DEF Shutdown
<1>2. CASE StopZone(t)
  <2>1. CASE active = None
    BY <1>2, <2>1, ReturnsKeepTimed DEF StopZone
  <2>2. CASE active # None
    <3>1. <<Op("close", active)>> \in Seq(Ops) /\ Op("close", active) \in Ops
      BY <2>2, ZoneOpsTyped DEF ControlTyped
    <3>2. FollowedUp(<<Op("close", active)>>)
      BY <3>1, ShortFollowed DEF Op
    <3> QED
      BY <1>2, <2>2, <3>1, <3>2, CallsKeepTimed DEF StopZone
  <2> QED
    BY <2>1, <2>2
<1>3. CASE PumpStop(t)
  <2>1. /\ <<Call("deactivate"), Call("sleep")>> \in Seq(Ops)
        /\ <<Call("sleep"), Call("deactivate")>> \in Seq(Ops)
        /\ <<Call("deactivate")>> \in Seq(Ops)
    BY PlainCalls DEF PlainOps
  <2>2. /\ FollowedUp(<<Call("deactivate"), Call("sleep")>>)
        /\ FollowedUp(<<Call("sleep"), Call("deactivate")>>)
        /\ FollowedUp(<<Call("deactivate")>>)
    BY PlainOpsTyped, ShortFollowed DEF Call, Op
  <2>3. \/ Returns(t)
        \/ \E ops \in Seq(Ops) : FollowedUp(ops) /\ Calls(t, ops)
    BY <1>3, <2>1, <2>2 DEF PumpStop
  <2> QED
    BY <1>3, <2>3, CallsKeepTimed, ReturnsKeepTimed DEF PumpStop
<1>4. CASE SwitchSource(t)
  <2>1. source # None => Op("pumpOn", source) \in Ops /\ Op("pumpOff", source) \in Ops
    BY OpsTyped DEF PumpWrites, ControlTyped
  <2>2. source # None => /\ <<Op("pumpOn", source)>> \in Seq(Ops)
                         /\ <<Op("pumpOff", source)>> \in Seq(Ops)
                         /\ FollowedUp(<<Op("pumpOn", source)>>)
                         /\ FollowedUp(<<Op("pumpOff", source)>>)
    <3>1. ASSUME NEW o \in Ops, o.do # "stopZone"
          PROVE  <<o>> \in Seq(Ops) /\ FollowedUp(<<o>>)
      <4>1. <<o>> \in Seq(Ops)
        OBVIOUS
      <4>2. FollowedUp(<<o>>)
        BY <3>1, ShortFollowed
      <4> QED
        BY <4>1, <4>2
    <3>2. Op("pumpOn", source).do # "stopZone" /\ Op("pumpOff", source).do # "stopZone"
      BY DEF Op
    <3> QED
      BY <2>1, <3>1, <3>2
  <2>3. \/ Returns(t)
        \/ \E ops \in Seq(Ops) : FollowedUp(ops) /\ Calls(t, ops)
    BY <1>4, <2>2 DEF SwitchSource
  <2> QED
    BY <1>4, <2>3, CallsKeepTimed, ReturnsKeepTimed DEF SwitchSource
<1>5. CASE ToIdle(t)
  BY <1>5, ReturnsKeepTimed DEF ToIdle
<1> QED
  BY <1>1, <1>2, <1>3, <1>4, <1>5

LEMMA PausingKeepsTimed ==
  ASSUME TypeOK, TimedOrSettling, NEW t \in Tasks,
         Pause(t) \/ Paused(t) \/ ResumeZone(t) \/ NextValve(t)
  PROVE  TimedOrSettling'
<1> USE DEF TypeOK, Running, ctl, settings, Settling
<1>1. /\ <<Call("stopZone"), Call("paused")>> \in Seq(Ops)
      /\ <<Call("resume"), Call("nextAdvance")>> \in Seq(Ops)
      /\ <<Call("nextAdvance")>> \in Seq(Ops)
      /\ <<Call("forceAdvance")>> \in Seq(Ops)
      /\ Call("paused") \in Ops /\ Call("resume") \in Ops /\ Call("nextAdvance") \in Ops
      /\ Call("forceAdvance") \in Ops /\ Call("stopZone") \in Ops
  BY PlainCalls, OpsTyped DEF PlainOps
<1>2. /\ FollowedUp(<<Call("stopZone"), Call("paused")>>)
      /\ Settles(<<Call("stopZone"), Call("paused")>>)
      /\ FollowedUp(<<Call("resume"), Call("nextAdvance")>>)
      /\ FollowedUp(<<Call("nextAdvance")>>) /\ FollowedUp(<<Call("forceAdvance")>>)
  BY <1>1, ShortFollowed DEF Call, Op
<1>3. CASE Pause(t)
  <2>1. CASE state # "RUNNING" \/ active = None
    BY <1>3, <2>1, ReturnsKeepTimed DEF Pause
  <2>2. CASE ~(state # "RUNNING" \/ active = None)
    BY <1>1, <1>2, <1>3, <2>2, CallsKeepTimed DEF Pause
  <2> QED
    BY <2>1, <2>2
<1>4. CASE Paused(t)
  BY <1>4, ReturnsKeepTimed DEF Paused
<1>5. CASE ResumeZone(t)
  <2>1. CASE state # "PAUSED" \/ active = None
    BY <1>5, <2>1, ReturnsKeepTimed DEF ResumeZone
  <2>2. CASE ~(state # "PAUSED" \/ active = None)
    <3>1. <<Op("startZone", active)>> \in Seq(Ops) /\ Op("startZone", active) \in Ops
      BY <2>2, ZoneOpsTyped DEF ControlTyped
    <3>2. FollowedUp(<<Op("startZone", active)>>)
      BY <3>1, ShortFollowed DEF Op
    <3> QED
      BY <1>5, <2>2, <3>1, <3>2, CallsKeepTimed DEF ResumeZone
  <2> QED
    BY <2>1, <2>2
<1>6. CASE NextValve(t)
  <2>1. \/ Returns(t)
        \/ \E ops \in Seq(Ops) : FollowedUp(ops) /\ Calls(t, ops)
    BY <1>1, <1>2, <1>6 DEF NextValve
  <2> QED
    BY <1>6, <2>1, CallsKeepTimed, ReturnsKeepTimed DEF NextValve
<1> QED
  BY <1>3, <1>4, <1>5, <1>6

LEMMA StartingKeepsTimed ==
  ASSUME TypeOK, TimedOrSettling, NEW t \in Tasks,
         \/ FullCycle(t) \/ NewCycle(t) \/ SingleZone(t) \/ ZoneAlone(t)
         \/ StartCycle(t) \/ StartZone(t) \/ Arm(t)
  PROVE  TimedOrSettling'
<1> USE DEF TypeOK, Running, ctl, settings, Settling
<1>1. CASE FullCycle(t)
  <2>1. /\ <<Call("shutdown"), Call("newCycle")>> \in Seq(Ops)
        /\ <<Call("newCycle")>> \in Seq(Ops)
        /\ Call("shutdown") \in Ops /\ Call("newCycle") \in Ops
    BY PlainCalls, OpsTyped DEF PlainOps
  <2>2. /\ FollowedUp(<<Call("shutdown"), Call("newCycle")>>)
        /\ FollowedUp(<<Call("newCycle")>>)
    BY <2>1, ShortFollowed DEF Call, Op
  <2>3. \/ Returns(t)
        \/ \E ops \in Seq(Ops) : FollowedUp(ops) /\ Calls(t, ops)
    BY <1>1, <2>1, <2>2 DEF FullCycle
  <2> QED
    BY <1>1, <2>3, CallsKeepTimed, ReturnsKeepTimed DEF FullCycle
<1>2. CASE NewCycle(t)
  <2>1. <<Call("startCycle")>> \in Seq(Ops) /\ Call("startCycle") \in Ops
    BY PlainCalls, OpsTyped DEF PlainOps
  <2>2. FollowedUp(<<Call("startCycle")>>)
    BY <2>1, ShortFollowed DEF Call, Op
  <2> QED
    BY <1>2, <2>1, <2>2, CallsKeepTimed, ReturnsKeepTimed DEF NewCycle
<1>3. CASE SingleZone(t)
  <2>1. Arg(t) \in Zones
    BY <1>3, ArgTyped DEF SingleZone, ZoneOps
  <2>2. /\ <<Call("shutdown"), Op("zoneAlone", Arg(t))>> \in Seq(Ops)
        /\ <<Op("zoneAlone", Arg(t))>> \in Seq(Ops)
    BY <2>1, ZoneOpsTyped, PlainOpsTyped
  <2>3. /\ FollowedUp(<<Call("shutdown"), Op("zoneAlone", Arg(t))>>)
        /\ FollowedUp(<<Op("zoneAlone", Arg(t))>>)
    BY <2>1, ZoneOpsTyped, PlainOpsTyped, ShortFollowed DEF Call, Op
  <2>4. \/ Returns(t)
        \/ \E ops \in Seq(Ops) : FollowedUp(ops) /\ Calls(t, ops)
    BY <1>3, <2>2, <2>3 DEF SingleZone
  <2> QED
    BY <1>3, <2>4, CallsKeepTimed, ReturnsKeepTimed DEF SingleZone
<1>4. CASE ZoneAlone(t)
  <2>1. Arg(t) \in Zones
    BY <1>4, ArgTyped DEF ZoneAlone, ZoneOps
  <2>2. <<Op("startZone", Arg(t))>> \in Seq(Ops) /\ Op("startZone", Arg(t)) \in Ops
    BY <2>1, ZoneOpsTyped
  <2>3. FollowedUp(<<Op("startZone", Arg(t))>>)
    BY <2>2, ShortFollowed DEF Op
  <2> QED
    BY <1>4, <2>2, <2>3, CallsKeepTimed DEF ZoneAlone
<1>5. CASE StartCycle(t)
  <2>1. CASE Returns(t) /\ state' = "IDLE"
    BY <1>5, <2>1, ReturnsKeepTimed DEF StartCycle
  <2>2. ASSUME NEW z \in Zones, Calls(t, <<Op("startZone", z)>>), UNCHANGED state
        PROVE  TimedOrSettling'
    <3>1. <<Op("startZone", z)>> \in Seq(Ops) /\ Op("startZone", z) \in Ops
      BY ZoneOpsTyped
    <3>2. FollowedUp(<<Op("startZone", z)>>) /\ Settles(<<Op("startZone", z)>>)
      BY <3>1, ShortFollowed DEF Op
    <3> QED
      BY <1>5, <2>2, <3>1, <3>2, CallsKeepTimed DEF StartCycle
  <2> QED
    BY <1>5, <2>1, <2>2 DEF StartCycle
<1>6. CASE StartZone(t)
  <2>1. Arg(t) \in Zones
    BY <1>6, ArgTyped DEF StartZone, ZoneOps
  <2>2. /\ Op("open", Arg(t)) \in Ops /\ Op("openBeforePump", Arg(t)) \in Ops
        /\ Call("activate") \in Ops /\ Call("sleep") \in Ops
    BY <2>1, ZoneOpsTyped, PlainOpsTyped
  <2>3. /\ <<Op("open", Arg(t))>> \in Seq(Ops)
        /\ <<Op("openBeforePump", Arg(t))>> \in Seq(Ops)
        /\ <<Call("activate"), Call("sleep"), Op("open", Arg(t))>> \in Seq(Ops)
        /\ <<Call("activate"), Op("open", Arg(t))>> \in Seq(Ops)
    BY <2>2
  <2>4. /\ FollowedUp(<<Op("open", Arg(t))>>) /\ Settles(<<Op("open", Arg(t))>>)
        /\ FollowedUp(<<Op("openBeforePump", Arg(t))>>)
        /\ Settles(<<Op("openBeforePump", Arg(t))>>)
    BY <2>2, ShortFollowed DEF Op
  <2>5. /\ FollowedUp(<<Call("activate"), Call("sleep"), Op("open", Arg(t))>>)
        /\ Settles(<<Call("activate"), Call("sleep"), Op("open", Arg(t))>>)
    BY <2>2, ShortFollowed DEF Call, Op
  <2>6. /\ FollowedUp(<<Call("activate"), Op("open", Arg(t))>>)
        /\ Settles(<<Call("activate"), Op("open", Arg(t))>>)
    BY <2>2, ShortFollowed DEF Call, Op
  <2>7. \E ops \in Seq(Ops) : FollowedUp(ops) /\ Settles(ops) /\ Calls(t, ops)
    BY <1>6, <2>3, <2>4, <2>5, <2>6 DEF StartZone
  <2> QED
    BY <1>6, <2>7, CallsKeepTimed DEF StartZone
<1>7. CASE Arm(t)
  BY <1>7, ReturnsKeepTimed DEF Arm
<1> QED
  BY <1>1, <1>2, <1>3, <1>4, <1>5, <1>6, <1>7

LEMMA AdvancingKeepsTimed ==
  ASSUME TypeOK, TimedOrSettling, NEW t \in Tasks, Advance(t) \/ Gap(t) \/ Handover(t)
  PROVE  TimedOrSettling'
<1> USE DEF TypeOK, Running, ctl, settings, Settling
<1>1. CASE Advance(t)
  <2>1. /\ <<Call("shutdown")>> \in Seq(Ops)
        /\ <<Call("stopZone"), Call("pumpStop"), Call("shutdown")>> \in Seq(Ops)
        /\ <<Call("startCycle")>> \in Seq(Ops)
        /\ Call("shutdown") \in Ops /\ Call("stopZone") \in Ops /\ Call("pumpStop") \in Ops
        /\ Call("startCycle") \in Ops /\ Call("sleep") \in Ops
    BY PlainCalls, OpsTyped DEF PlainOps
  <2>2. /\ FollowedUp(<<Call("shutdown")>>) /\ Settles(<<Call("shutdown")>>)
        /\ FollowedUp(<<Call("startCycle")>>) /\ Settles(<<Call("startCycle")>>)
    BY <2>1, ShortFollowed DEF Call, Op
  <2>3. /\ FollowedUp(<<Call("stopZone"), Call("pumpStop"), Call("shutdown")>>)
        /\ Settles(<<Call("stopZone"), Call("pumpStop"), Call("shutdown")>>)
    BY <2>1, ShortFollowed DEF Call, Op
  <2>4. ASSUME NEW z \in Zones
        PROVE  /\ <<Op("openOverlap", z), Call("sleep"), Call("stopZone"), Op("handover", z)>>
                    \in Seq(Ops)
               /\ FollowedUp(<<Op("openOverlap", z), Call("sleep"), Call("stopZone"),
                               Op("handover", z)>>)
               /\ Settles(<<Op("openOverlap", z), Call("sleep"), Call("stopZone"),
                            Op("handover", z)>>)
    <3>1. Op("openOverlap", z) \in Ops /\ Op("handover", z) \in Ops
      BY ZoneOpsTyped
    <3>2. <<Op("openOverlap", z), Call("sleep"), Call("stopZone"), Op("handover", z)>> \in Seq(Ops)
      BY <2>1, <3>1
    <3>3. /\ Op("openOverlap", z).do # "stopZone" /\ Call("sleep").do # "stopZone"
          /\ Op("handover", z).do \in Settling \ {"stopZone"}
      BY DEF Call, Op
    <3> QED
      BY <2>1, <3>1, <3>2, <3>3, ShortFollowed
  <2>5. ASSUME NEW z \in Zones
        PROVE  /\ <<Call("stopZone"), Op("gap", z)>> \in Seq(Ops)
               /\ FollowedUp(<<Call("stopZone"), Op("gap", z)>>)
               /\ Settles(<<Call("stopZone"), Op("gap", z)>>)
    <3>1. Op("gap", z) \in Ops
      BY ZoneOpsTyped
    <3>2. <<Call("stopZone"), Op("gap", z)>> \in Seq(Ops)
      BY <2>1, <3>1
    <3>3. Op("gap", z).do \in Settling /\ Op("gap", z).do # "stopZone"
      BY DEF Op
    <3> QED
      BY <2>1, <3>1, <3>2, <3>3, ShortFollowed
  <2>6. todo[t] # <<>> /\ UNCHANGED <<state, timer, orphaned>>
    <3>1. PICK force \in BOOLEAN : AdvanceEnds(t, force) \/ AdvanceOn(t, force)
      BY <1>1 DEF Advance
    <3> QED
      BY <1>1, <3>1 DEF Advance, AdvanceEnds, AdvanceOn
  <2>7. \E ops \in Seq(Ops) : FollowedUp(ops) /\ Settles(ops) /\ Calls(t, ops)
    <3>1. PICK force \in BOOLEAN : AdvanceEnds(t, force) \/ AdvanceOn(t, force)
      BY <1>1 DEF Advance
    <3>2. CASE AdvanceEnds(t, force)
      BY <2>1, <2>2, <2>3, <3>2 DEF AdvanceEnds
    <3>3. CASE AdvanceOn(t, force)
      BY <2>1, <2>2, <2>4, <2>5, <3>3 DEF AdvanceOn
    <3> QED
      BY <3>1, <3>2, <3>3
  <2> QED
    BY <2>6, <2>7, CallsKeepTimed
<1>2. CASE Gap(t)
  <2>1. Arg(t) \in Zones
    BY <1>2, ArgTyped DEF Gap, ZoneOps
  <2>2. /\ Op("startZone", Arg(t)) \in Ops /\ Call("sleep") \in Ops
        /\ Call("deactivate") \in Ops /\ Call("activate") \in Ops
    BY <2>1, ZoneOpsTyped, PlainOpsTyped
  <2>3. /\ <<Op("startZone", Arg(t))>> \in Seq(Ops)
        /\ <<Call("sleep"), Op("startZone", Arg(t))>> \in Seq(Ops)
        /\ <<Call("deactivate"), Call("sleep"), Call("activate"),
              Op("startZone", Arg(t))>> \in Seq(Ops)
    BY <2>2
  <2>4. /\ FollowedUp(<<Op("startZone", Arg(t))>>) /\ Settles(<<Op("startZone", Arg(t))>>)
        /\ FollowedUp(<<Call("sleep"), Op("startZone", Arg(t))>>)
        /\ Settles(<<Call("sleep"), Op("startZone", Arg(t))>>)
    BY <2>2, ShortFollowed DEF Call, Op
  <2>5. /\ FollowedUp(<<Call("deactivate"), Call("sleep"), Call("activate"),
                        Op("startZone", Arg(t))>>)
        /\ Settles(<<Call("deactivate"), Call("sleep"), Call("activate"),
                     Op("startZone", Arg(t))>>)
    <3>1. /\ Call("deactivate").do # "stopZone" /\ Call("sleep").do # "stopZone"
          /\ Op("startZone", Arg(t)).do \in Settling \ {"stopZone"}
      BY DEF Call, Op
    <3> QED
      BY <2>2, <3>1, ShortFollowed
  <2>6. \E ops \in Seq(Ops) : FollowedUp(ops) /\ Settles(ops) /\ Calls(t, ops)
    BY <1>2, <2>3, <2>4, <2>5 DEF Gap
  <2> QED
    BY <1>2, <2>6, CallsKeepTimed DEF Gap
<1>3. CASE Handover(t)
  BY <1>3, ReturnsKeepTimed DEF Handover
<1> QED
  BY <1>1, <1>2, <1>3

\* What a suspended task goes on with settles if it had to: a valve that opened arms the
\* timer, one that failed shuts everything down.
LEMMA RemainingSettles ==
  ASSUME TasksTyped, Awaits, NEW t \in Tasks, FollowedUp(todo[t]), todo[t] # <<>>,
         io[t] \in {"spawned", "asleep", "written", "failed"}
  PROVE  /\ FollowedUp(Remaining(t))
         /\ Settles(todo[t]) => Settles(Remaining(t))
<1> DEFINE op == Head(todo[t])
           rest == Tail(todo[t])
<1>1. todo[t] \in Seq(Ops)
  BY DEF TasksTyped
<1>2. /\ rest \in Seq(Ops) /\ FollowedUp(rest)
      /\ Settles(todo[t]) /\ op.do \notin Settling => Settles(rest)
  BY <1>1, SettlesTail
<1>3. CASE io[t] = "spawned"
  BY <1>3 DEF Remaining
<1>4. CASE io[t] = "asleep"
  <2>1. Remaining(t) = rest /\ op.do = "sleep"
    BY <1>4 DEF Remaining, Awaits
  <2> QED
    BY <1>2, <2>1 DEF Settling
<1>5. CASE io[t] = "written"
  <2>1. Remaining(t) = OnSuccess(op) \o rest /\ op.do \in Writes
    BY <1>5 DEF Remaining, Awaits
  <2>2. OnSuccess(op) \in Seq(Ops)
    BY ContinuationsTyped
  <2>3. FollowedUp(OnSuccess(op)) /\ (op.do \in Settling => Settles(OnSuccess(op)))
    <3>1. Call("arm") \in Ops /\ Call("sleep") \in Ops /\ Call("activate") \in Ops
      BY OpsTyped DEF PlainOps
    <3>2. /\ FollowedUp(<<>>)
          /\ FollowedUp(<<Call("arm")>>) /\ Settles(<<Call("arm")>>)
          /\ FollowedUp(<<Call("sleep"), Call("activate"), Call("arm")>>)
          /\ Settles(<<Call("sleep"), Call("activate"), Call("arm")>>)
      BY DEF FollowedUp, Settles, Settling, Call, Op
    <3> QED
      BY <2>1, <3>2 DEF OnSuccess, Settling, Writes, ValveWrites, PumpWrites
  <2> QED
    BY <1>2, <2>1, <2>2, <2>3, SettlesConcat
<1>6. CASE io[t] = "failed"
  <2>1. Remaining(t) = OnFailure(op) \o rest /\ op.do \in Writes
    BY <1>6 DEF Remaining, Awaits
  <2>2. OnFailure(op) \in Seq(Ops)
    BY ContinuationsTyped
  <2>3. FollowedUp(OnFailure(op)) /\ (op.do \in Settling => Settles(OnFailure(op)))
    <3>1. FollowedUp(<<>>) /\ FollowedUp(<<Call("shutdown")>>) /\ Settles(<<Call("shutdown")>>)
      BY DEF FollowedUp, Settles, Settling, Call, Op
    <3> QED
      BY <2>1, <3>1 DEF OnFailure, Settling, Writes, ValveWrites, PumpWrites
  <2> QED
    BY <1>2, <2>1, <2>2, <2>3, SettlesConcat
<1> QED
  BY <1>3, <1>4, <1>5, <1>6

LEMMA AwaitingKeepsTimed ==
  ASSUME TypeOK, Awaits, TimedOrSettling, NEW t \in Tasks,
         Suspend(t) \/ WriteLands(t) \/ WriteFails(t) \/ Resume(t) \/ Die(t)
  PROVE  TimedOrSettling'
<1> USE DEF TypeOK, ctl, settings
<1>1. CASE Suspend(t) \/ WriteLands(t) \/ WriteFails(t)
  <2>1. UNCHANGED <<state, timer, orphaned, todo>>
    BY <1>1 DEF Suspend, WriteLands, WriteFails
  <2> QED
    BY <2>1 DEF TimedOrSettling, FollowedUp, Settles
<1>2. CASE Resume(t)
  <2>1. todo[t] # <<>> /\ DOMAIN todo = Tasks
    BY <1>2 DEF Resume, TasksTyped
  <2>2. /\ todo'[t] = Remaining(t)
        /\ \A u \in Tasks : u # t => todo'[u] = todo[u]
        /\ UNCHANGED <<state, timer, orphaned>>
    BY <1>2, <2>1 DEF Resume
  <2>3. FollowedUp(Remaining(t)) /\ (Settles(todo[t]) => Settles(Remaining(t)))
    BY <1>2, <2>1, RemainingSettles DEF Resume, TimedOrSettling
  <2>4. /\ \A u \in Tasks : FollowedUp(todo'[u])
        /\ \A u \in Tasks : Settles(todo[u]) => Settles(todo'[u])
    BY <2>2, <2>3 DEF TimedOrSettling
  <2>5. (\A u \in Tasks : FollowedUp(todo[u]))'
    BY <2>4 DEF FollowedUp
  <2>6. (state = "RUNNING" => timer \/ orphaned \/ \E u \in Tasks : Settles(todo[u]))'
    BY <2>2, <2>4 DEF TimedOrSettling, Settles
  <2> QED
    BY <2>5, <2>6 DEF TimedOrSettling
<1>3. CASE Die(t)
  <2>1. /\ todo'[t] = <<>> /\ \A u \in Tasks : u # t => todo'[u] = todo[u]
        /\ orphaned' = (state = "RUNNING" /\ ~timer) /\ UNCHANGED <<state, timer>>
    BY <1>3 DEF Die, TasksTyped
  <2>2. \A u \in Tasks : FollowedUp(todo'[u])
    BY <2>1 DEF TimedOrSettling, FollowedUp
  <2>3. (\A u \in Tasks : FollowedUp(todo[u]))'
    BY <2>2 DEF FollowedUp
  <2>4. state' = "RUNNING" => timer' \/ orphaned'
    BY <2>1
  <2> QED
    BY <2>3, <2>4 DEF TimedOrSettling
<1> QED
  BY <1>1, <1>2, <1>3

LEMMA EnvironmentKeepsTimed ==
  ASSUME TypeOK, Awaits, TimedOrSettling,
         \/ \E c \in Clients : Command(c) \/ Set(c) \/ Standby(c)
         \/ \E t \in Timers : TimerFires(t)
         \/ \E s \in Schedules : ScheduleFires(s)
  PROVE  TimedOrSettling'
<1> USE DEF TypeOK, TasksTyped, ctl, settings
<1>1. ASSUME NEW t \in Tasks, NEW ops, FollowedUp(ops), Enters(t, ops),
             UNCHANGED <<state, timer, orphaned>>
      PROVE  TimedOrSettling'
  <2>1. /\ todo'[t] = ops /\ todo[t] = <<>>
        /\ \A u \in Tasks : u # t => todo'[u] = todo[u]
    BY <1>1 DEF Enters
  <2>2. /\ \A u \in Tasks : FollowedUp(todo'[u])
        /\ \A u \in Tasks : Settles(todo[u]) => Settles(todo'[u])
    <3>1. ~Settles(<<>>)
      BY DEF Settles
    <3> QED
      BY <1>1, <2>1, <3>1 DEF TimedOrSettling
  <2>3. (\A u \in Tasks : FollowedUp(todo[u]))'
    BY <2>2 DEF FollowedUp
  <2>4. (state = "RUNNING" => timer \/ orphaned \/ \E u \in Tasks : Settles(todo[u]))'
    BY <1>1, <2>2 DEF TimedOrSettling, Settles
  <2> QED
    BY <2>3, <2>4 DEF TimedOrSettling
<1>2. ASSUME UNCHANGED <<todo, state, timer, orphaned>>
      PROVE  TimedOrSettling'
  BY <1>2 DEF TimedOrSettling, FollowedUp, Settles
<1>3. ASSUME NEW do, do # "stopZone"
      PROVE  FollowedUp(<<Call(do)>>)
  BY <1>3 DEF FollowedUp, Call, Op
<1>4. ASSUME NEW c \in Clients, Command(c) \/ Set(c) \/ Standby(c)
      PROVE  TimedOrSettling'
  <2>1. c \in Tasks
    BY DEF Tasks
  <2>2. CASE Command(c)
    <3>1. /\ FollowedUp(<<Call("fullCycle")>>) /\ FollowedUp(<<Call("shutdown")>>)
          /\ FollowedUp(<<Call("pause")>>) /\ FollowedUp(<<Call("resume")>>)
          /\ FollowedUp(<<Call("nextValve")>>)
      BY <1>3
    <3>2. \A z \in Zones : FollowedUp(<<Op("singleZone", z)>>)
      BY DEF FollowedUp, Op
    <3> QED
      BY <1>1, <2>1, <2>2, <3>1, <3>2 DEF Command, Sends
  <2>3. CASE Set(c)
    BY <1>2, <2>3 DEF Set
  <2>4. CASE Standby(c)
    BY <1>1, <1>2, <1>3, <2>1, <2>4 DEF Standby, Sends
  <2> QED
    BY <1>4, <2>2, <2>3, <2>4
<1>5. ASSUME NEW t \in Timers, TimerFires(t)
      PROVE  TimedOrSettling'
  <2>1. t \in Tasks /\ t \notin Schedules
    BY TasksAssumption DEF Tasks
  <2>2. FollowedUp(<<Call("advance")>>) /\ Settles(<<Call("advance")>>)
    BY DEF FollowedUp, Settles, Settling, Call, Op
  <2>3. /\ todo'[t] = <<Call("advance")>>
        /\ \A u \in Tasks : u # t => todo'[u] = todo[u]
    BY <1>5, <2>1 DEF TimerFires
  <2>4. (\A u \in Tasks : FollowedUp(todo[u]))'
    <3>1. \A u \in Tasks : FollowedUp(todo'[u])
      BY <2>2, <2>3 DEF TimedOrSettling
    <3> QED
      BY <3>1 DEF FollowedUp
  <2>5. (\E u \in Tasks : Settles(todo[u]))'
    BY <2>1, <2>2, <2>3 DEF Settles
  <2> QED
    BY <2>4, <2>5 DEF TimedOrSettling
<1>6. ASSUME NEW s \in Schedules, ScheduleFires(s)
      PROVE  TimedOrSettling'
  <2>1. s \in Tasks
    BY DEF Tasks
  <2> QED
    BY <1>1, <1>2, <1>3, <1>6, <2>1 DEF ScheduleFires
<1> QED
  BY <1>4, <1>5, <1>6

\* A controller left RUNNING with no task in progress has its timer armed, or a schedule loop
\* was cancelled while it was RUNNING without one: whatever commands, timer callbacks and
\* schedules overlapped and whichever writes failed, some task always has to arm the timer,
\* or to leave RUNNING, when it is not armed, and only such a loop dies before it does.
THEOREM RunningAlwaysTimed == Spec => []RunningIsTimed
<1>1. Init => TimedOrSettling
  <2> SUFFICES ASSUME Init
               PROVE  TimedOrSettling
    OBVIOUS
  <2>1. state # "RUNNING" /\ \A t \in Tasks : todo[t] = <<>>
    BY DEF Init
  <2>2. FollowedUp(<<>>)
    BY DEF FollowedUp
  <2> QED
    BY <2>1, <2>2 DEF TimedOrSettling
<1>2. TypeOK /\ Awaits /\ TimedOrSettling /\ [Next]_vars => TimedOrSettling'
  <2> SUFFICES ASSUME TypeOK, Awaits, TimedOrSettling, [Next]_vars
               PROVE  TimedOrSettling'
    OBVIOUS
  <2>1. CASE UNCHANGED vars
    BY <2>1 DEF vars, ctl, TimedOrSettling, FollowedUp, Settles
  <2>2. CASE Next
    BY <2>2, StoppingKeepsTimed, PausingKeepsTimed, StartingKeepsTimed, AdvancingKeepsTimed,
       AwaitingKeepsTimed, EnvironmentKeepsTimed DEF Next, Step
  <2> QED
    BY <2>1, <2>2
<1>3. TimedOrSettling => RunningIsTimed
  <2>1. ~Settles(<<>>)
    BY DEF Settles
  <2> QED
    BY <2>1 DEF TimedOrSettling, RunningIsTimed, Quiescent
<1> QED
  BY <1>1, <1>2, <1>3, InitAwaits, NextAwaits, TypeCorrect, PTL DEF Spec

-----------------------------------------------------------------------------
\* Calm: the controller when commands do not overlap.  What is known between any two
\* operations, and which operation leads from where to where.

\* The controller at rest, when one command finishes before the next begins, no write
\* fails, a source is selected only in IDLE, and cycles are not repeated: without any one
\* of these the code leaves a valve or a pump on.
Calm ==
  MaxInFlight = 1 /\ MaxFaults = 0 /\ Repeats \subseteq {0} /\ "SOURCE" \notin Commands

\* What is known before an operation: of the controller (is, with the zone it is about) and
\* of the relays (flow, with the valve or pump it is about).  An operation leads from one
\* to the next, so what a task has still to do is a path to Rest.
Known(is, zone, flow, arg) == [is |-> is, zone |-> zone, flow |-> flow, arg |-> arg]
Kinds == {"any", "idle", "zoned", "next", "ahead", "at"}
Flows == {"rest", "held", "watering", "leaving", "overlapping", "overlapped", "tidy", "closing",
          "shut", "off", "pumped", "powering", "draining", "opened", "openedPowering"}
Labels == [is : Kinds, zone : Zones \cup {None}, flow : Flows,
           arg : Zones \cup Sources \cup {None}]

Rest == Known("any", None, "rest", None)
Idle == Known("idle", None, "off", None)
Watering == Known("any", None, "watering", None)

Shut == \A z \in Zones : ~valve[z]
Only(z) == \A y \in Zones : valve[y] <=> y = z
OnlySource == \A s \in Sources : pump[s] => s = source
PumpsOff == \A s \in Sources : ~pump[s]
SourceOn == source # None => pump[source]

ControlAs(p) ==
  /\ state = "IDLE" <=> active = None
  /\ p.is = "idle" => state = "IDLE"
  /\ p.is = "zoned" => active # None
  /\ p.is = "next" => p.zone \in Zones /\ (active \in {None, p.zone} \/ Before(active, p.zone))
  /\ p.is = "ahead" => active # None /\ p.zone \in Zones /\ Before(active, p.zone)
  /\ p.is = "at" => state = "RUNNING" /\ active = p.zone

RelaysAs(p) ==
  /\ OnlySource
  /\ p.flow = "rest" =>
       /\ state = "IDLE" => ~timer /\ Shut /\ PumpsOff
       /\ state = "RUNNING" => timer /\ Only(active) /\ SourceOn
       /\ state = "PAUSED" => ~timer /\ Shut
  /\ p.flow = "held" => state = "PAUSED" /\ ~timer /\ Shut
  /\ p.flow \in {"watering", "leaving"} => state = "RUNNING" /\ Only(active) /\ SourceOn
  /\ p.flow \in {"leaving", "overlapping"} => active = p.arg
  /\ p.flow = "overlapping" =>
       /\ state = "RUNNING" /\ SourceOn
       /\ \A z \in Zones : valve[z] <=> z \in {p.arg, p.zone}
  /\ p.flow = "overlapped" => state = "RUNNING" /\ Only(p.zone) /\ SourceOn
  /\ p.flow = "tidy" => \A z \in Zones : valve[z] => z = active
  /\ p.flow = "closing" => ~timer /\ \A z \in Zones : valve[z] => z = p.arg
  /\ p.flow \in {"shut", "off", "pumped", "powering", "draining"} => ~timer /\ Shut
  /\ p.flow = "off" => PumpsOff
  /\ p.flow = "pumped" => SourceOn
  /\ p.flow \in {"powering", "draining", "openedPowering"} => source = p.arg
  /\ p.flow \in {"opened", "openedPowering"} => state = "RUNNING" /\ Only(active)

\* After a schedule loop was cancelled the relays may be anything.
Holds(p) == ControlAs(p) /\ (Intact => RelaysAs(p))

Stopped == {"shut", "off", "pumped"}
Turn(p, flow) == Known(p.is, p.zone, flow, None)

\* What operation o, executed where p holds, is to establish.
Link(p, o, q) ==
  \/ o.do \in {"fullCycle", "nextValve", "pause", "resume", "singleZone"} /\ p = Rest /\ q = Rest
  \/ o.do = "resume" /\ p = Known("any", None, "held", None) /\ q = Watering
  \/ o.do = "shutdown" /\ p.flow \in {"tidy", "off"} /\ q \in {Rest, Idle}
  \/ o.do = "stopZone" /\ p.flow = "tidy" /\ q = Turn(p, "shut")
  \/ o.do = "close" /\ p.flow = "closing" /\ p.arg = o.arg /\ q = Turn(p, "shut")
  \/ o.do = "stopZone" /\ p.is = "ahead" /\ p.flow = "overlapping" /\ q = Turn(p, "overlapped")
  \/ o.do = "close" /\ p.is = "ahead" /\ p.flow = "overlapping" /\ p.arg = o.arg
     /\ q = Turn(p, "overlapped")
  \/ o.do \in {"pumpStop", "deactivate"} /\ p.flow \in Stopped /\ q = Turn(p, "off")
  \/ o.do = "pumpOff" /\ p.flow = "draining" /\ p.arg = o.arg /\ q = Turn(p, "off")
  \/ o.do = "activate" /\ p.flow \in Stopped /\ q = Turn(p, "pumped")
  \/ o.do = "pumpOn" /\ p.flow = "powering" /\ p.arg = o.arg /\ q = Turn(p, "pumped")
  \/ o.do = "activate" /\ p.flow = "opened" /\ q = Turn(p, "watering")
  \/ o.do = "pumpOn" /\ p.flow = "openedPowering" /\ p.arg = o.arg /\ q = Turn(p, "watering")
  \/ o.do = "toIdle" /\ p.flow = "off" /\ q \in {Rest, Idle}
  \/ o.do = "paused" /\ p.is = "zoned" /\ p.flow = "shut" /\ q = Rest
  \/ o.do \in {"newCycle", "startCycle", "zoneAlone"} /\ p = Idle /\ q = Rest
  \/ o.do = "startZone" /\ p.is = "next" /\ p.zone = o.arg /\ p.flow \in Stopped
     /\ q \in {Rest, Watering}
  \/ o.do = "gap" /\ p.is = "next" /\ p.zone = o.arg /\ p.flow \in Stopped /\ q = Rest
  \/ o.do = "open" /\ p.is = "at" /\ p.zone = o.arg /\ p.flow = "pumped"
     /\ q \in {Rest, Watering}
  \/ o.do = "openBeforePump" /\ p.is = "at" /\ p.zone = o.arg /\ p.flow = "shut"
     /\ q \in {Rest, Watering}
  \/ o.do = "arm" /\ p = Watering /\ q \in {Rest, Watering}
  \/ o.do \in {"nextAdvance", "advance", "forceAdvance"} /\ p = Watering /\ q = Rest
  \/ o.do = "openOverlap" /\ p.is = "ahead" /\ p.zone = o.arg /\ p.flow = "leaving"
     /\ q = Known(p.is, p.zone, "overlapping", p.arg)
  \/ o.do = "handover" /\ p.is = "ahead" /\ p.zone = o.arg /\ p.flow = "overlapped" /\ q = Rest
  \/ o.do = "sleep" /\ q = p

\* The operations of s lead from p to q.
Leads(p, s, q) ==
  \E a \in Seq(Labels) :
    /\ Len(a) = Len(s) + 1 /\ a[1] = p /\ a[Len(a)] = q
    /\ \A i \in 1..Len(s) : Link(a[i], s[i], a[i + 1])

\* What a task does next: after a write, what follows it.
Ahead(t) == IF io[t] = "written" THEN Remaining(t) ELSE todo[t]

OneAtATime == \A t, u \in Tasks : todo[t] # <<>> /\ todo[u] # <<>> => t = u
OnCourse(t) == \E p \in Labels : Holds(p) /\ Leads(p, Ahead(t), Rest)

CalmInv ==
  /\ Calm
  /\ OneAtATime
  /\ \A t \in Tasks : io[t] # "failed"
  /\ (\A t \in Tasks : todo[t] = <<>>) => Holds(Rest)
  /\ \A t \in Tasks : todo[t] # <<>> => OnCourse(t)

LEMMA LeadsNowhere ==
  /\ \A p \in Labels : Leads(p, <<>>, p)
  /\ \A p, q \in Labels : Leads(p, <<>>, q) => p = q
<1>1. ASSUME NEW p \in Labels
      PROVE  Leads(p, <<>>, p)
  <2> DEFINE path == <<p>>
  <2>1. path \in Seq(Labels) /\ Len(path) = 1 /\ path[1] = p
    OBVIOUS
  <2>2. Len(<<>>) = 0 /\ \A i \in 1..0 : FALSE
    OBVIOUS
  <2> HIDE DEF path
  <2> QED
    BY <2>1, <2>2 DEF Leads
<1>2. ASSUME NEW p \in Labels, NEW q \in Labels, Leads(p, <<>>, q)
      PROVE  p = q
  BY <1>2 DEF Leads
<1> QED
  BY <1>1, <1>2

LEMMA LeadsFirst ==
  ASSUME NEW p \in Labels, NEW q \in Labels, NEW s \in Seq(Ops), s # <<>>, Leads(p, s, q)
  PROVE  \E m \in Labels : Link(p, Head(s), m) /\ Leads(m, Tail(s), q)
<1>1. PICK a \in Seq(Labels) :
        /\ Len(a) = Len(s) + 1 /\ a[1] = p /\ a[Len(a)] = q
        /\ \A i \in 1..Len(s) : Link(a[i], s[i], a[i + 1])
  BY DEF Leads
<1>2. /\ Len(s) \in Nat /\ Len(s) > 0 /\ Head(s) = s[1] /\ Len(Tail(s)) = Len(s) - 1
      /\ \A i \in 1..Len(s) - 1 : Tail(s)[i] = s[i + 1]
  BY HeadTailProperties, EmptySeq, LenProperties
<1>3. /\ a # <<>> /\ Tail(a) \in Seq(Labels) /\ Len(Tail(a)) = Len(a) - 1
      /\ \A i \in 1..Len(a) - 1 : Tail(a)[i] = a[i + 1]
  BY <1>1, <1>2, HeadTailProperties, EmptySeq, LenProperties
<1>4. a[2] \in Labels /\ Link(p, Head(s), a[2])
  BY <1>1, <1>2, ElementOfSeq
<1>5. Leads(a[2], Tail(s), q)
  <2>1. /\ Len(Tail(a)) = Len(Tail(s)) + 1 /\ Tail(a)[1] = a[2]
        /\ Tail(a)[Len(Tail(a))] = q
    BY <1>1, <1>2, <1>3
  <2>2. ASSUME NEW i \in 1..Len(Tail(s))
        PROVE  Link(Tail(a)[i], Tail(s)[i], Tail(a)[i + 1])
    <3>1. /\ i + 1 \in 1..Len(s) /\ i \in 1..Len(a) - 1 /\ i + 1 \in 1..Len(a) - 1
          /\ i \in 1..Len(s) - 1
      BY <1>1, <1>2
    <3> QED
      BY <1>1, <1>2, <1>3, <3>1
  <2> QED
    BY <1>3, <2>1, <2>2 DEF Leads
<1> QED
  BY <1>4, <1>5

LEMMA LeadsOn ==
  ASSUME NEW p \in Labels, NEW m \in Labels, NEW q \in Labels,
         NEW r \in Seq(Ops), NEW s \in Seq(Ops), Leads(p, r, m), Leads(m, s, q)
  PROVE  Leads(p, r \o s, q)
<1>1. PICK a \in Seq(Labels) :
        /\ Len(a) = Len(r) + 1 /\ a[1] = p /\ a[Len(a)] = m
        /\ \A i \in 1..Len(r) : Link(a[i], r[i], a[i + 1])
  BY DEF Leads
<1>2. PICK b \in Seq(Labels) :
        /\ Len(b) = Len(s) + 1 /\ b[1] = m /\ b[Len(b)] = q
        /\ \A i \in 1..Len(s) : Link(b[i], s[i], b[i + 1])
  BY DEF Leads
<1>3. /\ r \o s \in Seq(Ops) /\ Len(r \o s) = Len(r) + Len(s)
      /\ \A i \in 1..Len(r) + Len(s) :
           (r \o s)[i] = IF i <= Len(r) THEN r[i] ELSE s[i - Len(r)]
      /\ Len(r) \in Nat /\ Len(s) \in Nat
  BY ConcatProperties, LenProperties
<1> DEFINE n == Len(r)
           c == [i \in 1..n + Len(s) + 1 |-> IF i <= n THEN a[i] ELSE b[i - n]]
<1>4. c \in Seq(Labels) /\ Len(c) = Len(r \o s) + 1
  <2>1. n + Len(s) + 1 \in Nat
    BY <1>3
  <2>2. \A i \in 1..n + Len(s) + 1 : c[i] \in Labels
    <3> SUFFICES ASSUME NEW i \in 1..n + Len(s) + 1
                 PROVE  c[i] \in Labels
      OBVIOUS
    <3>1. CASE i <= n
      <4>1. i \in 1..Len(a)
        BY <1>1, <1>3, <3>1
      <4> QED
        BY <3>1, <4>1, ElementOfSeq
    <3>2. CASE ~(i <= n)
      <4>1. i - n \in 1..Len(b)
        BY <1>2, <1>3, <3>2
      <4> QED
        BY <3>2, <4>1, ElementOfSeq
    <3> QED
      BY <3>1, <3>2
  <2> QED
    BY <1>3, <2>1, <2>2
<1>5. c[1] = p
  BY <1>1, <1>2, <1>3
<1>6. c[Len(c)] = q
  <2>1. /\ Len(c) = n + Len(s) + 1 /\ n + Len(s) + 1 \in 1..n + Len(s) + 1
        /\ ~(n + Len(s) + 1 <= n) /\ (n + Len(s) + 1) - n = Len(b)
    BY <1>2, <1>3, <1>4
  <2>2. c[n + Len(s) + 1] = b[(n + Len(s) + 1) - n]
    BY <2>1
  <2> QED
    BY <1>2, <2>1, <2>2
<1>7. ASSUME NEW i \in 1..Len(r \o s)
      PROVE  Link(c[i], (r \o s)[i], c[i + 1])
  <2>1. CASE i < n
    <3>1. i \in 1..n /\ c[i] = a[i] /\ c[i + 1] = a[i + 1] /\ (r \o s)[i] = r[i]
      BY <1>3, <2>1
    <3> QED
      BY <1>1, <3>1
  <2>2. CASE i = n
    <3>1. i \in 1..n /\ c[i] = a[i] /\ c[i + 1] = b[1] /\ (r \o s)[i] = r[i] /\ a[i + 1] = m
      BY <1>1, <1>3, <2>2
    <3> QED
      BY <1>1, <1>2, <3>1
  <2>3. CASE i > n
    <3>1. /\ i - n \in 1..Len(s) /\ c[i] = b[i - n] /\ c[i + 1] = b[i - n + 1]
          /\ (r \o s)[i] = s[i - n]
      BY <1>3, <2>3
    <3> QED
      BY <1>2, <3>1
  <2> QED
    BY <1>3, <2>1, <2>2, <2>3
<1> QED
  BY <1>3, <1>4, <1>5, <1>6, <1>7 DEF Leads

\* The operations an action calls, up to four.
LEMMA OneStepPath ==
  ASSUME NEW p \in Labels, NEW q \in Labels,
         NEW a \in Ops,
         Link(p, a, q)
  PROVE  Leads(p, <<a>>, q)
<1> DEFINE path == <<p, q>>
           ops == <<a>>
<1>1. /\ path \in Seq(Labels) /\ Len(path) = 2
      /\ path[1] = p /\ path[2] = q
  OBVIOUS
<1>2. /\ Len(ops) = 1
      /\ ops[1] = a
  OBVIOUS
<1>3. \A i \in 1..Len(ops) : Link(path[i], ops[i], path[i + 1])
  <2>1. \A i \in 1..1 : (i = 1 /\ i + 1 = 2)
    OBVIOUS
  <2> HIDE DEF path, ops
  <2> QED
    BY <1>1, <1>2, <2>1
<1> HIDE DEF path, ops
<1>4. Len(path) = Len(ops) + 1 /\ path[Len(path)] = q
  BY <1>1, <1>2
<1>5. Leads(p, ops, q)
  BY <1>1, <1>3, <1>4, Zenon DEF Leads
<1> QED
  BY <1>5 DEF ops

LEMMA TwoStepPath ==
  ASSUME NEW p \in Labels, NEW q \in Labels,
         NEW a \in Ops, NEW b \in Ops,
         NEW m \in Labels,
         Link(p, a, m), Link(m, b, q)
  PROVE  Leads(p, <<a, b>>, q)
<1> DEFINE path == <<p, m, q>>
           ops == <<a, b>>
<1>1. /\ path \in Seq(Labels) /\ Len(path) = 3
      /\ path[1] = p /\ path[2] = m /\ path[3] = q
  OBVIOUS
<1>2. /\ Len(ops) = 2
      /\ ops[1] = a /\ ops[2] = b
  OBVIOUS
<1>3. \A i \in 1..Len(ops) : Link(path[i], ops[i], path[i + 1])
  <2>1. \A i \in 1..2 : (i = 1 /\ i + 1 = 2) \/ (i = 2 /\ i + 1 = 3)
    OBVIOUS
  <2> HIDE DEF path, ops
  <2> QED
    BY <1>1, <1>2, <2>1
<1> HIDE DEF path, ops
<1>4. Len(path) = Len(ops) + 1 /\ path[Len(path)] = q
  BY <1>1, <1>2
<1>5. Leads(p, ops, q)
  BY <1>1, <1>3, <1>4, Zenon DEF Leads
<1> QED
  BY <1>5 DEF ops

LEMMA ThreeStepPath ==
  ASSUME NEW p \in Labels, NEW q \in Labels,
         NEW a \in Ops, NEW b \in Ops, NEW c \in Ops,
         NEW m \in Labels, NEW n \in Labels,
         Link(p, a, m), Link(m, b, n), Link(n, c, q)
  PROVE  Leads(p, <<a, b, c>>, q)
<1> DEFINE path == <<p, m, n, q>>
           ops == <<a, b, c>>
<1>1. /\ path \in Seq(Labels) /\ Len(path) = 4
      /\ path[1] = p /\ path[2] = m /\ path[3] = n /\ path[4] = q
  OBVIOUS
<1>2. /\ Len(ops) = 3
      /\ ops[1] = a /\ ops[2] = b /\ ops[3] = c
  OBVIOUS
<1>3. \A i \in 1..Len(ops) : Link(path[i], ops[i], path[i + 1])
  <2>1. \A i \in 1..3 : (i = 1 /\ i + 1 = 2) \/ (i = 2 /\ i + 1 = 3) \/ (i = 3 /\ i + 1 = 4)
    OBVIOUS
  <2> HIDE DEF path, ops
  <2> QED
    BY <1>1, <1>2, <2>1
<1> HIDE DEF path, ops
<1>4. Len(path) = Len(ops) + 1 /\ path[Len(path)] = q
  BY <1>1, <1>2
<1>5. Leads(p, ops, q)
  BY <1>1, <1>3, <1>4, Zenon DEF Leads
<1> QED
  BY <1>5 DEF ops

LEMMA FourStepPath ==
  ASSUME NEW p \in Labels, NEW q \in Labels,
         NEW a \in Ops, NEW b \in Ops, NEW c \in Ops, NEW d \in Ops,
         NEW k \in Labels, NEW m \in Labels, NEW n \in Labels,
         Link(p, a, k), Link(k, b, m), Link(m, c, n), Link(n, d, q)
  PROVE  Leads(p, <<a, b, c, d>>, q)
<1> DEFINE path == <<p, k, m, n, q>>
           ops == <<a, b, c, d>>
<1>1. /\ path \in Seq(Labels) /\ Len(path) = 5
      /\ path[1] = p /\ path[2] = k /\ path[3] = m /\ path[4] = n /\ path[5] = q
  OBVIOUS
<1>2. /\ Len(ops) = 4
      /\ ops[1] = a /\ ops[2] = b /\ ops[3] = c /\ ops[4] = d
  OBVIOUS
<1>3. \A i \in 1..Len(ops) : Link(path[i], ops[i], path[i + 1])
  <2>1. \A i \in 1..4 : (i = 1 /\ i + 1 = 2) \/ (i = 2 /\ i + 1 = 3) \/ (i = 3 /\ i + 1 = 4) \/ (i = 4 /\ i + 1 = 5)
    OBVIOUS
  <2> HIDE DEF path, ops
  <2> QED
    BY <1>1, <1>2, <2>1
<1> HIDE DEF path, ops
<1>4. Len(path) = Len(ops) + 1 /\ path[Len(path)] = q
  BY <1>1, <1>2
<1>5. Leads(p, ops, q)
  BY <1>1, <1>3, <1>4, Zenon DEF Leads
<1> QED
  BY <1>5 DEF ops

-----------------------------------------------------------------------------
\* A task that executes an operation stays on its course.

LEMMA LabelsTyped ==
  ASSUME NEW is \in Kinds, NEW zone \in Zones \cup {None}, NEW flow \in Flows,
         NEW arg \in Zones \cup Sources \cup {None}
  PROVE  /\ Known(is, zone, flow, arg) \in Labels
         /\ Known(is, zone, flow, arg).is = is /\ Known(is, zone, flow, arg).zone = zone
         /\ Known(is, zone, flow, arg).flow = flow /\ Known(is, zone, flow, arg).arg = arg
BY DEF Known, Labels

LEMMA RestTyped ==
  /\ Rest \in Labels /\ Rest.is = "any" /\ Rest.zone = None /\ Rest.flow = "rest" /\ Rest.arg = None
  /\ Idle \in Labels /\ Idle.is = "idle" /\ Idle.zone = None /\ Idle.flow = "off" /\ Idle.arg = None
  /\ Watering \in Labels /\ Watering.is = "any" /\ Watering.zone = None
  /\ Watering.flow = "watering" /\ Watering.arg = None
BY DEF Rest, Idle, Watering, Known, Labels, Kinds, Flows

LEMMA TurnTyped ==
  ASSUME NEW p \in Labels, NEW flow \in Flows
  PROVE  /\ Turn(p, flow) \in Labels
         /\ Turn(p, flow).is = p.is /\ Turn(p, flow).zone = p.zone
         /\ Turn(p, flow).flow = flow /\ Turn(p, flow).arg = None
         /\ Turn(p, flow) = Known(p.is, p.zone, flow, None)
         /\ \A arg \in Zones \cup Sources \cup {None}, f \in Flows :
              Turn(Known(p.is, p.zone, f, arg), flow) = Turn(p, flow)
BY DEF Turn, Known, Labels

\* The step an operation takes, and a state where nothing the labels speak of has changed.
LEMMA HoldsStays ==
  ASSUME NEW p \in Labels, Holds(p),
         UNCHANGED <<state, active, timer, opt, source, valve, pump, io>>
  PROVE  Holds(p)'
BY DEF Holds, ControlAs, RelaysAs, Intact, OnlySource, Shut, PumpsOff, Only, SourceOn, Before

LEMMA DutyKept ==
  ASSUME TypeOK, Awaits, CalmInv, NEW t \in Tasks, loop = t,
         \A p, m \in Labels : Holds(p) /\ Link(p, Head(todo[t]), m) =>
           \E ops \in Seq(Ops), q \in Labels : Calls(t, ops) /\ Holds(q)' /\ Leads(q, ops, m)
  PROVE  CalmInv'
<1>1. /\ todo[t] # <<>> /\ io[t] = "none" /\ todo[t] \in Seq(Ops) /\ DOMAIN todo = Tasks
      /\ Ahead(t) = todo[t] /\ Tail(todo[t]) \in Seq(Ops)
  BY HeadTailProperties DEF Awaits, TypeOK, TasksTyped, Ahead
<1>2. PICK p \in Labels : Holds(p) /\ Leads(p, todo[t], Rest)
  BY <1>1 DEF CalmInv, OnCourse
<1>3. PICK m \in Labels : Link(p, Head(todo[t]), m) /\ Leads(m, Tail(todo[t]), Rest)
  BY <1>1, <1>2, LeadsFirst, RestTyped
<1>4. PICK ops \in Seq(Ops), q \in Labels : Calls(t, ops) /\ Holds(q)' /\ Leads(q, ops, m)
  BY <1>2, <1>3
<1>5. /\ todo'[t] = ops \o Tail(todo[t]) /\ io' = io
      /\ \A u \in Tasks : u # t => todo'[u] = todo[u] /\ todo[u] = <<>>
  BY <1>1, <1>4 DEF Calls, CalmInv, OneAtATime
<1>6. Leads(q, todo'[t], Rest)
  <2>1. Rest \in Labels
    BY RestTyped
  <2>2. Leads(q, ops \o Tail(todo[t]), Rest)
    BY <1>1, <1>3, <1>4, <2>1, LeadsOn
  <2> QED
    BY <1>5, <2>2
<1>7. OneAtATime' /\ \A u \in Tasks : io'[u] # "failed"
  BY <1>5 DEF OneAtATime, CalmInv
<1>8. (\A u \in Tasks : todo[u] = <<>>)' => Holds(Rest)'
  <2> SUFFICES ASSUME todo'[t] = <<>>
               PROVE  Holds(Rest)'
    OBVIOUS
  <2>1. q = Rest
    BY <1>6, LeadsNowhere, RestTyped
  <2> QED
    BY <1>4, <2>1
<1>9. \A u \in Tasks : todo'[u] # <<>> => OnCourse(u)'
  <2>1. Ahead(t)' = todo'[t]
    BY <1>1, <1>5 DEF Ahead
  <2>2. OnCourse(t)'
    BY <1>4, <1>6, <2>1 DEF OnCourse
  <2> QED
    BY <1>5, <2>2
<1> QED
  BY <1>7, <1>8, <1>9 DEF CalmInv, Calm

-----------------------------------------------------------------------------
\* Calling operations, and the course of shutdown.

\* What leads nowhere, and one operation more.
LEMMA Returning ==
  ASSUME NEW t \in Tasks, NEW m \in Labels, Returns(t), Holds(m)'
  PROVE  \E ops \in Seq(Ops), q \in Labels : Calls(t, ops) /\ Holds(q)' /\ Leads(q, ops, m)
<1>1. <<>> \in Seq(Ops) /\ Leads(m, <<>>, m)
  BY LeadsNowhere
<1> QED
  BY <1>1 DEF Returns

LEMMA CallingOne ==
  ASSUME NEW t \in Tasks, NEW m \in Labels, NEW q \in Labels, NEW a \in Ops,
         Calls(t, <<a>>), Holds(q)', Link(q, a, m)
  PROVE  \E ops \in Seq(Ops), r \in Labels : Calls(t, ops) /\ Holds(r)' /\ Leads(r, ops, m)
<1>1. <<a>> \in Seq(Ops) /\ Leads(q, <<a>>, m)
  BY OneStepPath
<1> QED
  BY <1>1

LEMMA CallingTwo ==
  ASSUME NEW t \in Tasks, NEW m \in Labels, NEW q \in Labels, NEW a \in Ops, NEW b \in Ops,
         NEW k \in Labels, Calls(t, <<a, b>>), Holds(q)', Link(q, a, k), Link(k, b, m)
  PROVE  \E ops \in Seq(Ops), r \in Labels : Calls(t, ops) /\ Holds(r)' /\ Leads(r, ops, m)
<1>1. <<a, b>> \in Seq(Ops) /\ Leads(q, <<a, b>>, m)
  BY TwoStepPath
<1> QED
  BY <1>1

LEMMA CallingThree ==
  ASSUME NEW t \in Tasks, NEW m \in Labels, NEW q \in Labels, NEW a \in Ops, NEW b \in Ops,
         NEW c \in Ops, NEW k \in Labels, NEW l \in Labels,
         Calls(t, <<a, b, c>>), Holds(q)', Link(q, a, k), Link(k, b, l), Link(l, c, m)
  PROVE  \E ops \in Seq(Ops), r \in Labels : Calls(t, ops) /\ Holds(r)' /\ Leads(r, ops, m)
<1>1. <<a, b, c>> \in Seq(Ops) /\ Leads(q, <<a, b, c>>, m)
  BY ThreeStepPath
<1> QED
  BY <1>1

LEMMA CallingFour ==
  ASSUME NEW t \in Tasks, NEW m \in Labels, NEW q \in Labels, NEW a \in Ops, NEW b \in Ops,
         NEW c \in Ops, NEW d \in Ops, NEW k \in Labels, NEW l \in Labels, NEW n \in Labels,
         Calls(t, <<a, b, c, d>>), Holds(q)',
         Link(q, a, k), Link(k, b, l), Link(l, c, n), Link(n, d, m)
  PROVE  \E ops \in Seq(Ops), r \in Labels : Calls(t, ops) /\ Holds(r)' /\ Leads(r, ops, m)
<1>1. <<a, b, c, d>> \in Seq(Ops) /\ Leads(q, <<a, b, c, d>>, m)
  BY FourStepPath
<1> QED
  BY <1>1

\* Labels that say nothing of the zone.
Now(flow) == Known("any", None, flow, None)

LEMMA NowTyped ==
  ASSUME NEW flow \in Flows
  PROVE  /\ Now(flow) \in Labels /\ Now(flow).is = "any" /\ Now(flow).zone = None
         /\ Now(flow).flow = flow /\ Now(flow).arg = None
         /\ \A f \in Flows : Turn(Now(f), flow) = Now(flow)
BY DEF Now, Known, Labels, Kinds, Turn

\* Nothing the labels speak of changes when a task goes on without touching the controller.
LEMMA CallsHolds ==
  ASSUME NEW t \in Tasks, NEW ops, Calls(t, ops),
         UNCHANGED <<state, active, timer, opt, source>>, NEW p \in Labels, Holds(p)
  PROVE  Holds(p)'
BY HoldsStays DEF Calls, relays

LEMMA ShutdownLinks ==
  ASSUME NEW m \in {Rest, Idle}
  PROVE  /\ Link(Now("tidy"), Call("stopZone"), Now("shut"))
         /\ Link(Now("shut"), Call("pumpStop"), Now("off"))
         /\ Link(Now("off"), Call("toIdle"), m)
         /\ Link(Now("tidy"), Call("shutdown"), m)
         /\ Link(Now("off"), Call("shutdown"), m)
<1>1. {"tidy", "shut", "off"} \subseteq Flows
  BY DEF Flows
<1> QED
  BY <1>1, NowTyped DEF Link, Call, Op, Stopped

\* At rest, or with the relays off, the only valve that may be open is that of the active zone.
LEMMA RestIsTidy ==
  ASSUME TypeOK, NEW p \in Labels, Holds(p), p.flow \in {"rest", "watering", "off", "tidy"}
  PROVE  Holds(Now("tidy"))
<1>1. "tidy" \in Flows /\ state \in {"IDLE", "RUNNING", "PAUSED"}
  BY DEF Flows, TypeOK, ControlTyped, States
<1>2. ControlAs(Now("tidy"))
  BY <1>1, NowTyped DEF Holds, ControlAs
<1>3. ASSUME RelaysAs(p)
      PROVE  RelaysAs(Now("tidy"))
  <2>1. OnlySource /\ \A z \in Zones : valve[z] => z = active
    BY <1>1, <1>3 DEF RelaysAs, Shut, Only
  <2> QED
    BY <1>1, <2>1, NowTyped DEF RelaysAs
<1> QED
  BY <1>2, <1>3 DEF Holds

LEMMA ShutdownOnCourse ==
  ASSUME TypeOK, Awaits, CalmInv, NEW t \in Tasks, Shutdown(t)
  PROVE  CalmInv'
<1>1. ASSUME NEW p \in Labels, NEW m \in Labels, Holds(p), Link(p, Head(todo[t]), m)
      PROVE  \E ops \in Seq(Ops), q \in Labels : Calls(t, ops) /\ Holds(q)' /\ Leads(q, ops, m)
  <2>1. p.flow \in {"tidy", "off"} /\ m \in {Rest, Idle}
    BY <1>1 DEF Link, Shutdown, Running
  <2>2. {"tidy", "shut", "off"} \subseteq Flows
    BY DEF Flows
  <2>3. Holds(Now("tidy"))'
    <3>1. Holds(Now("tidy")) /\ Now("tidy") \in Labels
      BY <1>1, <2>1, <2>2, RestIsTidy, NowTyped
    <3> QED
      BY <3>1, CallsHolds DEF Shutdown, ctl, settings
  <2>4. Call("stopZone") \in Ops /\ Call("pumpStop") \in Ops /\ Call("toIdle") \in Ops
    BY OpsTyped DEF PlainOps
  <2>5. Now("tidy") \in Labels /\ Now("shut") \in Labels /\ Now("off") \in Labels
    BY <2>2, NowTyped
  <2>6. Calls(t, <<Call("stopZone"), Call("pumpStop"), Call("toIdle")>>)
    BY DEF Shutdown
  <2> QED
    BY <2>1, <2>3, <2>4, <2>5, <2>6, ShutdownLinks, CallingThree
<1> QED
  BY <1>1, DutyKept DEF Shutdown, Running

-----------------------------------------------------------------------------
\* Stopping a zone.

\* The names of what is known of the relays, and of the operations that change it.
LEMMA FlowsNamed == Stopped \subseteq Flows /\ \A f \in Stopped \cup
  {"rest", "tidy", "closing", "powering", "draining", "opened", "openedPowering", "watering",
   "overlapping", "overlapped", "leaving", "held"} : f \in Flows
BY DEF Flows, Stopped

LEMMA LabelParts ==
  ASSUME NEW p \in Labels
  PROVE  /\ p.is \in Kinds /\ p.zone \in Zones \cup {None} /\ p.flow \in Flows
         /\ p.arg \in Zones \cup Sources \cup {None}
BY DEF Labels

LEMMA ControlStays ==
  ASSUME NEW p \in Labels, NEW q \in Labels, ControlAs(p), q.is \in {p.is, "any"},
         q.zone = p.zone, UNCHANGED <<state, active, opt>>
  PROVE  ControlAs(q)'
BY DEF ControlAs, Before

LEMMA StopZoneOnCourse ==
  ASSUME TypeOK, Awaits, CalmInv, NEW t \in Tasks, StopZone(t)
  PROVE  CalmInv'
<1> USE DEF StopZone
<1>1. ASSUME NEW p \in Labels, NEW m \in Labels, Holds(p), Link(p, Head(todo[t]), m)
      PROVE  \E ops \in Seq(Ops), q \in Labels : Calls(t, ops) /\ Holds(q)' /\ Leads(q, ops, m)
  <2>1. \/ p.flow = "tidy" /\ m = Turn(p, "shut")
        \/ p.is = "ahead" /\ p.flow = "overlapping" /\ m = Turn(p, "overlapped")
    BY <1>1 DEF Link, Running
  <2>2. /\ timer' = FALSE /\ UNCHANGED <<state, active, opt, source>>
        /\ active \in Zones \cup {None}
    BY DEF settings, TypeOK, ControlTyped
  <2>3. UNCHANGED <<valve, pump, io>>
    BY DEF Returns, Calls, relays
  <2>4. ControlAs(p) /\ (Intact => RelaysAs(p)) /\ (Intact' => Intact)
    BY <1>1, <2>3 DEF Holds, Intact
  <2>5. CASE active = None
    <3>1. p.flow = "tidy" /\ m = Turn(p, "shut")
      BY <2>1, <2>4, <2>5 DEF ControlAs
    <3>2. /\ m.is = p.is /\ m.zone = p.zone /\ m.flow = "shut" /\ m.arg = None
      BY <3>1, TurnTyped, FlowsNamed DEF Stopped
    <3>3. ControlAs(m)'
      BY <2>2, <2>4, <3>2, ControlStays
    <3>4. ASSUME RelaysAs(p)
          PROVE  RelaysAs(m)'
      <4>1. OnlySource /\ Shut
        BY <2>5, <3>1, <3>4, NoneAssumption DEF RelaysAs, Shut
      <4> QED
        BY <2>2, <2>3, <3>2, <4>1 DEF RelaysAs, Shut, OnlySource
    <3>5. Holds(m)'
      BY <2>4, <3>3, <3>4 DEF Holds
    <3> QED
      BY <2>5, <3>5, Returning
  <2>6. CASE active # None /\ p.flow = "tidy"
    <3>1. PICK q \in Labels : /\ q = Known(p.is, p.zone, "closing", active)
                              /\ q.is = p.is /\ q.zone = p.zone /\ q.flow = "closing"
                              /\ q.arg = active
      <4>1. "closing" \in Flows /\ active \in Zones \cup Sources \cup {None}
        BY <2>2 DEF Flows
      <4>2. p.is \in Kinds /\ p.zone \in Zones \cup {None}
        BY LabelParts
      <4>3. LET q == Known(p.is, p.zone, "closing", active)
            IN  /\ q \in Labels /\ q.is = p.is /\ q.zone = p.zone /\ q.flow = "closing"
                /\ q.arg = active
        BY <4>1, <4>2 DEF Known, Labels
      <4> QED
        BY <4>3
    <3>2. Turn(q, "shut") = m
      BY <2>1, <2>6, <3>1 DEF Turn
    <3>3. ControlAs(q)'
      BY <2>2, <2>4, <3>1, ControlStays
    <3>4. ASSUME RelaysAs(p)
          PROVE  RelaysAs(q)'
      <4>1. OnlySource /\ \A z \in Zones : valve[z] => z = active
        BY <2>6, <3>4 DEF RelaysAs
      <4>2. q.flow = "closing" /\ q.arg = active
        BY <3>1
      <4> QED
        BY <2>2, <2>3, <4>1, <4>2 DEF RelaysAs, OnlySource
    <3>5. Holds(q)'
      BY <2>4, <3>3, <3>4 DEF Holds
    <3>6. Link(q, Op("close", active), m)
      BY <3>1, <3>2 DEF Link, Op
    <3>7. Op("close", active) \in Ops /\ Calls(t, <<Op("close", active)>>)
      BY <2>2, <2>6, ZoneOpsTyped
    <3> QED
      BY <3>5, <3>6, <3>7, CallingOne
  <2>7. CASE active # None /\ p.flow # "tidy"
    <3>1. PICK q \in Labels : /\ q = Known(p.is, p.zone, "overlapping", active)
                              /\ q.is = p.is /\ q.zone = p.zone /\ q.flow = "overlapping"
                              /\ q.arg = active
      <4>1. "overlapping" \in Flows /\ active \in Zones \cup Sources \cup {None}
        BY <2>2 DEF Flows
      <4>2. p.is \in Kinds /\ p.zone \in Zones \cup {None}
        BY LabelParts
      <4>3. LET q == Known(p.is, p.zone, "overlapping", active)
            IN  /\ q \in Labels /\ q.is = p.is /\ q.zone = p.zone /\ q.flow = "overlapping"
                /\ q.arg = active
        BY <4>1, <4>2 DEF Known, Labels
      <4> QED
        BY <4>3
    <3>2. Turn(q, "overlapped") = m /\ p.is = "ahead" /\ p.flow = "overlapping"
      BY <2>1, <2>7, <3>1 DEF Turn
    <3>3. ControlAs(q)'
      BY <2>2, <2>4, <3>1, ControlStays
    <3>4. ASSUME RelaysAs(p)
          PROVE  RelaysAs(q)'
      <4>1. /\ OnlySource /\ state = "RUNNING" /\ SourceOn
            /\ \A z \in Zones : valve[z] <=> z \in {active, p.zone}
        BY <3>2, <3>4 DEF RelaysAs
      <4>2. q.flow = "overlapping" /\ q.arg = active /\ q.zone = p.zone
        BY <3>1
      <4> QED
        BY <2>2, <2>3, <4>1, <4>2 DEF RelaysAs, OnlySource, SourceOn
    <3>5. Holds(q)'
      BY <2>4, <3>3, <3>4 DEF Holds
    <3>6. Link(q, Op("close", active), m)
      BY <3>1, <3>2 DEF Link, Op
    <3>7. Op("close", active) \in Ops /\ Calls(t, <<Op("close", active)>>)
      BY <2>2, <2>7, ZoneOpsTyped
    <3> QED
      BY <3>5, <3>6, <3>7, CallingOne
  <2> QED
    BY <2>5, <2>6, <2>7
<1> QED
  BY <1>1, DutyKept DEF Running

\* What an operation on the pump turns what is known to, the controller being as it was.
LEMMA PumpTurns ==
  ASSUME TypeOK, NEW p \in Labels, Holds(p)
  PROVE  /\ p.flow \in Stopped /\ source = None =>
              Holds(Turn(p, "off")) /\ Holds(Turn(p, "pumped"))
         /\ p.flow = "opened" /\ source = None => Holds(Turn(p, "watering"))
         /\ p.flow \in Stopped /\ source # None =>
              /\ Holds(Known(p.is, p.zone, "draining", source))
              /\ Holds(Known(p.is, p.zone, "powering", source))
         /\ p.flow = "opened" /\ source # None =>
              Holds(Known(p.is, p.zone, "openedPowering", source))
<1>1. source \in Zones \cup Sources \cup {None} /\ p.is \in Kinds /\ p.zone \in Zones \cup {None}
  BY DEF TypeOK, ControlTyped, Labels
<1>2. ASSUME NEW f \in Flows, NEW a \in Zones \cup Sources \cup {None}
      PROVE  ControlAs(Known(p.is, p.zone, f, a))
  BY <1>1, <1>2, LabelsTyped DEF Holds, ControlAs
<1>3. ASSUME NEW f \in Flows, NEW a \in Zones \cup Sources \cup {None},
             Intact => RelaysAs(Known(p.is, p.zone, f, a))
      PROVE  Holds(Known(p.is, p.zone, f, a))
  BY <1>2, <1>3 DEF Holds
<1>4. ASSUME p.flow \in Stopped, RelaysAs(p)
      PROVE  OnlySource /\ ~timer /\ Shut
  BY <1>4 DEF RelaysAs, Stopped
<1>5. ASSUME p.flow = "opened", RelaysAs(p)
      PROVE  OnlySource /\ state = "RUNNING" /\ Only(active)
  BY <1>5 DEF RelaysAs
<1>6. ASSUME p.flow \in Stopped, source = None
      PROVE  Holds(Turn(p, "off")) /\ Holds(Turn(p, "pumped"))
  <2>1. ASSUME RelaysAs(p), NEW f \in {"off", "pumped"}
        PROVE  RelaysAs(Known(p.is, p.zone, f, None))
    <3>1. OnlySource /\ ~timer /\ Shut
      BY <1>4, <1>6, <2>1
    <3>2. PumpsOff /\ SourceOn
      BY <1>6, <3>1, NoneAssumption DEF OnlySource, PumpsOff, SourceOn
    <3>3. LET q == Known(p.is, p.zone, f, None) IN q.flow = f
      BY DEF Known
    <3> QED
      BY <2>1, <3>1, <3>2, <3>3 DEF RelaysAs
  <2> QED
    BY <1>3, <1>6, <2>1, FlowsNamed DEF Turn, Holds, Stopped
<1>7. ASSUME p.flow = "opened", source = None
      PROVE  Holds(Turn(p, "watering"))
  <2>1. ASSUME RelaysAs(p)
        PROVE  RelaysAs(Known(p.is, p.zone, "watering", None))
    <3>1. OnlySource /\ state = "RUNNING" /\ Only(active)
      BY <1>5, <1>7, <2>1
    <3>2. SourceOn
      BY <1>7 DEF SourceOn
    <3>3. LET q == Known(p.is, p.zone, "watering", None) IN q.flow = "watering"
      BY DEF Known
    <3> QED
      BY <3>1, <3>2, <3>3 DEF RelaysAs
  <2> QED
    BY <1>3, <2>1, FlowsNamed DEF Turn, Holds
<1>8. ASSUME p.flow \in Stopped, source # None, NEW f \in {"draining", "powering"}
      PROVE  Holds(Known(p.is, p.zone, f, source))
  <2>1. ASSUME RelaysAs(p)
        PROVE  RelaysAs(Known(p.is, p.zone, f, source))
    <3>1. OnlySource /\ ~timer /\ Shut
      BY <1>4, <1>8, <2>1
    <3>2. LET q == Known(p.is, p.zone, f, source) IN q.flow = f /\ q.arg = source
      BY DEF Known
    <3> QED
      BY <1>8, <3>1, <3>2 DEF RelaysAs
  <2> QED
    BY <1>1, <1>3, <2>1, FlowsNamed DEF Holds
<1>9. ASSUME p.flow = "opened", source # None
      PROVE  Holds(Known(p.is, p.zone, "openedPowering", source))
  <2>1. ASSUME RelaysAs(p)
        PROVE  RelaysAs(Known(p.is, p.zone, "openedPowering", source))
    <3>1. OnlySource /\ state = "RUNNING" /\ Only(active)
      BY <1>5, <1>9, <2>1
    <3>2. LET q == Known(p.is, p.zone, "openedPowering", source)
          IN  q.flow = "openedPowering" /\ q.arg = source
      BY DEF Known
    <3> QED
      BY <3>1, <3>2 DEF RelaysAs
  <2> QED
    BY <1>1, <1>3, <2>1, FlowsNamed DEF Holds
<1> QED
  BY <1>6, <1>7, <1>8, <1>9

-----------------------------------------------------------------------------
\* Stopping and switching the source, and the return to IDLE.

LEMMA PumpStopOnCourse ==
  ASSUME TypeOK, Awaits, CalmInv, NEW t \in Tasks, PumpStop(t)
  PROVE  CalmInv'
<1> USE DEF PumpStop
<1>1. ASSUME NEW p \in Labels, NEW m \in Labels, Holds(p), Link(p, Head(todo[t]), m)
      PROVE  \E ops \in Seq(Ops), q \in Labels : Calls(t, ops) /\ Holds(q)' /\ Leads(q, ops, m)
  <2>1. p.flow \in Stopped /\ m = Turn(p, "off")
    BY <1>1 DEF Link, Running
  <2>2. UNCHANGED <<state, active, timer, opt, source>>
    BY DEF ctl, settings
  <2>3. /\ Link(p, Call("deactivate"), m) /\ Link(p, Call("sleep"), p)
        /\ Link(m, Call("sleep"), m)
    BY <2>1 DEF Link, Call, Op
  <2>4. Call("deactivate") \in Ops /\ Call("sleep") \in Ops
    BY PlainOpsTyped
  <2>5. CASE source = None /\ Returns(t)
    <3>1. Holds(m)
      BY <1>1, <2>1, <2>5, PumpTurns
    <3>2. Holds(m)'
      BY <2>2, <2>5, <3>1, CallsHolds DEF Returns
    <3> QED
      BY <2>5, <3>2, Returning
  <2>6. CASE Calls(t, <<Call("deactivate"), Call("sleep")>>)
    <3>1. Holds(p)'
      BY <1>1, <2>2, <2>6, CallsHolds
    <3> QED
      BY <2>3, <2>4, <2>6, <3>1, CallingTwo
  <2>7. CASE Calls(t, <<Call("sleep"), Call("deactivate")>>)
    <3>1. Holds(p)'
      BY <1>1, <2>2, <2>7, CallsHolds
    <3> QED
      BY <2>3, <2>4, <2>7, <3>1, CallingTwo
  <2>8. CASE Calls(t, <<Call("deactivate")>>)
    <3>1. Holds(p)'
      BY <1>1, <2>2, <2>8, CallsHolds
    <3> QED
      BY <2>3, <2>4, <2>8, <3>1, CallingOne
  <2> QED
    BY <2>5, <2>6, <2>7, <2>8
<1> QED
  BY <1>1, DutyKept DEF Running

LEMMA SwitchSourceOnCourse ==
  ASSUME TypeOK, Awaits, CalmInv, NEW t \in Tasks, SwitchSource(t)
  PROVE  CalmInv'
<1> USE DEF SwitchSource
<1>1. ASSUME NEW p \in Labels, NEW m \in Labels, Holds(p), Link(p, Head(todo[t]), m)
      PROVE  \E ops \in Seq(Ops), q \in Labels : Calls(t, ops) /\ Holds(q)' /\ Leads(q, ops, m)
  <2>1. \/ Running(t, "activate") /\ p.flow \in Stopped /\ m = Turn(p, "pumped")
        \/ Running(t, "activate") /\ p.flow = "opened" /\ m = Turn(p, "watering")
        \/ Running(t, "deactivate") /\ p.flow \in Stopped /\ m = Turn(p, "off")
    BY <1>1 DEF Link, Running
  <2>2. /\ UNCHANGED <<state, active, timer, opt, source>>
        /\ source \in Sources \cup {None}
        /\ Running(t, "activate") => ~Running(t, "deactivate")
    BY DEF ctl, settings, TypeOK, ControlTyped, Running
  <2>3. CASE source = None
    <3>1. Holds(m) /\ Returns(t)
      BY <1>1, <2>1, <2>3, PumpTurns
    <3>2. Holds(m)'
      BY <2>2, <3>1, CallsHolds DEF Returns
    <3> QED
      BY <3>1, <3>2, Returning
  <2>4. ASSUME source # None, NEW f \in {"powering", "draining", "openedPowering"},
               NEW o \in {"pumpOn", "pumpOff"},
               Holds(Known(p.is, p.zone, f, source)), Calls(t, <<Op(o, source)>>),
               \/ f = "powering" /\ o = "pumpOn" /\ m = Turn(p, "pumped")
               \/ f = "openedPowering" /\ o = "pumpOn" /\ m = Turn(p, "watering")
               \/ f = "draining" /\ o = "pumpOff" /\ m = Turn(p, "off")
        PROVE  \E ops \in Seq(Ops), q \in Labels : Calls(t, ops) /\ Holds(q)' /\ Leads(q, ops, m)
    <3>1. PICK q \in Labels : /\ q = Known(p.is, p.zone, f, source)
                              /\ q.is = p.is /\ q.zone = p.zone /\ q.flow = f
                              /\ q.arg = source
      <4>1. f \in Flows /\ source \in Zones \cup Sources \cup {None}
        BY <2>2, <2>4 DEF Flows
      <4>2. p.is \in Kinds /\ p.zone \in Zones \cup {None}
        BY LabelParts
      <4>3. LET q == Known(p.is, p.zone, f, source)
            IN  /\ q \in Labels /\ q.is = p.is /\ q.zone = p.zone /\ q.flow = f
                /\ q.arg = source
        BY <4>1, <4>2 DEF Known, Labels
      <4> QED
        BY <4>3
    <3>2. Holds(q)'
      <4>1. Holds(q)
        BY <2>4, <3>1
      <4> QED
        BY <2>2, <2>4, <4>1, CallsHolds
    <3>3. Turn(q, "pumped") = Turn(p, "pumped") /\ Turn(q, "watering") = Turn(p, "watering")
          /\ Turn(q, "off") = Turn(p, "off")
      BY <3>1 DEF Turn
    <3>4. Link(q, Op(o, source), m)
      BY <2>4, <3>1, <3>3 DEF Link, Op
    <3>5. Op(o, source) \in Ops
      BY <2>2, <2>4, OpsTyped DEF PumpWrites
    <3> QED
      BY <2>4, <3>2, <3>4, <3>5, CallingOne
  <2>5. CASE source # None /\ Running(t, "activate") /\ p.flow \in Stopped
    <3>1. /\ Calls(t, <<Op("pumpOn", source)>>) /\ m = Turn(p, "pumped")
          /\ Holds(Known(p.is, p.zone, "powering", source))
      BY <1>1, <2>1, <2>2, <2>5, PumpTurns DEF Stopped
    <3> QED
      BY <2>4, <2>5, <3>1
  <2>6. CASE source # None /\ Running(t, "activate") /\ p.flow = "opened"
    <3>1. /\ Calls(t, <<Op("pumpOn", source)>>) /\ m = Turn(p, "watering")
          /\ Holds(Known(p.is, p.zone, "openedPowering", source))
      BY <1>1, <2>1, <2>2, <2>6, PumpTurns DEF Stopped
    <3> QED
      BY <2>4, <2>6, <3>1
  <2>7. CASE source # None /\ Running(t, "deactivate")
    <3>1. /\ Calls(t, <<Op("pumpOff", source)>>) /\ m = Turn(p, "off")
          /\ Holds(Known(p.is, p.zone, "draining", source))
      BY <1>1, <2>1, <2>2, <2>7, PumpTurns DEF Stopped
    <3> QED
      BY <2>4, <2>7, <3>1
  <2> QED
    BY <2>1, <2>3, <2>5, <2>6, <2>7
<1> QED
  BY <1>1, DutyKept DEF Running

LEMMA ToIdleOnCourse ==
  ASSUME TypeOK, Awaits, CalmInv, NEW t \in Tasks, ToIdle(t)
  PROVE  CalmInv'
<1> USE DEF ToIdle
<1>1. ASSUME NEW p \in Labels, NEW m \in Labels, Holds(p), Link(p, Head(todo[t]), m)
      PROVE  \E ops \in Seq(Ops), q \in Labels : Calls(t, ops) /\ Holds(q)' /\ Leads(q, ops, m)
  <2>1. p.flow = "off" /\ m \in {Rest, Idle}
    BY <1>1 DEF Link, Running
  <2>2. state' = "IDLE" /\ active' = None /\ UNCHANGED <<timer, source, valve, pump, io>>
    BY DEF settings, Returns, Calls, relays
  <2>3. m.is \in {"any", "idle"} /\ m.flow \in {"rest", "off"}
    BY <2>1, RestTyped
  <2>4. ControlAs(m)'
    BY <2>2, <2>3 DEF ControlAs
  <2>5. ASSUME RelaysAs(p)
        PROVE  RelaysAs(m)'
    <3>1. OnlySource /\ ~timer /\ Shut /\ PumpsOff
      BY <2>1, <2>5 DEF RelaysAs
    <3> QED
      BY <2>2, <2>3, <3>1 DEF RelaysAs, OnlySource, Shut, PumpsOff
  <2>6. Holds(m)'
    BY <1>1, <2>2, <2>4, <2>5 DEF Holds, Intact
  <2> QED
    BY <2>6, Returning
<1> QED
  BY <1>1, DutyKept DEF Running

-----------------------------------------------------------------------------
\* Pausing, resuming and skipping to the next zone.

\* What is known before a zone is started, with the relays off or shut.
LEMMA NextTypedLabel ==
  ASSUME NEW z \in Zones, NEW f \in Flows
  PROVE  LET q == Known("next", z, f, None)
         IN  /\ q \in Labels /\ q.is = "next" /\ q.zone = z /\ q.flow = f /\ q.arg = None
BY DEF Known, Labels, Kinds

LEMMA PauseOnCourse ==
  ASSUME TypeOK, Awaits, CalmInv, NEW t \in Tasks, Pause(t)
  PROVE  CalmInv'
<1> USE DEF Pause
<1>1. ASSUME NEW p \in Labels, NEW m \in Labels, Holds(p), Link(p, Head(todo[t]), m)
      PROVE  \E ops \in Seq(Ops), q \in Labels : Calls(t, ops) /\ Holds(q)' /\ Leads(q, ops, m)
  <2>1. p = Rest /\ m = Rest
    BY <1>1 DEF Link, Running
  <2>2. UNCHANGED <<state, active, opt, source>>
    BY DEF settings
  <2>3. CASE state # "RUNNING" \/ active = None
    <3>1. Holds(m)'
      BY <1>1, <2>1, <2>2, <2>3, CallsHolds DEF Returns
    <3> QED
      BY <2>3, <3>1, Returning
  <2>4. CASE state = "RUNNING" /\ active # None
    <3> DEFINE q == Known("zoned", None, "tidy", None)
               k == Known("zoned", None, "shut", None)
    <3>1. /\ q \in Labels /\ q.is = "zoned" /\ q.zone = None /\ q.flow = "tidy" /\ q.arg = None
          /\ k \in Labels /\ k.is = "zoned" /\ k.flow = "shut"
          /\ k = Turn(q, "shut")
      BY DEF Known, Labels, Kinds, Flows, Turn
    <3> HIDE DEF q, k
    <3>2. timer' = FALSE /\ UNCHANGED <<valve, pump, io>>
      BY <2>4 DEF Calls, relays
    <3>3. ControlAs(q)'
      BY <1>1, <2>2, <2>4, <3>1 DEF ControlAs, Holds
    <3>4. ASSUME RelaysAs(p)
          PROVE  RelaysAs(q)'
      <4>1. OnlySource /\ \A z \in Zones : valve[z] => z = active
        BY <2>1, <2>4, <3>4, RestTyped DEF RelaysAs, Only
      <4> QED
        BY <2>2, <3>1, <3>2, <4>1 DEF RelaysAs, OnlySource
    <3>5. Holds(q)'
      BY <1>1, <3>2, <3>3, <3>4 DEF Holds, Intact
    <3>6. Link(q, Call("stopZone"), k) /\ Link(k, Call("paused"), m)
      BY <2>1, <3>1 DEF Link, Call, Op
    <3>7. Call("stopZone") \in Ops /\ Call("paused") \in Ops
      BY OpsTyped DEF PlainOps
    <3> QED
      BY <2>4, <3>1, <3>5, <3>6, <3>7, CallingTwo
  <2> QED
    BY <2>3, <2>4
<1> QED
  BY <1>1, DutyKept DEF Running

LEMMA PausedOnCourse ==
  ASSUME TypeOK, Awaits, CalmInv, NEW t \in Tasks, Paused(t)
  PROVE  CalmInv'
<1> USE DEF Paused
<1>1. ASSUME NEW p \in Labels, NEW m \in Labels, Holds(p), Link(p, Head(todo[t]), m)
      PROVE  \E ops \in Seq(Ops), q \in Labels : Calls(t, ops) /\ Holds(q)' /\ Leads(q, ops, m)
  <2>1. p.is = "zoned" /\ p.flow = "shut" /\ m = Rest
    BY <1>1 DEF Link, Running
  <2>2. state' = "PAUSED" /\ UNCHANGED <<active, timer, source, valve, pump, io>>
    BY DEF settings, Returns, Calls, relays
  <2>3. m.is = "any" /\ m.flow = "rest"
    BY <2>1, RestTyped
  <2>4. ControlAs(m)'
    BY <1>1, <2>1, <2>2, <2>3 DEF ControlAs, Holds
  <2>5. ASSUME RelaysAs(p)
        PROVE  RelaysAs(m)'
    <3>1. OnlySource /\ ~timer /\ Shut
      BY <2>1, <2>5 DEF RelaysAs
    <3> QED
      BY <2>2, <2>3, <3>1 DEF RelaysAs, OnlySource, Shut
  <2>6. Holds(m)'
    BY <1>1, <2>2, <2>4, <2>5 DEF Holds, Intact
  <2> QED
    BY <2>6, Returning
<1> QED
  BY <1>1, DutyKept DEF Running

LEMMA ResumeZoneOnCourse ==
  ASSUME TypeOK, Awaits, CalmInv, NEW t \in Tasks, ResumeZone(t)
  PROVE  CalmInv'
<1> USE DEF ResumeZone
<1>1. ASSUME NEW p \in Labels, NEW m \in Labels, Holds(p), Link(p, Head(todo[t]), m)
      PROVE  \E ops \in Seq(Ops), q \in Labels : Calls(t, ops) /\ Holds(q)' /\ Leads(q, ops, m)
  <2>1. (p = Rest /\ m = Rest) \/ (p = Now("held") /\ m = Watering)
    BY <1>1 DEF Link, Running, Now
  <2>2. "held" \in Flows /\ "shut" \in Flows /\ UNCHANGED <<state, active, timer, opt, source>>
    BY DEF Flows, ctl, settings
  <2>3. p.flow \in {"rest", "held"} /\ m \in {Rest, Watering}
    BY <2>1, <2>2, RestTyped, NowTyped
  <2>4. CASE state # "PAUSED" \/ active = None
    <3>1. Holds(m)
      <4>1. CASE p = Rest
        BY <1>1, <2>1, <2>2, <4>1, RestTyped, NowTyped
      <4>2. CASE p = Now("held") /\ m = Watering
        <5>1. ~Intact
          BY <1>1, <2>2, <2>4, <4>2, NowTyped DEF Holds, ControlAs, RelaysAs
        <5> QED
          BY <1>1, <4>2, <5>1, RestTyped DEF Holds, ControlAs
      <4> QED
        BY <2>1, <4>1, <4>2
    <3>2. Holds(m)'
      BY <2>2, <2>4, <3>1, CallsHolds DEF Returns
    <3> QED
      BY <2>4, <3>2, Returning
  <2>5. CASE state = "PAUSED" /\ active # None
    <3>1. active \in Zones
      BY <2>5 DEF TypeOK, ControlTyped
    <3>2. PICK q \in Labels : /\ q = Known("next", active, "shut", None)
                              /\ q.is = "next" /\ q.zone = active /\ q.flow = "shut"
                              /\ q.arg = None
      BY <2>2, <3>1, NextTypedLabel
    <3>3. ASSUME RelaysAs(p)
          PROVE  RelaysAs(q)
      <4>1. OnlySource /\ ~timer /\ Shut
        BY <2>3, <2>5, <3>3 DEF RelaysAs
      <4> QED
        BY <3>2, <4>1 DEF RelaysAs
    <3>4. Holds(q)
      BY <1>1, <3>1, <3>2, <3>3 DEF Holds, ControlAs
    <3>5. Calls(t, <<Op("startZone", active)>>) /\ Op("startZone", active) \in Ops
      BY <2>5, <3>1, ZoneOpsTyped
    <3>6. Holds(q)'
      BY <2>2, <3>4, <3>5, CallsHolds
    <3>7. Link(q, Op("startZone", active), m)
      BY <2>3, <3>2 DEF Link, Op, Stopped
    <3> QED
      BY <3>5, <3>6, <3>7, CallingOne
  <2> QED
    BY <2>4, <2>5
<1> QED
  BY <1>1, DutyKept DEF Running

LEMMA NextValveOnCourse ==
  ASSUME TypeOK, Awaits, CalmInv, NEW t \in Tasks, NextValve(t)
  PROVE  CalmInv'
<1> USE DEF NextValve
<1>1. ASSUME NEW p \in Labels, NEW m \in Labels, Holds(p), Link(p, Head(todo[t]), m)
      PROVE  \E ops \in Seq(Ops), q \in Labels : Calls(t, ops) /\ Holds(q)' /\ Leads(q, ops, m)
  <2>1. \/ Running(t, "nextValve") /\ p = Rest /\ m = Rest
        \/ Running(t, "nextAdvance") /\ p = Watering /\ m = Rest
    BY <1>1 DEF Link, Running
  <2>2. /\ UNCHANGED <<state, active, timer, opt, source>>
        /\ Running(t, "nextValve") => ~Running(t, "nextAdvance")
        /\ "held" \in Flows
    BY DEF ctl, settings, Running, Flows
  <2>3. /\ Call("resume") \in Ops /\ Call("nextAdvance") \in Ops /\ Call("forceAdvance") \in Ops
    BY OpsTyped DEF PlainOps
  <2>4. /\ Link(Now("held"), Call("resume"), Watering) /\ Link(Watering, Call("nextAdvance"), Rest)
        /\ Link(Watering, Call("forceAdvance"), Rest)
    BY DEF Link, Call, Op, Now
  <2>5. CASE Running(t, "nextValve") /\ state = "IDLE" /\ Returns(t)
    <3>1. Holds(m)'
      BY <1>1, <2>1, <2>2, <2>5, CallsHolds DEF Returns
    <3> QED
      BY <2>5, <3>1, Returning
  <2>6. CASE Running(t, "nextValve") /\ state = "PAUSED"
    <3>1. Holds(Now("held")) /\ Now("held") \in Labels
      BY <1>1, <2>1, <2>2, <2>6, NowTyped, RestTyped DEF Holds, ControlAs, RelaysAs
    <3>2. Calls(t, <<Call("resume"), Call("nextAdvance")>>)
      BY <2>2, <2>6
    <3>3. Holds(Now("held"))'
      BY <2>2, <3>1, <3>2, CallsHolds
    <3> QED
      BY <2>1, <2>2, <2>3, <2>4, <2>6, <3>1, <3>2, <3>3, CallingTwo, RestTyped
  <2>7. CASE Running(t, "nextValve") /\ state = "RUNNING"
    <3>1. Holds(Watering) /\ Watering \in Labels
      BY <1>1, <2>1, <2>2, <2>7, RestTyped DEF Holds, ControlAs, RelaysAs
    <3>2. Calls(t, <<Call("nextAdvance")>>)
      BY <2>2, <2>7
    <3>3. Holds(Watering)'
      BY <2>2, <3>1, <3>2, CallsHolds
    <3> QED
      BY <2>1, <2>2, <2>3, <2>4, <2>7, <3>1, <3>2, <3>3, CallingOne
  <2>8. CASE Running(t, "nextAdvance") /\ active = None
    <3>1. Returns(t)
      BY <2>2, <2>8
    <3>2. Holds(m)
      <4>1. ~Intact
        BY <1>1, <2>1, <2>2, <2>8, RestTyped DEF Holds, ControlAs, RelaysAs
      <4> QED
        BY <1>1, <2>1, <4>1, RestTyped, <2>2, <2>8 DEF Holds, ControlAs
    <3>3. Holds(m)'
      BY <2>2, <3>1, <3>2, CallsHolds DEF Returns
    <3> QED
      BY <3>1, <3>3, Returning
  <2>9. CASE Running(t, "nextAdvance") /\ active # None
    <3>1. Calls(t, <<Call("forceAdvance")>>) /\ p = Watering /\ m = Rest
      BY <2>1, <2>2, <2>9
    <3>2. Holds(p)'
      BY <1>1, <2>2, <3>1, CallsHolds
    <3> QED
      BY <2>3, <2>4, <3>1, <3>2, CallingOne
  <2> QED
    BY <2>1, <2>2, <2>5, <2>6, <2>7, <2>8, <2>9
<1> QED
  BY <1>1, DutyKept DEF Running

-----------------------------------------------------------------------------
\* Starting a cycle or one zone.

\* From the controller at rest, the two ways of starting: after a shutdown, or at once.
LEMMA StartsFromRest ==
  ASSUME TypeOK, NEW t \in Tasks, Holds(Rest), UNCHANGED <<state, active, timer, opt, source>>,
         NEW o \in Ops, o.do \in {"newCycle", "zoneAlone"},
         \/ Calls(t, <<Call("shutdown"), o>>)
         \/ state = "IDLE" /\ Calls(t, <<o>>)
  PROVE  \E ops \in Seq(Ops), q \in Labels : Calls(t, ops) /\ Holds(q)' /\ Leads(q, ops, Rest)
<1>1. Link(Idle, o, Rest)
  BY DEF Link
<1>2. CASE Calls(t, <<Call("shutdown"), o>>)
  <2>1. Holds(Now("tidy")) /\ Now("tidy") \in Labels
    BY RestIsTidy, RestTyped, NowTyped DEF Flows
  <2>2. Holds(Now("tidy"))'
    BY <1>2, <2>1, CallsHolds
  <2>3. Link(Now("tidy"), Call("shutdown"), Idle)
    BY ShutdownLinks
  <2>4. Call("shutdown") \in Ops
    BY PlainOpsTyped
  <2> QED
    BY <1>1, <1>2, <2>1, <2>2, <2>3, <2>4, CallingTwo, RestTyped
<1>3. CASE state = "IDLE" /\ Calls(t, <<o>>)
  <2>1. Holds(Idle)
    BY <1>3, RestTyped DEF Holds, ControlAs, RelaysAs
  <2>2. Holds(Idle)'
    BY <1>3, <2>1, CallsHolds, RestTyped
  <2> QED
    BY <1>1, <1>3, <2>2, CallingOne, RestTyped
<1> QED
  BY <1>2, <1>3

LEMMA FullCycleOnCourse ==
  ASSUME TypeOK, Awaits, CalmInv, NEW t \in Tasks, FullCycle(t)
  PROVE  CalmInv'
<1> USE DEF FullCycle
<1>1. ASSUME NEW p \in Labels, NEW m \in Labels, Holds(p), Link(p, Head(todo[t]), m)
      PROVE  \E ops \in Seq(Ops), q \in Labels : Calls(t, ops) /\ Holds(q)' /\ Leads(q, ops, m)
  <2>1. p = Rest /\ m = Rest
    BY <1>1 DEF Link, Running
  <2>2. UNCHANGED <<state, active, timer, opt, source>>
    BY DEF ctl, settings
  <2>3. CASE Returns(t)
    <3>1. Holds(m)'
      BY <1>1, <2>1, <2>2, <2>3, CallsHolds DEF Returns
    <3> QED
      BY <2>3, <3>1, Returning
  <2>4. Call("newCycle") \in Ops /\ Call("newCycle").do = "newCycle"
    BY OpsTyped DEF PlainOps, Call, Op
  <2>5. CASE ~Returns(t)
    BY <1>1, <2>1, <2>2, <2>4, <2>5, StartsFromRest
  <2> QED
    BY <2>3, <2>5
<1> QED
  BY <1>1, DutyKept DEF Running

LEMMA SingleZoneOnCourse ==
  ASSUME TypeOK, Awaits, CalmInv, NEW t \in Tasks, SingleZone(t)
  PROVE  CalmInv'
<1> USE DEF SingleZone
<1>1. ASSUME NEW p \in Labels, NEW m \in Labels, Holds(p), Link(p, Head(todo[t]), m)
      PROVE  \E ops \in Seq(Ops), q \in Labels : Calls(t, ops) /\ Holds(q)' /\ Leads(q, ops, m)
  <2>1. p = Rest /\ m = Rest
    BY <1>1 DEF Link, Running
  <2>2. UNCHANGED <<state, active, timer, opt, source>>
    BY DEF ctl, settings
  <2>3. CASE Returns(t)
    <3>1. Holds(m)'
      BY <1>1, <2>1, <2>2, <2>3, CallsHolds DEF Returns
    <3> QED
      BY <2>3, <3>1, Returning
  <2>4. Op("zoneAlone", Arg(t)) \in Ops /\ Op("zoneAlone", Arg(t)).do = "zoneAlone"
    <3>1. Arg(t) \in Zones
      BY ArgTyped DEF ZoneOps, TypeOK
    <3> QED
      BY <3>1, ZoneOpsTyped DEF Op
  <2>5. CASE ~Returns(t)
    BY <1>1, <2>1, <2>2, <2>4, <2>5, StartsFromRest
  <2> QED
    BY <2>3, <2>5
<1> QED
  BY <1>1, DutyKept DEF Running

LEMMA NewCycleOnCourse ==
  ASSUME TypeOK, Awaits, CalmInv, NEW t \in Tasks, NewCycle(t)
  PROVE  CalmInv'
<1> USE DEF NewCycle
<1>1. ASSUME NEW p \in Labels, NEW m \in Labels, Holds(p), Link(p, Head(todo[t]), m)
      PROVE  \E ops \in Seq(Ops), q \in Labels : Calls(t, ops) /\ Holds(q)' /\ Leads(q, ops, m)
  <2>1. p = Idle /\ m = Rest
    BY <1>1 DEF Link, Running
  <2>2. UNCHANGED <<state, active, timer, source, valve, pump, io>>
    BY DEF Returns, Calls, relays
  <2>3. ControlAs(Rest)' /\ ControlAs(Idle)'
    BY <1>1, <2>1, <2>2, RestTyped DEF Holds, ControlAs
  <2>4. ASSUME RelaysAs(p)
        PROVE  RelaysAs(Rest)' /\ RelaysAs(Idle)'
    <3>1. OnlySource /\ ~timer /\ Shut /\ PumpsOff
      BY <2>1, <2>4, RestTyped DEF RelaysAs
    <3>2. state = "IDLE"
      BY <1>1, <2>1, RestTyped DEF Holds, ControlAs
    <3> QED
      BY <2>2, <3>1, <3>2, RestTyped DEF RelaysAs, OnlySource, Shut, PumpsOff
  <2>5. Holds(Rest)' /\ Holds(Idle)'
    BY <1>1, <2>2, <2>3, <2>4 DEF Holds, Intact
  <2>6. CASE Returns(t)
    BY <2>1, <2>5, <2>6, Returning
  <2>7. CASE Calls(t, <<Call("startCycle")>>)
    <3>1. Call("startCycle") \in Ops
      BY OpsTyped DEF PlainOps
    <3>2. Link(Idle, Call("startCycle"), Rest)
      BY DEF Link, Call, Op
    <3> QED
      BY <2>1, <2>5, <2>7, <3>1, <3>2, CallingOne, RestTyped
  <2> QED
    BY <2>6, <2>7
<1> QED
  BY <1>1, DutyKept DEF Running

\* From IDLE, a zone is started with everything off.
LEMMA StartsFromIdle ==
  ASSUME TypeOK, Holds(Idle), NEW z \in Zones
  PROVE  Holds(Known("next", z, "off", None))
<1> DEFINE q == Known("next", z, "off", None)
<1>1. q.is = "next" /\ q.zone = z /\ q.flow = "off"
  BY DEF Known
<1> HIDE DEF q
<1>2. ControlAs(q)
  BY <1>1, RestTyped DEF Holds, ControlAs
<1>3. ASSUME RelaysAs(Idle)
      PROVE  RelaysAs(q)
  <2>1. OnlySource /\ ~timer /\ Shut /\ PumpsOff
    BY <1>3, RestTyped DEF RelaysAs
  <2> QED
    BY <1>1, <2>1 DEF RelaysAs
<1>4. Holds(q)
  BY <1>2, <1>3 DEF Holds
<1> QED
  BY <1>4 DEF q

LEMMA StartZoneLinked ==
  ASSUME NEW z \in Zones, NEW m \in {Rest, Watering}, NEW f \in Stopped
  PROVE  Link(Known("next", z, f, None), Op("startZone", z), m)
BY DEF Link, Known, Op

LEMMA ZoneAloneOnCourse ==
  ASSUME TypeOK, Awaits, CalmInv, NEW t \in Tasks, ZoneAlone(t)
  PROVE  CalmInv'
<1> USE DEF ZoneAlone
<1>1. ASSUME NEW p \in Labels, NEW m \in Labels, Holds(p), Link(p, Head(todo[t]), m)
      PROVE  \E ops \in Seq(Ops), q \in Labels : Calls(t, ops) /\ Holds(q)' /\ Leads(q, ops, m)
  <2>1. p = Idle /\ m = Rest
    BY <1>1 DEF Link, Running
  <2>2. UNCHANGED <<state, active, timer, opt, source>>
    BY DEF settings
  <2>3. Arg(t) \in Zones
    BY ArgTyped DEF ZoneOps, TypeOK
  <2>4. Calls(t, <<Op("startZone", Arg(t))>>) /\ Op("startZone", Arg(t)) \in Ops
    BY <2>3, ZoneOpsTyped
  <2>5. PICK q \in Labels : q = Known("next", Arg(t), "off", None)
    BY <2>3, NextTypedLabel DEF Flows
  <2>6. Holds(q)
    BY <1>1, <2>1, <2>3, <2>5, StartsFromIdle
  <2>7. Holds(q)'
    BY <2>2, <2>4, <2>6, CallsHolds
  <2>8. Link(q, Op("startZone", Arg(t)), m)
    BY <2>1, <2>3, <2>5, StartZoneLinked DEF Stopped
  <2> QED
    BY <2>4, <2>7, <2>8, CallingOne
<1> QED
  BY <1>1, DutyKept DEF Running

LEMMA StartCycleOnCourse ==
  ASSUME TypeOK, Awaits, CalmInv, NEW t \in Tasks, StartCycle(t)
  PROVE  CalmInv'
<1> USE DEF StartCycle
<1>1. ASSUME NEW p \in Labels, NEW m \in Labels, Holds(p), Link(p, Head(todo[t]), m)
      PROVE  \E ops \in Seq(Ops), q \in Labels : Calls(t, ops) /\ Holds(q)' /\ Leads(q, ops, m)
  <2>1. p = Idle /\ m = Rest
    BY <1>1 DEF Link, Running
  <2>2. UNCHANGED <<timer, opt, source>> /\ state = "IDLE" /\ active = None
    BY <1>1, <2>1, RestTyped DEF settings, Holds, ControlAs
  <2>3. ASSUME NEW z \in Zones, Calls(t, <<Op("startZone", z)>>), UNCHANGED <<state, active>>
        PROVE  \E ops \in Seq(Ops), q \in Labels : Calls(t, ops) /\ Holds(q)' /\ Leads(q, ops, m)
    <3>1. PICK q \in Labels : q = Known("next", z, "off", None)
      BY NextTypedLabel DEF Flows
    <3>2. Holds(q)
      BY <1>1, <2>1, <3>1, StartsFromIdle
    <3>3. Holds(q)'
      BY <2>2, <2>3, <3>2, CallsHolds
    <3>4. Link(q, Op("startZone", z), m)
      BY <2>1, <3>1, StartZoneLinked DEF Stopped
    <3>5. Op("startZone", z) \in Ops
      BY ZoneOpsTyped
    <3> QED
      BY <2>3, <3>3, <3>4, <3>5, CallingOne
  <2>4. CASE Returns(t) /\ state' = "IDLE" /\ active' = None
    <3>1. UNCHANGED <<state, active>>
      BY <2>2, <2>4
    <3>2. Holds(Rest)
      BY <1>1, <2>1, <2>2, RestTyped DEF Holds, ControlAs, RelaysAs
    <3>3. Holds(m)'
      BY <2>1, <2>2, <2>4, <3>1, <3>2, CallsHolds DEF Returns
    <3> QED
      BY <2>4, <3>3, Returning
  <2> QED
    BY <2>3, <2>4
<1> QED
  BY <1>1, DutyKept DEF Running

-----------------------------------------------------------------------------
\* Starting a zone, and the move to the next one.

\* What is known of a zone that is being started.
At(z, flow) == Known("at", z, flow, None)

LEMMA AtTyped ==
  ASSUME NEW z \in Zones, NEW flow \in Flows
  PROVE  /\ At(z, flow) \in Labels /\ At(z, flow).is = "at" /\ At(z, flow).zone = z
         /\ At(z, flow).flow = flow
         /\ \A f \in Flows : Turn(At(z, f), flow) = At(z, flow)
BY DEF At, Known, Labels, Kinds, Turn

LEMMA StartZoneOnCourse ==
  ASSUME TypeOK, Awaits, CalmInv, NEW t \in Tasks, StartZone(t)
  PROVE  CalmInv'
<1> USE DEF StartZone
<1>1. ASSUME NEW p \in Labels, NEW m \in Labels, Holds(p), Link(p, Head(todo[t]), m)
      PROVE  \E ops \in Seq(Ops), q \in Labels : Calls(t, ops) /\ Holds(q)' /\ Leads(q, ops, m)
  <2>1. p.flow \in Stopped /\ m \in {Rest, Watering}
    BY <1>1 DEF Link, Running
  <2>2. PICK z \in Zones : z = Arg(t)
    BY ArgTyped DEF ZoneOps, TypeOK
  <2>3. {"shut", "pumped"} \subseteq Flows
    BY DEF Flows
  <2>4. /\ state' = "RUNNING" /\ active' = z
        /\ UNCHANGED <<timer, source, valve, pump, io>>
    BY <2>2 DEF settings, Calls, relays
  <2>5. \A f \in {"shut", "pumped"} : ControlAs(At(z, f))'
    BY <2>3, <2>4, AtTyped, NoneAssumption DEF ControlAs
  <2>6. ASSUME NEW f \in {"shut", "pumped"}, f = "pumped" => source = None
        PROVE  Holds(At(z, f))'
    <3>1. ASSUME RelaysAs(p)
          PROVE  RelaysAs(At(z, f))'
      <4>1. OnlySource /\ ~timer /\ Shut
        BY <2>1, <3>1 DEF RelaysAs, Stopped
      <4>2. f = "pumped" => SourceOn
        BY <2>6 DEF SourceOn
      <4>3. At(z, f).flow = f
        BY <2>3, AtTyped
      <4> QED
        BY <2>4, <4>1, <4>2, <4>3 DEF RelaysAs, OnlySource, Shut, SourceOn
    <3> QED
      BY <1>1, <2>4, <2>5, <3>1 DEF Holds, Intact
  <2>7. /\ Link(At(z, "shut"), Call("activate"), At(z, "pumped"))
        /\ Link(At(z, "pumped"), Call("sleep"), At(z, "pumped"))
        /\ Link(At(z, "pumped"), Op("open", z), m)
        /\ Link(At(z, "shut"), Op("openBeforePump", z), m)
    <3>1. Turn(At(z, "shut"), "pumped") = At(z, "pumped")
      BY <2>3, AtTyped
    <3>2. /\ At(z, "shut").is = "at" /\ At(z, "shut").zone = z /\ At(z, "shut").flow = "shut"
          /\ At(z, "pumped").is = "at" /\ At(z, "pumped").zone = z
          /\ At(z, "pumped").flow = "pumped"
      BY <2>3, AtTyped
    <3> QED
      BY <2>1, <3>1, <3>2 DEF Link, Call, Op, Stopped
  <2>8. /\ Call("activate") \in Ops /\ Call("sleep") \in Ops
        /\ Op("open", z) \in Ops /\ Op("openBeforePump", z) \in Ops
        /\ At(z, "shut") \in Labels /\ At(z, "pumped") \in Labels
    BY <2>3, PlainOpsTyped, ZoneOpsTyped, AtTyped
  <2>9. CASE source = None /\ Calls(t, <<Op("open", z)>>)
    BY <2>6, <2>7, <2>8, <2>9, CallingOne
  <2>10. CASE Calls(t, <<Call("activate"), Call("sleep"), Op("open", z)>>)
    BY <2>6, <2>7, <2>8, <2>10, CallingThree
  <2>11. CASE Calls(t, <<Op("openBeforePump", z)>>)
    BY <2>6, <2>7, <2>8, <2>11, CallingOne
  <2>12. CASE Calls(t, <<Call("activate"), Op("open", z)>>)
    BY <2>6, <2>7, <2>8, <2>12, CallingTwo
  <2> QED
    BY <2>2, <2>9, <2>10, <2>11, <2>12
<1> QED
  BY <1>1, DutyKept DEF Running

LEMMA ArmOnCourse ==
  ASSUME TypeOK, Awaits, CalmInv, NEW t \in Tasks, Arm(t)
  PROVE  CalmInv'
<1> USE DEF Arm
<1>1. ASSUME NEW p \in Labels, NEW m \in Labels, Holds(p), Link(p, Head(todo[t]), m)
      PROVE  \E ops \in Seq(Ops), q \in Labels : Calls(t, ops) /\ Holds(q)' /\ Leads(q, ops, m)
  <2>1. p = Watering /\ m \in {Rest, Watering}
    BY <1>1 DEF Link, Running
  <2>2. timer' = TRUE /\ UNCHANGED <<state, active, source, valve, pump, io>>
    BY DEF settings, Returns, Calls, relays
  <2>3. m.is = "any" /\ m.flow \in {"rest", "watering"}
    BY <2>1, RestTyped
  <2>4. ControlAs(m)'
    BY <1>1, <2>2, <2>3 DEF ControlAs, Holds
  <2>5. ASSUME RelaysAs(p)
        PROVE  RelaysAs(m)'
    <3>1. OnlySource /\ state = "RUNNING" /\ Only(active) /\ SourceOn
      BY <2>1, <2>5, RestTyped DEF RelaysAs
    <3> QED
      BY <2>2, <2>3, <3>1 DEF RelaysAs, OnlySource, Only, SourceOn
  <2>6. Holds(m)'
    BY <1>1, <2>2, <2>4, <2>5 DEF Holds, Intact
  <2> QED
    BY <2>6, Returning
<1> QED
  BY <1>1, DutyKept DEF Running

LEMMA GapOnCourse ==
  ASSUME TypeOK, Awaits, CalmInv, NEW t \in Tasks, Gap(t)
  PROVE  CalmInv'
<1> USE DEF Gap
<1>1. ASSUME NEW p \in Labels, NEW m \in Labels, Holds(p), Link(p, Head(todo[t]), m)
      PROVE  \E ops \in Seq(Ops), q \in Labels : Calls(t, ops) /\ Holds(q)' /\ Leads(q, ops, m)
  <2>1. PICK z \in Zones : z = Arg(t)
    BY ArgTyped DEF ZoneOps, TypeOK
  <2>2. p.is = "next" /\ p.zone = z /\ p.flow \in Stopped /\ m = Rest
    BY <1>1, <2>1 DEF Link, Running, Arg
  <2>3. UNCHANGED <<state, active, timer, opt, source>>
    BY DEF ctl, settings
  <2> DEFINE start == Op("startZone", z)
  <2>4. /\ Link(p, start, m) /\ Link(p, Call("sleep"), p)
    BY <2>2 DEF Link, Call, Op
  <2>5. /\ Link(p, Call("deactivate"), Turn(p, "off"))
        /\ Link(Turn(p, "off"), Call("sleep"), Turn(p, "off"))
        /\ Link(Turn(p, "off"), Call("activate"), Turn(p, "pumped"))
        /\ Link(Turn(p, "pumped"), start, m)
        /\ Turn(p, "off") \in Labels /\ Turn(p, "pumped") \in Labels
    <3>1. {"off", "pumped"} \subseteq Flows /\ {"off", "pumped"} \subseteq Stopped
      BY DEF Flows, Stopped
    <3>2. /\ Turn(p, "off") \in Labels /\ Turn(p, "pumped") \in Labels
          /\ Turn(p, "off").flow = "off"
          /\ Turn(p, "pumped").is = "next" /\ Turn(p, "pumped").zone = z
          /\ Turn(p, "pumped").flow = "pumped"
      BY <2>2, <3>1, TurnTyped
    <3>3. Turn(Turn(p, "off"), "pumped") = Turn(p, "pumped")
      BY DEF Turn, Known
    <3> QED
      BY <2>2, <3>1, <3>2, <3>3 DEF Link, Call, Op
  <2>6. /\ Call("deactivate") \in Ops /\ Call("sleep") \in Ops /\ Call("activate") \in Ops
        /\ start \in Ops
    BY PlainOpsTyped, ZoneOpsTyped
  <2>7. ASSUME NEW ops, Calls(t, ops)
        PROVE  Holds(p)'
    BY <1>1, <2>3, <2>7, CallsHolds
  <2>8. CASE Calls(t, <<start>>)
    <3>1. Holds(p)'
      BY <2>7, <2>8
    <3> HIDE DEF start
    <3> QED
      BY <2>4, <2>6, <2>8, <3>1, CallingOne
  <2>9. CASE Calls(t, <<Call("sleep"), start>>)
    <3>1. Holds(p)'
      BY <2>7, <2>9
    <3> HIDE DEF start
    <3> QED
      BY <2>4, <2>6, <2>9, <3>1, CallingTwo
  <2>10. CASE Calls(t, <<Call("deactivate"), Call("sleep"), Call("activate"), start>>)
    <3>1. Holds(p)'
      BY <2>7, <2>10
    <3> HIDE DEF start
    <3> QED
      BY <2>5, <2>6, <2>10, <3>1, CallingFour
  <2> QED
    BY <2>1, <2>8, <2>9, <2>10
<1> QED
  BY <1>1, DutyKept DEF Running

LEMMA HandoverOnCourse ==
  ASSUME TypeOK, Awaits, CalmInv, NEW t \in Tasks, Handover(t)
  PROVE  CalmInv'
<1> USE DEF Handover
<1>1. ASSUME NEW p \in Labels, NEW m \in Labels, Holds(p), Link(p, Head(todo[t]), m)
      PROVE  \E ops \in Seq(Ops), q \in Labels : Calls(t, ops) /\ Holds(q)' /\ Leads(q, ops, m)
  <2>1. PICK z \in Zones : z = Arg(t)
    BY ArgTyped DEF ZoneOps, TypeOK
  <2>2. p.is = "ahead" /\ p.zone = z /\ p.flow = "overlapped" /\ m = Rest
    BY <1>1, <2>1 DEF Link, Running, Arg
  <2>3. active' = z /\ timer' = TRUE /\ UNCHANGED <<state, source, valve, pump, io>>
    BY <2>1 DEF settings, Returns, Calls, relays
  <2>4. ControlAs(m)'
    BY <1>1, <2>2, <2>3, RestTyped, NoneAssumption DEF ControlAs, Holds
  <2>5. ASSUME RelaysAs(p)
        PROVE  RelaysAs(m)'
    <3>1. OnlySource /\ state = "RUNNING" /\ Only(z) /\ SourceOn
      BY <2>2, <2>5 DEF RelaysAs
    <3> QED
      BY <2>2, <2>3, <3>1, RestTyped DEF RelaysAs, OnlySource, Only, SourceOn
  <2>6. Holds(m)'
    BY <1>1, <2>3, <2>4, <2>5 DEF Holds, Intact
  <2> QED
    BY <2>6, Returning
<1> QED
  BY <1>1, DutyKept DEF Running

\* From the watering of a zone to the next one: with the two overlapping, or with a gap.
LEMMA MovesOn ==
  ASSUME TypeOK, NEW t \in Tasks, Holds(Watering), UNCHANGED <<state, active, timer, opt, source>>,
         active # None, NEW z \in Zones, Before(active, z),
         \/ Calls(t, <<Op("openOverlap", z), Call("sleep"), Call("stopZone"), Op("handover", z)>>)
         \/ Calls(t, <<Call("stopZone"), Op("gap", z)>>)
  PROVE  \E ops \in Seq(Ops), q \in Labels : Calls(t, ops) /\ Holds(q)' /\ Leads(q, ops, Rest)
<1>1. PICK a \in Zones : a = active
  BY DEF TypeOK, ControlTyped
<1>2. /\ Op("openOverlap", z) \in Ops /\ Op("handover", z) \in Ops /\ Op("gap", z) \in Ops
      /\ Call("sleep") \in Ops /\ Call("stopZone") \in Ops
  BY PlainOpsTyped, ZoneOpsTyped
<1>3. ASSUME RelaysAs(Watering)
      PROVE  OnlySource /\ state = "RUNNING" /\ Only(active) /\ SourceOn
  BY <1>3, RestTyped DEF RelaysAs
<1>4. CASE Calls(t, <<Op("openOverlap", z), Call("sleep"), Call("stopZone"), Op("handover", z)>>)
  <2> DEFINE q == Known("ahead", z, "leaving", a)
             k == Known("ahead", z, "overlapping", a)
             l == Known("ahead", z, "overlapped", None)
  <2>1. /\ q \in Labels /\ q.is = "ahead" /\ q.zone = z /\ q.flow = "leaving" /\ q.arg = a
        /\ k \in Labels /\ k.is = "ahead" /\ k.zone = z /\ k.flow = "overlapping" /\ k.arg = a
        /\ l \in Labels /\ l.is = "ahead" /\ l.zone = z /\ l.flow = "overlapped"
        /\ k = Known(q.is, q.zone, "overlapping", q.arg) /\ l = Turn(k, "overlapped")
    BY DEF Known, Labels, Kinds, Flows, Turn
  <2> HIDE DEF q, k, l
  <2>2. ControlAs(q)
    BY <1>1, <2>1 DEF Holds, ControlAs
  <2>3. ASSUME RelaysAs(Watering)
        PROVE  RelaysAs(q)
    BY <1>1, <1>3, <2>1, <2>3 DEF RelaysAs
  <2>4. Holds(q)'
    BY <1>4, <2>1, <2>2, <2>3, CallsHolds DEF Holds
  <2>5. /\ Link(q, Op("openOverlap", z), k) /\ Link(k, Call("sleep"), k)
        /\ Link(k, Call("stopZone"), l) /\ Link(l, Op("handover", z), Rest)
    BY <2>1 DEF Link, Call, Op
  <2> QED
    BY <1>2, <1>4, <2>1, <2>4, <2>5, CallingFour, RestTyped
<1>5. CASE Calls(t, <<Call("stopZone"), Op("gap", z)>>)
  <2> DEFINE q == Known("next", z, "tidy", None)
             k == Known("next", z, "shut", None)
  <2>1. /\ q \in Labels /\ q.is = "next" /\ q.zone = z /\ q.flow = "tidy"
        /\ k \in Labels /\ k.is = "next" /\ k.zone = z /\ k.flow = "shut"
        /\ k = Turn(q, "shut")
    BY DEF Known, Labels, Kinds, Flows, Turn
  <2> HIDE DEF q, k
  <2>2. ControlAs(q)
    BY <2>1 DEF Holds, ControlAs
  <2>3. ASSUME RelaysAs(Watering)
        PROVE  RelaysAs(q)
    BY <1>3, <2>1, <2>3 DEF RelaysAs, Only
  <2>4. Holds(q)'
    BY <1>5, <2>1, <2>2, <2>3, CallsHolds DEF Holds
  <2>5. Link(q, Call("stopZone"), k) /\ Link(k, Op("gap", z), Rest)
    BY <2>1 DEF Link, Call, Op, Stopped
  <2> QED
    BY <1>2, <1>5, <2>1, <2>4, <2>5, CallingTwo, RestTyped
<1> QED
  BY <1>4, <1>5

LEMMA AdvanceOnCourse ==
  ASSUME TypeOK, Awaits, CalmInv, NEW t \in Tasks, Advance(t)
  PROVE  CalmInv'
<1>1. ASSUME NEW p \in Labels, NEW m \in Labels, Holds(p), Link(p, Head(todo[t]), m)
      PROVE  \E ops \in Seq(Ops), q \in Labels : Calls(t, ops) /\ Holds(q)' /\ Leads(q, ops, m)
  <2>1. p = Watering /\ m = Rest
    BY <1>1 DEF Link, Running, Advance
  <2>2. PICK force \in BOOLEAN : AdvanceEnds(t, force) \/ AdvanceOn(t, force)
    BY DEF Advance
  <2>3. UNCHANGED <<state, active, timer, opt, source>>
    BY <2>2 DEF Advance, AdvanceEnds, AdvanceOn, ctl, settings
  <2>4. Holds(Now("tidy")) /\ Now("tidy") \in Labels
    BY <1>1, <2>1, RestIsTidy, RestTyped, NowTyped DEF Flows
  <2>5. Call("stopZone") \in Ops /\ Call("pumpStop") \in Ops /\ Call("shutdown") \in Ops
    BY OpsTyped DEF PlainOps
  <2>6. Now("shut") \in Labels /\ Now("off") \in Labels
    BY NowTyped DEF Flows
  <2>7. CASE Calls(t, <<Call("shutdown")>>)
    <3>1. Holds(Now("tidy"))'
      BY <2>3, <2>4, <2>7, CallsHolds
    <3> QED
      BY <2>1, <2>4, <2>5, <2>7, <3>1, ShutdownLinks, CallingOne
  <2>8. CASE Calls(t, <<Call("stopZone"), Call("pumpStop"), Call("shutdown")>>)
    <3>1. Holds(Now("tidy"))'
      BY <2>3, <2>4, <2>8, CallsHolds
    <3> QED
      BY <2>1, <2>4, <2>5, <2>6, <2>8, <3>1, ShutdownLinks, CallingThree
  <2>9. CASE AdvanceEnds(t, force)
    BY <2>7, <2>8, <2>9 DEF AdvanceEnds
  <2>10. CASE AdvanceOn(t, force)
    <3>1. /\ active # None /\ active \in Zones
      BY <2>10 DEF AdvanceOn, TypeOK, ControlTyped
    <3>2. ~(repeatIdx < opt.repeat)
      <4>1. opt.repeat \in Repeats /\ repeatIdx \in Nat
        BY DEF TypeOK, ControlTyped, Options
      <4>2. opt.repeat = 0
        BY <4>1 DEF CalmInv, Calm
      <4> QED
        BY <4>1, <4>2
    <3>3. CASE Calls(t, <<Call("shutdown")>>)
      BY <2>7, <3>3
    <3>4. ASSUME NEW sc, NEW z \in Zones, IsFirst(z, NextZones(force, sc)),
                 IF ValveOverlap
                 THEN Calls(t, <<Op("openOverlap", z), Call("sleep"), Call("stopZone"),
                                 Op("handover", z)>>)
                 ELSE Calls(t, <<Call("stopZone"), Op("gap", z)>>)
          PROVE  \E ops \in Seq(Ops), q \in Labels :
                   Calls(t, ops) /\ Holds(q)' /\ Leads(q, ops, m)
      <4>1. Before(active, z)
        BY <3>4 DEF IsFirst, NextZones
      <4> QED
        BY <1>1, <2>1, <2>3, <3>1, <3>4, <4>1, MovesOn
    <3> QED
      BY <2>10, <3>2, <3>3, <3>4 DEF AdvanceOn
  <2> QED
    BY <2>2, <2>9, <2>10
<1> QED
  BY <1>1, DutyKept DEF Running, Advance

-----------------------------------------------------------------------------
\* The awaits, and the writes that end them.

\* A task alone goes from one place of its course to another.
LEMMA CourseKept ==
  ASSUME CalmInv, NEW t \in Tasks, todo[t] # <<>>,
         \A u \in Tasks : (u # t => todo'[u] = todo[u]) /\ io'[u] # "failed",
         todo'[t] = <<>> => Holds(Rest)', todo'[t] # <<>> => OnCourse(t)'
  PROVE  CalmInv'
<1>1. \A u \in Tasks : u # t => todo'[u] = <<>>
  BY DEF CalmInv, OneAtATime
<1>2. OneAtATime' /\ \A u \in Tasks : todo'[u] # <<>> => OnCourse(u)'
  BY <1>1 DEF OneAtATime
<1> QED
  BY <1>1, <1>2 DEF CalmInv, Calm

LEMMA HoldsOn ==
  ASSUME NEW p \in Labels, Holds(p), Intact' => Intact,
         UNCHANGED <<state, active, timer, opt, source, valve, pump>>
  PROVE  Holds(p)'
BY DEF Holds, ControlAs, RelaysAs, OnlySource, Shut, PumpsOff, Only, SourceOn, Before

\* The course of a task whose next operation is at hand.
LEMMA AtHand ==
  ASSUME TypeOK, CalmInv, NEW t \in Tasks, todo[t] # <<>>, io[t] # "written"
  PROVE  /\ Ahead(t) = todo[t] /\ Tail(todo[t]) \in Seq(Ops) /\ Head(todo[t]) \in Ops
         /\ \E p, m \in Labels : /\ Holds(p) /\ Leads(p, todo[t], Rest)
                                 /\ Link(p, Head(todo[t]), m) /\ Leads(m, Tail(todo[t]), Rest)
<1>1. /\ todo[t] \in Seq(Ops) /\ Tail(todo[t]) \in Seq(Ops) /\ Head(todo[t]) \in Ops
      /\ Ahead(t) = todo[t]
  BY HeadTailProperties DEF TypeOK, TasksTyped, Ahead
<1>2. PICK p \in Labels : Holds(p) /\ Leads(p, todo[t], Rest)
  BY <1>1 DEF CalmInv, OnCourse
<1>3. PICK m \in Labels : Link(p, Head(todo[t]), m) /\ Leads(m, Tail(todo[t]), Rest)
  BY <1>1, <1>2, LeadsFirst, RestTyped
<1> QED
  BY <1>1, <1>2, <1>3

LEMMA SuspendOnCourse ==
  ASSUME TypeOK, Awaits, CalmInv, NEW t \in Tasks, Suspend(t)
  PROVE  CalmInv'
<1>1. /\ todo[t] # <<>> /\ io[t] = "none" /\ todo' = todo /\ io'[t] \in {"asleep", "submitted"}
      /\ \A u \in Tasks : u # t => io'[u] = io[u]
      /\ UNCHANGED <<state, active, timer, opt, source, valve, pump>>
  BY DEF Suspend, Awaits, TypeOK, TasksTyped, ctl, settings, relays
<1>2. PICK p \in Labels : Holds(p) /\ Leads(p, todo[t], Rest)
  BY <1>1, AtHand
<1>3. Holds(p)'
  <2>1. Intact' => Intact
    BY <1>1 DEF Intact, Tasks
  <2> QED
    BY <1>1, <1>2, <2>1, HoldsOn
<1>4. OnCourse(t)'
  <2>1. Ahead(t)' = todo[t]
    BY <1>1 DEF Ahead
  <2> QED
    BY <1>2, <1>3, <2>1 DEF OnCourse
<1>5. \A u \in Tasks : io'[u] # "failed"
  BY <1>1 DEF CalmInv
<1> QED
  BY <1>1, <1>4, <1>5, CourseKept

LEMMA ResumeOnCourse ==
  ASSUME TypeOK, Awaits, CalmInv, NEW t \in Tasks, Resume(t)
  PROVE  CalmInv'
<1>1. /\ todo[t] # <<>> /\ io[t] \in {"spawned", "asleep", "written"} /\ io'[t] = "none"
      /\ \A u \in Tasks : u # t => io'[u] = io[u] /\ todo'[u] = todo[u]
      /\ todo'[t] = Remaining(t)
      /\ UNCHANGED <<state, active, timer, opt, source, valve, pump>>
  BY DEF Resume, CalmInv, TypeOK, TasksTyped, ctl, settings, relays
<1>2. PICK p \in Labels : Holds(p) /\ Leads(p, Remaining(t), Rest)
  <2>1. CASE io[t] = "written"
    BY <1>1, <2>1 DEF CalmInv, OnCourse, Ahead
  <2>2. CASE io[t] = "spawned"
    <3>1. Remaining(t) = todo[t]
      BY <2>2 DEF Remaining
    <3> QED
      BY <1>1, <2>2, <3>1, AtHand
  <2>3. CASE io[t] = "asleep"
    <3>1. Remaining(t) = Tail(todo[t]) /\ Head(todo[t]).do = "sleep"
      BY <2>3 DEF Remaining, Awaits
    <3>2. PICK p \in Labels, m \in Labels :
            Holds(p) /\ Link(p, Head(todo[t]), m) /\ Leads(m, Tail(todo[t]), Rest)
      BY <1>1, <2>3, AtHand
    <3>3. m = p
      BY <3>1, <3>2 DEF Link
    <3> QED
      BY <3>1, <3>2, <3>3
  <2> QED
    BY <1>1, <2>1, <2>2, <2>3
<1>3. Holds(p)'
  <2>1. Intact' => Intact
    BY <1>1 DEF Intact, Tasks
  <2> QED
    BY <1>1, <1>2, <2>1, HoldsOn
<1>4. todo'[t] # <<>> => OnCourse(t)'
  <2>1. Ahead(t)' = Remaining(t)
    BY <1>1 DEF Ahead
  <2> QED
    BY <1>2, <1>3, <2>1 DEF OnCourse
<1>5. todo'[t] = <<>> => Holds(Rest)'
  <2> SUFFICES ASSUME todo'[t] = <<>>
               PROVE  Holds(Rest)'
    OBVIOUS
  <2>1. p = Rest
    BY <1>1, <1>2, LeadsNowhere, RestTyped
  <2> QED
    BY <1>3, <2>1
<1>6. \A u \in Tasks : io'[u] # "failed"
  BY <1>1 DEF CalmInv
<1> QED
  BY <1>1, <1>4, <1>5, <1>6, CourseKept

LEMMA DieOnCourse ==
  ASSUME TypeOK, Awaits, CalmInv, NEW t \in Tasks, Die(t)
  PROVE  CalmInv'
<1>1. /\ todo[t] # <<>> /\ todo'[t] = <<>> /\ io'[t] = "cancelled" /\ t \in Schedules
      /\ \A u \in Tasks : u # t => io'[u] = io[u] /\ todo'[u] = todo[u]
      /\ UNCHANGED <<state, active>>
  BY DEF Die, Cancelled, TypeOK, TasksTyped, ctl
<1>2. ControlAs(Rest)
  BY <1>1, RestTyped DEF CalmInv, OnCourse, Holds, ControlAs
<1>3. Holds(Rest)'
  BY <1>1, <1>2, RestTyped DEF Holds, ControlAs, Intact
<1>4. \A u \in Tasks : io'[u] # "failed"
  BY <1>1 DEF CalmInv
<1> QED
  BY <1>1, <1>3, <1>4, CourseKept

-----------------------------------------------------------------------------
\* What the thread does to the relays.
LEMMA Driven ==
  ASSUME TypeOK, NEW op, Drive(op)
  PROVE  /\ \A z \in Zones : valve'[z] = IF op.do \in ValveWrites /\ z = op.arg
                                        THEN op.do # "close" ELSE valve[z]
         /\ \A s \in Sources : pump'[s] = IF op.do \in PumpWrites /\ s = op.arg
                                         THEN op.do = "pumpOn" ELSE pump[s]
BY DEF Drive, TypeOK, TasksTyped

LEMMA WriteLandsOnCourse ==
  ASSUME TypeOK, Awaits, CalmInv, NEW t \in Tasks, WriteLands(t)
  PROVE  CalmInv'
<1> DEFINE op == Head(todo[t])
<1>1. /\ todo[t] # <<>> /\ io[t] = "submitted" /\ io'[t] = "written" /\ todo' = todo
      /\ \A u \in Tasks : u # t => io'[u] = io[u]
      /\ op.do \in Writes /\ Drive(op)
      /\ UNCHANGED <<state, active, timer, opt, source>>
  BY DEF WriteLands, Awaits, TypeOK, TasksTyped, ctl, settings
<1>2. PICK p \in Labels, m \in Labels :
        Holds(p) /\ Link(p, op, m) /\ Leads(m, Tail(todo[t]), Rest)
  BY <1>1, AtHand
<1>3. /\ Tail(todo[t]) \in Seq(Ops) /\ op \in Ops
      /\ op.do \in ValveWrites => op.arg \in Zones
      /\ op.do \in PumpWrites => op.arg \in Sources
  <2>1. Tail(todo[t]) \in Seq(Ops) /\ op \in Ops
    BY <1>1, AtHand
  <2> QED
    BY <2>1 DEF Ops, ValveWrites, PumpWrites, ZoneOps, PlainOps
<1>4. Intact' => Intact
  BY <1>1 DEF Intact, Tasks
<1> HIDE DEF op
<1>5. PICK q \in Labels : Holds(q)' /\ Leads(q, OnSuccess(op), m)
  <2>1. /\ \A z \in Zones : valve'[z] = IF op.do \in ValveWrites /\ z = op.arg
                                        THEN op.do # "close" ELSE valve[z]
        /\ \A s \in Sources : pump'[s] = IF op.do \in PumpWrites /\ s = op.arg
                                         THEN op.do = "pumpOn" ELSE pump[s]
    BY <1>1, Driven
  <2>2. ControlAs(p) /\ (Intact => RelaysAs(p))
    BY <1>2 DEF Holds
  <2>3. ASSUME op.do \notin {"open", "openBeforePump"}, m.is = p.is, m.zone = p.zone,
               RelaysAs(p) => RelaysAs(m)'
        PROVE  \E q \in Labels : Holds(q)' /\ Leads(q, OnSuccess(op), m)
    <3>1. ControlAs(m)'
      BY <1>1, <2>2, <2>3, ControlStays
    <3>2. OnSuccess(op) = <<>>
      BY <2>3 DEF OnSuccess
    <3> QED
      BY <1>4, <2>2, <2>3, <3>1, <3>2, LeadsNowhere DEF Holds
  <2>4. CASE op.do = "close" /\ p.flow = "closing" /\ p.arg = op.arg /\ m = Turn(p, "shut")
    <3>1. m.is = p.is /\ m.zone = p.zone /\ m.flow = "shut"
      BY <2>4, TurnTyped DEF Flows
    <3>2. ASSUME RelaysAs(p)
          PROVE  RelaysAs(m)'
      <4>1. OnlySource /\ ~timer /\ \A z \in Zones : valve[z] => z = op.arg
        BY <2>4, <3>2 DEF RelaysAs
      <4>2. Shut' /\ OnlySource' /\ ~timer'
        BY <1>1, <2>1, <2>4, <4>1 DEF Shut, OnlySource, ValveWrites, PumpWrites
      <4> QED
        BY <3>1, <4>2 DEF RelaysAs
    <3> QED
      BY <2>3, <2>4, <3>1, <3>2
  <2>5. CASE /\ op.do = "close" /\ p.is = "ahead" /\ p.flow = "overlapping" /\ p.arg = op.arg
             /\ m = Turn(p, "overlapped")
    <3>1. m.is = p.is /\ m.zone = p.zone /\ m.flow = "overlapped"
      BY <2>5, TurnTyped DEF Flows
    <3>2. ASSUME RelaysAs(p)
          PROVE  RelaysAs(m)'
      <4>1. /\ OnlySource /\ state = "RUNNING" /\ SourceOn /\ active = op.arg
            /\ \A z \in Zones : valve[z] <=> z \in {op.arg, p.zone}
        BY <2>5, <3>2 DEF RelaysAs
      <4>2. op.arg # p.zone /\ p.zone \in Zones /\ op.arg \in Zones
        <5>1. Before(active, p.zone) /\ p.zone \in Zones /\ op.arg \in Zones
          BY <1>3, <2>2, <2>5 DEF ControlAs, ValveWrites
        <5> QED
          BY <4>1, <5>1, ZonesAssumption DEF Before, Zones
      <4>3. \A z \in Zones : valve'[z] <=> z = p.zone
        BY <2>1, <2>5, <4>1, <4>2 DEF ValveWrites
      <4>4. \A s \in Sources : pump'[s] = pump[s]
        BY <2>1, <2>5 DEF PumpWrites
      <4>5. SourceOn'
        BY <1>1, <4>1, <4>4 DEF SourceOn, TypeOK, ControlTyped
      <4> QED
        BY <1>1, <3>1, <4>1, <4>3, <4>4, <4>5 DEF RelaysAs, OnlySource, Only
    <3> QED
      BY <2>3, <2>5, <3>1, <3>2
  <2>6. CASE op.do = "pumpOff" /\ p.flow = "draining" /\ p.arg = op.arg /\ m = Turn(p, "off")
    <3>1. m.is = p.is /\ m.zone = p.zone /\ m.flow = "off"
      BY <2>6, TurnTyped DEF Flows
    <3>2. ASSUME RelaysAs(p)
          PROVE  RelaysAs(m)'
      <4>1. OnlySource /\ ~timer /\ Shut /\ source = op.arg
        BY <2>6, <3>2 DEF RelaysAs
      <4>2. Shut' /\ ~timer'
        BY <1>1, <2>1, <2>6, <4>1 DEF Shut, ValveWrites
      <4>3. \A s \in Sources : ~pump'[s]
        BY <2>1, <2>6, <4>1 DEF OnlySource, PumpWrites
      <4> QED
        BY <3>1, <4>2, <4>3 DEF RelaysAs, OnlySource, PumpsOff
    <3> QED
      BY <2>3, <2>6, <3>1, <3>2
  <2>7. CASE /\ op.do = "pumpOn" /\ p.flow \in {"powering", "openedPowering"} /\ p.arg = op.arg
             /\ m = Turn(p, IF p.flow = "powering" THEN "pumped" ELSE "watering")
    <3>1. /\ m.is = p.is /\ m.zone = p.zone
          /\ m.flow = IF p.flow = "powering" THEN "pumped" ELSE "watering"
      BY <2>7, TurnTyped DEF Flows
    <3>2. ASSUME RelaysAs(p)
          PROVE  RelaysAs(m)'
      <4>1. /\ OnlySource /\ source = op.arg
            /\ p.flow = "powering" => ~timer /\ Shut
            /\ p.flow = "openedPowering" => state = "RUNNING" /\ Only(active)
        BY <2>7, <3>2 DEF RelaysAs
      <4>2. \A z \in Zones : valve'[z] = valve[z]
        BY <2>1, <2>7 DEF ValveWrites
      <4>3. OnlySource' /\ SourceOn'
        <5>1. op.arg \in Sources /\ pump'[op.arg] = TRUE
          BY <1>3, <2>1, <2>7 DEF PumpWrites
        <5>2. \A s \in Sources : pump'[s] => s = source
          BY <2>1, <2>7, <4>1 DEF PumpWrites, OnlySource
        <5> QED
          BY <1>1, <4>1, <5>1, <5>2 DEF OnlySource, SourceOn
      <4>4. CASE p.flow = "powering"
        BY <1>1, <3>1, <4>1, <4>2, <4>3, <4>4 DEF RelaysAs, Shut
      <4>5. CASE p.flow = "openedPowering"
        BY <1>1, <3>1, <4>1, <4>2, <4>3, <4>5 DEF RelaysAs, Only
      <4> QED
        BY <2>7, <4>4, <4>5
    <3> QED
      BY <2>3, <2>7, <3>1, <3>2
  <2>8. CASE /\ op.do = "openOverlap" /\ p.is = "ahead" /\ p.zone = op.arg /\ p.flow = "leaving"
             /\ m = Known(p.is, p.zone, "overlapping", p.arg)
    <3>1. m.is = p.is /\ m.zone = p.zone /\ m.flow = "overlapping" /\ m.arg = p.arg
      BY <2>8 DEF Known
    <3>2. ASSUME RelaysAs(p)
          PROVE  RelaysAs(m)'
      <4>1. OnlySource /\ state = "RUNNING" /\ Only(active) /\ SourceOn /\ active = p.arg
        BY <2>8, <3>2 DEF RelaysAs
      <4>2. \A z \in Zones : valve'[z] <=> z \in {p.arg, p.zone}
        BY <2>1, <2>8, <4>1 DEF ValveWrites, Only
      <4>3. \A s \in Sources : pump'[s] = pump[s]
        BY <2>1, <2>8 DEF PumpWrites
      <4>4. SourceOn'
        BY <1>1, <4>1, <4>3 DEF SourceOn, TypeOK, ControlTyped
      <4> QED
        BY <1>1, <3>1, <4>1, <4>2, <4>3, <4>4 DEF RelaysAs, OnlySource
    <3> QED
      BY <2>3, <2>8, <3>1, <3>2
  <2>9. ASSUME op.do \in {"open", "openBeforePump"}, p.is = "at", p.zone = op.arg,
               RelaysAs(p) => Shut /\ OnlySource
        PROVE  /\ ControlAs(Watering)' /\ ControlAs(Now("opened"))'
               /\ RelaysAs(p) => /\ OnlySource' /\ state' = "RUNNING" /\ Only(active)'
                                 /\ \A s \in Sources : pump'[s] = pump[s]
    <3>1. state = "RUNNING" /\ active = op.arg
      BY <2>2, <2>9 DEF ControlAs
    <3>2. ControlAs(Watering)' /\ ControlAs(Now("opened"))'
      BY <1>1, <2>2, RestTyped, NowTyped DEF ControlAs, Flows
    <3>3. \A s \in Sources : pump'[s] = pump[s]
      BY <2>1, <2>9 DEF PumpWrites
    <3>4. ASSUME RelaysAs(p)
          PROVE  OnlySource' /\ state' = "RUNNING" /\ Only(active)'
      <4>1. \A z \in Zones : valve'[z] <=> z = active
        BY <2>1, <2>9, <3>1, <3>4 DEF Shut, ValveWrites
      <4> QED
        BY <1>1, <2>9, <3>1, <3>3, <3>4, <4>1 DEF OnlySource, Only
    <3> QED
      BY <3>2, <3>3, <3>4
  <2>10. CASE /\ op.do = "open" /\ p.is = "at" /\ p.zone = op.arg /\ p.flow = "pumped"
              /\ m \in {Rest, Watering}
    <3>1. ASSUME RelaysAs(p)
          PROVE  RelaysAs(Watering)'
      <4>1. Shut /\ OnlySource /\ SourceOn
        BY <2>10, <3>1 DEF RelaysAs
      <4>2. SourceOn'
        BY <1>1, <2>9, <2>10, <3>1, <4>1 DEF SourceOn, TypeOK, ControlTyped
      <4> QED
        BY <2>9, <2>10, <3>1, <4>1, <4>2, RestTyped DEF RelaysAs
    <3>2. Holds(Watering)'
      <4>1. RelaysAs(p) => Shut /\ OnlySource
        BY <2>10 DEF RelaysAs
      <4>2. ControlAs(Watering)'
        BY <2>9, <2>10, <4>1
      <4> QED
        BY <1>4, <2>2, <3>1, <4>2 DEF Holds
    <3>3. OnSuccess(op) = <<Call("arm")>>
      BY <2>10 DEF OnSuccess
    <3>4. Leads(Watering, <<Call("arm")>>, m)
      <4>1. Link(Watering, Call("arm"), m)
        BY <2>10 DEF Link, Call, Op
      <4>2. Call("arm") \in Ops
        BY OpsTyped DEF PlainOps
      <4> QED
        BY <4>1, <4>2, RestTyped, OneStepPath
    <3> QED
      BY <3>2, <3>3, <3>4, RestTyped
  <2>11. CASE /\ op.do = "openBeforePump" /\ p.is = "at" /\ p.zone = op.arg /\ p.flow = "shut"
              /\ m \in {Rest, Watering}
    <3>1. /\ Now("opened") \in Labels /\ Now("opened").flow = "opened"
          /\ Now("opened").is = "any" /\ Turn(Now("opened"), "watering") = Watering
      BY NowTyped DEF Flows, Turn, Now, Known, Watering
    <3>2. ASSUME RelaysAs(p)
          PROVE  RelaysAs(Now("opened"))'
      <4>1. Shut /\ OnlySource
        BY <2>11, <3>2 DEF RelaysAs
      <4> QED
        BY <2>9, <2>11, <3>1, <3>2, <4>1 DEF RelaysAs
    <3>3. Holds(Now("opened"))'
      <4>1. RelaysAs(p) => Shut /\ OnlySource
        BY <2>11 DEF RelaysAs
      <4>2. ControlAs(Now("opened"))'
        BY <2>9, <2>11, <4>1
      <4> QED
        BY <1>4, <2>2, <3>2, <4>2 DEF Holds
    <3>4. OnSuccess(op) = <<Call("sleep"), Call("activate"), Call("arm")>>
      BY <2>11 DEF OnSuccess
    <3>5. Leads(Now("opened"), <<Call("sleep"), Call("activate"), Call("arm")>>, m)
      <4>1. /\ Link(Now("opened"), Call("sleep"), Now("opened"))
            /\ Link(Now("opened"), Call("activate"), Watering)
            /\ Link(Watering, Call("arm"), m)
        BY <2>11, <3>1 DEF Link, Call, Op
      <4>2. Call("sleep") \in Ops /\ Call("activate") \in Ops /\ Call("arm") \in Ops
        BY OpsTyped DEF PlainOps
      <4> QED
        BY <3>1, <4>1, <4>2, RestTyped, ThreeStepPath
    <3> QED
      BY <3>1, <3>3, <3>4, <3>5
  <2>12. \/ op.do = "close" /\ p.flow = "closing" /\ p.arg = op.arg /\ m = Turn(p, "shut")
         \/ /\ op.do = "close" /\ p.is = "ahead" /\ p.flow = "overlapping" /\ p.arg = op.arg
            /\ m = Turn(p, "overlapped")
         \/ op.do = "pumpOff" /\ p.flow = "draining" /\ p.arg = op.arg /\ m = Turn(p, "off")
         \/ /\ op.do = "pumpOn" /\ p.flow \in {"powering", "openedPowering"} /\ p.arg = op.arg
            /\ m = Turn(p, IF p.flow = "powering" THEN "pumped" ELSE "watering")
         \/ /\ op.do = "openOverlap" /\ p.is = "ahead" /\ p.zone = op.arg /\ p.flow = "leaving"
            /\ m = Known(p.is, p.zone, "overlapping", p.arg)
         \/ /\ op.do = "open" /\ p.is = "at" /\ p.zone = op.arg /\ p.flow = "pumped"
            /\ m \in {Rest, Watering}
         \/ /\ op.do = "openBeforePump" /\ p.is = "at" /\ p.zone = op.arg /\ p.flow = "shut"
            /\ m \in {Rest, Watering}
    BY <1>1, <1>2 DEF Link, Writes, ValveWrites, PumpWrites
  <2> QED
    BY <2>4, <2>5, <2>6, <2>7, <2>8, <2>10, <2>11, <2>12
<1>6. OnCourse(t)'
  <2>1. Ahead(t)' = OnSuccess(op) \o Tail(todo[t])
    BY <1>1 DEF Ahead, Remaining, op
  <2>2. OnSuccess(op) \in Seq(Ops) /\ Rest \in Labels
    BY ContinuationsTyped, RestTyped
  <2>3. Leads(q, OnSuccess(op) \o Tail(todo[t]), Rest)
    BY <1>2, <1>3, <1>5, <2>2, LeadsOn
  <2> QED
    BY <1>5, <2>1, <2>3 DEF OnCourse
<1>7. \A u \in Tasks : io'[u] # "failed"
  BY <1>1 DEF CalmInv
<1> QED
  BY <1>1, <1>6, <1>7, CourseKept

-----------------------------------------------------------------------------
\* What enters the loop, and the theorems about the calm controller.

\* A task enters only when no other is in progress.
LEMMA EntersAlone ==
  ASSUME CalmInv, InFlight < MaxInFlight
  PROVE  (\A t \in Tasks : todo[t] = <<>>) /\ Holds(Rest)
<1>1. \A t \in Tasks : todo[t] = <<>>
  <2> SUFFICES ASSUME NEW t \in Tasks, todo[t] # <<>>
               PROVE  FALSE
    OBVIOUS
  <2>1. {u \in Tasks : todo[u] # <<>>} = {t}
    BY DEF CalmInv, OneAtATime
  <2>2. Cardinality({t}) = 1
    BY FS_Singleton
  <2>3. InFlight = 1 /\ MaxInFlight = 1
    BY <2>1, <2>2, Zenon DEF InFlight, CalmInv, Calm
  <2> QED
    BY <2>3
<1> QED
  BY <1>1 DEF CalmInv

\* The one new task, and what holds before its first operation.
LEMMA NewTaskOnCourse ==
  ASSUME TypeOK, CalmInv, NEW t \in Tasks, \A u \in Tasks : todo[u] = <<>>,
         NEW o \in Ops, todo'[t] = <<o>>, \A u \in Tasks : u # t => todo'[u] = todo[u],
         io'[t] # "failed", io'[t] # "written", \A u \in Tasks : u # t => io'[u] = io[u],
         NEW p \in Labels, Holds(p)', Link(p, o, Rest)
  PROVE  CalmInv'
<1>1. Leads(p, <<o>>, Rest)
  BY OneStepPath, RestTyped
<1>2. Ahead(t)' = <<o>>
  BY DEF Ahead
<1>3. OnCourse(t)'
  BY <1>1, <1>2 DEF OnCourse
<1>4. \A u \in Tasks : io'[u] # "failed"
  BY DEF CalmInv
<1>5. OneAtATime' /\ \A u \in Tasks : todo'[u] # <<>> => u = t
  BY DEF OneAtATime
<1>6. todo'[t] # <<>>
  OBVIOUS
<1> QED
  BY <1>3, <1>4, <1>5, <1>6 DEF CalmInv, Calm

LEMMA EntersOnCourse ==
  ASSUME TypeOK, Awaits, CalmInv, NEW t \in Tasks, NEW o \in Ops, Enters(t, <<o>>),
         UNCHANGED <<state, active, timer, source, valve, pump, io>>,
         o.do \in {"fullCycle", "nextValve", "pause", "resume", "singleZone", "shutdown"}
  PROVE  CalmInv'
<1>1. (\A u \in Tasks : todo[u] = <<>>) /\ Holds(Rest)
  BY EntersAlone DEF Enters
<1>2. io[t] \notin {"failed", "written"}
  BY <1>1 DEF Awaits
<1>3. /\ todo'[t] = <<o>> /\ \A u \in Tasks : u # t => todo'[u] = todo[u]
  BY DEF Enters, TypeOK, TasksTyped
<1>4. PICK p \in {Rest, Now("tidy")} : p \in Labels /\ Holds(p) /\ Link(p, o, Rest)
  <2>1. CASE o.do = "shutdown"
    <3>1. Holds(Now("tidy")) /\ Now("tidy") \in Labels /\ Now("tidy").flow = "tidy"
      BY <1>1, RestIsTidy, RestTyped, NowTyped DEF Flows
    <3> QED
      BY <2>1, <3>1 DEF Link
  <2>2. CASE o.do # "shutdown"
    BY <1>1, <2>2, RestTyped DEF Link
  <2> QED
    BY <2>1, <2>2
<1>5. Holds(p)'
  <2>1. p.is = "any" /\ p.flow \in {"rest", "tidy"}
    BY <1>4, RestTyped, NowTyped DEF Flows
  <2> QED
    BY <1>4, <2>1 DEF Holds, ControlAs, RelaysAs, Intact, OnlySource, Shut, PumpsOff, Only,
       SourceOn
<1> QED
  BY <1>1, <1>2, <1>3, <1>4, <1>5, NewTaskOnCourse

\* Nothing the labels speak of changes, and nothing a task has still to do.
LEMMA UntouchedOnCourse ==
  ASSUME CalmInv, UNCHANGED <<state, active, timer, opt, source, valve, pump, io, todo>>
  PROVE  CalmInv'
<1>1. \A p \in Labels : Holds(p) => Holds(p)'
  BY HoldsStays
<1>2. \A t \in Tasks : Ahead(t)' = Ahead(t)
  BY DEF Ahead, Remaining
<1>3. ASSUME NEW t \in Tasks, OnCourse(t)
      PROVE  OnCourse(t)'
  BY <1>1, <1>2, <1>3 DEF OnCourse
<1> QED
  BY <1>1, <1>3, RestTyped DEF CalmInv, Calm, OneAtATime

\* A setting that changes while no task is in progress.
LEMMA SettingOnCourse ==
  ASSUME TypeOK, CalmInv, InFlight < MaxInFlight,
         UNCHANGED <<state, active, timer, valve, pump, io, todo>>,
         source' = source \/ state = "IDLE"
  PROVE  CalmInv'
<1>1. (\A u \in Tasks : todo[u] = <<>>) /\ Holds(Rest)
  BY EntersAlone
<1>2. Holds(Rest)'
  <2>1. ControlAs(Rest)'
    BY <1>1, RestTyped DEF Holds, ControlAs
  <2>2. ASSUME RelaysAs(Rest)
        PROVE  RelaysAs(Rest)'
    BY <2>2, RestTyped DEF RelaysAs, OnlySource, Shut, PumpsOff, Only, SourceOn
  <2> QED
    BY <1>1, <2>1, <2>2 DEF Holds, Intact
<1> QED
  BY <1>1, <1>2 DEF CalmInv, Calm, OneAtATime

LEMMA TimerFiresOnCourse ==
  ASSUME TypeOK, Awaits, CalmInv, NEW t \in Timers, TimerFires(t)
  PROVE  CalmInv'
<1>1. t \in Tasks /\ t \notin Schedules /\ Call("advance") \in Ops
  BY TasksAssumption, OpsTyped DEF Tasks, PlainOps
<1>2. (\A u \in Tasks : todo[u] = <<>>) /\ Holds(Rest)
  BY EntersAlone DEF TimerFires
<1>3. /\ todo'[t] = <<Call("advance")>> /\ io'[t] = "spawned" /\ timer
      /\ \A u \in Tasks : u # t => todo'[u] = todo[u] /\ io'[u] = io[u]
      /\ UNCHANGED <<state, active, opt, source, valve, pump>>
  BY <1>1 DEF TimerFires, TypeOK, TasksTyped, settings, relays
<1>4. Intact' => Intact
  BY <1>1, <1>3 DEF Intact, Tasks
<1>5. ASSUME RelaysAs(Rest)
      PROVE  RelaysAs(Watering)'
  <2>1. state = "RUNNING" /\ OnlySource /\ Only(active) /\ SourceOn
    BY <1>3, <1>5, RestTyped DEF RelaysAs, TypeOK, ControlTyped, States
  <2> QED
    BY <1>3, <2>1, RestTyped DEF RelaysAs, OnlySource, Only, SourceOn
<1>6. Holds(Watering)'
  BY <1>2, <1>3, <1>4, <1>5, RestTyped DEF Holds, ControlAs
<1>7. Link(Watering, Call("advance"), Rest)
  BY DEF Link, Call, Op
<1> QED
  BY <1>1, <1>2, <1>3, <1>6, <1>7, RestTyped, NewTaskOnCourse

LEMMA EnvironmentOnCourse ==
  ASSUME TypeOK, Awaits, CalmInv,
         \/ \E c \in Clients : Command(c) \/ Set(c) \/ Standby(c)
         \/ \E t \in Timers : TimerFires(t)
         \/ \E s \in Schedules : ScheduleFires(s)
  PROVE  CalmInv'
<1>1. /\ Call("fullCycle") \in Ops /\ Call("shutdown") \in Ops /\ Call("pause") \in Ops
      /\ Call("resume") \in Ops /\ Call("nextValve") \in Ops
      /\ \A z \in Zones : Op("singleZone", z) \in Ops
  BY OpsTyped, ZoneOpsTyped DEF PlainOps
<1>2. /\ Call("fullCycle").do = "fullCycle" /\ Call("shutdown").do = "shutdown"
      /\ Call("pause").do = "pause" /\ Call("resume").do = "resume"
      /\ Call("nextValve").do = "nextValve"
      /\ \A z \in Zones : Op("singleZone", z).do = "singleZone"
  BY DEF Call, Op
<1>3. ASSUME NEW c \in Clients, Command(c)
      PROVE  CalmInv'
  <2>1. c \in Tasks /\ UNCHANGED <<state, active, timer, source, valve, pump, io>>
    BY <1>3 DEF Tasks, Command, ctl, settings, relays
  <2>2. PICK o \in Ops :
          /\ Enters(c, <<o>>)
          /\ o.do \in {"fullCycle", "nextValve", "pause", "resume", "singleZone", "shutdown"}
    BY <1>1, <1>2, <1>3 DEF Command, Sends
  <2> QED
    BY <2>1, <2>2, EntersOnCourse
<1>4. ASSUME NEW c \in Clients, Set(c)
      PROVE  CalmInv'
  <2>1. UNCHANGED <<state, active, timer, valve, pump, io, todo>> /\ InFlight < MaxInFlight
    BY <1>4 DEF Set, ctl, relays
  <2>2. source' = source \/ state = "IDLE"
    BY <1>4 DEF Set, CalmInv, Calm
  <2> QED
    BY <2>1, <2>2, SettingOnCourse
<1>5. ASSUME NEW c \in Clients, Standby(c)
      PROVE  CalmInv'
  <2>1. c \in Tasks /\ UNCHANGED <<state, active, timer, source, valve, pump, io>>
    BY <1>5 DEF Tasks, Standby, ctl, relays
  <2>2. CASE state = "IDLE"
    <3>1. UNCHANGED todo /\ InFlight < MaxInFlight
      BY <1>5, <2>2 DEF Standby
    <3> QED
      BY <2>1, <3>1, SettingOnCourse
  <2>3. CASE state # "IDLE"
    <3>1. Enters(c, <<Call("shutdown")>>)
      BY <1>5, <2>3 DEF Standby, Sends
    <3> QED
      BY <1>1, <1>2, <2>1, <3>1, EntersOnCourse
  <2> QED
    BY <2>2, <2>3
<1>6. ASSUME NEW s \in Schedules, ScheduleFires(s)
      PROVE  CalmInv'
  <2>1. s \in Tasks /\ UNCHANGED <<state, active, timer, opt, source, valve, pump, io>>
    BY <1>6 DEF Tasks, ScheduleFires, ctl, relays
  <2>2. CASE UNCHANGED <<todo, loop>>
    BY <2>1, <2>2, UntouchedOnCourse
  <2>3. CASE Enters(s, <<Call("fullCycle")>>)
    BY <1>1, <1>2, <2>1, <2>3, EntersOnCourse
  <2> QED
    BY <1>6, <2>2, <2>3 DEF ScheduleFires
<1> QED
  BY <1>3, <1>4, <1>5, <1>6, TimerFiresOnCourse

LEMMA InitOnCourse == Calm /\ Init => CalmInv
<1> SUFFICES ASSUME Calm, Init
             PROVE  CalmInv
  OBVIOUS
<1>1. /\ \A t \in Tasks : todo[t] = <<>> /\ io[t] = "none"
      /\ state = "IDLE" /\ active = None /\ timer = FALSE
      /\ \A z \in Zones : valve[z] = FALSE
      /\ \A s \in Sources : pump[s] = FALSE
  BY DEF Init
<1>2. Holds(Rest)
  BY <1>1, RestTyped DEF Holds, ControlAs, RelaysAs, OnlySource, Shut, PumpsOff
<1> QED
  BY <1>1, <1>2 DEF CalmInv, OneAtATime

LEMMA NextOnCourse == TypeOK /\ Awaits /\ CalmInv /\ [Next]_vars => CalmInv'
<1> SUFFICES ASSUME TypeOK, Awaits, CalmInv, [Next]_vars
             PROVE  CalmInv'
  OBVIOUS
<1>1. CASE UNCHANGED vars
  BY <1>1, UntouchedOnCourse DEF vars, ctl, settings, relays
<1>2. ASSUME NEW t \in Tasks, Step(t)
      PROVE  CalmInv'
  BY <1>2, ShutdownOnCourse, StopZoneOnCourse, PumpStopOnCourse, SwitchSourceOnCourse,
     ToIdleOnCourse, PauseOnCourse, PausedOnCourse, ResumeZoneOnCourse, NextValveOnCourse,
     FullCycleOnCourse, NewCycleOnCourse, SingleZoneOnCourse, ZoneAloneOnCourse,
     StartCycleOnCourse, StartZoneOnCourse, ArmOnCourse, AdvanceOnCourse, GapOnCourse,
     HandoverOnCourse, SuspendOnCourse, ResumeOnCourse, DieOnCourse DEF Step
<1>3. ASSUME NEW t \in Tasks, WriteFails(t)
      PROVE  CalmInv'
  <2>1. faults < MaxFaults /\ faults \in 0..MaxFaults /\ MaxFaults = 0
    BY <1>3 DEF WriteFails, TypeOK, TasksTyped, CalmInv, Calm
  <2> QED
    BY <2>1
<1> QED
  BY <1>1, <1>2, <1>3, WriteLandsOnCourse, EnvironmentOnCourse DEF Next

LEMMA CalmCorrect == Calm /\ Spec => []CalmInv
BY InitOnCourse, NextOnCourse, InitTyped, NextTyped, InitAwaits, NextAwaits, PTL DEF Spec

\* When commands come one after the other and no write fails, a controller at rest in IDLE
\* has every valve shut, every pump off and no timer armed, whichever of shutdown, the end
\* of the cycle, a pause and a switch to another zone came before.
THEOREM CalmIdleIsDry == Calm /\ Spec => []IdleIsDry
<1>1. CalmInv => IdleIsDry
  BY RestTyped DEF CalmInv, Holds, RelaysAs, IdleIsDry, AtRest, Quiescent, Shut, PumpsOff
<1> QED
  BY <1>1, CalmCorrect, PTL

\* Under the same conditions a controller at rest in RUNNING has the active zone's valve open
\* and no other, its source on and the timer armed: after every order of pump and valve, with
\* a delay, a gap or an overlap between two zones.
THEOREM CalmRunningWatersOneZone == Calm /\ Spec => []RunningWatersOneZone
<1>1. TypeOK /\ CalmInv => RunningWatersOneZone
  <2> SUFFICES ASSUME TypeOK, CalmInv, AtRest("RUNNING")
               PROVE  /\ timer /\ valve = [z \in Zones |-> z = active]
                      /\ source # None => pump[source]
    BY DEF RunningWatersOneZone
  <2>1. timer /\ Only(active) /\ SourceOn
    BY RestTyped DEF CalmInv, Holds, RelaysAs, AtRest, Quiescent
  <2>2. valve \in [Zones -> BOOLEAN]
    BY DEF TypeOK, TasksTyped
  <2>3. valve = [z \in Zones |-> z = active]
    BY <2>1, <2>2 DEF Only
  <2> QED
    BY <2>1, <2>3 DEF SourceOn
<1> QED
  BY <1>1, CalmCorrect, TypeCorrect, PTL

\* Under the same conditions a controller at rest in PAUSED keeps the zone that resume will
\* start again, with every valve shut and no timer that would advance past it.
THEOREM CalmPausedIsShut == Calm /\ Spec => []PausedIsShut
<1>1. CalmInv => PausedIsShut
  BY RestTyped DEF CalmInv, Holds, ControlAs, RelaysAs, PausedIsShut, AtRest, Quiescent, Shut
<1> QED
  BY <1>1, CalmCorrect, PTL

\* Only _start_zone and the end of an overlap make a zone the active one.
LEMMA NextMovesOn ==
  ASSUME TypeOK, Awaits, CalmInv, [Next]_vars,
         active # None, active' # None, active' # active
  PROVE  Before(active, active')
<1>1. PICK t \in Tasks : StartZone(t) \/ Handover(t)
  <2>1. Next
    BY DEF vars, ctl
  <2>2. ASSUME NEW c \in Clients
        PROVE  ~(Command(c) \/ Set(c) \/ Standby(c))
    BY DEF Command, Set, Standby, ctl
  <2>3. ASSUME NEW t \in Tasks
        PROVE  /\ ~TimerFires(t) /\ ~ScheduleFires(t) /\ ~WriteLands(t) /\ ~WriteFails(t)
               /\ Step(t) => StartZone(t) \/ Handover(t)
    <3>1. ~TimerFires(t) /\ ~ScheduleFires(t) /\ ~WriteLands(t) /\ ~WriteFails(t)
      BY DEF TimerFires, ScheduleFires, WriteLands, WriteFails, ctl
    <3>2. ~Shutdown(t) /\ ~StopZone(t) /\ ~PumpStop(t) /\ ~SwitchSource(t) /\ ~ToIdle(t)
      BY DEF Shutdown, StopZone, PumpStop, SwitchSource, ToIdle, ctl
    <3>3. ~Pause(t) /\ ~Paused(t) /\ ~ResumeZone(t) /\ ~NextValve(t) /\ ~Arm(t)
      BY DEF Pause, Paused, ResumeZone, NextValve, Arm, ctl
    <3>4. ~FullCycle(t) /\ ~NewCycle(t) /\ ~SingleZone(t) /\ ~ZoneAlone(t) /\ ~StartCycle(t)
      BY DEF FullCycle, NewCycle, SingleZone, ZoneAlone, StartCycle, ctl
    <3>5. ~Advance(t) /\ ~Gap(t) /\ ~Suspend(t) /\ ~Resume(t) /\ ~Die(t)
      BY DEF Advance, AdvanceEnds, AdvanceOn, Gap, Suspend, Resume, Die, ctl
    <3> QED
      BY <3>1, <3>2, <3>3, <3>4, <3>5 DEF Step
  <2> QED
    BY <2>1, <2>2, <2>3 DEF Next, Tasks
<1>2. loop = t /\ todo[t] # <<>> /\ active' = Arg(t)
      /\ Head(todo[t]).do \in {"startZone", "handover"}
  BY <1>1 DEF StartZone, Handover, Running
<1>3. PICK p, m \in Labels : Holds(p) /\ Link(p, Head(todo[t]), m)
  <2>1. io[t] # "written"
    BY <1>2 DEF Awaits
  <2> QED
    BY <1>2, <2>1, AtHand
<1>4. p.is \in {"next", "ahead"} /\ p.zone = Arg(t)
  BY <1>2, <1>3 DEF Link, Arg
<1> QED
  BY <1>2, <1>3, <1>4 DEF Holds, ControlAs

\* Under the same conditions, and so without repeats, one zone hands over to a later one of
\* the order only, though the order itself (reverse) may be set at any time.
THEOREM CalmCycleMovesOn == Calm /\ Spec => CycleMovesOn
<1>1. TypeOK /\ Awaits /\ CalmInv /\ [Next]_vars =>
        [active # None /\ active' # None /\ active' # active => Before(active, active')]_vars
  BY NextMovesOn
<1>2. Spec => []Awaits
  BY TypeCorrect, InitAwaits, NextAwaits, PTL DEF Spec
<1> QED
  BY <1>1, <1>2, TypeCorrect, CalmCorrect, PTL DEF Spec, CycleMovesOn

=============================================================================
