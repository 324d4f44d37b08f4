---------------------------- MODULE CoverProofs -----------------------------
(***************************************************************************)
(* Theorems about TimeBasedCover, for any resolution of the position, any  *)
(* number of threads and commands, joins that time out and failing writes; *)
(* and, at the end, about GateCover, for every configuration and any       *)
(* number of commands, reloads, movements and relays that fail.            *)
(***************************************************************************)
EXTENDS TimeBasedCover, GateSensing, Sequences, SequenceTheorems, TLAPS

\* What no command changes unless it stops or starts a movement.
Untouched == UNCHANGED <<spot, origin, op, stopEvent, relay, current, thread, phase,
                         pending, posts, saved>>

\* Every command does nothing, stops the movement, or begins one.
LEMMA CommandMeans ==
  ASSUME TypeOK, Command
  PROVE  /\ phase = "free" /\ late' = late /\ faults' = faults
         /\ cmds' \in 0..MaxCommands /\ lastOp' \in Operations \ {"idle"}
         /\ Untouched \/ Stop \/ \E m \in Moves : Begin(m)
<1>1. phase = "free" /\ late' = late /\ faults' = faults /\ cmds' \in 0..MaxCommands
  BY BoundsAssumption DEF Command, TypeOK
<1> DEFINE Meant == /\ lastOp' \in Operations \ {"idle"}
                    /\ Untouched \/ Stop \/ \E m \in Moves : Begin(m)
<1>2. /\ \A d \in Directions, g \in Goals : Move(d, g) \in Moves
      /\ None \in Goals /\ Targets \subseteq Goals
      /\ kind = "venetian" =>
           \A d \in Directions, g \in Targets \cup {0, Full} : Tilt(d, g) \in Moves
  BY CommandsAssumption, NoneAssumption, FullAssumption
     DEF Move, Tilt, Moves, Goals, Positions
<1> lastOp \in Operations \ {"idle"}
  BY DEF TypeOK
<1>3. ASSUME Open PROVE Meant
  <2>1. Move("open", None) \in Moves
    BY <1>2 DEF Directions
  <2>2. CASE position >= Full
    BY <1>3, <2>2 DEF Open, Untouched, thread
  <2>3. CASE ~(position >= Full)
    BY <1>3, <2>1, <2>3 DEF Open, Operations
  <2> QED
    BY <2>2, <2>3
<1>4. ASSUME Close PROVE Meant
  <2>1. Move("close", None) \in Moves
    BY <1>2 DEF Directions
  <2>2. CASE position <= 0
    BY <1>4, <2>2 DEF Close, Untouched, thread
  <2>3. CASE ~(position <= 0)
    BY <1>4, <2>1, <2>3 DEF Close, Operations
  <2> QED
    BY <2>2, <2>3
<1>5. ASSUME Stop PROVE Meant
  BY <1>5 DEF Stop
<1>6. ASSUME Toggle PROVE Meant
  BY <1>6, <1>3, <1>4, <1>5 DEF Toggle
<1>7. ASSUME NEW p \in Targets, SetPosition(p) PROVE Meant
  <2>1. PICK d \in Directions : Begin(Move(d, p))
    BY <1>7 DEF SetPosition, Directions
  <2>2. Move(d, p) \in Moves
    BY <1>2
  <2> QED
    BY <2>1, <2>2, <1>7 DEF SetPosition, TypeOK
<1>10. ASSUME NEW p \in Targets \cup {0, Full}, SetTilt(p) PROVE Meant
  <2>1. PICK d \in Directions : Begin(Tilt(d, p))
    BY <1>10 DEF SetTilt, Directions
  <2>2. Tilt(d, p) \in Moves
    BY <1>2, <1>10 DEF SetTilt
  <2> QED
    BY <2>1, <2>2, <1>10 DEF SetTilt, TypeOK
<1>11. ASSUME TiltOpen \/ TiltClose PROVE Meant
  BY <1>10, <1>11 DEF TiltOpen, TiltClose
<1>8. ASSUME NEW p \in Thresholds, SmartToggle(p) PROVE Meant
  BY <1>8, <1>3, <1>6 DEF SmartToggle
<1>9. ASSUME NEW d \in Directions, ToggleTo(d) PROVE Meant
  BY <1>9, <1>3, <1>4, <1>5 DEF ToggleTo
<1> QED
  BY <1>1, <1>3, <1>4, <1>5, <1>6, <1>7, <1>8, <1>9, <1>10, <1>11 DEF Command

-----------------------------------------------------------------------------
\* Type correctness.

LEMMA SlotIsFree ==
  ASSUME NEW m, Begun(m)
  PROVE  Slot \in Threads /\ ~Alive(Slot)
BY DEF Begun, Slot

Places == {"dead", "begin", "switchOn", "loop", "move", "switchOff", "finish", "post"}
ThreadsTyped ==
  /\ pc \in [Threads -> Places] /\ dir \in [Threads -> Directions]
  /\ goal \in [Threads -> Goals \cup {0, Full}]
  /\ slats \in [Threads -> BOOLEAN]
  /\ \A t \in Threads : slats[t] => goal[t] # None /\ kind = "venetian"
  /\ turn \in [Threads -> Positions]
  /\ total \in [Threads -> 0..2*Full] /\ gone \in [Threads -> -1..2*Full]

LEMMA StartTyped ==
  ASSUME TypeOK, NEW m \in Moves, Start(m)
  PROVE  /\ kind' \in Kinds /\ position' \in Positions /\ tilt' \in Positions
         /\ initial' \in Positions /\ initialTilt' \in Positions
         /\ saved' \in [position : Positions, tilt : Positions]
         /\ op' \in Operations /\ stopEvent' \in BOOLEAN
         /\ relay' \in [Directions -> BOOLEAN] /\ current' \in Threads \cup {None}
         /\ posts' \in Nat
         /\ ThreadsTyped'
<1>1. /\ m.dir \in Directions /\ m.goal \in Goals \cup {0, Full} /\ m.slats \in BOOLEAN
      /\ m.slats => m.goal # None /\ kind = "venetian"
  BY DEF Moves
<1>2. Slot \in Threads
  BY SlotIsFree DEF Start
<1>3. UNCHANGED <<position, tilt, kind, relay, saved, posts>>
  BY DEF Start, spot
<1>4. ThreadsTyped'
  BY <1>1, <1>2, <1>3 DEF Start, Begun, TypeOK, ThreadsTyped, Places
<1> QED
  BY <1>1, <1>2, <1>3, <1>4 DEF Start, Begun, TypeOK, OperationOf, Operations, Directions

LEMMA CommandTyped ==
  ASSUME TypeOK, Command
  PROVE  TypeOK'
<1>1. CASE Untouched
  BY <1>1, CommandMeans DEF Untouched, spot, origin, thread, locals, Moves, TypeOK
<1>2. CASE Stop
  BY <1>2, CommandMeans DEF Stop, spot, origin, thread, locals, Moves, TypeOK
<1>3. ASSUME NEW m \in Moves, Begin(m) PROVE TypeOK'
  <2>1. CASE Moving
    BY <1>3, <2>1, CommandMeans DEF Begin, spot, origin, thread, locals, Moves, TypeOK
  <2>2. CASE ~Moving
    <3>1. Start(m) /\ UNCHANGED <<phase, pending, kind>>
      BY <1>3, <2>2 DEF Begin, Start
    <3>2. Moves' = Moves
      BY <3>1 DEF Moves
    <3> QED
      BY <3>1, <3>2, StartTyped, CommandMeans DEF TypeOK, ThreadsTyped, Places
  <2> QED
    BY <2>1, <2>2
<1> QED
  BY <1>1, <1>2, <1>3, CommandMeans

LEMMA LoopTyped ==
  ASSUME TypeOK, Joined \/ RelaysOff \/ RelaysOffFails \/ StartPending \/ Saves
  PROVE  TypeOK'
<1> USE DEF spot, origin, thread, locals, budget, Moves
<1>1. CASE Joined
  BY <1>1, BoundsAssumption DEF Joined, TypeOK
<1>2. CASE RelaysOff
  BY <1>2 DEF RelaysOff, TypeOK, Operations
<1>3. CASE RelaysOffFails
  <2>1. relay' \in [Directions -> BOOLEAN]
    BY <1>3 DEF RelaysOffFails, TypeOK
  <2>2. faults' \in 0..MaxFaults
    BY <1>3, BoundsAssumption DEF RelaysOffFails, TypeOK
  <2> QED
    BY <1>3, <2>1, <2>2 DEF RelaysOffFails, TypeOK
<1>4. CASE StartPending
  <2>1. pending \in Moves /\ Start(pending)
    BY <1>4 DEF StartPending, TypeOK
  <2>2. kind' = kind
    BY <2>1 DEF Start
  <2> QED
    BY <1>4, <2>1, <2>2, StartTyped DEF StartPending, TypeOK, ThreadsTyped, Places
<1>5. CASE Saves
  BY <1>5 DEF Saves, Spot, TypeOK
<1> QED
  BY <1>1, <1>2, <1>3, <1>4, <1>5

\* The arithmetic of positions.
LEMMA PositionsAreNumbers == Positions = 0..Full /\ Full \in Nat /\ Full > 0
BY FullAssumption DEF Positions

LEMMA GoalsMean ==
  /\ None \in Goals
  /\ \A x \in Goals \cup {0, Full} : x # None => x \in Positions
BY PositionsAreNumbers, CommandsAssumption DEF Goals

LEMMA DistanceTyped ==
  ASSUME NEW x \in Positions, NEW y \in Positions
  PROVE  (IF x > y THEN x - y ELSE y - x) \in Positions
BY PositionsAreNumbers

LEMMA WayTyped ==
  ASSUME NEW t, NEW x \in Positions
  PROVE  Way(t, x) \in Positions
BY PositionsAreNumbers DEF Way

LEMMA AfterTyped ==
  ASSUME NEW t, NEW x \in Positions, NEW n \in Nat
  PROVE  After(t, x, n) \in Positions
BY PositionsAreNumbers DEF After

LEMMA LeavesTyped ==
  ASSUME TypeOK, NEW t \in Threads, Leaves(t), kind' = kind
  PROVE  /\ goal' \in [Threads -> Goals \cup {0, Full}] /\ slats' \in [Threads -> BOOLEAN]
         /\ \A u \in Threads : slats'[u] => goal'[u] # None /\ kind' = "venetian"
         /\ turn' \in [Threads -> Positions]
         /\ total' \in [Threads -> 0..2*Full] /\ gone' \in [Threads -> -1..2*Full]
<1>1. 0 \in Positions /\ 0 \in 0..2*Full /\ -1 \in -1..2*Full /\ None \in Goals \cup {0, Full}
  BY PositionsAreNumbers, GoalsMean
<1>2. goal' \in [Threads -> Goals \cup {0, Full}] /\ slats' \in [Threads -> BOOLEAN]
  BY <1>1 DEF TypeOK, Leaves
<1>3. \A u \in Threads : slats'[u] => goal'[u] # None /\ kind' = "venetian"
  BY DEF TypeOK, Leaves
<1>4. turn' \in [Threads -> Positions]
  BY <1>1 DEF TypeOK, Leaves
<1>5. total' \in [Threads -> 0..2*Full] /\ gone' \in [Threads -> -1..2*Full]
  BY <1>1 DEF TypeOK, Leaves
<1> QED
  BY <1>2, <1>3, <1>4, <1>5

\* What a thread leaves of itself is typed wherever it ends.
LEMMA EndsTyped ==
  ASSUME TypeOK, NEW t \in Threads, Ends(t), kind' = kind
  PROVE  ThreadsTyped'
BY LeavesTyped DEF TypeOK, Ends, ThreadsTyped, Places, Directions

LEMMA MeasuredTyped ==
  ASSUME TypeOK, NEW t \in Threads, NEW steps \in Positions, NEW n \in Positions,
         Measured(t, steps, n)
  PROVE  ThreadsTyped' /\ op' \in Operations
<1>1. kind' = kind
  BY DEF Measured, origin
<1>2. n + steps \in 0..2*Full
  BY PositionsAreNumbers
<1>3. CASE op' = "idle" /\ Ends(t)
  BY <1>1, <1>3, EndsTyped DEF Operations
<1>4. CASE /\ UNCHANGED op /\ pc' = [pc EXCEPT ![t] = "switchOn"]
           /\ turn' = [turn EXCEPT ![t] = n] /\ total' = [total EXCEPT ![t] = n + steps]
           /\ UNCHANGED <<dir, goal, slats, gone>>
  BY <1>1, <1>2, <1>4 DEF TypeOK, ThreadsTyped, Places
<1> QED
  BY <1>3, <1>4 DEF Measured

LEMMA AtTyped ==
  ASSUME TypeOK, NEW t \in Threads, NEW g \in Nat
  PROVE  At(t, g) \in Positions
<1>1. (IF g > turn[t] THEN g - turn[t] ELSE 0) \in Nat
  BY PositionsAreNumbers DEF TypeOK
<1> QED
  BY <1>1, AfterTyped DEF At, TypeOK

LEMMA TiltAtTyped ==
  ASSUME TypeOK, NEW t \in Threads, NEW g \in Nat
  PROVE  TiltAt(t, g) \in Positions
<1>1. (IF g > turn[t] THEN turn[t] ELSE g) \in Nat
  BY PositionsAreNumbers DEF TypeOK
<1>2. After(t, initialTilt, IF g > turn[t] THEN turn[t] ELSE g) \in Positions
  BY <1>1, AfterTyped DEF TypeOK
<1>3. slats[t] => goal[t] \in Positions
  BY GoalsMean DEF TypeOK
<1> QED
  BY <1>2, <1>3, PositionsAreNumbers DEF TiltAt, End

LEMMA FoundTyped ==
  ASSUME TypeOK, NEW t \in Threads, NEW g \in gone[t] + 1 .. total[t], NEW done, Found(t, g, done)
  PROVE  g \in Nat /\ position' \in Positions /\ ThreadsTyped'
<1>1. g \in 0..2*Full
  BY PositionsAreNumbers DEF TypeOK
<1>2. position' \in Positions
  BY <1>1, AtTyped, PositionsAreNumbers DEF Found
<1>3. kind' = kind /\ dir' = dir
  BY DEF Found, origin
<1>4. ASSUME pc' = [pc EXCEPT ![t] = "switchOff"], Leaves(t) PROVE ThreadsTyped'
  BY <1>3, <1>4, LeavesTyped DEF TypeOK, ThreadsTyped, Places
<1>5. ASSUME pc' = [pc EXCEPT ![t] = "loop"], gone' = [gone EXCEPT ![t] = g],
             UNCHANGED <<goal, slats, turn, total>>
      PROVE  ThreadsTyped'
  <2>1. gone' \in [Threads -> -1..2*Full]
    BY <1>1, <1>5, PositionsAreNumbers DEF TypeOK
  <2> QED
    BY <1>3, <1>5, <2>1 DEF TypeOK, ThreadsTyped, Places
<1> QED
  BY <1>1, <1>2, <1>4, <1>5, PositionsAreNumbers DEF Found

LEMMA ThreadTyped ==
  ASSUME TypeOK, NEW t \in Threads, Thread(t)
  PROVE  TypeOK'
<1> USE DEF TypeOK, Goto, spot, origin, locals, budget, Moves
<1>1. ASSUME Measure(t) \/ MeasureTilt(t) PROVE TypeOK'
  <2>1. PICK steps \in Positions, n \in Positions : Measured(t, steps, n)
    <3>1. CASE Measure(t)
      BY <3>1, WayTyped, PositionsAreNumbers DEF Measure
    <3>2. CASE MeasureTilt(t) /\ slats[t]
      <4> DEFINE delta == IF goal[t] > initialTilt THEN goal[t] - initialTilt
                                                    ELSE initialTilt - goal[t]
      <4>1. delta \in Positions /\ (IF delta = 0 THEN 0 ELSE 1) \in Positions
        <5>1. goal[t] \in Positions /\ initialTilt \in Positions
          BY <3>2, GoalsMean
        <5>2. delta \in Positions
          BY ONLY <5>1, DistanceTyped
        <5>3. (IF delta = 0 THEN 0 ELSE 1) \in Positions
          BY ONLY PositionsAreNumbers
        <5> QED
          BY ONLY <5>2, <5>3
      <4> QED
        BY <3>2, <4>1 DEF MeasureTilt
    <3>3. CASE MeasureTilt(t) /\ ~slats[t]
      BY <3>3, WayTyped DEF MeasureTilt
    <3> QED
      BY <1>1, <3>1, <3>2, <3>3
  <2>2. UNCHANGED <<position, tilt, kind, initial, initialTilt, lastOp, stopEvent, relay, current,
                    phase, pending, posts, saved, cmds, late, faults>>
    BY <2>1 DEF Measured
  <2> QED
    BY <2>1, <2>2, MeasuredTyped DEF ThreadsTyped, Places
<1>2. CASE SwitchOn(t)
  BY <1>2 DEF SwitchOn
<1>3. CASE Test(t)
  BY <1>3 DEF Test
<1>4. CASE LeaveLoop(t)
  BY <1>4, LeavesTyped DEF LeaveLoop
<1>5. ASSUME NEW g \in gone[t] + 1 .. total[t], Iterate(t, g) \/ IterateTilt(t, g)
      PROVE  TypeOK'
  <2>1. PICK done : Found(t, g, done)
    BY <1>5 DEF Iterate, IterateTilt
  <2>2. g \in Nat /\ position' \in Positions /\ ThreadsTyped'
    BY <2>1, FoundTyped
  <2>3. tilt' \in Positions
    BY <1>5, <2>2, TiltAtTyped DEF Iterate, IterateTilt
  <2> QED
    BY <2>1, <2>2, <2>3 DEF Found, ThreadsTyped, Places
<1>6. CASE SwitchOff(t)
  BY <1>6 DEF SwitchOff
<1>7. CASE Finish(t)
  BY <1>7 DEF Finish, Operations
<1>8. CASE Post(t)
  BY <1>8, EndsTyped DEF Post, ThreadsTyped, Places
<1>9. CASE ThreadFails(t)
  BY <1>9, EndsTyped, BoundsAssumption DEF ThreadFails, ThreadsTyped, Places
<1> QED
  BY <1>1, <1>2, <1>3, <1>4, <1>5, <1>6, <1>7, <1>8, <1>9 DEF Thread

\* Position and tilt stay between 0 and 100 %, whichever threads write them, and every
\* other variable keeps its type.
THEOREM CoverTypeCorrect == Spec => []TypeOK
<1>1. Init => TypeOK
  <2> SUFFICES ASSUME Init PROVE TypeOK
    OBVIOUS
  <2>1. 0 \in Positions /\ Full \in Positions /\ 0 \in 0..2*Full /\ -1 \in -1..2*Full
    BY PositionsAreNumbers
  <2>2. 0 \in 0..MaxCommands /\ 0 \in 0..MaxLate /\ 0 \in 0..MaxFaults
    BY BoundsAssumption
  <2>3. kind \in Kinds /\ position \in Positions /\ tilt \in Positions
    BY <2>1, RestoredAssumption DEF Init
  <2>4. initial \in Positions /\ initialTilt \in Positions
        /\ saved \in [position : Positions, tilt : Positions]
    BY <2>3 DEF Init, Spot
  <2>5. ThreadsTyped
    BY <2>1, GoalsMean DEF Init, ThreadsTyped, Places, Directions
  <2>6. relay \in [Directions -> BOOLEAN] /\ posts \in Nat
    BY DEF Init
  <2> QED
    BY <2>2, <2>3, <2>4, <2>5, <2>6 DEF Init, TypeOK, ThreadsTyped, Places, Operations
<1>2. TypeOK /\ [Next]_vars => TypeOK'
  <2>1. TypeOK /\ UNCHANGED vars => TypeOK'
    BY DEF TypeOK, vars, spot, origin, thread, locals, budget, Moves
  <2> QED
    BY <2>1, CommandTyped, LoopTyped, ThreadTyped DEF Next, Loop
<1> QED
  BY <1>1, <1>2, PTL DEF Spec

-----------------------------------------------------------------------------
\* What a thread does, unless its relay fails.
Stage(u, from, to) == pc[u] \in from /\ pc'[u] \in to
Does(u) ==
  \/ Stage(u, {"begin"}, {"switchOn"}) /\ UNCHANGED <<op, relay, spot, posts>>
  \/ Stage(u, {"begin"}, {"dead"}) /\ op' = "idle" /\ UNCHANGED <<relay, spot, posts>>
  \/ /\ Stage(u, {"switchOn"}, {"loop"}) /\ relay' = [relay EXCEPT ![dir[u]] = TRUE]
     /\ UNCHANGED <<op, spot, posts>>
  \/ /\ Stage(u, {"loop", "move"}, {"loop", "move", "switchOff"})
     /\ UNCHANGED <<op, relay, posts>>
  \/ /\ Stage(u, {"switchOff"}, {"finish"}) /\ relay' = [relay EXCEPT ![dir[u]] = FALSE]
     /\ UNCHANGED <<op, spot, posts>>
  \/ Stage(u, {"finish"}, {"post"}) /\ op' = "idle" /\ UNCHANGED <<relay, spot, posts>>
  \/ Stage(u, {"post"}, {"dead"}) /\ posts' = posts + 1 /\ UNCHANGED <<op, relay, spot>>

LEMMA ThreadMeans ==
  ASSUME TypeOK, NEW u \in Threads, Thread(u), ~ThreadFails(u)
  PROVE  /\ UNCHANGED <<origin, phase, current, saved, late, faults>>
         /\ \A t \in Threads \ {u} : pc'[t] = pc[t] /\ dir'[t] = dir[t]
         /\ pc'[u] # "dead" => dir'[u] = dir[u]
         /\ Does(u)
<1> DEFINE Meant == /\ UNCHANGED <<origin, phase, current, saved, late, faults>>
                    /\ \A t \in Threads \ {u} : pc'[t] = pc[t] /\ dir'[t] = dir[t]
                    /\ pc'[u] # "dead" => dir'[u] = dir[u]
                    /\ Does(u)
<1> USE DEF Goto, locals, budget, Stage, Does
<1> pc \in [Threads -> Places] /\ dir \in [Threads -> Directions]
  BY DEF TypeOK, Places
<1>1. ASSUME NEW steps, NEW n, pc[u] = "begin", Measured(u, steps, n) PROVE Meant
  BY <1>1 DEF Measured, Ends
<1>2. CASE Measure(u) \/ MeasureTilt(u)
  BY <1>1, <1>2 DEF Measure, MeasureTilt
<1>3. CASE SwitchOn(u)
  BY <1>3 DEF SwitchOn
<1>4. CASE Test(u) \/ LeaveLoop(u)
  BY <1>4 DEF Test, LeaveLoop
<1>5. ASSUME NEW g, NEW done, Found(u, g, done) PROVE Meant
  BY <1>5 DEF Found
<1>6. ASSUME NEW g, Iterate(u, g) \/ IterateTilt(u, g) PROVE Meant
  BY <1>5, <1>6 DEF Iterate, IterateTilt
<1>7. CASE SwitchOff(u) \/ Finish(u)
  BY <1>7 DEF SwitchOff, Finish
<1>8. CASE Post(u)
  BY <1>8 DEF Post, Ends
<1> QED
  BY <1>2, <1>3, <1>4, <1>6, <1>7, <1>8 DEF Thread

-----------------------------------------------------------------------------
\* Relays and threads.

LEMMA StartKeepsRelays ==
  ASSUME TypeOK, RelayHasThread, NEW m \in Moves, Start(m), faults' = faults
  PROVE  RelayHasThread'
<1> SUFFICES ASSUME faults = 0, NEW d \in Directions, relay[d]
             PROVE  \E t \in Threads : dir'[t] = d /\ pc'[t] \in {"loop", "move", "switchOff"}
  BY DEF RelayHasThread, Start
<1>1. PICK t \in Threads : dir[t] = d /\ pc[t] \in {"loop", "move", "switchOff"}
  BY DEF RelayHasThread
<1>2. PICK u \in Threads : /\ ~Alive(u)
                           /\ pc' = [pc EXCEPT ![u] = "begin"]
                           /\ dir' = [dir EXCEPT ![u] = m.dir]
  BY SlotIsFree DEF Start, Begun
<1>3. u # t
  BY <1>1, <1>2 DEF Alive
<1> QED
  BY <1>1, <1>2, <1>3 DEF TypeOK

LEMMA LoopKeepsRelays ==
  ASSUME TypeOK, RelayHasThread, Loop
  PROVE  RelayHasThread'
<1>1. CASE Command
  <2>1. CASE Untouched \/ Stop
    BY <1>1, <2>1, CommandMeans DEF Untouched, Stop, RelayHasThread, thread, locals
  <2>2. ASSUME NEW m \in Moves, Begin(m) PROVE RelayHasThread'
    <3>1. CASE Moving
      BY <1>1, <2>2, <3>1, CommandMeans DEF Begin, RelayHasThread, thread, locals
    <3>2. CASE ~Moving
      BY <1>1, <2>2, <3>2, CommandMeans, StartKeepsRelays DEF Begin
    <3> QED
      BY <3>1, <3>2
  <2> QED
    BY <1>1, <2>1, <2>2, CommandMeans
<1>2. CASE Joined
  BY <1>2 DEF Joined, RelayHasThread, thread, locals
<1>3. CASE RelaysOff
  BY <1>3 DEF RelaysOff, RelayHasThread
<1>4. CASE RelaysOffFails
  BY <1>4 DEF RelaysOffFails, RelayHasThread, TypeOK
<1>5. CASE StartPending
  BY <1>5, StartKeepsRelays DEF StartPending, TypeOK, budget
<1>6. CASE Saves
  BY <1>6 DEF Saves, RelayHasThread, thread, locals, budget
<1> QED
  BY <1>1, <1>2, <1>3, <1>4, <1>5, <1>6 DEF Loop

LEMMA ThreadKeepsRelays ==
  ASSUME TypeOK, RelayHasThread, NEW u \in Threads, Thread(u)
  PROVE  RelayHasThread'
<1> SUFFICES ASSUME faults' = 0, NEW d \in Directions, relay'[d]
             PROVE  \E t \in Threads : dir'[t] = d /\ pc'[t] \in {"loop", "move", "switchOff"}
  BY DEF RelayHasThread
<1>1. ~ThreadFails(u)
  BY DEF ThreadFails, TypeOK
<1>2. /\ faults = 0 /\ Does(u) /\ (pc'[u] # "dead" => dir'[u] = dir[u])
      /\ \A t \in Threads \ {u} : pc'[t] = pc[t] /\ dir'[t] = dir[t]
  BY <1>1, ThreadMeans
<1> USE DEF Does, Stage
<1>3. CASE ~relay[d]
  <2>1. d = dir[u] /\ pc'[u] = "loop"
    BY <1>2, <1>3 DEF TypeOK
  <2> QED
    BY <1>2, <2>1
<1>4. CASE relay[d]
  <2>1. PICK t \in Threads : dir[t] = d /\ pc[t] \in {"loop", "move", "switchOff"}
    BY <1>2, <1>4 DEF RelayHasThread
  <2>2. CASE t # u
    BY <1>2, <2>1, <2>2
  <2>3. CASE t = u
    <3>1. pc[u] # "switchOff"
      BY <1>2, <2>1, <2>3 DEF TypeOK
    <3>2. pc'[u] \in {"loop", "move", "switchOff"}
      BY <1>2, <2>1, <2>3, <3>1
    <3> QED
      BY <1>2, <2>1, <2>3, <3>2
  <2> QED
    BY <2>2, <2>3
<1> QED
  BY <1>3, <1>4

\* No relay is energised without a live thread that is going to switch it off,
\* however many joins have timed out: a movement never runs on by itself.
THEOREM RelaysHaveThreads == Spec => []RelayHasThread
<1>1. Init => RelayHasThread
  BY DEF Init, RelayHasThread
<1>2. TypeOK /\ RelayHasThread /\ [Next]_vars => RelayHasThread'
  <2>1. RelayHasThread /\ UNCHANGED vars => RelayHasThread'
    BY DEF RelayHasThread, vars, thread, locals, budget
  <2> QED
    BY <2>1, LoopKeepsRelays, ThreadKeepsRelays DEF Next
<1> QED
  BY <1>1, <1>2, CoverTypeCorrect, PTL DEF Spec

-----------------------------------------------------------------------------
\* While no join times out and no write fails one thread lives at a time, none
\* once a stop has got past its join, and the operation is that of the thread
\* until its relay is off.
Solo ==
  Calm =>
    /\ \A t \in Threads : Alive(t) => t = current
    /\ phase \in {"relays", "start"} => \A t \in Threads : ~Alive(t)
    /\ \A t \in Threads :
         pc[t] \in {"begin", "switchOn", "loop", "move", "switchOff"} => op # "idle"

LEMMA StartSolo ==
  ASSUME TypeOK, Calm, NEW m \in Moves, Start(m), \A t \in Threads : ~Alive(t),
         phase' = "free"
  PROVE  Solo'
<1>1. PICK u \in Threads : current' = u /\ pc' = [pc EXCEPT ![u] = "begin"]
  BY SlotIsFree DEF Start, Begun
<1>2. op' # "idle"
  BY DEF Start, OperationOf
<1> QED
  BY <1>1, <1>2 DEF Solo, Alive, TypeOK

LEMMA LoopSolo ==
  ASSUME TypeOK, Solo, Loop
  PROVE  Solo'
<1> SUFFICES ASSUME Calm' PROVE Solo'
  BY DEF Solo
<1>1. Calm
  BY CommandMeans DEF Calm, Loop, Joined, RelaysOff, RelaysOffFails, StartPending, Saves,
                      budget, TypeOK
<1>2. CASE Command
  <2>1. CASE Untouched \/ Stop
    BY <1>1, <1>2, <2>1, CommandMeans DEF Untouched, Stop, Solo, Alive, thread, locals
  <2>2. ASSUME NEW m \in Moves, Begin(m) PROVE Solo'
    <3>1. CASE Moving
      BY <1>1, <2>2, <3>1 DEF Begin, Solo, Alive, thread, locals
    <3>2. CASE ~Moving
      <4>1. Start(m) /\ phase' = "free"
        BY <1>2, <2>2, <3>2, CommandMeans DEF Begin
      <4>2. \A t \in Threads : ~Alive(t)
        BY <1>1, <3>2, NoneAssumption DEF Solo, Moving
      <4> QED
        BY <1>1, <4>1, <4>2, StartSolo
    <3> QED
      BY <3>1, <3>2
  <2> QED
    BY <1>2, <2>1, <2>2, CommandMeans
<1>3. CASE Joined
  <2>1. ~Moving
    BY <1>3 DEF Joined, Calm, TypeOK
  <2>2. \A t \in Threads : ~Alive(t)
    BY <1>1, <2>1, NoneAssumption DEF Solo, Moving
  <2> QED
    BY <1>3, <2>2 DEF Joined, Solo, Alive, thread, locals
<1>4. CASE RelaysOff
  BY <1>1, <1>4 DEF RelaysOff, Solo, Alive, thread, locals
<1>5. CASE RelaysOffFails
  BY <1>5 DEF RelaysOffFails, Calm, TypeOK
<1>6. CASE StartPending
  BY <1>1, <1>6, StartSolo DEF StartPending, Solo, TypeOK
<1>7. CASE Saves
  BY <1>1, <1>7 DEF Saves, Solo, Alive, thread, locals
<1> QED
  BY <1>2, <1>3, <1>4, <1>5, <1>6, <1>7 DEF Loop

LEMMA ThreadSolo ==
  ASSUME TypeOK, Solo, NEW u \in Threads, Thread(u)
  PROVE  Solo'
<1> SUFFICES ASSUME Calm' PROVE Solo'
  BY DEF Solo
<1>1. ~ThreadFails(u)
  BY DEF ThreadFails, Calm, TypeOK
<1>2. Calm /\ phase' = phase /\ current' = current /\ Does(u)
  BY <1>1, ThreadMeans DEF Calm
<1>3. Alive(u) /\ \A t \in Threads \ {u} : pc'[t] = pc[t] /\ ~Alive(t)
  BY <1>1, <1>2, ThreadMeans DEF Does, Stage, Solo, Alive
<1>4. pc'[u] \in {"begin", "switchOn", "loop", "move", "switchOff"} => op' # "idle"
  BY <1>2 DEF Does, Stage, Solo
<1> QED
  BY <1>2, <1>3, <1>4 DEF Solo, Alive

THEOREM SoloMovement == Spec => []Solo
<1>1. Init => Solo
  BY DEF Init, Solo, Alive
<1>2. TypeOK /\ Solo /\ [Next]_vars => Solo'
  <2>1. Solo /\ UNCHANGED vars => Solo'
    BY DEF Solo, Calm, Alive, vars, thread, locals, budget
  <2> QED
    BY <2>1, LoopSolo, ThreadSolo DEF Next
<1> QED
  BY <1>1, <1>2, CoverTypeCorrect, PTL DEF Spec

\* The two relays are never energised together: each needs a thread of its own
\* direction, and there is one thread.
THEOREM OneDirectionAtATime == Spec => []OneDirection
<1>1. RelayHasThread /\ Solo => OneDirection
  BY DEF RelayHasThread, Solo, OneDirection, Calm, Alive, Directions
<1> QED
  BY <1>1, RelaysHaveThreads, SoloMovement, PTL

\* A cover that says IDLE has both relays off: a thread whose relay is on keeps
\* the operation of its movement.
THEOREM IdleCoverIsStill == Spec => []IdleIsStill
<1>1. RelayHasThread /\ Solo => IdleIsStill
  BY DEF RelayHasThread, Solo, IdleIsStill, Calm
<1> QED
  BY <1>1, RelaysHaveThreads, SoloMovement, PTL

-----------------------------------------------------------------------------
\* The position saved. Whatever a thread makes of the position, it will queue a save.
Saving == \/ saved = Spot \/ posts > 0
          \/ \E t \in Threads : pc[t] \in {"loop", "move", "switchOff", "finish", "post"}
SavedOrSaving == faults = 0 => Saving

LEMMA StartSaving ==
  ASSUME TypeOK, SavedOrSaving, NEW m \in Moves, Start(m), faults' = faults
  PROVE  SavedOrSaving'
<1>1. PICK u \in Threads : ~Alive(u) /\ pc' = [pc EXCEPT ![u] = "begin"]
  BY SlotIsFree DEF Start, Begun
<1>2. UNCHANGED <<Spot, saved, posts>>
  BY DEF Start, spot, Spot
<1> QED
  BY <1>1, <1>2 DEF SavedOrSaving, Saving, Alive, TypeOK

LEMMA LoopSaving ==
  ASSUME TypeOK, SavedOrSaving, Loop
  PROVE  SavedOrSaving'
<1>1. CASE Command
  <2>1. CASE Untouched \/ Stop
    BY <1>1, <2>1, CommandMeans DEF Untouched, Stop, SavedOrSaving, Saving, Spot, spot, thread
  <2>2. ASSUME NEW m \in Moves, Begin(m) PROVE SavedOrSaving'
    <3>1. CASE Moving
      BY <1>1, <2>2, <3>1, CommandMeans DEF Begin, SavedOrSaving, Saving, Spot, spot, thread
    <3>2. CASE ~Moving
      BY <1>1, <2>2, <3>2, CommandMeans, StartSaving DEF Begin
    <3> QED
      BY <3>1, <3>2
  <2> QED
    BY <1>1, <2>1, <2>2, CommandMeans
<1>2. CASE Joined \/ RelaysOff
  BY <1>2 DEF Joined, RelaysOff, SavedOrSaving, Saving, Spot, spot, thread, budget
<1>3. CASE RelaysOffFails
  BY <1>3 DEF RelaysOffFails, SavedOrSaving, TypeOK
<1>4. CASE StartPending
  BY <1>4, StartSaving DEF StartPending, TypeOK, budget
<1>5. CASE Saves
  BY <1>5 DEF Saves, SavedOrSaving, Saving, Spot, spot
<1> QED
  BY <1>1, <1>2, <1>3, <1>4, <1>5 DEF Loop

LEMMA ThreadSaving ==
  ASSUME TypeOK, SavedOrSaving, NEW u \in Threads, Thread(u)
  PROVE  SavedOrSaving'
<1> SUFFICES ASSUME faults' = 0 PROVE Saving'
  BY DEF SavedOrSaving
<1>1. ~ThreadFails(u)
  BY DEF ThreadFails, TypeOK
<1>2. faults = 0 /\ saved' = saved /\ Does(u) /\ \A t \in Threads \ {u} : pc'[t] = pc[t]
  BY <1>1, ThreadMeans
<1>3. Saving
  BY <1>2 DEF SavedOrSaving
<1>4. CASE pc[u] = "begin"
  BY <1>2, <1>3, <1>4 DEF Does, Stage, Saving, Spot, spot
<1>5. CASE pc[u] = "post"
  BY <1>2, <1>5 DEF Does, Stage, Saving, TypeOK
<1>6. CASE pc[u] \notin {"begin", "post"}
  <2>1. pc'[u] \in {"loop", "move", "switchOff", "finish", "post"}
    BY <1>2, <1>6 DEF Does, Stage
  <2> QED
    BY <2>1 DEF Saving
<1> QED
  BY <1>4, <1>5, <1>6

\* A cover at rest has saved the position it stopped at, however many joins timed out
\* and whatever threads went on beside the one it knows.
THEOREM PositionIsSaved == Spec => []SavedWhereStopped
<1>1. Init => SavedOrSaving
  BY DEF Init, SavedOrSaving, Saving
<1>2. TypeOK /\ SavedOrSaving /\ [Next]_vars => SavedOrSaving'
  <2>1. SavedOrSaving /\ UNCHANGED vars => SavedOrSaving'
    BY DEF SavedOrSaving, Saving, Spot, spot, vars, thread, budget
  <2> QED
    BY <2>1, LoopSaving, ThreadSaving DEF Next
<1>3. SavedOrSaving => SavedWhereStopped
  BY DEF SavedOrSaving, Saving, SavedWhereStopped, Still, Alive
<1> QED
  BY <1>1, <1>2, <1>3, CoverTypeCorrect, PTL DEF Spec

-----------------------------------------------------------------------------
\* The course of a movement: it counts from the position and tilt it started at, over the
\* steps it measured there, in the direction the cover says it is moving.
Reckoned(t) ==
  IF gone[t] = -1 THEN position = initial /\ tilt = initialTilt
  ELSE position = At(t, gone[t]) /\ (kind = "venetian" => tilt = TiltAt(t, gone[t]))
Counts(t) ==
  /\ pc[t] \in {"begin", "switchOn", "loop", "move", "switchOff"} => op = OperationOf(dir[t])
  /\ pc[t] \in {"begin", "switchOn"} => position = initial /\ tilt = initialTilt
  /\ pc[t] \in {"switchOn", "loop", "move"} /\ ~slats[t] =>
       total[t] = turn[t] + Way(t, initial)
  /\ pc[t] \notin {"loop", "move"} => gone[t] = -1
  /\ pc[t] \in {"loop", "move"} => Reckoned(t)
Course == Calm => \A t \in Threads : Counts(t)

\* Where a thread counts to depends on its locals and the origin alone.
LEMMA CountsKept ==
  ASSUME NEW t \in Threads, Counts(t), UNCHANGED <<spot, origin, op, pc[t], dir[t], goal[t],
                                                   slats[t], turn[t], total[t], gone[t]>>
  PROVE  Counts(t)'
<1>1. At(t, gone[t])' = At(t, gone[t]) /\ TiltAt(t, gone[t])' = TiltAt(t, gone[t])
      /\ Way(t, initial)' = Way(t, initial)
  BY DEF At, TiltAt, After, End, Way, origin
<1> QED
  BY <1>1 DEF Counts, Reckoned, OperationOf, spot, origin

LEMMA StartCounts ==
  ASSUME TypeOK, Calm, Course, NEW m \in Moves, Start(m), \A t \in Threads : ~Alive(t)
  PROVE  Course'
<1>1. PICK u \in Threads : /\ pc' = [pc EXCEPT ![u] = "begin"]
                           /\ dir' = [dir EXCEPT ![u] = m.dir]
                           /\ gone' = gone
  BY SlotIsFree DEF Start, Begun
<1>2. op' = OperationOf(m.dir) /\ position' = initial' /\ tilt' = initialTilt'
  BY DEF Start, spot
<1>3. \A t \in Threads : pc[t] = "dead" /\ gone[t] = -1
  BY DEF Course, Counts, Alive
<1>4. Counts(u)'
  BY <1>1, <1>2, <1>3 DEF Counts, OperationOf, TypeOK
<1>5. ASSUME NEW t \in Threads, t # u PROVE Counts(t)'
  BY <1>1, <1>3, <1>5 DEF Counts, TypeOK
<1> QED
  BY <1>4, <1>5 DEF Course

LEMMA LoopCounts ==
  ASSUME TypeOK, Solo, Course, Loop
  PROVE  Course'
<1> SUFFICES ASSUME Calm' PROVE Course'
  BY DEF Course
<1>1. Calm
  BY CommandMeans DEF Calm, Loop, Joined, RelaysOff, RelaysOffFails, StartPending, Saves,
                      budget, TypeOK
<1>2. CASE UNCHANGED <<spot, origin, op, thread>>
  BY <1>1, <1>2, CountsKept DEF Course, thread, locals
<1>3. CASE Command
  <2>1. CASE Untouched \/ Stop
    BY <1>2, <2>1 DEF Untouched, Stop
  <2>2. ASSUME NEW m \in Moves, Begin(m) PROVE Course'
    <3>1. CASE Moving
      BY <1>2, <2>2, <3>1 DEF Begin
    <3>2. CASE ~Moving
      <4>1. \A t \in Threads : ~Alive(t)
        BY <1>1, <3>2, NoneAssumption DEF Solo, Moving
      <4> QED
        BY <1>1, <2>2, <3>2, <4>1, StartCounts DEF Begin
    <3> QED
      BY <3>1, <3>2
  <2> QED
    BY <1>3, <2>1, <2>2, CommandMeans
<1>4. CASE Joined \/ Saves
  BY <1>2, <1>4 DEF Joined, Saves
<1>5. CASE RelaysOff
  <2>1. \A t \in Threads : pc[t] = "dead" /\ gone[t] = -1
    BY <1>1, <1>5 DEF RelaysOff, Solo, Alive, Course, Counts
  <2> QED
    BY <1>5, <2>1 DEF RelaysOff, thread, locals, Course, Counts
<1>6. CASE RelaysOffFails
  BY <1>6 DEF RelaysOffFails, Calm, TypeOK
<1>7. CASE StartPending
  <2>1. pending \in Moves /\ Start(pending) /\ \A t \in Threads : ~Alive(t)
    BY <1>1, <1>7 DEF StartPending, Solo, TypeOK
  <2> QED
    BY <1>1, <2>1, StartCounts
<1> QED
  BY <1>3, <1>4, <1>5, <1>6, <1>7 DEF Loop

\* A thread measures where it starts.
LEMMA MeasureCounts ==
  ASSUME TypeOK, NEW u \in Threads, Counts(u), Measure(u) \/ MeasureTilt(u)
  PROVE  Counts(u)'
<1>1. /\ pc[u] = "begin" /\ position = initial /\ tilt = initialTilt /\ gone[u] = -1
      /\ op = OperationOf(dir[u])
  BY DEF Measure, MeasureTilt, Counts
<1>2. PICK steps, n : /\ Measured(u, steps, n)
                      /\ ~slats[u] => steps = Way(u, initial)
  BY <1>1 DEF Measure, MeasureTilt, TypeOK
<1>3. CASE Ends(u)
  BY <1>3 DEF Ends, Leaves, Counts, TypeOK
<1>4. CASE ~Ends(u)
  <2>1. /\ UNCHANGED <<spot, origin, op, dir, goal, slats, gone>> /\ pc'[u] = "switchOn"
        /\ turn'[u] = n /\ total'[u] = n + steps
    BY <1>2, <1>4 DEF Measured, TypeOK
  <2>2. Way(u, initial)' = Way(u, initial)
    BY <2>1 DEF Way, origin
  <2> QED
    BY <1>1, <1>2, <2>1, <2>2 DEF Counts, OperationOf, spot, origin
<1> QED
  BY <1>3, <1>4

\* What an iteration writes is where it has got to.
LEMMA FoundCounts ==
  ASSUME TypeOK, NEW u \in Threads, Counts(u), NEW g \in gone[u] + 1 .. total[u],
         Iterate(u, g) \/ IterateTilt(u, g)
  PROVE  Counts(u)'
<1>1. PICK done : Found(u, g, done)
  BY DEF Iterate, IterateTilt
<1>2. /\ UNCHANGED <<origin, op, dir>> /\ position' = At(u, g)
      /\ kind = "venetian" => tilt' = TiltAt(u, g)
      /\ op = OperationOf(dir[u])
  BY <1>1 DEF Iterate, IterateTilt, Found, Counts
<1>3. CASE pc' = [pc EXCEPT ![u] = "switchOff"] /\ Leaves(u)
  BY <1>2, <1>3 DEF Leaves, Counts, OperationOf, TypeOK
<1>4. CASE /\ pc' = [pc EXCEPT ![u] = "loop"] /\ gone' = [gone EXCEPT ![u] = g]
           /\ UNCHANGED <<goal, slats, turn, total>>
  <2>1. At(u, g)' = At(u, g) /\ TiltAt(u, g)' = TiltAt(u, g) /\ Way(u, initial)' = Way(u, initial)
    BY <1>2, <1>4 DEF At, TiltAt, After, End, Way, origin
  <2>2. gone'[u] = g /\ g # -1 /\ pc[u] = "move" /\ pc'[u] = "loop"
    BY <1>1, <1>4, FoundTyped DEF Found, TypeOK
  <2>3. At(u, gone[u])' = At(u, g) /\ TiltAt(u, gone[u])' = TiltAt(u, g)
    BY <2>1, <2>2 DEF At, TiltAt
  <2> QED
    BY <1>2, <1>4, <2>1, <2>2, <2>3 DEF Counts, Reckoned, OperationOf, origin
<1> QED
  BY <1>1, <1>3, <1>4 DEF Found

LEMMA ThreadCounts ==
  ASSUME TypeOK, Solo, Course, NEW u \in Threads, Thread(u)
  PROVE  Course'
<1> SUFFICES ASSUME Calm' PROVE Course'
  BY DEF Course
<1>1. ~ThreadFails(u)
  BY DEF ThreadFails, Calm, TypeOK
<1>2. Calm /\ Does(u) /\ \A t \in Threads \ {u} : pc'[t] = pc[t]
  BY <1>1, ThreadMeans DEF Calm
<1>3. Counts(u)
  BY <1>2 DEF Course
<1>4. ASSUME NEW t \in Threads, t # u PROVE Counts(t)'
  <2>1. pc[t] = "dead" /\ pc'[t] = "dead" /\ gone[t] = -1
    BY <1>2, <1>4 DEF Does, Stage, Solo, Alive, Course, Counts
  <2>2. gone'[t] = gone[t]
    BY <1>1, <1>4 DEF Thread, Measure, MeasureTilt, Measured, SwitchOn, Test, LeaveLoop, Iterate,
                      IterateTilt, Found, SwitchOff, Finish, Post, Ends, Leaves, Goto, locals, TypeOK
  <2> QED
    BY <2>1, <2>2 DEF Counts
<1>5. CASE Measure(u) \/ MeasureTilt(u)
  BY <1>3, <1>4, <1>5, MeasureCounts DEF Course
<1>6. CASE \E g \in gone[u] + 1 .. total[u] : Iterate(u, g) \/ IterateTilt(u, g)
  BY <1>3, <1>4, <1>6, FoundCounts DEF Course
<1>7. CASE SwitchOn(u) \/ Test(u)
  <2>1. UNCHANGED <<spot, origin, op, locals>>
    BY <1>7 DEF SwitchOn, Test, Goto
  <2>2. At(u, gone[u])' = At(u, gone[u]) /\ TiltAt(u, gone[u])' = TiltAt(u, gone[u])
        /\ Way(u, initial)' = Way(u, initial)
    BY <2>1 DEF At, TiltAt, After, End, Way, origin, locals
  <2>3. (pc[u] = "switchOn" /\ pc'[u] = "loop") \/ (pc[u] = "loop" /\ pc'[u] = "move")
    BY <1>7 DEF SwitchOn, Test, Goto, TypeOK
  <2>4. Counts(u)'
    BY <1>3, <2>1, <2>2, <2>3 DEF Counts, Reckoned, OperationOf, spot, origin, locals
  <2> QED
    BY <1>4, <2>4 DEF Course
<1>8. CASE LeaveLoop(u)
  <2>1. Counts(u)'
    BY <1>3, <1>8 DEF LeaveLoop, Leaves, Counts, OperationOf, TypeOK
  <2> QED
    BY <1>4, <2>1 DEF Course
<1>9. CASE SwitchOff(u) \/ Finish(u) \/ Post(u)
  <2>1. pc'[u] \in {"finish", "post", "dead"} /\ gone'[u] = -1
    BY <1>3, <1>9 DEF SwitchOff, Finish, Post, Ends, Leaves, Goto, locals, Counts, TypeOK
  <2> QED
    BY <1>4, <2>1 DEF Course, Counts
<1> QED
  BY <1>1, <1>5, <1>6, <1>7, <1>8, <1>9 DEF Thread

LEMMA CourseInvariant == Spec => []Course
<1>1. Init => Course
  BY DEF Init, Course, Counts
<1>2. TypeOK /\ Solo /\ Course /\ [Next]_vars => Course'
  <2>1. Course /\ UNCHANGED vars => Course'
    BY CountsKept DEF Course, Calm, vars, thread, locals, budget
  <2> QED
    BY <2>1, LoopCounts, ThreadCounts DEF Next
<1> QED
  BY <1>1, <1>2, CoverTypeCorrect, SoloMovement, PTL DEF Spec

\* What changes position or tilt is an iteration.
LEMMA SpotMoves ==
  ASSUME TypeOK, Next, ~UNCHANGED spot
  PROVE  \E t \in Threads : \E g \in gone[t] + 1 .. total[t] : Iterate(t, g) \/ IterateTilt(t, g)
<1>1. ~Loop
  BY CommandMeans DEF Loop, Untouched, Stop, Begin, Start, Joined, RelaysOff, RelaysOffFails,
                      StartPending, Saves
<1> QED
  BY <1>1 DEF Next, Thread, Measure, MeasureTilt, Measured, SwitchOn, Test, LeaveLoop, SwitchOff,
              Finish, Post, ThreadFails

\* More steps lead further in the direction of a movement, or as far.
Onward(t, x, y) == IF dir[t] = "open" THEN x <= y ELSE y <= x

LEMMA AfterOnward ==
  ASSUME NEW t, NEW x \in Positions, NEW m \in Nat, NEW n \in Nat, m <= n
  PROVE  Onward(t, After(t, x, m), After(t, x, n)) /\ Onward(t, x, After(t, x, n))
BY PositionsAreNumbers DEF Onward, After

LEMMA AtOnward ==
  ASSUME TypeOK, NEW t \in Threads, NEW m \in Nat, NEW n \in Nat, m <= n
  PROVE  Onward(t, At(t, m), At(t, n)) /\ Onward(t, initial, At(t, n))
<1> DEFINE past(k) == IF k > turn[t] THEN k - turn[t] ELSE 0
<1>1. past(m) \in Nat /\ past(n) \in Nat /\ past(m) <= past(n)
  BY SMTT(30), PositionsAreNumbers DEF TypeOK
<1>2. initial \in Positions
  BY DEF TypeOK
<1> HIDE DEF past
<1>3. /\ Onward(t, After(t, initial, past(m)), After(t, initial, past(n)))
      /\ Onward(t, initial, After(t, initial, past(n)))
  BY <1>1, <1>2, AfterOnward
<1> QED
  BY <1>3 DEF At, past

LEMMA TiltOnward ==
  ASSUME TypeOK, NEW t \in Threads, Alive(t), ~Overtaken(t), NEW m \in Nat, NEW n \in Nat, m <= n
  PROVE  Onward(t, TiltAt(t, m), TiltAt(t, n)) /\ Onward(t, initialTilt, TiltAt(t, n))
<1> DEFINE turned(k) == IF k > turn[t] THEN turn[t] ELSE k
           p(k) == After(t, initialTilt, turned(k))
<1>1. turned(m) \in Nat /\ turned(n) \in Nat /\ turned(m) <= turned(n)
  BY PositionsAreNumbers DEF TypeOK
<1>2. initialTilt \in Positions
  BY DEF TypeOK
<1> HIDE DEF turned
<1>3. /\ p(m) \in Positions /\ p(n) \in Positions
      /\ Onward(t, p(m), p(n)) /\ Onward(t, initialTilt, p(n))
  BY <1>1, <1>2, AfterOnward, AfterTyped
<1>4. /\ TiltAt(t, m) = IF slats[t] THEN IF (IF dir[t] = "open" THEN p(m) > goal[t] ELSE p(m) < goal[t])
                                         THEN goal[t] ELSE p(m)
                        ELSE IF m >= turn[t] THEN End(t) ELSE p(m)
      /\ TiltAt(t, n) = IF slats[t] THEN IF (IF dir[t] = "open" THEN p(n) > goal[t] ELSE p(n) < goal[t])
                                         THEN goal[t] ELSE p(n)
                        ELSE IF n >= turn[t] THEN End(t) ELSE p(n)
  BY DEF TiltAt, turned
<1> HIDE DEF p
<1>5. CASE slats[t]
  <2>1. goal[t] \in Positions
    BY <1>5, GoalsMean DEF TypeOK
  <2>2. Onward(t, initialTilt, goal[t])
    BY <1>2, <1>5, <2>1, PositionsAreNumbers DEF Overtaken, Onward
  <2> QED
    BY <1>2, <1>3, <1>4, <1>5, <2>1, <2>2, PositionsAreNumbers DEF Onward
<1>6. CASE ~slats[t]
  BY SMTT(30), <1>2, <1>3, <1>4, <1>6, PositionsAreNumbers DEF Onward, End, TypeOK
<1> QED
  BY <1>5, <1>6

LEMMA IterationKeepsDirection ==
  ASSUME TypeOK, Course, Calm, NEW t \in Threads, NEW g \in gone[t] + 1 .. total[t],
         Iterate(t, g) \/ IterateTilt(t, g)
  PROVE  /\ op = OperationOf(dir[t]) /\ Onward(t, position, position')
         /\ Onward(t, tilt, tilt') \/ Overtaken(t)
<1>1. /\ op = OperationOf(dir[t]) /\ pc[t] = "move" /\ Reckoned(t) /\ position' = At(t, g)
      /\ tilt' = tilt \/ (kind = "venetian" /\ tilt' = TiltAt(t, g))
  BY DEF Course, Counts, Iterate, IterateTilt, Found
<1>2. g \in Nat /\ gone[t] \in Nat \cup {-1} /\ gone[t] <= g
  BY SMTT(30), PositionsAreNumbers DEF TypeOK
<1>3. Onward(t, position, position')
  BY <1>1, <1>2, AtOnward DEF Reckoned
<1>4. Onward(t, tilt, tilt)
  BY PositionsAreNumbers DEF Onward, TypeOK
<1>5. ASSUME ~Overtaken(t), kind = "venetian", tilt' = TiltAt(t, g) PROVE Onward(t, tilt, tilt')
  <2>1. Alive(t)
    BY <1>1 DEF Alive
  <2> QED
    BY <1>1, <1>2, <1>5, <2>1, TiltOnward DEF Reckoned
<1> QED
  BY <1>1, <1>3, <1>4, <1>5

\* A cover that goes on opening never moves down, nor one that goes on closing up, and
\* its slats turn with it unless the command was overtaken by the movement it stopped.
THEOREM DirectionIsKept == Spec => DirectionKept
<1> DEFINE Kept == Calm /\ op' = op =>
       /\ op = "opening" =>
            position' >= position /\ (tilt' >= tilt \/ \E t \in Threads : Overtaken(t))
       /\ op = "closing" =>
            position' <= position /\ (tilt' <= tilt \/ \E t \in Threads : Overtaken(t))
<1>1. TypeOK /\ Course /\ [Next]_vars => [Kept]_vars
  <2> SUFFICES ASSUME TypeOK, Course, Next, Calm PROVE Kept
    OBVIOUS
  <2>1. CASE UNCHANGED spot
    BY <2>1, PositionsAreNumbers DEF spot, TypeOK
  <2>2. CASE ~UNCHANGED spot
    BY <2>2, SpotMoves, IterationKeepsDirection DEF Onward, OperationOf
  <2> QED
    BY <2>1, <2>2
<1> QED
  BY <1>1, CoverTypeCorrect, CourseInvariant, PTL DEF Spec, DirectionKept

\* A movement without a target that is not stopped ends at its end stop: the distance it
\* measured is the one from the position that the loop gave it to count from.
THEOREM EndStopIsReached == Spec => EndStopReached
<1> DEFINE AtEnd(t) == Calm /\ pc[t] = "move" /\ pc'[t] = "switchOff" /\ goal[t] = None
                         => position' = End(t) /\ (kind = "venetian" => tilt' = End(t))
<1>1. TypeOK /\ Course /\ [Next]_vars => [\A t \in Threads : AtEnd(t)]_vars
  <2> SUFFICES ASSUME TypeOK, Course, Next, NEW t \in Threads, Calm, pc[t] = "move",
                      pc'[t] = "switchOff", goal[t] = None
               PROVE  position' = End(t) /\ (kind = "venetian" => tilt' = End(t))
    OBVIOUS
  <2>1. ~Loop
    <3>1. Loop => pc' = pc \/ \E u \in Threads : pc' = [pc EXCEPT ![u] = "begin"]
      BY CommandMeans, SlotIsFree DEF Loop, Untouched, Stop, Begin, Start, Begun, Joined, RelaysOff,
                          RelaysOffFails, StartPending, Saves, thread
    <3> QED
      BY <3>1 DEF TypeOK
  <2>2. PICK g \in gone[t] + 1 .. total[t] : Iterate(t, g) \/ IterateTilt(t, g)
    <3>1. PICK u \in Threads : Thread(u)
      BY <2>1 DEF Next
    <3>2. u = t
      BY <3>1 DEF Thread, Measure, MeasureTilt, Measured, SwitchOn, Test, LeaveLoop, Iterate,
                  IterateTilt, Found, SwitchOff, Finish, Post, ThreadFails, Ends, Goto, TypeOK
    <3> QED
      BY <3>1, <3>2 DEF Thread, Measure, MeasureTilt, SwitchOn, Test, LeaveLoop, SwitchOff, Finish,
                        Post, ThreadFails
  <2>3. ~slats[t] /\ turn[t] \in 0..Full /\ initial \in 0..Full
    BY PositionsAreNumbers DEF TypeOK
  <2>4. /\ g = total[t] /\ position' = At(t, g)
        /\ kind = "venetian" => tilt' = TiltAt(t, g)
    BY <2>2, <2>3 DEF Iterate, IterateTilt, Found, Reached, TypeOK
  <2>5. g = turn[t] + Way(t, initial)
    BY <2>3, <2>4 DEF Course, Counts
  <2>6. Way(t, initial) \in 0..Full /\ After(t, initial, Way(t, initial)) = End(t)
    BY <2>3, PositionsAreNumbers DEF Way, After, End
  <2>7. g >= turn[t] /\ (IF g > turn[t] THEN g - turn[t] ELSE 0) = Way(t, initial)
    BY <2>3, <2>5, <2>6
  <2> QED
    BY <2>3, <2>4, <2>6, <2>7 DEF At, TiltAt
<1> QED
  BY <1>1, CoverTypeCorrect, CourseInvariant, PTL DEF Spec, EndStopReached

-----------------------------------------------------------------------------
\* Gates.
CONSTANTS Configs, MaxInFlight, MaxMoves
VARIABLES pulsed, tasks, timers, handle, offs, abandoned, commands, moves, failures

Gate == INSTANCE GateCover WITH relay <- pulsed, faults <- failures

\* What is left of a gate's state and operation by everything but commands, events and reloads.
Aside == UNCHANGED <<config, Gate!gate, queue, contacts, lastSync>>

LEMMA StepsAside ==
  /\ \A cmd : Gate!Command(cmd) => Aside
  /\ \A k : Gate!SwitchOn(k) \/ Gate!SwitchOnFails(k) => Aside
  /\ \A t : Gate!Fires(t) => Aside
  /\ \A o : Gate!SwitchOff(o) \/ Gate!SwitchOffFails(o) \/ Gate!Forget(o) => Aside
BY DEF Gate!Command, Gate!SwitchOn, Gate!SwitchOnFails, Gate!Fires, Gate!SwitchOff, Gate!SwitchOffFails, Gate!Forget, Aside, Gate!sensed

\* A command that goes on after its relay ends an operation or leaves it, and the state of a gate
\* with a closed_sensor is not its business.
LEMMA PulsedKeeps ==
  ASSUME NEW k, Gate!Pulsed(k)
  PROVE  /\ UNCHANGED <<config, queue, contacts, lastSync>>
         /\ operation' \in {operation, "idle"}
         /\ HasClosed => state' = state
BY DEF Gate!Pulsed, Gate!Afterwards, Gate!gate, Gate!sensed, HasClosed, Gate!HasClosed

-----------------------------------------------------------------------------
\* Of a gate with a closed_sensor the operation, unless idle, is the state, whatever commands
\* were waiting for their relays when a sensor ended it.
THEOREM OperationAlwaysState == Gate!Spec => []OperationIsState
<1>1. Gate!Init => OperationIsState
  BY DEF Gate!Init, OperationIsState
<1>2. OperationIsState /\ [Gate!Next]_(Gate!vars) => OperationIsState'
  <2> SUFFICES ASSUME OperationIsState, [Gate!Next]_(Gate!vars) PROVE OperationIsState'
    OBVIOUS
  <2>1. CASE Aside
    BY <2>1 DEF Aside, Gate!gate, OperationIsState, HasClosed, Gate!HasClosed
  <2>2. ASSUME NEW k, Gate!Pulsed(k) PROVE OperationIsState'
    BY <2>2, PulsedKeeps DEF OperationIsState, HasClosed, Gate!HasClosed
  <2>3. ASSUME NEW cmd, Gate!Ignored(cmd) PROVE OperationIsState'
    BY <2>3 DEF Gate!Ignored, OperationIsState, HasClosed, Gate!HasClosed
  <2>4. CASE Gate!Move
    BY <2>4 DEF Gate!Move, Gate!gate, OperationIsState, HasClosed, Gate!HasClosed
  <2>5. CASE Gate!Deliver
    <3>1. Gate!SensorEvent(Head(queue)) /\ config' = config
      BY <2>5 DEF Gate!Deliver
    <3> QED
      BY <3>1 DEF Gate!SensorEvent, Gate!Become, OperationIsState, HasClosed, Gate!HasClosed
  <2>6. CASE Gate!Reload
    BY <2>6 DEF Gate!Reload, OperationIsState
  <2>7. CASE UNCHANGED Gate!vars
    BY <2>7 DEF Gate!vars, Gate!gate, OperationIsState, HasClosed, Gate!HasClosed
  <2> QED
    BY <2>1, <2>2, <2>3, <2>4, <2>5, <2>6, <2>7, StepsAside DEF Gate!Next
<1> QED
  BY <1>1, <1>2, PTL DEF Gate!Spec

-----------------------------------------------------------------------------
\* The contacts decide. The strengthening is about the events on their way: they are of the
\* gate's own sensors, and the last one, unless the manager asked for it, is what the contacts
\* are.
GateEvents == [sensor : Gate!Sensors, closed : BOOLEAN, sync : BOOLEAN]
Both == "open" \in config.sensors
Fits(e) ==
  IF e.closed THEN contacts = {e.sensor}
  ELSE IF Both THEN contacts = {} ELSE "closed" \notin contacts
QueueTyped ==
  /\ queue \in Seq(GateEvents)
  /\ \A i \in 1 .. Len(queue) : queue[i].sensor \in config.sensors
LastFits == (queue # <<>> /\ ~queue[Len(queue)].sync) => Fits(queue[Len(queue)])
ContactsTyped == config \in Configs /\ contacts \in {{}, {"closed"}, {"open"}}
Sensed == QueueTyped /\ ContactsTyped /\ (HasClosed => LastFits /\ SensorsDecide)

LEMMA AskedTyped ==
  ASSUME ContactsTyped
  PROVE  /\ Gate!Asked \in Seq(GateEvents)
         /\ \A i \in 1 .. Len(Gate!Asked) : Gate!Asked[i].sync /\ Gate!Asked[i].sensor \in config.sensors
         /\ HasClosed => Len(Gate!Asked) > 0
<1> DEFINE asked == Gate!In(config.sensors, "closed") \o Gate!In(config.sensors, "open")
<1>1. /\ Gate!In(config.sensors, "closed") \in Seq(Gate!Sensors \cap config.sensors)
      /\ Gate!In(config.sensors, "open") \in Seq(Gate!Sensors \cap config.sensors)
      /\ HasClosed => Len(Gate!In(config.sensors, "closed")) = 1
      /\ Len(Gate!In(config.sensors, "open")) \in Nat
  BY DEF Gate!In, Gate!Sensors, HasClosed, Gate!HasClosed
<1>2. /\ asked \in Seq(Gate!Sensors \cap config.sensors)
      /\ HasClosed => Len(asked) > 0
  <2> DEFINE S == Gate!Sensors \cap config.sensors
             a == Gate!In(config.sensors, "closed")
             b == Gate!In(config.sensors, "open")
  <2>1. /\ a \in Seq(S) /\ b \in Seq(S) /\ Len(b) \in Nat /\ (HasClosed => Len(a) = 1)
        /\ asked = a \o b
    BY <1>1
  <2> HIDE DEF S, a, b, asked
  <2>2. asked \in Seq(S) /\ Len(asked) = Len(a) + Len(b)
    BY <2>1, ConcatProperties
  <2> QED
    BY <2>1, <2>2 DEF S
<1>3. Gate!Asked = [i \in 1 .. Len(asked) |->
                 [sensor |-> asked[i], closed |-> asked[i] \in contacts, sync |-> TRUE]]
  <2>1. Gate!Asked = [i \in DOMAIN asked |->
                   [sensor |-> asked[i], closed |-> asked[i] \in contacts, sync |-> TRUE]]
    BY Zenon DEF Gate!Asked
  <2>2. DOMAIN asked = 1 .. Len(asked)
    BY <1>2
  <2> QED
    BY <2>1, <2>2, Zenon
<1> HIDE DEF asked
<1>4. \A i \in 1 .. Len(asked) : asked[i] \in Gate!Sensors \cap config.sensors
  BY <1>2
<1>5. \A i \in 1 .. Len(asked) :
        [sensor |-> asked[i], closed |-> asked[i] \in contacts, sync |-> TRUE] \in GateEvents
  BY <1>4 DEF GateEvents
<1>6. Len(asked) \in Nat
  BY <1>2
<1>7. Gate!Asked \in Seq(GateEvents) /\ Len(Gate!Asked) = Len(asked)
  BY <1>3, <1>5, <1>6, IsASeq
<1>8. ASSUME NEW i \in 1 .. Len(asked)
      PROVE  Gate!Asked[i].sync /\ Gate!Asked[i].sensor \in config.sensors
  BY <1>3, <1>4
<1> QED
  BY <1>2, <1>7, <1>8

\* The events of a reload come after those that are on their way.
LEMMA ReloadSensed ==
  ASSUME Sensed, Gate!Reload
  PROVE  Sensed'
<1>1. /\ queue' = queue \o Gate!Asked /\ lastSync'
      /\ UNCHANGED <<config, contacts>>
  BY DEF Gate!Reload
<1>2. /\ queue \in Seq(GateEvents) /\ Gate!Asked \in Seq(GateEvents)
      /\ \A i \in 1 .. Len(Gate!Asked) : Gate!Asked[i].sync /\ Gate!Asked[i].sensor \in config.sensors
      /\ HasClosed => Len(Gate!Asked) > 0
  BY AskedTyped DEF Sensed, QueueTyped
<1>3. /\ queue' \in Seq(GateEvents) /\ Len(queue') = Len(queue) + Len(Gate!Asked)
      /\ \A i \in 1 .. Len(queue') :
           queue'[i] = IF i <= Len(queue) THEN queue[i] ELSE Gate!Asked[i - Len(queue)]
  BY <1>1, <1>2, ConcatProperties
<1>4. Len(queue) \in Nat /\ Len(Gate!Asked) \in Nat
  BY <1>2
<1>5. QueueTyped'
  <2> SUFFICES ASSUME NEW i \in 1 .. Len(queue') PROVE queue'[i].sensor \in config.sensors
    BY <1>1, <1>3 DEF QueueTyped
  <2>1. CASE i <= Len(queue)
    BY <1>3, <1>4, <2>1 DEF Sensed, QueueTyped
  <2>2. CASE i > Len(queue)
    BY <1>2, <1>3, <1>4, <2>2
  <2> QED
    BY <1>4, <2>1, <2>2
<1>6. ASSUME HasClosed PROVE LastFits'
  <2>1. queue'[Len(queue')] = Gate!Asked[Len(Gate!Asked)]
    BY <1>2, <1>3, <1>4, <1>6
  <2>2. queue'[Len(queue')].sync
    BY <1>2, <1>4, <1>6, <2>1
  <2> QED
    BY <2>2 DEF LastFits
<1>7. SensorsDecide'
  BY <1>1 DEF SensorsDecide
<1> QED
  BY <1>1, <1>5, <1>6, <1>7 DEF Sensed, ContactsTyped, HasClosed, Gate!HasClosed

LEMMA MoveSensed ==
  ASSUME Sensed, Gate!Move
  PROVE  Sensed'
<1>1. UNCHANGED <<config, state, lastSync>>
  BY DEF Gate!Move, Gate!gate
<1>2. PICK s \in Gate!Sensors :
        /\ contacts \in {{}, {s}}
        /\ contacts' = {s} \ contacts
        /\ queue' = queue \o (IF s \in config.sensors THEN <<Gate!Event(s, FALSE)>> ELSE <<>>)
  BY DEF Gate!Move
<1>3. ContactsTyped' /\ queue \in Seq(GateEvents) /\ Len(queue) \in Nat
  BY <1>1, <1>2 DEF Sensed, ContactsTyped, QueueTyped, Gate!Sensors
<1>4. CASE s \notin config.sensors
  <2>1. queue' = queue
    BY <1>2, <1>3, <1>4, ConcatEmptySeq
  <2>2. ASSUME HasClosed PROVE s = "open" /\ ~Both /\ LastFits /\ SensorsDecide
    BY <1>4, <2>2 DEF HasClosed, Gate!HasClosed, Both, Sensed, Gate!Sensors
  <2>3. ASSUME HasClosed PROVE LastFits'
    <3> SUFFICES ASSUME queue # <<>>, ~queue[Len(queue)].sync, Fits(queue[Len(queue)])
                 PROVE  Fits(queue[Len(queue)])'
      BY <2>1, <2>2, <2>3 DEF LastFits
    <3>1. Len(queue) \in 1 .. Len(queue)
      BY <1>3, <2>3
    <3>2. queue[Len(queue)].sensor = "closed"
      <4>1. queue[Len(queue)] \in GateEvents /\ queue[Len(queue)].sensor \in config.sensors
        BY <1>3, <3>1 DEF Sensed, QueueTyped
      <4> QED
        BY <2>2, <2>3, <4>1 DEF GateEvents, Gate!Sensors, Both
    <3> QED
      BY <1>1, <1>2, <2>1, <2>2, <2>3, <3>2 DEF Fits, Both
  <2>4. ASSUME HasClosed PROVE SensorsDecide'
    BY <1>1, <1>2, <2>1, <2>2, <2>4 DEF SensorsDecide, HasClosed, Gate!HasClosed, Both
  <2> QED
    BY <1>1, <1>3, <2>1, <2>3, <2>4 DEF Sensed, QueueTyped, HasClosed, Gate!HasClosed
<1>5. CASE s \in config.sensors
  <2>1. PICK e \in GateEvents : /\ e = Gate!Event(s, FALSE)
                            /\ e.sensor = s /\ ~e.sync /\ (e.closed <=> s \in contacts')
    <3>1. (s \in contacts') \in BOOLEAN
      OBVIOUS
    <3>2. Gate!Event(s, FALSE) \in GateEvents
      BY <3>1 DEF Gate!Event, GateEvents
    <3>3. LET e == Gate!Event(s, FALSE) IN e.sensor = s /\ ~e.sync /\ (e.closed <=> s \in contacts')
      BY DEF Gate!Event
    <3> QED
      BY <3>2, <3>3
  <2>2. queue' = Append(queue, e)
    BY <1>2, <1>3, <1>5, <2>1, AppendIsConcat
  <2>3. /\ queue' \in Seq(GateEvents) /\ queue' # <<>> /\ Len(queue') = Len(queue) + 1
        /\ \A i \in 1 .. Len(queue) : queue'[i] = queue[i]
        /\ queue'[Len(queue')] = e
    <3>1. LET q == Append(queue, e)
          IN  /\ q \in Seq(GateEvents) /\ q # <<>> /\ Len(q) = Len(queue) + 1
              /\ \A i \in 1 .. Len(queue) : q[i] = queue[i]
              /\ q[Len(queue) + 1] = e
      BY <1>3, AppendProperties
    <3> QED
      BY <2>2, <3>1
  <2>4. QueueTyped'
    <3> SUFFICES ASSUME NEW i \in 1 .. Len(queue') PROVE queue'[i].sensor \in config.sensors
      BY <1>1, <2>3 DEF QueueTyped
    <3>1. i \in 1 .. Len(queue) \/ i = Len(queue')
      BY <1>3, <2>3
    <3> QED
      BY <1>5, <2>1, <2>3, <3>1 DEF Sensed, QueueTyped
  <2>5. ASSUME HasClosed PROVE LastFits'
    <3>1. Fits(e)'
      <4>1. CASE s \in contacts'
        BY <1>2, <2>1, <4>1 DEF Fits
      <4>2. CASE s \notin contacts'
        BY <1>2, <2>1, <4>2 DEF Fits
      <4> QED
        BY <4>1, <4>2
    <3> QED
      BY <2>3, <3>1 DEF LastFits, Fits, Both
  <2>6. SensorsDecide'
    BY <2>3 DEF SensorsDecide
  <2> QED
    BY <1>1, <1>3, <2>4, <2>5, <2>6 DEF Sensed, HasClosed, Gate!HasClosed
<1> QED
  BY <1>4, <1>5

LEMMA DeliverSensed ==
  ASSUME Sensed, Gate!Deliver
  PROVE  Sensed'
<1> DEFINE e == Head(queue)
<1>1. /\ queue # <<>> /\ Gate!SensorEvent(e) /\ lastSync' = e.sync
      /\ queue' = Tail(queue) /\ UNCHANGED <<config, contacts>>
  BY DEF Gate!Deliver
<1>2. /\ queue \in Seq(GateEvents) /\ Len(queue) \in Nat /\ Len(queue) > 0
      /\ e = queue[1] /\ e \in GateEvents /\ e.sensor \in config.sensors
  BY <1>1 DEF Sensed, QueueTyped
<1>3. /\ queue' \in Seq(GateEvents) /\ Len(queue') = Len(queue) - 1
      /\ \A i \in 1 .. Len(queue') : queue'[i] = queue[i + 1]
  BY <1>1, <1>2, HeadTailProperties
<1> HIDE DEF e
<1>4. QueueTyped'
  BY <1>1, <1>2, <1>3 DEF Sensed, QueueTyped
<1>5. ASSUME HasClosed PROVE LastFits'
  <2> SUFFICES ASSUME queue' # <<>> PROVE queue'[Len(queue')] = queue[Len(queue)]
    BY <1>1, <1>2, <1>5 DEF Sensed, LastFits, Fits, Both
  <2> QED
    BY <1>2, <1>3
<1>6. ASSUME HasClosed PROVE SensorsDecide'
  <2> SUFFICES ASSUME queue' = <<>>, ~e.sync PROVE SensorsDecide'
    BY <1>1 DEF SensorsDecide
  <2>1. Len(queue) = 1
    BY <1>2, <1>3
  <2>2. Fits(e)
    BY <1>1, <1>2, <1>6, <2>1 DEF Sensed, LastFits
  <2>3. contacts \in {{}, {"closed"}, {"open"}} /\ e.sensor \in {"closed", "open"}
    BY <1>2 DEF Sensed, ContactsTyped, GateEvents, Gate!Sensors
  <2> QED
    BY <1>1, <1>2, <2>2, <2>3 DEF SensorsDecide, Gate!SensorEvent, Gate!Become, Fits, Both
<1> QED
  BY <1>1, <1>4, <1>5, <1>6 DEF Sensed, ContactsTyped, HasClosed, Gate!HasClosed

\* Once the events of a change are handled, a gate with a closed_sensor is what its contacts
\* say, whatever commands were under way and however often it was reloaded.
THEOREM SensorsAlwaysDecide == Gate!Spec => []SensorsDecide
<1>1. Gate!Init => Sensed
  <2> SUFFICES ASSUME Gate!Init PROVE Sensed
    OBVIOUS
  <2>1. ContactsTyped /\ queue = Gate!Asked /\ lastSync
    BY DEF Gate!Init, ContactsTyped
  <2>2. QueueTyped
    BY <2>1, AskedTyped DEF QueueTyped
  <2>3. HasClosed => LastFits
    BY <2>1, AskedTyped DEF LastFits
  <2> QED
    BY <2>1, <2>2, <2>3 DEF Sensed, SensorsDecide
<1>2. Sensed /\ [Gate!Next]_(Gate!vars) => Sensed'
  <2> SUFFICES ASSUME Sensed, [Gate!Next]_(Gate!vars) PROVE Sensed'
    OBVIOUS
  <2>1. ASSUME UNCHANGED <<config, queue, contacts, lastSync>>, HasClosed => state' = state
        PROVE  Sensed'
    BY <2>1 DEF Sensed, QueueTyped, ContactsTyped, HasClosed, Gate!HasClosed, LastFits, Fits, Both, SensorsDecide
  <2>2. CASE Aside \/ UNCHANGED Gate!vars
    BY <2>1, <2>2 DEF Aside, Gate!vars, Gate!gate, Gate!sensed
  <2>3. ASSUME NEW k, Gate!Pulsed(k) PROVE Sensed'
    BY <2>1, <2>3, PulsedKeeps
  <2>4. ASSUME NEW cmd, Gate!Ignored(cmd) PROVE Sensed'
    BY <2>1, <2>4 DEF Gate!Ignored, Gate!sensed
  <2> QED
    BY <2>2, <2>3, <2>4, MoveSensed, DeliverSensed, ReloadSensed, StepsAside DEF Gate!Next
<1>3. Sensed => SensorsDecide
  BY DEF Sensed, SensorsDecide
<1> QED
  BY <1>1, <1>2, <1>3, PTL DEF Gate!Spec
=============================================================================
