--------------------------- MODULE TimeBasedCover ---------------------------
(***************************************************************************)
(* A time-based cover (components/cover/cover.py and time_based.py): the   *)
(* event loop handles the commands, and every movement is a thread of its  *)
(* own that drives one of the two relays and computes the position from    *)
(* the time elapsed.  Loop and threads share _position, _initial_position, *)
(* _current_operation and _stop_event without a lock.                      *)
(*                                                                         *)
(* A venetian cover (venetian.py) has slats, which a movement turns before *)
(* it moves the cover, or turns only.                                      *)
(*                                                                         *)
(* A command never suspends: stop() joins the thread and so blocks the     *)
(* loop, but for half a second at most.  What follows the join in the      *)
(* coroutine are the phases of the loop.                                   *)
(*                                                                         *)
(* Position and tilt are counted in units of at least one per cent, the    *)
(* time a movement has run in the units it would cover.                    *)
(***************************************************************************)
EXTENDS Integers, FiniteSets

CONSTANTS
  Kinds,        \* the kinds of cover
  Full,         \* the position of the open cover, and of open slats, 100 %
  Threads,      \* slots for movement threads
  Targets,      \* the positions and tilts that are commanded
  Thresholds,   \* the values of always_open_till
  Restored,     \* [Kinds -> SUBSET Positions], the positions and tilts restored
  MaxCommands,  \* bound on commands
  MaxLate,      \* bound on joins that time out
  MaxFaults,    \* bound on relay writes that raise (I2C errors)
  None

Positions == 0..Full
Directions == {"open", "close"}
Operations == {"idle", "opening", "closing"}
Goals == Targets \cup {None}

ASSUME FullAssumption == Full \in Nat \ {0}
ASSUME KindsAssumption == Kinds \subseteq {"time", "venetian"}
ASSUME CommandsAssumption == Targets \subseteq Positions /\ Thresholds \subseteq Positions
ASSUME RestoredAssumption == Restored \in [Kinds -> SUBSET Positions]
ASSUME NoneAssumption == None \notin Threads \cup Positions
ASSUME BoundsAssumption == MaxCommands \in Nat /\ MaxLate \in Nat /\ MaxFaults \in Nat

VARIABLES
  kind,       \* which kind it is
  position,   \* _position
  tilt,       \* _tilt_position; of a time-based cover it says nothing
  initial,    \* _initial_position
  initialTilt,  \* _initial_tilt_position
  op,         \* _current_operation
  lastOp,     \* _last_operation
  stopEvent,  \* _stop_event
  relay,      \* the open and the close relay
  current,    \* _movement_thread
  pc,         \* where each thread is; a dead one's slot may be taken again
  dir,        \* the arguments and locals of each thread: direction,
  goal,       \*   target_position or target_tilt_position,
  slats,      \*   which of the two,
  turn,       \*   total_tilt_step,
  total,      \*   the steps of both, total_tilt_step and total_steps,
  gone,       \*   and its progress
  phase,      \* what the loop does: "free", or the rest of stop and run_cover
  pending,    \* the movement run_cover is to start after that stop
  posts,      \* send_state_and_save callbacks queued on the loop
  saved,      \* what was handed to the state manager last
  cmds,       \* commands sent, up to MaxCommands
  late,       \* joins timed out, up to MaxLate
  faults      \* relay writes failed, up to MaxFaults

spot == <<position, tilt>>
origin == <<kind, initial, initialTilt>>
locals == <<dir, goal, slats, turn, total, gone>>
thread == <<pc, locals>>
budget == <<cmds, late, faults>>
vars == <<spot, origin, op, lastOp, stopEvent, relay, current, thread, phase,
          pending, posts, saved, budget>>

Alive(t) == pc[t] # "dead"
Moving == current # None /\ Alive(current)
OperationOf(d) == IF d = "open" THEN "opening" ELSE "closing"

\* What run_cover is asked to do, and the absence of it: a plain stop.
Move(d, g) == [dir |-> d, goal |-> g, slats |-> FALSE]
Tilt(d, g) == [dir |-> d, goal |-> g, slats |-> TRUE]
Moves == {m \in [dir : Directions, goal : Goals \cup {0, Full}, slats : BOOLEAN] :
            m.slats => m.goal # None /\ kind = "venetian"}

\* _position and _tilt_position are saved together.
Spot == [position |-> position, tilt |-> tilt]

-----------------------------------------------------------------------------
\* The event loop.

\* A thread takes the first slot that is free, with the arguments of its movement.
Slot == CHOOSE t \in Threads : ~Alive(t)
Begun(m) ==
  /\ \E t \in Threads : ~Alive(t)
  /\ current' = Slot
  /\ pc' = [pc EXCEPT ![Slot] = "begin"]
  /\ dir' = [dir EXCEPT ![Slot] = m.dir]
  /\ goal' = [goal EXCEPT ![Slot] = m.goal]
  /\ slats' = [slats EXCEPT ![Slot] = m.slats]
  /\ UNCHANGED <<turn, total, gone>>

\* Fault for the runs: the initial position is that of an earlier movement.
StartFromEarlierPosition(m) ==
  /\ op' = OperationOf(m.dir)
  /\ stopEvent' = FALSE
  /\ Begun(m)
  /\ UNCHANGED <<spot, origin, relay, posts, saved>>

\* The end of run_cover: a new thread, and the event cleared for it.
Start(m) ==
  /\ op' = OperationOf(m.dir)
  /\ initial' = position /\ initialTilt' = tilt
  /\ stopEvent' = FALSE
  /\ Begun(m)
  /\ UNCHANGED <<spot, kind, relay, posts, saved>>

\* Fault for the runs: a movement starts beside the one in progress.
BeginWithoutStop(m) ==
  /\ Start(m)
  /\ UNCHANGED <<phase, pending>>

\* run_cover: a movement in progress is stopped first.
Begin(m) ==
  IF Moving
  THEN /\ stopEvent' = TRUE /\ phase' = "join" /\ pending' = m
       /\ UNCHANGED <<spot, origin, op, relay, current, thread, posts, saved>>
  ELSE Start(m) /\ UNCHANGED <<phase, pending>>

Stop ==
  /\ IF Moving
     THEN stopEvent' = TRUE /\ phase' = "join" /\ pending' = None
     ELSE UNCHANGED <<stopEvent, phase, pending>>
  /\ UNCHANGED <<spot, origin, op, lastOp, relay, current, thread, posts, saved>>

\* open and close: nothing to do at the end stop.
Open ==
  IF position >= Full
  THEN UNCHANGED <<spot, origin, op, lastOp, stopEvent, relay, current, thread, phase,
                   pending, posts, saved>>
  ELSE lastOp' = "opening" /\ Begin(Move("open", None))

Close ==
  IF position <= 0
  THEN UNCHANGED <<spot, origin, op, lastOp, stopEvent, relay, current, thread, phase,
                   pending, posts, saved>>
  ELSE lastOp' = "closing" /\ Begin(Move("close", None))

\* set_cover_position compares with the position of the movement in progress.
SetPosition(p) ==
  /\ p # position
  /\ Begin(Move(IF p > position THEN "open" ELSE "close", p))
  /\ UNCHANGED lastOp

\* set_tilt compares with the tilt of the movement in progress.
SetTilt(p) ==
  /\ kind = "venetian" /\ p # tilt
  /\ Begin(Tilt(IF p > tilt THEN "open" ELSE "close", p))
  /\ UNCHANGED lastOp

TiltOpen == SetTilt(Full)
TiltClose == SetTilt(0)

\* toggle and the last branches of smart_toggle.
Toggle ==
  \/ op # "idle" /\ Stop
  \/ op = "idle" /\ position >= Full /\ Close
  \/ op = "idle" /\ position < Full /\ (position <= 0 \/ lastOp = "closing") /\ Open
  \/ op = "idle" /\ position < Full /\ position > 0 /\ lastOp # "closing" /\ Close

SmartToggle(threshold) ==
  \/ op = "idle" /\ position <= threshold /\ Open
  \/ ~(op = "idle" /\ position <= threshold) /\ Toggle

\* toggle_open and toggle_close
ToggleTo(d) ==
  \/ op # "idle" /\ Stop
  \/ op = "idle" /\ d = "open" /\ Open
  \/ op = "idle" /\ d = "close" /\ Close

Command ==
  /\ phase = "free" /\ cmds < MaxCommands
  /\ cmds' = cmds + 1
  /\ \/ Open \/ Close \/ Stop \/ Toggle \/ TiltOpen \/ TiltClose
     \/ \E p \in Targets : SetPosition(p) \/ SetTilt(p)
     \/ \E p \in Thresholds : SmartToggle(p)
     \/ \E d \in Directions : ToggleTo(d)
  /\ UNCHANGED <<late, faults>>

\* join(timeout=0.5)
Joined ==
  /\ phase = "join"
  /\ \/ ~Moving /\ UNCHANGED late
     \/ Moving /\ late < MaxLate /\ late' = late + 1
  /\ phase' = "relays"
  /\ UNCHANGED <<spot, origin, op, lastOp, stopEvent, relay, current, thread, pending,
                 posts, saved, cmds, faults>>

\* The rest of stop.
RelaysOff ==
  /\ phase = "relays"
  /\ relay' = [d \in Directions |-> FALSE]
  /\ lastOp' = IF op = "idle" THEN lastOp ELSE op
  /\ op' = "idle"
  /\ phase' = IF pending = None THEN "free" ELSE "start"
  /\ UNCHANGED <<spot, origin, stopEvent, current, thread, pending, posts, saved, budget>>

\* A turn_off of stop raises: the command ends there, the first relay may be off.
RelaysOffFails ==
  /\ phase = "relays" /\ faults < MaxFaults
  /\ faults' = faults + 1
  /\ relay' \in {relay, [relay EXCEPT !["open"] = FALSE]}
  /\ phase' = "free" /\ pending' = None
  /\ UNCHANGED <<spot, origin, op, lastOp, stopEvent, current, thread, posts, saved,
                 cmds, late>>

StartPending ==
  /\ phase = "start"
  /\ Start(pending)
  /\ phase' = "free" /\ pending' = None
  /\ UNCHANGED <<lastOp, budget>>

\* A queued send_state_and_save: it saves the position of its own time.
Saves ==
  /\ phase = "free" /\ posts > 0
  /\ posts' = posts - 1 /\ saved' = Spot
  /\ UNCHANGED <<spot, origin, op, lastOp, stopEvent, relay, current, thread, phase,
                 pending, budget>>

-----------------------------------------------------------------------------
\* A movement thread, _move_cover.

Goto(t, label) == pc' = [pc EXCEPT ![t] = label] /\ UNCHANGED locals

\* A thread that leaves its loop needs its direction only, and one that ends not even that.
Leaves(t) ==
  /\ goal' = [goal EXCEPT ![t] = None] /\ slats' = [slats EXCEPT ![t] = FALSE]
  /\ turn' = [turn EXCEPT ![t] = 0] /\ total' = [total EXCEPT ![t] = 0]
  /\ gone' = [gone EXCEPT ![t] = -1]

Ends(t) ==
  /\ pc' = [pc EXCEPT ![t] = "dead"]
  /\ dir' = [dir EXCEPT ![t] = "open"]
  /\ Leaves(t)

\* The end stop of a movement, the way to it from x, and where one is after n steps of it.
End(t) == IF dir[t] = "open" THEN Full ELSE 0
Way(t, x) == IF dir[t] = "open" THEN Full - x ELSE x
After(t, x, n) ==
  IF dir[t] = "open"
  THEN IF x + n > Full THEN Full ELSE x + n
  ELSE IF x - n < 0 THEN 0 ELSE x - n

\* Steps to go, after n that turn the slats; none, and the thread ends at once.
Measured(t, steps, n) ==
  /\ \/ steps = 0 /\ op' = "idle" /\ Ends(t)
     \/ /\ steps # 0 /\ UNCHANGED op
        /\ pc' = [pc EXCEPT ![t] = "switchOn"]
        /\ turn' = [turn EXCEPT ![t] = n] /\ total' = [total EXCEPT ![t] = n + steps]
        /\ UNCHANGED <<dir, goal, slats, gone>>
  /\ UNCHANGED <<spot, origin, lastOp, stopEvent, relay, current, phase, pending, posts, saved,
                 budget>>

Measure(t) ==
  /\ pc[t] = "begin" /\ kind = "time"
  /\ Measured(t, Way(t, position), 0)

\* A movement of the slats only has one step to spare for the time that it oversleeps its
\* end, when the cover begins to move.
MeasureTilt(t) ==
  /\ pc[t] = "begin" /\ kind = "venetian"
  /\ LET delta == IF goal[t] > initialTilt THEN goal[t] - initialTilt ELSE initialTilt - goal[t]
     IN IF slats[t]
        THEN Measured(t, IF delta = 0 THEN 0 ELSE 1, delta)
        ELSE Measured(t, Way(t, position), Way(t, initialTilt))

SwitchOn(t) ==
  /\ pc[t] = "switchOn"
  /\ relay' = [relay EXCEPT ![dir[t]] = TRUE]
  /\ Goto(t, "loop")
  /\ UNCHANGED <<spot, origin, op, lastOp, stopEvent, current, phase, pending, posts, saved,
                 budget>>

\* The position after g steps: it counts from the shared initial position.
At(t, g) == After(t, initial, IF g > turn[t] THEN g - turn[t] ELSE 0)

Reached(t, p) ==
  /\ goal[t] # None /\ ~slats[t]
  /\ IF dir[t] = "open" THEN p >= goal[t] ELSE p <= goal[t]

\* The slats turn all the way, or up to their target; if they were behind it when they
\* stopped, they are there at once.
TiltAt(t, g) ==
  LET p == After(t, initialTilt, IF g > turn[t] THEN turn[t] ELSE g)
      behind == IF dir[t] = "open" THEN p > goal[t] ELSE p < goal[t]
  IN IF slats[t] THEN IF behind THEN goal[t] ELSE p
     ELSE IF g >= turn[t] THEN End(t) ELSE p

\* The loop goes on unless it is stopped.
Test(t) ==
  /\ pc[t] = "loop" /\ ~stopEvent
  /\ Goto(t, "move")
  /\ UNCHANGED <<spot, origin, op, lastOp, stopEvent, relay, current, phase, pending, posts, saved,
                 budget>>

LeaveLoop(t) ==
  /\ pc[t] = "loop" /\ stopEvent
  /\ pc' = [pc EXCEPT ![t] = "switchOff"] /\ Leaves(t)
  /\ UNCHANGED <<spot, origin, op, lastOp, stopEvent, relay, current, dir, phase, pending, posts,
                 saved, budget>>

\* An iteration finds g steps gone, and whether the movement is done. Those that find as
\* much gone as the one before write the same again and are left out.
Found(t, g, done) ==
  /\ pc[t] = "move"
  /\ position' = At(t, g)
  /\ IF done \/ g = total[t]
     THEN pc' = [pc EXCEPT ![t] = "switchOff"] /\ Leaves(t)
     ELSE /\ pc' = [pc EXCEPT ![t] = "loop"] /\ gone' = [gone EXCEPT ![t] = g]
          /\ UNCHANGED <<goal, slats, turn, total>>
  /\ UNCHANGED <<origin, op, lastOp, stopEvent, relay, current, dir, phase, pending, posts,
                 saved, budget>>

\* It may have slept past its goal.
Iterate(t, g) ==
  /\ kind = "time" /\ UNCHANGED tilt
  /\ Found(t, g, Reached(t, At(t, g)))

IterateTilt(t, g) ==
  /\ kind = "venetian" /\ tilt' = TiltAt(t, g)
  /\ Found(t, g, Reached(t, At(t, g)) \/ (slats[t] /\ tilt' = goal[t]))

\* Fault for the runs: the thread is done before its relay is off.
SwitchOffLast(t) ==
  /\ pc[t] = "switchOff"
  /\ op' = "idle"
  /\ Goto(t, "post")
  /\ UNCHANGED <<spot, origin, lastOp, stopEvent, relay, current, phase, pending, posts, saved,
                 budget>>

SwitchOff(t) ==
  /\ pc[t] = "switchOff"
  /\ relay' = [relay EXCEPT ![dir[t]] = FALSE]
  /\ Goto(t, "finish")
  /\ UNCHANGED <<spot, origin, op, lastOp, stopEvent, current, phase, pending, posts, saved,
                 budget>>

\* Fault for the runs: the operation is left as it was.
FinishKeepsOperation(t) ==
  /\ pc[t] = "finish"
  /\ Goto(t, "post")
  /\ UNCHANGED <<spot, origin, op, lastOp, stopEvent, relay, current, phase, pending, posts, saved,
                 budget>>

Finish(t) ==
  /\ pc[t] = "finish"
  /\ op' = "idle"
  /\ Goto(t, "post")
  /\ UNCHANGED <<spot, origin, lastOp, stopEvent, relay, current, phase, pending, posts, saved,
                 budget>>

\* Fault for the runs: the final position is published only.
PostStateOnly(t) ==
  /\ pc[t] = "post"
  /\ Ends(t)
  /\ UNCHANGED <<spot, origin, op, lastOp, stopEvent, relay, current, phase, pending, posts, saved,
                 budget>>

Post(t) ==
  /\ pc[t] = "post"
  /\ posts' = posts + 1
  /\ Ends(t)
  /\ UNCHANGED <<spot, origin, op, lastOp, stopEvent, relay, current, phase, pending, saved,
                 budget>>

\* turn_on or turn_off raises: nothing catches it, the thread dies as it stands.
ThreadFails(t) ==
  /\ pc[t] \in {"switchOn", "switchOff"} /\ faults < MaxFaults
  /\ faults' = faults + 1
  /\ Ends(t)
  /\ UNCHANGED <<spot, origin, op, lastOp, stopEvent, relay, current, phase, pending, posts, saved,
                 cmds, late>>

-----------------------------------------------------------------------------
Init ==
  /\ kind \in Kinds /\ position \in Restored[kind]
  /\ tilt \in IF kind = "venetian" THEN Restored[kind] ELSE {Full}
  /\ initial = position /\ initialTilt = tilt /\ saved = Spot
  /\ op = "idle" /\ lastOp = "closing"
  /\ stopEvent = FALSE /\ relay = [d \in Directions |-> FALSE]
  /\ current = None /\ pc = [t \in Threads |-> "dead"]
  /\ dir = [t \in Threads |-> "open"] /\ goal = [t \in Threads |-> None]
  /\ slats = [t \in Threads |-> FALSE] /\ turn = [t \in Threads |-> 0]
  /\ total = [t \in Threads |-> 0] /\ gone = [t \in Threads |-> -1]
  /\ phase = "free" /\ pending = None /\ posts = 0
  /\ cmds = 0 /\ late = 0 /\ faults = 0

Loop == Command \/ Joined \/ RelaysOff \/ RelaysOffFails \/ StartPending \/ Saves

Thread(t) ==
  \/ Measure(t) \/ MeasureTilt(t) \/ SwitchOn(t) \/ Test(t) \/ LeaveLoop(t)
  \/ \E g \in (gone[t] + 1)..total[t] : Iterate(t, g) \/ IterateTilt(t, g)
  \/ SwitchOff(t) \/ Finish(t) \/ Post(t) \/ ThreadFails(t)

Next == Loop \/ \E t \in Threads : Thread(t)

\* A thread is scheduled and its time passes; the loop serves its callbacks and
\* comes back from a join.  Nothing obliges a command.
Fairness ==
  /\ WF_vars(Joined) /\ WF_vars(RelaysOff) /\ WF_vars(StartPending) /\ WF_vars(Saves)
  /\ \A t \in Threads : WF_vars(Thread(t))

Spec == Init /\ [][Next]_vars
FairSpec == Spec /\ Fairness

TypeOK ==
  /\ kind \in Kinds /\ position \in Positions /\ tilt \in Positions
  /\ initial \in Positions /\ initialTilt \in Positions
  /\ saved \in [position : Positions, tilt : Positions]
  /\ op \in Operations /\ lastOp \in Operations \ {"idle"}
  /\ stopEvent \in BOOLEAN /\ relay \in [Directions -> BOOLEAN]
  /\ current \in Threads \cup {None}
  /\ pc \in [Threads -> {"dead", "begin", "switchOn", "loop", "move", "switchOff", "finish",
                       "post"}]
  /\ dir \in [Threads -> Directions] /\ goal \in [Threads -> Goals \cup {0, Full}]
  /\ slats \in [Threads -> BOOLEAN]
  /\ \A t \in Threads : slats[t] => goal[t] # None /\ kind = "venetian"
  /\ turn \in [Threads -> Positions]
  /\ total \in [Threads -> 0..2*Full] /\ gone \in [Threads -> -1..2*Full]
  /\ phase \in {"free", "join", "relays", "start"}
  /\ pending \in Moves \cup {None} /\ (phase = "start" => pending # None)
  /\ posts \in Nat
  /\ cmds \in 0..MaxCommands /\ late \in 0..MaxLate /\ faults \in 0..MaxFaults

-----------------------------------------------------------------------------
\* Properties.

\* Every join so far returned because the thread had ended, and no write failed.
Calm == late = 0 /\ faults = 0
Still == phase = "free" /\ posts = 0 /\ \A t \in Threads : ~Alive(t)

\* The motor is never driven both ways: a movement is switched off, by its own
\* thread, before run_cover lets the next one start.
OneDirection == Calm => ~(relay["open"] /\ relay["close"])

\* A cover that says IDLE does not move: toggle would otherwise start a second
\* movement where it should stop the first.
IdleIsStill == Calm /\ op = "idle" => \A d \in Directions : ~relay[d]

\* Even when joins time out, an energised relay has a live thread that is going
\* to switch it off: no motor is left running.
RelayHasThread ==
  faults = 0 =>
    \A d \in Directions : relay[d] =>
      \E t \in Threads : dir[t] = d /\ pc[t] \in {"loop", "move", "switchOff"}

\* Even when joins time out, the position on disk is the one the cover stopped
\* at: each thread queues a save after its last write of the position.
SavedWhereStopped == faults = 0 /\ Still => saved = Spot

\* A tilt was commanded that the slats passed before the movement in progress stopped.
Overtaken(t) ==
  /\ Alive(t) /\ slats[t]
  /\ IF dir[t] = "open" THEN goal[t] < initialTilt ELSE goal[t] > initialTilt

\* While a movement lasts the position changes in its direction only, and so does the
\* tilt, however it followed another: it counts from where that one ended.
DirectionKept ==
  [][Calm /\ op' = op =>
       /\ op = "opening" =>
            position' >= position /\ (tilt' >= tilt \/ \E t \in Threads : Overtaken(t))
       /\ op = "closing" =>
            position' <= position /\ (tilt' <= tilt \/ \E t \in Threads : Overtaken(t))]_vars

\* A movement without a target that runs its time out is at its end stop, slats and all,
\* though thread and loop read the position it starts from at different moments.
EndStopReached ==
  [][\A t \in Threads :
       Calm /\ pc[t] = "move" /\ pc'[t] = "switchOff" /\ goal[t] = None
         => position' = End(t) /\ (kind = "venetian" => tilt' = End(t))]_vars

\* Once commands stop, every movement ends, even one whose stop timed out: both
\* relays are off and the cover is IDLE for good.
MovementEnds ==
  <>[](faults > 0 \/ (Still /\ op = "idle" /\ \A d \in Directions : ~relay[d]))

=============================================================================
