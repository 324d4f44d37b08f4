---------------------------- MODULE LongActions ----------------------------
(***************************************************************************)
(* What is done while a button is held: the reports of a long press        *)
(* (Clicks) go through the input's lock and the event bus to               *)
(* InputManager.handle_input_event, which executes the input's actions.    *)
(* The bus handles one event at a time and waits for it; an action waits   *)
(* for its output.  Meanwhile the detector goes on: it resets what was     *)
(* executed when the next press becomes long, 50 ms after a release, and   *)
(* when a press that is held too long is stopped by force.                 *)
(*                                                                         *)
(* executed_long_actions and last_repeat_times are objects: the handler    *)
(* works on those it found, changes them in place, and puts them back      *)
(* after its last action, over newer ones if there are any.                *)
(*                                                                         *)
(* Durations are counted in reports.  Conditions and max_duration, other   *)
(* click types, which have no memory, and publishing to MQTT are left out. *)
(***************************************************************************)
EXTENDS LongPresses, FiniteSets

CONSTANTS
    MaxDuration, \* bound on the duration of one
    MaxFaults    \* bound on actions that raise

ASSUME LongActionsAssumption == {MaxDuration, MaxFaults} \subseteq Nat

VARIABLE
    memo      \* the detector's record of what was executed, and when last

vars == <<held, press, duration, resets, memo, queue, worker, counts, late, failed>>

Fresh == [done |-> {}, last |-> [i \in Indices |-> 0]]
Idle == [busy |-> FALSE]
Event(p, d) == [press |-> p, duration |-> d]

Init ==
    /\ held = FALSE
    /\ press = 0
    /\ duration = [p \in Presses |-> 0]
    /\ resets = 0
    /\ memo = Fresh
    /\ queue = <<>>
    /\ worker = Idle
    /\ counts = [p \in Presses |-> [i \in Indices |-> 0]]
    /\ late = {} /\ failed = {}

(***************************************************************************)
(* The detector.                                                           *)
(***************************************************************************)
\* The handler under way keeps the objects it has.
Forget ==
    /\ memo' = Fresh
    /\ worker' = IF worker.busy THEN [worker EXCEPT !.shared = FALSE] ELSE worker

Report(p, d) ==
    /\ queue' = Append(queue, Event(p, d))
    /\ duration' = [duration EXCEPT ![p] = d]

\* _detect_long_press, longer after the last release than its reset.
LongPress ==
    /\ ~held /\ resets = 0 /\ press < MaxPresses
    /\ held' = TRUE
    /\ press' = press + 1
    /\ Forget
    /\ Report(press + 1, 1)
    /\ UNCHANGED <<resets, counts, late, failed>>

\* _send_periodic_long_event.
Periodic ==
    /\ held /\ duration[press] < MaxDuration - 1
    /\ Report(press, duration[press] + 1)
    /\ UNCHANGED <<held, press, resets, memo, worker, counts, late, failed>>

\* A last report, and the reset soon after it.
Release ==
    /\ held
    /\ held' = FALSE
    /\ Report(press, duration[press] + 1)
    /\ resets' = resets + 1
    /\ UNCHANGED <<press, memo, worker, counts, late, failed>>

\* Reports that are not handled yet find the record of no press.
ForgetUnhandled ==
    /\ Forget
    /\ late' = late \union {p \in Presses : Unhandled(p)}

Reset ==
    /\ resets > 0
    /\ resets' = resets - 1
    /\ ForgetUnhandled
    /\ UNCHANGED <<held, press, duration, queue, counts, failed>>

\* _force_stop_long_press: held too long, without a last report and with the reset at once.
\* The release, when it comes, changes nothing any more.
ForceStop ==
    /\ held
    /\ held' = FALSE
    /\ ForgetUnhandled
    /\ UNCHANGED <<press, duration, resets, queue, counts, failed>>

(***************************************************************************)
(* handle_input_event.                                                     *)
(***************************************************************************)
Throttled(a, i, m, d) == m.last[i] > 0 /\ d - m.last[i] < a.repeat

\* Whether execute_actions is called at all.
Pending(m, d) ==
    \E i \in Indices :
        LET a == Actions[i]
        IN  \/ a.repeat > 0 /\ ~Throttled(a, i, m, d)
            \/ /\ a.repeat = 0 /\ i \notin m.done
               /\ a.min > 0 \/ m.done = {}

\* Whether execute_actions executes an action: one with a threshold is not throttled.
Executes(i, m, d) ==
    LET a == Actions[i]
    IN  /\ i \in m.done => a.repeat > 0
        /\ IF a.min > 0 THEN d >= a.min ELSE a.repeat > 0 => ~Throttled(a, i, m, d)

\* Fault for the runs: an exception ends the bus's worker.
HandleUntilOneRaises ==
    /\ failed = {}
    /\ ~worker.busy /\ queue # <<>>
    /\ queue' = Tail(queue)
    /\ worker' = IF Pending(memo, Head(queue).duration)
                 THEN [busy |-> TRUE, event |-> Head(queue), next |-> 1,
                       waits |-> FALSE, shared |-> TRUE, memo |-> memo]
                 ELSE worker
    /\ UNCHANGED <<held, press, duration, resets, memo, counts, late, failed>>

Handle ==
    /\ ~worker.busy /\ queue # <<>>
    /\ queue' = Tail(queue)
    /\ worker' = IF Pending(memo, Head(queue).duration)
                 THEN [busy |-> TRUE, event |-> Head(queue), next |-> 1,
                       waits |-> FALSE, shared |-> TRUE, memo |-> memo]
                 ELSE worker
    /\ UNCHANGED <<held, press, duration, resets, memo, counts, late, failed>>

HandlerUnchanged == UNCHANGED <<held, press, duration, resets, queue, late>>

Count(i) == counts' = [counts EXCEPT ![worker.event.press][i] = @ + 1]

\* The handler looks at its next action; a message is sent at once and not remembered.
Execute ==
    /\ worker.busy /\ ~worker.waits /\ worker.next \in Indices
    /\ LET i == worker.next
           due == Executes(i, worker.memo, worker.event.duration)
       IN  /\ IF due THEN Count(i) ELSE UNCHANGED counts
           /\ worker' = IF due /\ ~Actions[i].mqtt THEN [worker EXCEPT !.waits = TRUE]
                                                   ELSE [worker EXCEPT !.next = @ + 1]
    /\ HandlerUnchanged
    /\ UNCHANGED <<memo, failed>>

Marked(m, i, d) ==
    [done |-> m.done \union {i},
     last |-> IF Actions[i].repeat > 0 THEN [m.last EXCEPT ![i] = d] ELSE m.last]

\* The output is switched: the action is remembered, in the detector's record too if that
\* is still the same.
Executed ==
    /\ worker.busy /\ worker.waits
    /\ LET i == worker.next
           marked == Marked(worker.memo, i, worker.event.duration)
       IN  /\ worker' = [worker EXCEPT !.waits = FALSE, !.next = i + 1, !.memo = marked]
           /\ memo' = IF worker.shared THEN marked ELSE memo
    /\ HandlerUnchanged
    /\ UNCHANGED <<counts, failed>>

\* The action raises: the bus logs it, the rest of the event's actions is skipped.
ActionRaises ==
    /\ worker.busy /\ worker.waits
    /\ worker.event.press \notin failed /\ Cardinality(failed) < MaxFaults
    /\ failed' = failed \union {worker.event.press}
    /\ worker' = Idle
    /\ HandlerUnchanged
    /\ UNCHANGED <<memo, counts>>

\* Fault for the runs: what was executed is not put back, and not changed in place.
PutBackNothing ==
    /\ worker.busy /\ worker.next \notin Indices
    /\ memo' = Fresh
    /\ worker' = Idle
    /\ HandlerUnchanged
    /\ UNCHANGED <<counts, failed>>

PutBack ==
    /\ worker.busy /\ worker.next \notin Indices
    /\ memo' = worker.memo
    /\ worker' = Idle
    /\ HandlerUnchanged
    /\ UNCHANGED <<counts, failed>>

Next ==
    \/ LongPress \/ Periodic \/ Release \/ Reset \/ ForceStop
    \/ Handle \/ Execute \/ Executed \/ ActionRaises \/ PutBack

\* The loop runs; outputs answer; a button that is held is released some time.
Spec ==
    /\ Init /\ [][Next]_vars
    /\ WF_vars(Release) /\ WF_vars(Reset)
    /\ WF_vars(Handle) /\ WF_vars(Execute) /\ WF_vars(Executed) /\ WF_vars(PutBack)

(***************************************************************************)
(* Properties.                                                             *)
(***************************************************************************)
TypeOK ==
    /\ held \in BOOLEAN /\ press \in 0 .. MaxPresses /\ resets \in Nat
    /\ memo.done \subseteq Indices /\ memo.last \in [Indices -> 0 .. MaxDuration]
    /\ counts \in [Presses -> [Indices -> Nat]]
    /\ late \subseteq Presses /\ failed \subseteq Presses

\* Whatever actions raise, every report is handled: none holds up those behind it for ever.
ReportsHandled == \A p \in Presses : Unhandled(p) ~> ~Unhandled(p)
=============================================================================
