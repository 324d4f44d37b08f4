---------------------------- MODULE LongPresses ----------------------------
(***************************************************************************)
(* The actions configured for the long press of an input, what its presses *)
(* reported and what of it is still to be handled, and how often each      *)
(* action was executed; and how they agree.                                *)
(***************************************************************************)
EXTENDS Naturals, Sequences

CONSTANTS
    Actions,     \* the actions of the long press: a sequence of records
                 \* [min: duration or 0, repeat: interval or 0, mqtt: BOOLEAN]
    MaxPresses   \* bound on the long presses

Indices == DOMAIN Actions

ASSUME LongPressesAssumption ==
    /\ MaxPresses \in Nat
    /\ Actions \in Seq([min : Nat, repeat : Nat, mqtt : BOOLEAN])

VARIABLES
    held,     \* the button is held
    press,    \* history: number of the press
    duration, \* history: of each press, in reports
    resets,   \* reset_executed_actions timers
    queue,    \* the events on their way: the input's lock and the bus, in order
    worker,   \* the handler under way, if any
    counts,   \* history: how often each action was executed for each press
    late,     \* history: presses with reports handled after their reset
    failed    \* history: presses with an action that raised

Presses == 1 .. MaxPresses

Unhandled(p) ==
    \/ \E n \in DOMAIN queue : queue[n].press = p
    \/ worker.busy /\ worker.event.press = p

\* How often an action is to be executed in a press of duration d: once, once it has lasted
\* long enough, or at once and after every interval.
Times(a, d) ==
    IF a.repeat > 0 THEN 1 + ((d - 1) \div a.repeat)
    ELSE IF d >= a.min THEN 1 ELSE 0

Settled(p) == p < press \/ (~held /\ resets = 0)

\* Reports that are all handled before the reset, those of the press before as well, lead to
\* exactly the executions that are configured: no action is executed twice or forgotten
\* because the record of another press was in use.
EachPressActs ==
    \A p \in 1 .. press :
        (Settled(p) /\ ~Unhandled(p) /\ {p, p - 1} \intersect (late \union failed) = {}) =>
            \A i \in Indices :
                ~Actions[i].mqtt => counts[p][i] = Times(Actions[i], duration[p])
=============================================================================
