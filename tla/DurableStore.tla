---------------------------- MODULE DurableStore ----------------------------
(***************************************************************************)
(* What the state manager promises to the entities that keep their states  *)
(* in it: a value is changed in memory at once and reaches the disk later; *)
(* the disk never goes back to an older value of an attribute, and a       *)
(* restart goes on from what is on the disk.  Nothing is promised about    *)
(* different attributes: they may reach the disk at different times.       *)
(*                                                                         *)
(* The values of an attribute are numbered in the order they were given.   *)
(***************************************************************************)
EXTENDS Naturals

CONSTANT Keys

VARIABLES state, disk

vars == <<state, disk>>

Init ==
    /\ disk = [k \in Keys |-> 0]
    /\ state = disk

Change ==
    /\ \E k \in Keys : state' = [state EXCEPT ![k] = @ + 1]
    /\ UNCHANGED disk

\* Some attributes catch up, as far as the memory is or less.
Persist ==
    /\ disk' \in [Keys -> Nat]
    /\ \A k \in Keys : disk[k] <= disk'[k] /\ disk'[k] <= state[k]
    /\ UNCHANGED state

Restart ==
    /\ state' = disk
    /\ UNCHANGED disk

\* A restart that finds nothing goes on as if everything had been deleted.
Lose ==
    /\ state' = [k \in Keys |-> disk[k] + 1]
    /\ disk' \in {disk, state'}

Next == Change \/ Persist \/ Restart \/ Lose

Spec == Init /\ [][Next]_vars
=============================================================================
