----------------------------- MODULE StateStore -----------------------------
(***************************************************************************)
(* The state manager (core/state/manager.py): attributes kept in a         *)
(* dictionary, written to a file one second after the last change.  The    *)
(* event loop changes the dictionary while an executor thread serialises   *)
(* it; the file is replaced at once by a complete one; the process may be  *)
(* stopped at any moment.  Implements DurableStore.                        *)
(*                                                                         *)
(* An attribute is a record: whether it is in the dictionary, and as       *)
(* history the number of its value.  Its value and type, the delay and the *)
(* backup of a damaged file are left out.                                  *)
(***************************************************************************)
EXTENDS Naturals, FiniteSets

CONSTANTS
    Keys,       \* attributes
    Writers,    \* executor threads
    MaxChanges, \* bound on the number of a value
    MaxFaults   \* bound on failed writes and stops of the process

ASSUME StateStoreAssumption ==
    /\ IsFiniteSet(Writers)
    /\ MaxChanges \in Nat /\ MaxFaults \in Nat

VARIABLES
    state,  \* _state
    armed,  \* _save_attributes_callback is scheduled
    tasks,  \* save_state tasks that have not run yet
    locked, \* _lock
    pc,     \* where each executor thread is in _save_state
    todo,   \* the keys a thread has still to serialise
    keys,   \* the keys there were when it began
    copy,   \* what it has serialised: the contents of the temporary file
    disk,   \* the file
    faults, gaveUp \* history: a change was left without a save to come

threads == <<pc, todo, keys, copy>>
vars == <<state, armed, tasks, locked, threads, disk, faults, gaveUp>>

Entry == [there : BOOLEAN, number : Nat]
Store == [Keys -> Entry]
KeysOf(s) == {k \in Keys : s[k].there}
Empty == [k \in Keys |-> [there |-> FALSE, number |-> 0]]

Init ==
    /\ disk = Empty
    /\ state = disk
    /\ armed = FALSE /\ tasks = 0 /\ locked = FALSE
    /\ pc = [w \in Writers |-> "free"]
    /\ todo = [w \in Writers |-> {}]
    /\ keys = [w \in Writers |-> {}]
    /\ copy = [w \in Writers |-> Empty]
    /\ faults = 0 /\ gaveUp = FALSE

(***************************************************************************)
(* The event loop.                                                         *)
(***************************************************************************)
\* Fault for the runs: the timer is cancelled and not scheduled again.
SaveAttributeOnce(k) ==
    /\ state[k].number < MaxChanges
    /\ state' = [state EXCEPT ![k] = [there |-> TRUE, number |-> @.number + 1]]
    /\ armed' = ~armed
    /\ gaveUp' = FALSE
    /\ UNCHANGED <<tasks, locked, threads, disk, faults>>

\* save_attribute cancels the scheduled save and schedules another.
SaveAttribute(k) ==
    /\ state[k].number < MaxChanges
    /\ state' = [state EXCEPT ![k] = [there |-> TRUE, number |-> @.number + 1]]
    /\ armed' = TRUE
    /\ gaveUp' = FALSE
    /\ UNCHANGED <<tasks, locked, threads, disk, faults>>

\* A deletion reaches the disk with the next save; it does not schedule one.
DelAttribute(k) ==
    /\ state[k].there /\ state[k].number < MaxChanges
    /\ state' = [state EXCEPT ![k] = [there |-> FALSE, number |-> @.number + 1]]
    /\ gaveUp' = (gaveUp \/ (~armed /\ tasks = 0))
    /\ UNCHANGED <<armed, tasks, locked, threads, disk, faults>>

SaveTimer ==
    /\ armed
    /\ armed' = FALSE
    /\ tasks' = tasks + 1
    /\ UNCHANGED <<state, locked, threads, disk, faults, gaveUp>>

GivesUp == gaveUp' = (gaveUp \/ (~armed /\ tasks' = 0))

Submit(w) ==
    /\ pc[w] = "free"
    /\ pc' = [pc EXCEPT ![w] = "queued"]

\* Fault for the runs: the lock is not looked at.
SaveStateUnlocked(w) ==
    /\ tasks > 0
    /\ tasks' = tasks - 1
    /\ locked' = TRUE
    /\ Submit(w)
    /\ UNCHANGED <<state, armed, todo, keys, copy, disk, faults, gaveUp>>

\* While another save is under way this one is dropped, not delayed.
SaveState(w) ==
    /\ tasks > 0
    /\ tasks' = tasks - 1
    /\ \/ /\ ~locked
          /\ locked' = TRUE
          /\ Submit(w)
          /\ UNCHANGED <<todo, keys, copy, gaveUp>>
       \/ /\ locked
          /\ GivesUp
          /\ UNCHANGED <<locked, threads>>
    /\ UNCHANGED <<state, armed, disk, faults>>

\* Back in the loop after the executor is done.
Unlock(w) ==
    /\ pc[w] = "done"
    /\ pc' = [pc EXCEPT ![w] = "free"]
    /\ locked' = FALSE
    /\ UNCHANGED <<state, armed, tasks, todo, keys, copy, disk, faults, gaveUp>>

(***************************************************************************)
(* _save_state in an executor thread.                                      *)
(***************************************************************************)
LoopUnchanged == UNCHANGED <<state, armed, tasks, locked>>

Open(w) ==
    /\ pc[w] = "queued"
    /\ pc' = [pc EXCEPT ![w] = "dumping"]
    /\ todo' = [todo EXCEPT ![w] = KeysOf(state)]
    /\ keys' = [keys EXCEPT ![w] = KeysOf(state)]
    /\ copy' = [copy EXCEPT ![w] = state]
    /\ LoopUnchanged
    /\ UNCHANGED <<disk, faults, gaveUp>>

\* json.dump reads the dictionary the loop goes on changing, key by key.
Dump(w, k) ==
    /\ pc[w] = "dumping" /\ k \in todo[w]
    /\ KeysOf(state) = keys[w]
    /\ todo' = [todo EXCEPT ![w] = @ \ {k}]
    /\ copy' = [copy EXCEPT ![w] = [@ EXCEPT ![k] = state[k]]]
    /\ LoopUnchanged
    /\ UNCHANGED <<pc, keys, disk, faults, gaveUp>>

Finish(w) ==
    /\ pc' = [pc EXCEPT ![w] = "done"]
    /\ todo' = [todo EXCEPT ![w] = {}]
    /\ keys' = [keys EXCEPT ![w] = {}]
    /\ copy' = [copy EXCEPT ![w] = Empty]
    /\ LoopUnchanged

\* A key came or went meanwhile: the iteration raises, nothing is written.
DumpRaises(w) ==
    /\ pc[w] = "dumping" /\ todo[w] # {}
    /\ KeysOf(state) # keys[w]
    /\ Finish(w)
    /\ GivesUp
    /\ UNCHANGED <<disk, faults>>

\* Fault for the runs: the file is written in place, and is there half written.
ReplaceInPlace(w) ==
    /\ pc[w] = "dumping"
    /\ disk' = [k \in Keys |-> IF k \in todo[w] THEN Empty[k] ELSE copy[w][k]]
    /\ Finish(w)
    /\ UNCHANGED <<faults, gaveUp>>

\* The temporary file is complete and on the disk: it takes the place of the file.
Replace(w) ==
    /\ pc[w] = "dumping" /\ todo[w] = {}
    /\ disk' = copy[w]
    /\ Finish(w)
    /\ UNCHANGED <<faults, gaveUp>>

\* The disk is full or fails; the temporary file is removed.
WriteFails(w) ==
    /\ pc[w] \in {"queued", "dumping"}
    /\ faults < MaxFaults
    /\ faults' = faults + 1
    /\ Finish(w)
    /\ GivesUp
    /\ UNCHANGED disk

(***************************************************************************)
(* The process stops, in any way, and starts again: load_states.           *)
(***************************************************************************)
Stopped ==
    /\ faults < MaxFaults
    /\ faults' = faults + 1
    /\ armed' = FALSE /\ tasks' = 0 /\ locked' = FALSE
    /\ pc' = [w \in Writers |-> "free"]
    /\ todo' = [w \in Writers |-> {}]
    /\ keys' = [w \in Writers |-> {}]
    /\ copy' = [w \in Writers |-> Empty]

Restart ==
    /\ Stopped
    /\ state' = disk
    /\ gaveUp' = FALSE
    /\ UNCHANGED disk

\* Every attribute is gone, which counts as its deletion.
AllGone == [k \in Keys |-> [there |-> FALSE, number |-> disk[k].number + 1]]

\* The file cannot be read, and stays as it is until the next save; or it was damaged from
\* outside, and is reset.
RestartEmpty ==
    /\ Stopped
    /\ state' = AllGone
    /\ disk' \in {disk, AllGone}
    /\ gaveUp' = (disk' # state')

WriterStep(w) ==
    \/ Unlock(w) \/ Open(w) \/ DumpRaises(w) \/ Replace(w)
    \/ \E k \in Keys : Dump(w, k)

Next ==
    \/ \E k \in Keys : SaveAttribute(k) \/ DelAttribute(k)
    \/ SaveTimer
    \/ \E w \in Writers : SaveState(w) \/ WriterStep(w) \/ WriteFails(w)
    \/ Restart \/ RestartEmpty

\* The loop and its timer run, and a thread that was given work does it.
Fairness ==
    /\ WF_vars(SaveTimer)
    /\ WF_vars(\E w \in Writers : SaveState(w))
    /\ \A w \in Writers : WF_vars(WriterStep(w))

Spec == Init /\ [][Next]_vars /\ Fairness

(***************************************************************************)
(* Properties.                                                             *)
(***************************************************************************)
TypeOK ==
    /\ state \in Store /\ disk \in Store
    /\ armed \in BOOLEAN /\ tasks \in Nat /\ locked \in BOOLEAN
    /\ pc \in [Writers -> {"free", "queued", "dumping", "done"}]
    /\ todo \in [Writers -> SUBSET Keys] /\ keys \in [Writers -> SUBSET Keys]
    /\ copy \in [Writers -> Store]

\* One thread writes at a time, and only under the lock.
OneWriter ==
    /\ \A w \in Writers : pc[w] # "free" => locked
    /\ \A v, w \in Writers : pc[v] # "free" /\ pc[w] # "free" => v = w

\* What a thread has serialised lies between the file and the memory, for each attribute.
CopyBetween ==
    \A w \in Writers : pc[w] = "dumping" =>
        \A k \in Keys : /\ disk[k].number <= copy[w][k].number
                        /\ copy[w][k].number <= state[k].number

DiskBehind == \A k \in Keys : disk[k].number <= state[k].number

IInv == TypeOK /\ OneWriter /\ CopyBetween /\ DiskBehind

\* The state manager keeps its promise: whatever the interleaving of changes, saves, threads,
\* failures and stops, the file never goes back to an older value of an attribute and a
\* restart goes on from the file.
Promise ==
    INSTANCE DurableStore WITH state <- [k \in Keys |-> state[k].number],
                               disk  <- [k \in Keys |-> disk[k].number]
Implements == Promise!Spec

\* A change reaches the disk once changes stop, even if saves were dropped or failed before
\* it, unless the last save itself was dropped, failed, or never scheduled (a deletion, or a
\* start without the file).
ChangesReachDisk == <>[](gaveUp \/ disk = state)
=============================================================================
