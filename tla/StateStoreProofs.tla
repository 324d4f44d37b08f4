-------------------------- MODULE StateStoreProofs --------------------------
(***************************************************************************)
(* The state manager implements DurableStore, for any attributes, threads  *)
(* and bounds.  The inductive invariant says that one thread writes at a   *)
(* time, and that what it has serialised lies, attribute by attribute,     *)
(* between the file and the memory.                                        *)
(***************************************************************************)
EXTENDS StateStore, TLAPS

USE StateStoreAssumption DEF Store, Entry, Empty, KeysOf

LEMMA EmptyStore == Empty \in Store
  OBVIOUS

LEMMA InitIInv == Init => IInv
<1> SUFFICES ASSUME Init PROVE IInv
  OBVIOUS
<1> USE DEF Init
<1>1. TypeOK
  <2> HIDE DEF Store, Empty, Entry
  <2> QED
    BY EmptyStore DEF TypeOK
<1>2. OneWriter /\ CopyBetween /\ DiskBehind
  BY DEF OneWriter, CopyBetween, DiskBehind
<1> QED
  BY <1>1, <1>2 DEF IInv

LEMMA SaveAttributeIInv ==
  ASSUME IInv, NEW k \in Keys, SaveAttribute(k) PROVE IInv'
<1> USE DEF SaveAttribute, threads, IInv
<1>1. TypeOK'
  BY DEF TypeOK
<1>2. OneWriter'
  BY DEF OneWriter, TypeOK
<1>3. \A j \in Keys : state[j].number <= state'[j].number
  BY DEF TypeOK
<1>4. CopyBetween'
  BY <1>3 DEF CopyBetween, TypeOK
<1>5. DiskBehind'
  BY <1>3 DEF DiskBehind, TypeOK
<1> QED
  BY <1>1, <1>2, <1>4, <1>5

LEMMA DelAttributeIInv ==
  ASSUME IInv, NEW k \in Keys, DelAttribute(k) PROVE IInv'
<1> USE DEF DelAttribute, threads, IInv
<1>1. TypeOK'
  BY DEF TypeOK
<1>2. OneWriter'
  BY DEF OneWriter, TypeOK
<1>3. \A j \in Keys : state[j].number <= state'[j].number
  BY DEF TypeOK
<1>4. CopyBetween'
  BY <1>3 DEF CopyBetween, TypeOK
<1>5. DiskBehind'
  BY <1>3 DEF DiskBehind, TypeOK
<1> QED
  BY <1>1, <1>2, <1>4, <1>5

LEMMA SaveTimerIInv == IInv /\ SaveTimer => IInv'
<1> SUFFICES ASSUME IInv, SaveTimer PROVE IInv'
  OBVIOUS
<1> USE DEF SaveTimer, threads, IInv
<1>1. TypeOK'
  <2>1. armed' \in BOOLEAN
    OBVIOUS
  <2>3. tasks' \in Nat
    <3> HIDE DEF Store, Entry
    <3>1. tasks \in Nat
      BY DEF TypeOK
    <3>2. tasks' = tasks + 1
      BY Zenon
    <3> HIDE DEF IInv, SaveTimer
    <3> QED
      BY <3>1, <3>2
  <2>2. UNCHANGED <<state, disk, locked, pc, todo, keys, copy>>
    OBVIOUS
  <2> HIDE DEF Store, Entry, SaveTimer
  <2> QED
    BY <2>1, <2>2, <2>3 DEF TypeOK
<1>2. OneWriter' /\ CopyBetween' /\ DiskBehind'
  BY DEF OneWriter, CopyBetween, DiskBehind
<1> QED
  BY <1>1, <1>2

LEMMA SaveStateIInv ==
  ASSUME IInv, NEW w \in Writers, SaveState(w) PROVE IInv'
<1> USE DEF IInv, threads
<1>2. CASE SaveState(w) /\ ~locked
  <2> USE <1>2 DEF SaveState, Submit
  <2>1. TypeOK'
    <3> HIDE DEF Store, Entry
    <3>1. tasks' \in Nat
      BY DEF TypeOK
    <3> QED
      BY <3>1 DEF TypeOK
  <2>2. \A v \in Writers : pc[v] = "free"
    BY DEF OneWriter, TypeOK
  <2>3. OneWriter' /\ CopyBetween' /\ DiskBehind'
    BY <2>2 DEF TypeOK, OneWriter, CopyBetween, DiskBehind
  <2> QED
    BY <2>1, <2>3
<1>3. CASE SaveState(w) /\ locked
  BY <1>3 DEF SaveState, GivesUp, TypeOK, OneWriter, CopyBetween, DiskBehind
<1> QED
  BY <1>2, <1>3

LEMMA FinishIInv ==
  ASSUME IInv, NEW w \in Writers, pc[w] # "free", Finish(w),
         disk' \in Store,
         \A k \in Keys : disk'[k].number <= state[k].number
  PROVE  IInv'
<1> USE DEF Finish, LoopUnchanged, IInv
<1>1. TypeOK'
  BY DEF TypeOK
<1>2. OneWriter'
  BY DEF OneWriter, TypeOK
<1>3. \A v \in Writers : pc'[v] # "dumping"
  BY DEF OneWriter, TypeOK
<1>4. CopyBetween' /\ DiskBehind'
  BY <1>3 DEF CopyBetween, DiskBehind, TypeOK
<1> QED
  BY <1>1, <1>2, <1>4

LEMMA WriterIInv ==
  ASSUME IInv, NEW w \in Writers, WriterStep(w) \/ WriteFails(w) PROVE IInv'
<1> USE DEF IInv
<1>1. CASE Unlock(w)
  <2>1. \A v \in Writers : pc'[v] = "free"
    BY <1>1 DEF Unlock, OneWriter, TypeOK
  <2> QED
    BY <1>1, <2>1 DEF Unlock, TypeOK, OneWriter, CopyBetween, DiskBehind
<1>2. CASE Open(w)
  <2> USE <1>2 DEF Open, LoopUnchanged
  <2>1. TypeOK'
    BY DEF TypeOK
  <2>2. OneWriter' /\ DiskBehind'
    BY DEF TypeOK, OneWriter, DiskBehind
  <2>3. CopyBetween'
    BY DEF TypeOK, CopyBetween, DiskBehind
  <2> QED
    BY <2>1, <2>2, <2>3
<1>3. CASE DumpRaises(w)
  BY <1>3, FinishIInv DEF DumpRaises, TypeOK, DiskBehind
<1>4. CASE WriteFails(w)
  BY <1>4, FinishIInv DEF WriteFails, TypeOK, DiskBehind
<1>5. CASE Replace(w)
  <2>1. disk' \in Store /\ \A k \in Keys : disk'[k].number <= state[k].number
    BY <1>5 DEF Replace, TypeOK, CopyBetween
  <2> QED
    BY <1>5, <2>1, FinishIInv DEF Replace
<1>6. ASSUME NEW k \in Keys, Dump(w, k) PROVE IInv'
  <2> USE <1>6 DEF Dump, LoopUnchanged
  <2>1. TypeOK'
    BY DEF TypeOK
  <2>2. OneWriter' /\ DiskBehind'
    BY DEF TypeOK, OneWriter, DiskBehind
  <2>3. CopyBetween'
    BY DEF TypeOK, CopyBetween, DiskBehind
  <2> QED
    BY <2>1, <2>2, <2>3
<1> QED
  BY <1>1, <1>2, <1>3, <1>4, <1>5, <1>6 DEF WriterStep

LEMMA RestartIInv == IInv /\ Restart => IInv'
<1> SUFFICES ASSUME IInv, Restart PROVE IInv'
  OBVIOUS
<1> USE DEF Restart, Stopped, IInv
<1>1. TypeOK'
  <2> HIDE DEF Store, Entry, Empty
  <2> QED
    BY EmptyStore DEF TypeOK
<1>2. OneWriter' /\ CopyBetween'
  BY DEF OneWriter, CopyBetween
<1>3. DiskBehind'
  BY DEF DiskBehind, TypeOK
<1> QED
  BY <1>1, <1>2, <1>3

LEMMA RestartEmptyIInv == IInv /\ RestartEmpty => IInv'
<1> SUFFICES ASSUME IInv, RestartEmpty PROVE IInv'
  OBVIOUS
<1> USE DEF RestartEmpty, Stopped, IInv
<1>1. AllGone \in Store /\ state' = AllGone /\ disk' \in {disk, AllGone}
  BY DEF AllGone, TypeOK
<1>2. TypeOK'
  <2> HIDE DEF Store, Entry, Empty
  <2> QED
    BY <1>1, EmptyStore DEF TypeOK
<1>3. OneWriter' /\ CopyBetween'
  BY DEF OneWriter, CopyBetween
<1>4. \A k \in Keys : disk[k].number <= AllGone[k].number
  BY DEF AllGone, TypeOK
<1>5. DiskBehind'
  BY <1>1, <1>4 DEF DiskBehind
<1> QED
  BY <1>2, <1>3, <1>5

LEMMA NextIInv == IInv /\ [Next]_vars => IInv'
<1> SUFFICES ASSUME IInv, [Next]_vars PROVE IInv'
  OBVIOUS
<1>1. CASE UNCHANGED vars
  BY <1>1 DEF vars, threads, IInv, TypeOK, OneWriter, CopyBetween, DiskBehind
<1>2. ASSUME NEW k \in Keys, SaveAttribute(k) \/ DelAttribute(k) PROVE IInv'
  BY <1>2, SaveAttributeIInv, DelAttributeIInv
<1>3. ASSUME NEW w \in Writers, SaveState(w) \/ WriterStep(w) \/ WriteFails(w) PROVE IInv'
  BY <1>3, SaveStateIInv, WriterIInv
<1> QED
  BY <1>1, <1>2, <1>3, SaveTimerIInv, RestartIInv, RestartEmptyIInv DEF Next

(***************************************************************************)
(* One thread writes at a time; its copy lies between file and memory.     *)
(***************************************************************************)
THEOREM Invariance == Spec => []IInv
<1> QED
  BY InitIInv, NextIInv, PTL DEF Spec

(***************************************************************************)
(* The refinement: SaveAttribute and DelAttribute are changes, Replace is  *)
(* where attributes reach the disk, Restart is a restart, RestartEmpty     *)
(* a loss, and every other step changes nothing DurableStore speaks of.    *)
(***************************************************************************)
Steps == [Promise!Next]_(Promise!vars)

LEMMA InitImplements == Init => Promise!Init
  BY DEF Init, Promise!Init

LEMMA ChangeImplements ==
  ASSUME IInv, NEW k \in Keys, SaveAttribute(k) \/ DelAttribute(k) PROVE Promise!Change
<1>1. state'[k].number = state[k].number + 1 /\ disk' = disk
  BY DEF SaveAttribute, DelAttribute, IInv, TypeOK
<1>2. \A j \in Keys \ {k} : state'[j] = state[j]
  BY DEF SaveAttribute, DelAttribute, IInv, TypeOK
<1> QED
  BY <1>1, <1>2 DEF Promise!Change

LEMMA StutterImplements == UNCHANGED <<state, disk>> => Steps
  BY DEF Steps, Promise!vars

LEMMA ReplaceImplements ==
  ASSUME IInv, NEW w \in Writers, Replace(w) PROVE Promise!Persist
<1>1. state' = state /\ disk' = copy[w]
  BY DEF Replace, Finish, LoopUnchanged
<1>2. [k \in Keys |-> disk'[k].number] \in [Keys -> Nat]
  BY <1>1 DEF IInv, TypeOK
<1>3. \A k \in Keys : disk[k].number <= disk'[k].number /\ disk'[k].number <= state[k].number
  BY <1>1 DEF Replace, IInv, CopyBetween
<1> QED
  BY <1>1, <1>2, <1>3 DEF Promise!Persist

LEMMA RestartEmptyImplements == RestartEmpty => Promise!Lose
<1> SUFFICES ASSUME RestartEmpty PROVE Promise!Lose
  OBVIOUS
<1>1. \A k \in Keys : AllGone[k].number = disk[k].number + 1
  BY DEF AllGone
<1>2. state' = AllGone /\ disk' \in {disk, AllGone}
  BY DEF RestartEmpty
<1> QED
  BY <1>1, <1>2 DEF Promise!Lose

LEMMA NextImplements == IInv /\ [Next]_vars => Steps
<1> SUFFICES ASSUME IInv, [Next]_vars PROVE Steps
  OBVIOUS
<1>1. CASE UNCHANGED vars
  BY <1>1, StutterImplements DEF vars
<1>2. ASSUME NEW k \in Keys, SaveAttribute(k) \/ DelAttribute(k) PROVE Steps
  BY <1>2, ChangeImplements DEF Steps, Promise!Next
<1>3. CASE SaveTimer
  BY <1>3, StutterImplements DEF SaveTimer
<1>4. ASSUME NEW w \in Writers, SaveState(w) \/ WriterStep(w) \/ WriteFails(w) PROVE Steps
  <2>1. CASE Replace(w)
    BY <2>1, ReplaceImplements DEF Steps, Promise!Next
  <2>2. CASE SaveState(w) \/ Unlock(w) \/ Open(w) \/ DumpRaises(w) \/ WriteFails(w)
    <3>1. UNCHANGED <<state, disk>>
      BY <2>2 DEF SaveState, Unlock, Open, DumpRaises, WriteFails, Finish, LoopUnchanged
    <3> QED
      BY <3>1, StutterImplements
  <2>3. CASE \E k \in Keys : Dump(w, k)
    BY <2>3, StutterImplements DEF Dump, LoopUnchanged
  <2> QED
    BY <1>4, <2>1, <2>2, <2>3 DEF WriterStep
<1>5. CASE Restart
  BY <1>5 DEF Restart, Steps, Promise!Next, Promise!Restart
<1>6. CASE RestartEmpty
  BY <1>6, RestartEmptyImplements DEF Steps, Promise!Next
<1> QED
  BY <1>1, <1>2, <1>3, <1>4, <1>5, <1>6 DEF Next

(***************************************************************************)
(* The state manager keeps its promise.                                    *)
(***************************************************************************)
THEOREM Refinement == Spec => Implements
<1>1. IInv /\ [Next]_vars => [Promise!Next]_(Promise!vars)
  BY NextImplements DEF Steps
<1> QED
  BY <1>1, InitImplements, Invariance, PTL DEF Spec, Implements, Promise!Spec
=============================================================================
