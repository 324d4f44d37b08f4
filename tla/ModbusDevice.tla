---------------------------- MODULE ModbusDevice ----------------------------
(***************************************************************************)
(* The serial line (Modbus) and one device polled over it                  *)
(* (ModbusCoordinator): commands of clients, the Tools page that suspends  *)
(* the polling, and a device that stops answering and comes back.          *)
(*                                                                         *)
(* Whoever wants the line waits for its lock, which is granted in order;   *)
(* the transaction runs in an executor thread, and its caller goes on with *)
(* the result without an await in between.  A caller that finds the line   *)
(* suspended gets no result, as if the device had not answered.            *)
(*                                                                         *)
(* Registers are read in groups; a sparse group is read every EveryN       *)
(* cycles, one EveryN standing for all sparse groups.  The sleep between   *)
(* cycles may end at any moment (AsyncUpdater cuts it short on request).   *)
(* A written value is its number; decoding, derived entities, discovery    *)
(* payloads and closing the port are left out.                             *)
(***************************************************************************)
EXTENDS Naturals, Sequences

CONSTANTS
    Unknown,      \* the value of an entity that was never read
    Sparse,       \* for each group of registers: whether it has update_every_n
    EveryN,       \* that update_every_n
    MaxWrites,    \* bound on writes
    MaxToggles,   \* bound on the device falling silent and answering again
    MaxSuspends,  \* bound on suspensions
    MaxSwitches,  \* bound on polling being switched on and off
    MaxOnlines    \* bound on Home Assistant coming online

Groups == DOMAIN Sparse

ASSUME ModbusAssumption ==
    /\ Sparse \in Seq(BOOLEAN) /\ Sparse # <<>> /\ EveryN \in Nat \ {0, 1} /\ Unknown \notin Nat
    /\ {MaxWrites, MaxToggles, MaxSuspends, MaxSwitches, MaxOnlines} \subseteq Nat

VARIABLES
    \* The device and the line.
    register,   \* the registers' values in the device
    answers,    \* the device answers
    line,       \* the requests for the line: the first has the lock
    suspended,  \* _suspended
    \* The coordinator.
    known,      \* the entities' values, as published
    status,     \* _payload_online, and _discovery_sent
    failed,     \* _failed_groups
    cycle,      \* _update_cycle_count, modulo EveryN
    updating,   \* async_update is under way
    polling,    \* _polling_enabled
    slow,       \* the update interval is ten minutes or more
    writes, toggles, suspends, switches, onlines

device == <<register, answers>>
counters == <<writes, toggles, suspends, switches, onlines>>
vars == <<device, line, suspended, known, status, failed, cycle, updating, polling, slow, counters>>

Request(kind, g, v) == [kind |-> kind, group |-> g, value |-> v, done |-> FALSE]

Init ==
    /\ register = [g \in Groups |-> 0]
    /\ answers \in BOOLEAN
    /\ line = <<>>
    /\ suspended = FALSE
    /\ known = [g \in Groups |-> Unknown]
    /\ status = [online |-> FALSE, discovered |-> FALSE] /\ failed = {}
    /\ cycle = 0
    /\ updating = FALSE
    /\ polling = TRUE
    /\ slow \in BOOLEAN
    /\ writes = 0 /\ toggles = 0 /\ suspends = 0 /\ switches = 0 /\ onlines = 0

(***************************************************************************)
(* The line.                                                               *)
(***************************************************************************)
\* What the executor thread of a request comes back with.
Transacted(r) ==
    IF r.kind \in {"write", "tool"} THEN [r EXCEPT !.done = TRUE]
    ELSE [r EXCEPT !.done = TRUE, !.value = IF answers THEN register[r.group] ELSE Unknown]

Perform(i) ==
    /\ ~line[i].done
    /\ line' = [line EXCEPT ![i] = Transacted(line[i])]
    /\ register' = IF answers /\ line[i].kind \in {"write", "tool"}
                   THEN [register EXCEPT ![line[i].group] = line[i].value]
                   ELSE register
    /\ UNCHANGED <<answers, suspended, known, status, failed, cycle, updating, polling, slow, counters>>

\* Fault for the runs: nobody waits for the lock.
TransactUnlocked == \E i \in DOMAIN line : Perform(i)

Transact == line # <<>> /\ Perform(1)

(***************************************************************************)
(* async_update: the groups that are due are read one after the other.     *)
(***************************************************************************)
\* Fault for the runs: the remainder of the count is compared with a number it never has, so that
\* a sparse group is only read after a failed read.
DueNever(g, c, f) == Sparse[g] => g \in f

\* A sparse group is read in one cycle of EveryN, and after a read that failed.
Due(g, c, f) == Sparse[g] => c = 1 \/ g \in f

\* The groups after one that are due, up to the first that ends the update if it fails.
DueAfter(g, c, f) == {h \in Groups : h > g /\ Due(h, c, f)}
First(S) == CHOOSE g \in S : \A h \in S : g <= h
Mains(S) == {g \in S : ~Sparse[g]}

\* Fault for the runs: the device is not set offline.
AfterFailureOnline(h) == [h EXCEPT !.discovered = FALSE]

\* A main group gave nothing.  The longer interval that the update returns is forgotten by the
\* next one, so that only a device whose own interval is long is ever called offline.
AfterFailure(h) == IF slow THEN [online |-> FALSE, discovered |-> FALSE] ELSE h

\* The rest of the update after group g: the next read asks for the line; or, if that is
\* suspended, it gets nothing, and so do those behind it, until a main group ends the update.
GoOn(g, c, f, h, rest) ==
    LET due == DueAfter(g, c, f)
        tried == IF Mains(due) = {} THEN due ELSE {d \in due : d <= First(Mains(due))}
        ends == due = {} \/ suspended
    IN  /\ updating' = ~ends
        /\ line' = IF ends THEN rest ELSE Append(rest, Request("read", First(due), Unknown))
        /\ failed' = IF suspended THEN f \union tried ELSE f
        /\ status' = IF suspended /\ Mains(due) # {} THEN AfterFailure(h) ELSE h

Cycle == cycle' = (cycle + 1) % EveryN

\* The sleep has ended: what is known of the device is discovered anew after an hour, else the
\* groups are read.
Check ==
    /\ ~updating /\ polling /\ ~suspended
    /\ updating' = TRUE
    /\ status' = [status EXCEPT !.discovered = FALSE]
    /\ line' = Append(line, Request("check", 1, Unknown))
    /\ UNCHANGED <<device, suspended, known, failed, cycle, polling, slow, counters>>

Update ==
    /\ ~updating /\ polling /\ ~suspended
    /\ status.discovered
    /\ Cycle
    /\ GoOn(0, cycle', failed, status, line)
    /\ UNCHANGED <<device, suspended, known, polling, slow, counters>>

Answered(kind) == line # <<>> /\ Head(line).done /\ Head(line).kind = kind

Checked ==
    /\ Answered("check")
    /\ Cycle
    /\ GoOn(0, cycle', failed, [status EXCEPT !.discovered = Head(line).value # Unknown], Tail(line))
    /\ UNCHANGED <<device, suspended, known, polling, slow, counters>>

\* A device that was offline is discovered, and its sparse groups are read in this cycle.
GroupRead ==
    /\ Answered("read") /\ Head(line).value # Unknown
    /\ LET g == Head(line).group
           back == ~status.online
           h == [online |-> TRUE, discovered |-> back \/ status.discovered]
           f == failed \union (IF back THEN Groups \ Mains(Groups) ELSE {})
       IN  /\ known' = [known EXCEPT ![g] = Head(line).value]
           /\ GoOn(g, cycle, f \ {g}, h, Tail(line))
    /\ UNCHANGED <<device, suspended, cycle, polling, slow, counters>>

GroupFailed ==
    /\ Answered("read") /\ Head(line).value = Unknown
    /\ LET g == Head(line).group
       IN  IF Sparse[g] THEN GoOn(g, cycle, failed \union {g}, status, Tail(line))
           ELSE /\ updating' = FALSE
                /\ line' = Tail(line)
                /\ failed' = failed \union {g}
                /\ status' = AfterFailure(status)
    /\ UNCHANGED <<device, suspended, known, cycle, polling, slow, counters>>

(***************************************************************************)
(* Commands, which do not look at what the device answers, and the Tools.  *)
(***************************************************************************)
Write(g) ==
    /\ writes < MaxWrites
    /\ writes' = writes + 1
    /\ IF suspended THEN known' = [known EXCEPT ![g] = writes'] /\ UNCHANGED line
       ELSE line' = Append(line, Request("write", g, writes')) /\ UNCHANGED known
    /\ UNCHANGED <<device, suspended, status, failed, cycle, updating, polling, slow,
                   toggles, suspends, switches, onlines>>

Written ==
    /\ Answered("write")
    /\ known' = [known EXCEPT ![Head(line).group] = Head(line).value]
    /\ line' = Tail(line)
    /\ UNCHANGED <<device, suspended, status, failed, cycle, updating, polling, slow, counters>>

\* A write of the Tools page suspends the polling first.
ToolWrite(g) ==
    /\ writes < MaxWrites /\ suspends < MaxSuspends
    /\ writes' = writes + 1 /\ suspends' = suspends + 1
    /\ suspended' = TRUE
    /\ line' = Append(line, Request("tool", g, writes'))
    /\ UNCHANGED <<device, known, status, failed, cycle, updating, polling, slow, toggles,
                   switches, onlines>>

ToolWritten ==
    /\ Answered("tool")
    /\ line' = Tail(line)
    /\ UNCHANGED <<device, suspended, known, status, failed, cycle, updating, polling, slow, counters>>

\* By the Tools page, or by the timer that suspend starts.
Resume ==
    /\ suspended
    /\ suspended' = FALSE
    /\ UNCHANGED <<device, line, known, status, failed, cycle, updating, polling, slow, counters>>

SwitchPolling ==
    /\ switches < MaxSwitches
    /\ switches' = switches + 1
    /\ polling' = ~polling
    /\ UNCHANGED <<device, line, suspended, known, status, failed, cycle, updating, slow,
                   writes, toggles, suspends, onlines>>

\* set_payload_offline, called by the bus when Home Assistant comes online: the next group
\* that is read publishes the status anew.
HAOnline ==
    /\ onlines < MaxOnlines
    /\ onlines' = onlines + 1
    /\ status' = [status EXCEPT !.online = FALSE]
    /\ UNCHANGED <<device, line, suspended, known, failed, cycle, updating, polling, slow,
                   writes, toggles, suspends, switches>>

Toggle ==
    /\ toggles < MaxToggles
    /\ toggles' = toggles + 1
    /\ answers' = ~answers
    /\ UNCHANGED <<register, line, suspended, known, status, failed, cycle, updating, polling,
                   slow, writes, suspends, switches, onlines>>

Next ==
    \/ Check \/ Update \/ Checked \/ GroupRead \/ GroupFailed
    \/ Transact \/ Written \/ ToolWritten
    \/ \E g \in Groups : Write(g) \/ ToolWrite(g)
    \/ Resume \/ SwitchPolling \/ HAOnline \/ Toggle

\* Sleeps end, the timer resumes the polling, transactions come back, the loop goes on.
Spec ==
    /\ Init /\ [][Next]_vars
    /\ WF_vars(Check \/ Update)
    /\ WF_vars(Transact)
    /\ WF_vars(Checked \/ GroupRead \/ GroupFailed \/ Written \/ ToolWritten)
    /\ WF_vars(Resume)

(***************************************************************************)
(* Properties.                                                             *)
(***************************************************************************)
Values == 0 .. MaxWrites \union {Unknown}
Requests == [kind : {"check", "read", "write", "tool"}, group : Groups,
             value : Values, done : BOOLEAN]
Statuses == [online : BOOLEAN, discovered : BOOLEAN]

TypeOK ==
    /\ register \in [Groups -> Values] /\ known \in [Groups -> Values]
    /\ line \in Seq(Requests)
    /\ status \in Statuses
    /\ failed \subseteq Groups /\ cycle \in 0 .. EveryN - 1
    /\ {answers, suspended, updating, polling, slow} \subseteq BOOLEAN
    /\ writes \in 0 .. MaxWrites

\* What the coordinator is about to publish of a read is what the device holds: no write slips
\* in between the transaction and its publication, whoever waits for the line.
ReadsAreFresh ==
    (Answered("read") /\ Head(line).value # Unknown) => Head(line).value = register[Head(line).group]

\* A device that answers is known as it is in the end, in every group: writes that were lost
\* in a suspension or in a silence, and those of the Tools page, are found by the polling.
ValuesSettle == <>[](answers /\ polling => known = register)

\* In the end the status is online if the device answers, and offline if it does not and its
\* interval is long.
StatusSettles == <>[](polling => IF answers THEN status.online ELSE slow => ~status.online)
=============================================================================

