------------------------ MODULE ModbusDeviceProofs --------------------------
(***************************************************************************)
(* Theorems about ModbusDevice, for any groups of registers and any number *)
(* of writes, silences, suspensions and requests that wait for the line.   *)
(***************************************************************************)
EXTENDS ModbusDevice, SequenceTheorems, WellFoundedInduction, TLAPS

\* Groups are numbered, so that of any there is a first.
LEMMA FirstIsOne ==
  ASSUME NEW S, S \subseteq Groups, S # {}
  PROVE  First(S) \in S
<1>1. S \subseteq Nat
  BY ModbusAssumption DEF Groups
<1>2. \E g \in S : \A h \in S : ~(<<h, g>> \in OpToRel(<, Nat))
  BY <1>1, NatLessThanWellFounded, WFMin
<1>3. \A g, h \in Nat : h < g => <<h, g>> \in OpToRel(<, Nat)
  BY DEF OpToRel
<1>4. \E g \in S : \A h \in S : g <= h
  <2>1. PICK g \in S : \A h \in S : <<h, g>> \notin OpToRel(<, Nat)
    BY <1>2
  <2>2. ASSUME NEW h \in S PROVE g <= h
    <3>1. ~(h < g)
      BY <1>1, <1>3, <2>1
    <3> QED
      BY <1>1, <3>1
  <2> QED
    BY <2>2
<1> QED
  BY <1>4 DEF First

-----------------------------------------------------------------------------
\* Types.

\* What the rest of an update leaves behind: the requests there were, and perhaps one more.
LEMMA GoOnTyped ==
  ASSUME TypeOK, NEW g \in Nat, NEW c \in 0 .. EveryN - 1, NEW f \in SUBSET Groups,
         NEW h \in Statuses, NEW rest \in Seq(Requests), GoOn(g, c, f, h, rest)
  PROVE  /\ updating' \in BOOLEAN /\ failed' \subseteq Groups /\ status' \in Statuses
         /\ \/ line' = rest
            \/ \E r \in Requests : ~r.done /\ line' = Append(rest, r)
<1> DEFINE due == DueAfter(g, c, f)
           tried == IF Mains(due) = {} THEN due ELSE {d \in due : d <= First(Mains(due))}
           ends == due = {} \/ suspended
<1>1. /\ updating' = ~ends
      /\ line' = IF ends THEN rest ELSE Append(rest, Request("read", First(due), Unknown))
      /\ failed' = IF suspended THEN f \union tried ELSE f
      /\ status' = IF suspended /\ Mains(due) # {} THEN AfterFailure(h) ELSE h
  BY DEF GoOn
<1>2. due \subseteq Groups /\ tried \subseteq Groups
  BY DEF DueAfter
<1> HIDE DEF due, tried
<1>3. due # {} => Request("read", First(due), Unknown) \in Requests
  BY <1>2, FirstIsOne DEF Request, Requests, Values
<1>4. ~Request("read", First(due), Unknown).done
  BY DEF Request
<1>5. AfterFailure(h) \in Statuses
  BY DEF AfterFailure, Statuses
<1> QED
  BY <1>1, <1>2, <1>3, <1>4, <1>5

LEMMA AppendTyped ==
  ASSUME NEW rest \in Seq(Requests),
         line' = rest \/ \E r \in Requests : ~r.done /\ line' = Append(rest, r)
  PROVE  line' \in Seq(Requests)
BY AppendProperties

\* The request whose answer is handled is typed, and so are those behind it.
LEMMA HeadTyped ==
  ASSUME TypeOK, NEW kind, Answered(kind)
  PROVE  /\ Head(line) \in Requests /\ Head(line).group \in Groups
         /\ Head(line).value \in Values
         /\ Tail(line) \in Seq(Requests)
<1>1. Head(line) \in Requests /\ Tail(line) \in Seq(Requests)
  BY HeadTailProperties DEF TypeOK, Answered
<1> QED
  BY <1>1 DEF Requests

LEMMA CycleTyped ==
  ASSUME TypeOK, Cycle
  PROVE  cycle' \in 0 .. EveryN - 1
BY ModbusAssumption DEF TypeOK, Cycle

LEMMA GroupsAreNumbers == Groups \subseteq Nat /\ 0 \in Nat
BY ModbusAssumption DEF Groups

LEMMA UpdateTyped ==
  ASSUME TypeOK, Check \/ Update \/ Checked \/ GroupRead \/ GroupFailed
  PROVE  TypeOK'
<1> USE GroupsAreNumbers
<1>1. ASSUME NEW g \in Nat, NEW f \in SUBSET Groups, NEW h \in Statuses, NEW rest \in Seq(Requests),
             GoOn(g, cycle', f, h, rest), cycle' \in 0 .. EveryN - 1
      PROVE  /\ updating' \in BOOLEAN /\ failed' \subseteq Groups /\ status' \in Statuses
             /\ line' \in Seq(Requests)
  BY <1>1, GoOnTyped, AppendTyped
<1>2. CASE Check
  <2>1. Request("check", 1, Unknown) \in Requests
    BY ModbusAssumption DEF Request, Requests, Values, Groups
  <2>2. line' \in Seq(Requests)
    BY <1>2, <2>1, AppendProperties DEF Check, TypeOK
  <2>3. status' \in Statuses
    BY <1>2 DEF Check, TypeOK, Statuses
  <2> QED
    BY <1>2, <2>2, <2>3 DEF Check, TypeOK, device, counters
<1>3. CASE Update
  <2>1. cycle' \in 0 .. EveryN - 1
    BY <1>3, CycleTyped DEF Update
  <2>2. GoOn(0, cycle', failed, status, line)
    BY <1>3 DEF Update
  <2>3. /\ updating' \in BOOLEAN /\ failed' \subseteq Groups /\ status' \in Statuses
        /\ line' \in Seq(Requests)
    BY <1>1, <2>1, <2>2 DEF TypeOK
  <2> QED
    BY <1>3, <2>1, <2>3 DEF Update, TypeOK, device, counters
<1>4. CASE Checked
  <2> DEFINE h == [status EXCEPT !.discovered = Head(line).value # Unknown]
  <2>1. cycle' \in 0 .. EveryN - 1 /\ GoOn(0, cycle', failed, h, Tail(line))
    BY <1>4, CycleTyped DEF Checked
  <2>2. h \in Statuses /\ Tail(line) \in Seq(Requests)
    BY <1>4, HeadTyped DEF Checked, TypeOK, Statuses
  <2> HIDE DEF h
  <2>3. /\ updating' \in BOOLEAN /\ failed' \subseteq Groups /\ status' \in Statuses
        /\ line' \in Seq(Requests)
    BY <1>1, <2>1, <2>2 DEF TypeOK
  <2> QED
    BY <1>4, <2>1, <2>3 DEF Checked, TypeOK, device, counters
<1>5. CASE GroupRead
  <2> DEFINE g == Head(line).group
             back == ~status.online
             h == [online |-> TRUE, discovered |-> back \/ status.discovered]
             f == failed \union (IF back THEN Groups \ Mains(Groups) ELSE {})
  <2>1. /\ GoOn(g, cycle, f \ {g}, h, Tail(line)) /\ cycle' = cycle
        /\ known' = [known EXCEPT ![g] = Head(line).value]
    BY <1>5 DEF GroupRead
  <2>2. g \in Groups /\ Head(line).value \in Values /\ Tail(line) \in Seq(Requests)
    BY <1>5, HeadTyped DEF GroupRead
  <2>3. h \in Statuses /\ f \ {g} \in SUBSET Groups
    BY DEF TypeOK, Statuses
  <2> HIDE DEF g, back, h, f
  <2>4. /\ updating' \in BOOLEAN /\ failed' \subseteq Groups /\ status' \in Statuses
        /\ line' \in Seq(Requests)
    BY <1>1, <2>1, <2>2, <2>3 DEF TypeOK
  <2>5. known' \in [Groups -> Values]
    BY <2>1, <2>2 DEF TypeOK
  <2> QED
    BY <1>5, <2>4, <2>5 DEF GroupRead, TypeOK, device, counters
<1>6. CASE GroupFailed
  <2> DEFINE g == Head(line).group
  <2>1. /\ cycle' = cycle
        /\ \/ GoOn(g, cycle, failed \union {g}, status, Tail(line))
           \/ /\ updating' = FALSE /\ line' = Tail(line)
              /\ failed' = failed \union {g} /\ status' = AfterFailure(status)
    BY <1>6 DEF GroupFailed
  <2>2. g \in Groups /\ Tail(line) \in Seq(Requests)
    BY <1>6, HeadTyped DEF GroupFailed
  <2>3. failed \union {g} \in SUBSET Groups /\ AfterFailure(status) \in Statuses
    BY <2>2 DEF TypeOK, AfterFailure, Statuses
  <2> HIDE DEF g
  <2>4. /\ updating' \in BOOLEAN /\ failed' \subseteq Groups /\ status' \in Statuses
        /\ line' \in Seq(Requests)
    BY <1>1, <2>1, <2>2, <2>3 DEF TypeOK
  <2> QED
    BY <1>6, <2>4 DEF GroupFailed, TypeOK, device, counters
<1> QED
  BY <1>2, <1>3, <1>4, <1>5, <1>6

LEMMA TransactedTyped ==
  ASSUME TypeOK, NEW r \in Requests
  PROVE  /\ Transacted(r) \in Requests /\ Transacted(r).kind = r.kind
         /\ Transacted(r).group = r.group
         /\ r.kind = "read" => Transacted(r).value = IF answers THEN register[r.group] ELSE Unknown
BY DEF Transacted, Requests, TypeOK, Values

LEMMA TransactTyped ==
  ASSUME TypeOK, Transact
  PROVE  TypeOK'
<1>1. /\ line # <<>> /\ line' = [line EXCEPT ![1] = Transacted(line[1])]
      /\ register' = IF answers /\ line[1].kind \in {"write", "tool"}
                     THEN [register EXCEPT ![line[1].group] = line[1].value] ELSE register
      /\ UNCHANGED <<answers, suspended, known, status, failed, cycle, updating, polling, slow, counters>>
  BY DEF Transact, Perform
<1>2. 1 \in 1 .. Len(line) /\ line[1] \in Requests
  BY <1>1 DEF TypeOK
<1>3. Transacted(line[1]) \in Requests
  BY <1>2, TransactedTyped
<1>4. line' \in Seq(Requests)
  BY <1>1, <1>2, <1>3, ExceptSeq DEF TypeOK
<1>5. register' \in [Groups -> Values]
  BY <1>1, <1>2 DEF TypeOK, Requests
<1> QED
  BY <1>1, <1>4, <1>5 DEF TypeOK, counters

LEMMA ClientTyped ==
  ASSUME TypeOK, NEW g \in Groups, Write(g) \/ ToolWrite(g)
  PROVE  TypeOK'
<1>1. writes' \in 0 .. MaxWrites
  BY ModbusAssumption DEF Write, ToolWrite, TypeOK
<1>2. \A kind \in {"write", "tool"} : Request(kind, g, writes') \in Requests
  BY <1>1 DEF Request, Requests, Values
<1>3. line' \in Seq(Requests)
  <2>1. line' = line \/ \E kind \in {"write", "tool"} : line' = Append(line, Request(kind, g, writes'))
    BY DEF Write, ToolWrite
  <2> QED
    BY <1>2, <2>1, AppendProperties DEF TypeOK
<1>4. known' \in [Groups -> Values]
  BY <1>1 DEF Write, ToolWrite, TypeOK, Values
<1> QED
  BY <1>1, <1>3, <1>4 DEF Write, ToolWrite, TypeOK, device

\* Every reachable state of the line, the device and its coordinator is typed.
THEOREM ModbusTypeCorrect == Spec => []TypeOK
<1>1. Init => TypeOK
  <2> SUFFICES ASSUME Init PROVE TypeOK
    OBVIOUS
  <2>1. cycle \in 0 .. EveryN - 1 /\ writes \in 0 .. MaxWrites /\ 0 \in Values
    BY ModbusAssumption DEF Init, Values
  <2>2. line \in Seq(Requests) /\ status \in Statuses
    BY DEF Init, Statuses
  <2>3. register \in [Groups -> Values] /\ known \in [Groups -> Values]
    BY <2>1 DEF Init, Values
  <2> QED
    BY <2>1, <2>2, <2>3 DEF Init, TypeOK
<1>2. TypeOK /\ [Next]_vars => TypeOK'
  <2> SUFFICES ASSUME TypeOK, [Next]_vars PROVE TypeOK'
    OBVIOUS
  <2>1. CASE Written \/ ToolWritten
    <3>1. /\ Head(line).group \in Groups /\ Head(line).value \in Values
          /\ Tail(line) \in Seq(Requests)
      BY <2>1, HeadTyped DEF Written, ToolWritten
    <3> QED
      BY <2>1, <3>1 DEF Written, ToolWritten, TypeOK, device, counters
  <2>2. CASE Resume \/ SwitchPolling \/ HAOnline \/ Toggle
    BY <2>2 DEF Resume, SwitchPolling, HAOnline, Toggle, TypeOK, Statuses, device, counters
  <2>3. CASE UNCHANGED vars
    BY <2>3 DEF vars, device, counters, TypeOK
  <2> QED
    BY <2>1, <2>2, <2>3, UpdateTyped, TransactTyped, ClientTyped DEF Next
<1> QED
  BY <1>1, <1>2, PTL DEF Spec
-----------------------------------------------------------------------------
\* Freshness. The strengthening is what the lock is for: only the request that has it may have
\* been to the device, so that none of those behind it writes before its answer is published.
Waiting == \A i \in 2 .. Len(line) : ~line[i].done
Fresh == Waiting /\ ReadsAreFresh

\* A request that comes to the end of the line has not been to the device.
LEMMA AppendFresh ==
  ASSUME TypeOK, Fresh, NEW r \in Requests, ~r.done, line' = Append(line, r), register' = register
  PROVE  Fresh'
<1>1. /\ Len(line) \in Nat /\ Len(line') = Len(line) + 1
      /\ \A i \in 1 .. Len(line) : line'[i] = line[i]
      /\ line'[Len(line')] = r
  <2>1. LET q == Append(line, r)
        IN  /\ Len(q) = Len(line) + 1 /\ q[Len(line) + 1] = r
            /\ \A i \in 1 .. Len(line) : q[i] = line[i]
    BY AppendProperties DEF TypeOK
  <2> QED
    BY <2>1 DEF TypeOK
<1>2. Waiting'
  <2> SUFFICES ASSUME NEW i \in 2 .. Len(line') PROVE ~line'[i].done
    BY DEF Waiting
  <2>1. i \in 2 .. Len(line) \/ i = Len(line')
    BY <1>1
  <2> QED
    BY <1>1, <2>1 DEF Fresh, Waiting
<1>3. ReadsAreFresh'
  <2>1. CASE line = <<>>
    <3>1. Head(line') = r
      BY <1>1, <2>1
    <3> QED
      BY <3>1 DEF ReadsAreFresh, Answered
  <2>2. CASE line # <<>>
    <3>1. Head(line') = Head(line)
      BY <1>1, <2>2 DEF TypeOK
    <3> QED
      BY <2>2, <3>1 DEF Fresh, ReadsAreFresh, Answered
  <2> QED
    BY <2>1, <2>2
<1> QED
  BY <1>2, <1>3 DEF Fresh

\* Once an answer is handled nothing in the line has been to the device, nor has what the
\* rest of the update adds.
LEMMA TailFresh ==
  ASSUME TypeOK, Fresh, line # <<>>,
         \/ line' = Tail(line)
         \/ \E r \in Requests : ~r.done /\ line' = Append(Tail(line), r)
  PROVE  Fresh'
<1>1. /\ Tail(line) \in Seq(Requests) /\ Len(line) \in Nat /\ Len(Tail(line)) = Len(line) - 1
      /\ \A i \in 1 .. Len(Tail(line)) : Tail(line)[i] = line[i + 1]
  BY HeadTailProperties DEF TypeOK
<1>2. \A i \in 1 .. Len(Tail(line)) : ~Tail(line)[i].done
  <2> SUFFICES ASSUME NEW i \in 1 .. Len(Tail(line)) PROVE ~Tail(line)[i].done
    OBVIOUS
  <2>1. i + 1 \in 2 .. Len(line)
    BY <1>1
  <2> QED
    BY <1>1, <2>1 DEF Fresh, Waiting
<1>3. \A i \in 1 .. Len(line') : ~line'[i].done
  <2>1. CASE line' = Tail(line)
    BY <1>2, <2>1
  <2>2. ASSUME NEW r \in Requests, ~r.done, line' = Append(Tail(line), r)
        PROVE  \A i \in 1 .. Len(line') : ~line'[i].done
    <3> DEFINE rest == Tail(line)
    <3>1. rest \in Seq(Requests) /\ \A i \in 1 .. Len(rest) : ~rest[i].done
      BY <1>1, <1>2
    <3> HIDE DEF rest
    <3>2. LET q == Append(rest, r)
          IN  /\ Len(q) = Len(rest) + 1 /\ q[Len(rest) + 1] = r
              /\ \A i \in 1 .. Len(rest) : q[i] = rest[i]
      BY <3>1, AppendProperties
    <3>3. /\ Len(line') = Len(rest) + 1 /\ line'[Len(rest) + 1] = r /\ Len(rest) \in Nat
          /\ \A i \in 1 .. Len(rest) : line'[i] = rest[i]
      BY <2>2, <3>1, <3>2 DEF rest
    <3>4. \A i \in 1 .. Len(line') : i \in 1 .. Len(rest) \/ i = Len(rest) + 1
      BY <3>3
    <3> QED
      BY <2>2, <3>1, <3>3, <3>4
  <2> QED
    BY <2>1, <2>2
<1>4. line' \in Seq(Requests)
  BY <1>1, AppendProperties
<1>5. Waiting'
  BY <1>3, <1>4 DEF Waiting
<1>6. ReadsAreFresh'
  <2> SUFFICES ASSUME line' # <<>> PROVE ~Head(line').done
    BY DEF ReadsAreFresh, Answered
  <2>1. 1 \in 1 .. Len(line') /\ Head(line') = line'[1]
    BY <1>4
  <2> QED
    BY <1>3, <2>1
<1> QED
  BY <1>5, <1>6 DEF Fresh

\* An answer to the update leaves the line, and at most one new request is appended.
LEMMA AnswerGoesOn ==
  ASSUME TypeOK, Checked \/ GroupRead \/ GroupFailed
  PROVE  \/ line' = Tail(line)
         \/ \E r \in Requests : ~r.done /\ line' = Append(Tail(line), r)
<1>1. CASE Checked
  <2> DEFINE h == [status EXCEPT !.discovered = Head(line).value # Unknown]
  <2>1. cycle' \in 0 .. EveryN - 1 /\ GoOn(0, cycle', failed, h, Tail(line))
    BY <1>1, CycleTyped DEF Checked
  <2>2. h \in Statuses /\ Tail(line) \in Seq(Requests)
    BY <1>1, HeadTyped DEF Checked, TypeOK, Statuses
  <2> HIDE DEF h
  <2> QED
    BY <2>1, <2>2, GoOnTyped, GroupsAreNumbers DEF TypeOK
<1>2. CASE GroupRead
  <2> DEFINE g == Head(line).group
             back == ~status.online
             h == [online |-> TRUE, discovered |-> back \/ status.discovered]
             f == failed \union (IF back THEN Groups \ Mains(Groups) ELSE {})
  <2>1. GoOn(g, cycle, f \ {g}, h, Tail(line))
    BY <1>2 DEF GroupRead
  <2>2. g \in Groups /\ Tail(line) \in Seq(Requests)
    BY <1>2, HeadTyped DEF GroupRead
  <2>3. h \in Statuses /\ f \ {g} \in SUBSET Groups
    BY DEF TypeOK, Statuses
  <2> HIDE DEF g, back, h, f
  <2> QED
    BY <2>1, <2>2, <2>3, GoOnTyped, GroupsAreNumbers DEF TypeOK
<1>3. CASE GroupFailed
  <2> DEFINE g == Head(line).group
  <2>1. GoOn(g, cycle, failed \union {g}, status, Tail(line)) \/ line' = Tail(line)
    BY <1>3 DEF GroupFailed
  <2>2. g \in Groups /\ Tail(line) \in Seq(Requests)
    BY <1>3, HeadTyped DEF GroupFailed
  <2> HIDE DEF g
  <2> QED
    BY <2>1, <2>2, GoOnTyped, GroupsAreNumbers DEF TypeOK
<1> QED
  BY <1>1, <1>2, <1>3

\* The executor comes back with what the device held, and the register is as it read it.
LEMMA TransactFresh ==
  ASSUME TypeOK, Fresh, Transact
  PROVE  Fresh'
<1>1. /\ line # <<>> /\ ~line[1].done /\ line' = [line EXCEPT ![1] = Transacted(line[1])]
      /\ register' = IF answers /\ line[1].kind \in {"write", "tool"}
                     THEN [register EXCEPT ![line[1].group] = line[1].value] ELSE register
  BY DEF Transact, Perform
<1>2. line \in Seq(Requests) /\ Len(line) \in Nat /\ Len(line) > 0 /\ line[1] \in Requests
  BY <1>1 DEF TypeOK
<1>3. Transacted(line[1]) \in Requests
  BY <1>2, TransactedTyped
<1>4. /\ line' \in Seq(Requests) /\ Len(line') = Len(line) /\ Head(line') = Transacted(line[1])
      /\ \A i \in 2 .. Len(line) : line'[i] = line[i]
  BY <1>1, <1>2, <1>3, ExceptSeq
<1>5. Waiting'
  BY <1>4 DEF Fresh, Waiting
<1>6. ReadsAreFresh'
  <2> SUFFICES ASSUME Head(line').kind = "read", Head(line').value # Unknown
               PROVE  Head(line').value = register'[Head(line').group]
    BY DEF ReadsAreFresh, Answered
  <2>1. line[1].kind = "read"
    BY <1>2, <1>4, TransactedTyped
  <2>2. register' = register
    BY <1>1, <2>1
  <2>3. Head(line').value = register[line[1].group] /\ Head(line').group = line[1].group
    BY <1>2, <1>4, <2>1, TransactedTyped
  <2> QED
    BY <2>2, <2>3
<1> QED
  BY <1>5, <1>6 DEF Fresh

\* Whoever waits for the line, what is published of a read is what the device holds at that
\* moment.
THEOREM ReadsAlwaysFresh == Spec => []ReadsAreFresh
<1>1. Init => Fresh
  BY DEF Init, Fresh, Waiting, ReadsAreFresh, Answered
<1>2. TypeOK /\ TypeOK' /\ Fresh /\ [Next]_vars => Fresh'
  <2> SUFFICES ASSUME TypeOK, TypeOK', Fresh, [Next]_vars PROVE Fresh'
    OBVIOUS
  <2>1. ASSUME UNCHANGED <<line, register>> PROVE Fresh'
    BY <2>1 DEF Fresh, Waiting, ReadsAreFresh, Answered
  <2>2. CASE Check
    <3>1. Request("check", 1, Unknown) \in Requests /\ ~Request("check", 1, Unknown).done
      BY ModbusAssumption DEF Request, Requests, Values, Groups
    <3> QED
      BY <2>2, <3>1, AppendFresh DEF Check, device
  <2>3. CASE Update
    <3>1. /\ GoOn(0, cycle', failed, status, line) /\ cycle' \in 0 .. EveryN - 1
          /\ register' = register
      BY <2>3, CycleTyped DEF Update, device
    <3>2. line' = line \/ \E r \in Requests : ~r.done /\ line' = Append(line, r)
      BY <3>1, GoOnTyped, GroupsAreNumbers DEF TypeOK
    <3> QED
      BY <2>1, <3>1, <3>2, AppendFresh
  <2>4. CASE Checked \/ GroupRead \/ GroupFailed
    <3>1. line # <<>>
      BY <2>4 DEF Checked, GroupRead, GroupFailed, Answered
    <3> QED
      BY <2>4, <3>1, AnswerGoesOn, TailFresh
  <2>5. CASE Written \/ ToolWritten
    BY <2>5, TailFresh DEF Written, ToolWritten, Answered
  <2>6. ASSUME NEW g \in Groups, Write(g) \/ ToolWrite(g) PROVE Fresh'
    <3>1. \A kind \in {"write", "tool"} :
            Request(kind, g, writes') \in Requests /\ ~Request(kind, g, writes').done
      BY <2>6, ModbusAssumption DEF Write, ToolWrite, TypeOK, Request, Requests, Values
    <3>2. \/ line' = line
          \/ \E kind \in {"write", "tool"} : line' = Append(line, Request(kind, g, writes'))
      BY <2>6 DEF Write, ToolWrite
    <3>3. register' = register
      BY <2>6 DEF Write, ToolWrite, device
    <3> QED
      BY <2>1, <3>1, <3>2, <3>3, AppendFresh
  <2>7. CASE Transact
    BY <2>7, TransactFresh
  <2>8. CASE Resume \/ SwitchPolling \/ HAOnline \/ Toggle \/ UNCHANGED vars
    BY <2>1, <2>8 DEF Resume, SwitchPolling, HAOnline, Toggle, vars, device
  <2> QED
    BY <2>2, <2>3, <2>4, <2>5, <2>6, <2>7, <2>8 DEF Next
<1>3. Fresh => ReadsAreFresh
  BY DEF Fresh
<1> QED
  BY <1>1, <1>2, <1>3, ModbusTypeCorrect, PTL DEF Spec
=============================================================================
