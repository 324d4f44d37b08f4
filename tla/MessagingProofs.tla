-------------------------- MODULE MessagingProofs --------------------------
(***************************************************************************)
(* Theorems about Messaging, for any topics and payloads and any number of *)
(* messages, publishers, reconnections and broken connections.             *)
(***************************************************************************)
EXTENDS Messaging, SequenceTheorems, WellFoundedInduction, TLAPS

Tracked == \A t \in AllTopics : tracked[t] # NoMessage => tracked[t].topic = t

\* Typing, with the counts that TypeOK compares.
Typed ==
    /\ TypeOK /\ Tracked
    /\ publishers \in Nat /\ greetings \in Nat
    /\ sent \in [AllTopics -> Nat] /\ broker \in [AllTopics -> Nat]

-----------------------------------------------------------------------------
\* Sequences of messages: what is taken out, and the messages that remain.

\* s with some of its items taken out.
Thinned(r, s) ==
    \E f \in [DOMAIN r -> DOMAIN s] :
        /\ \A i \in DOMAIN r : r[i] = s[f[i]]
        /\ \A i, j \in DOMAIN r : i < j => f[i] < f[j]

LEMMA ThinnedSelf == ASSUME NEW s \in Seq(Message) PROVE Thinned(s, s)
<1> DEFINE f == [i \in DOMAIN s |-> i]
<1>1. f \in [DOMAIN s -> DOMAIN s] /\ \A i \in DOMAIN s : s[i] = s[f[i]]
  OBVIOUS
<1>2. \A i, j \in DOMAIN s : i < j => f[i] < f[j]
  OBVIOUS
<1> QED
  BY <1>1, <1>2 DEF Thinned

LEMMA ThinnedTail ==
  ASSUME NEW s \in Seq(Message), s # <<>>
  PROVE  Thinned(Tail(s), s)
<1> DEFINE f == [i \in DOMAIN Tail(s) |-> i + 1]
<1>1. /\ Tail(s) \in Seq(Message) /\ Len(Tail(s)) = Len(s) - 1 /\ Len(s) \in Nat
      /\ \A i \in 1..Len(Tail(s)) : Tail(s)[i] = s[i + 1]
      /\ DOMAIN Tail(s) = 1..Len(Tail(s)) /\ DOMAIN s = 1..Len(s)
  BY HeadTailProperties, LenProperties
<1>2. f \in [DOMAIN Tail(s) -> DOMAIN s]
  BY <1>1
<1>3. \A i \in DOMAIN Tail(s) : Tail(s)[i] = s[f[i]]
  BY <1>1
<1>4. \A i, j \in DOMAIN Tail(s) : i < j => f[i] < f[j]
  BY <1>1
<1> QED
  BY <1>2, <1>3, <1>4 DEF Thinned

\* The items around the one taken out.
LEMMA WithoutOne ==
  ASSUME NEW s \in Seq(Message), NEW n \in DOMAIN s
  PROVE  /\ RemoveAt(s, n) \in Seq(Message) /\ Len(RemoveAt(s, n)) = Len(s) - 1
         /\ \A i \in 1..Len(s) - 1 : RemoveAt(s, n)[i] = IF i < n THEN s[i] ELSE s[i + 1]
<1> DEFINE a == SubSeq(s, 1, n - 1)
           b == SubSeq(s, n + 1, Len(s))
<1>1. DOMAIN s = 1..Len(s) /\ Len(s) \in Nat /\ \A i \in 1..Len(s) : s[i] \in Message
  BY LenProperties, ElementOfSeq
<1>2. /\ a \in Seq(Message) /\ Len(a) = n - 1
      /\ \A i \in 1..n - 1 : a[i] = s[i]
  <2>1. 1 \in Int /\ n - 1 \in Int /\ \A i \in 1..n - 1 : s[i] \in Message
    BY <1>1
  <2>2. /\ a \in Seq(Message) /\ Len(a) = IF 1 <= n - 1 THEN (n - 1) - 1 + 1 ELSE 0
        /\ \A i \in 1..(n - 1) - 1 + 1 : a[i] = s[1 + i - 1]
    BY <2>1, SubSeqProperties
  <2>3. (n - 1) - 1 + 1 = n - 1 /\ (~(1 <= n - 1) => n - 1 = 0) /\ \A i \in 1..n - 1 : 1 + i - 1 = i
    BY <1>1
  <2> HIDE DEF a
  <2> QED
    BY <2>2, <2>3
<1>3. /\ b \in Seq(Message) /\ Len(b) = Len(s) - n
      /\ \A i \in 1..Len(s) - n : b[i] = s[n + i]
  <2>1. n + 1 \in Int /\ Len(s) \in Int /\ \A i \in n + 1..Len(s) : s[i] \in Message
    BY <1>1
  <2>2. /\ b \in Seq(Message) /\ Len(b) = IF n + 1 <= Len(s) THEN Len(s) - (n + 1) + 1 ELSE 0
        /\ \A i \in 1..Len(s) - (n + 1) + 1 : b[i] = s[n + 1 + i - 1]
    BY <2>1, SubSeqProperties
  <2>3. /\ Len(s) - (n + 1) + 1 = Len(s) - n /\ (~(n + 1 <= Len(s)) => Len(s) - n = 0)
        /\ \A i \in 1..Len(s) - n : n + 1 + i - 1 = n + i
    BY <1>1
  <2> HIDE DEF b
  <2> QED
    BY <2>2, <2>3
<1> HIDE DEF a, b
<1>4. /\ a \o b \in Seq(Message) /\ Len(a \o b) = Len(a) + Len(b)
      /\ \A i \in 1..Len(a) + Len(b) : (a \o b)[i] = IF i <= Len(a) THEN a[i] ELSE b[i - Len(a)]
  BY <1>2, <1>3, ConcatProperties
<1>5. Len(a \o b) = Len(s) - 1
  BY <1>1, <1>2, <1>3, <1>4
<1>6. ASSUME NEW i \in 1..Len(s) - 1
      PROVE  (a \o b)[i] = IF i < n THEN s[i] ELSE s[i + 1]
  <2>1. i \in 1..Len(a) + Len(b)
    BY <1>1, <1>2, <1>3
  <2>2. CASE i < n
    <3>1. i <= Len(a) /\ i \in 1..n - 1
      BY <1>1, <1>2, <2>2
    <3> QED
      BY <1>2, <1>4, <2>1, <2>2, <3>1
  <2>3. CASE ~(i < n)
    <3>1. ~(i <= Len(a)) /\ i - Len(a) \in 1..Len(s) - n /\ n + (i - Len(a)) = i + 1
      BY <1>1, <1>2, <2>3
    <3> QED
      BY <1>3, <1>4, <2>1, <2>3, <3>1
  <2> QED
    BY <2>2, <2>3
<1> QED
  BY <1>4, <1>5, <1>6 DEF RemoveAt, a, b

LEMMA ThinnedWithout ==
  ASSUME NEW s \in Seq(Message), NEW n \in DOMAIN s
  PROVE  Thinned(RemoveAt(s, n), s)
<1> DEFINE r == RemoveAt(s, n)
           f == [i \in DOMAIN r |-> IF i < n THEN i ELSE i + 1]
<1>1. /\ r \in Seq(Message) /\ Len(r) = Len(s) - 1
      /\ \A i \in 1..Len(s) - 1 : r[i] = IF i < n THEN s[i] ELSE s[i + 1]
  BY WithoutOne
<1>2. DOMAIN r = 1..Len(s) - 1 /\ DOMAIN s = 1..Len(s) /\ Len(s) \in Nat
  BY <1>1, LenProperties
<1> HIDE DEF r
<1>3. f \in [DOMAIN r -> DOMAIN s]
  BY <1>2
<1>4. \A i \in DOMAIN r : r[i] = s[f[i]]
  BY <1>1, <1>2
<1>5. \A i, j \in DOMAIN r : i < j => f[i] < f[j]
  BY <1>2
<1> QED
  BY <1>3, <1>4, <1>5 DEF Thinned, r

\* What send_message takes out of the queue: an item of the same topic, or none.
LEMMA TakesItsTopic ==
  ASSUME Typed, NEW item \in Message
  PROVE  \/ Replaced(item) = queue
         \/ \E n \in DOMAIN queue : /\ queue[n].topic = item.topic
                                    /\ Replaced(item) = RemoveAt(queue, n)
<1> DEFINE old == tracked[item.topic]
           found == {i \in 1..Len(queue) : Same(queue[i], old)}
<1>1. SUFFICES ASSUME old # NoMessage, ~connected, \E i \in 1..Len(queue) : Same(queue[i], old)
               PROVE  \E n \in DOMAIN queue : /\ queue[n].topic = item.topic
                                              /\ Replaced(item) = RemoveAt(queue, n)
  BY DEF Replaced, RemoveFirstMatch
<1>2. queue \in Seq(Message) /\ Len(queue) \in Nat /\ DOMAIN queue = 1..Len(queue)
  BY LenProperties DEF Typed, TypeOK
<1>3. found # {} /\ found \subseteq Nat
  BY <1>1, <1>2
<1>4. Min(found) \in found
  <2> HIDE DEF found
  <2>1. \E i \in found : \A j \in found : ~(<<j, i>> \in OpToRel(<, Nat))
    BY <1>3, NatLessThanWellFounded, WFMin
  <2>2. PICK i \in found : \A j \in found : <<j, i>> \notin OpToRel(<, Nat)
    BY <2>1
  <2>3. \A j \in found : i <= j
    <3>1. \A j \in found : ~(j < i)
      BY <1>3, <2>2 DEF OpToRel
    <3> QED
      BY <1>3, <3>1
  <2> QED
    BY <2>3 DEF Min
<1>5. Replaced(item) = RemoveAt(queue, Min(found))
  BY <1>1, <1>3 DEF Replaced, RemoveFirstMatch, SelectInSeq
<1>6. item.topic \in AllTopics
  BY DEF Message
<1>7. queue[Min(found)].topic = item.topic
  BY <1>1, <1>4, <1>6 DEF Same, Typed, Tracked
<1> QED
  BY <1>2, <1>4, <1>5, <1>7

-----------------------------------------------------------------------------
\* Typing.

\* A message is put at the end of what is left of the queue.
LEMMA PutTyped ==
  ASSUME Typed, NEW item \in Message, Put(item)
  PROVE  /\ queue' \in Seq(Message) /\ Tracked'
         /\ tracked' \in [AllTopics -> Message \union {NoMessage}]
<1>1. Replaced(item) \in Seq(Message)
  BY TakesItsTopic, WithoutOne DEF Typed, TypeOK
<1>2. item.topic \in AllTopics
  BY DEF Message
<1> QED
  BY <1>1, <1>2 DEF Put, Typed, TypeOK, Tracked

LEMMA SendTyped ==
  ASSUME Typed, NEW topic \in AllTopics, NEW payload \in Payloads, SendMessage(topic, payload),
         greetings' \in Nat
  PROVE  Typed'
<1>1. [topic |-> topic, payload |-> payload, number |-> sent[topic] + 1] \in Message
  BY DEF Message, Typed
<1>2. sent' \in [AllTopics -> Nat]
  BY DEF SendMessage, Typed
<1> QED
  BY <1>1, <1>2, PutTyped DEF SendMessage, Typed, TypeOK

\* A published message leaves the queue, and is no longer tracked.
LEMMA GetTyped ==
  ASSUME Typed, Get
  PROVE  /\ queue' \in Seq(Message) /\ Tracked' /\ Head(queue) \in Message
         /\ tracked' \in [AllTopics -> Message \union {NoMessage}]
<1>1. queue' \in Seq(Message) /\ Head(queue) \in Message
  BY HeadTailProperties DEF Get, Typed, TypeOK
<1>2. Head(queue).topic \in AllTopics
  BY <1>1 DEF Message
<1> QED
  BY <1>1, <1>2 DEF Get, Typed, TypeOK, Tracked

LEMMA NextTyped == Typed /\ [Next]_vars => Typed'
<1> SUFFICES ASSUME Typed, [Next]_vars
             PROVE  Typed'
  OBVIOUS
<1>1. CASE Send
  BY <1>1, SendTyped DEF Send, AllTopics, Typed
<1>2. CASE Greet
  <2>1. (CHOOSE p \in Payloads : TRUE) \in Payloads
    BY MessagingAssumption
  <2>2. greetings' \in Nat /\ Status \in AllTopics
    BY <1>2 DEF Greet, Typed, AllTopics
  <2> QED
    BY <1>2, <2>1, <2>2, SendTyped DEF Greet
<1>3. CASE HandlePublish
  <2>1. /\ queue' \in Seq(Message) /\ Tracked' /\ Head(queue) \in Message
        /\ tracked' \in [AllTopics -> Message \union {NoMessage}]
    BY <1>3, GetTyped DEF HandlePublish
  <2>2. sending' \in 0 .. publishers /\ wire' \in Seq(Message) /\ (wire' # <<>> => link)
    <3>1. CASE link
      <4>1. sending' = sending + 1 /\ wire' = Append(wire, Head(queue)) /\ sending < publishers
        BY <1>3, <3>1 DEF HandlePublish
      <4>2. wire' \in Seq(Message)
        BY <2>1, <4>1 DEF Typed, TypeOK
      <4>3. sending' \in 0 .. publishers
        BY <4>1 DEF Typed, TypeOK
      <4> QED
        BY <3>1, <4>2, <4>3
    <3>2. CASE ~link
      BY <1>3, <2>1, <3>2 DEF HandlePublish, Typed, TypeOK
    <3> QED
      BY <3>1, <3>2
  <2> QED
    BY <1>3, <2>1, <2>2 DEF HandlePublish, Typed, TypeOK
<1>4. CASE Published
  BY <1>4 DEF Published, Typed, TypeOK, Tracked
<1>5. CASE Deliver
  <2>1. wire' \in Seq(Message) /\ Head(wire) \in Message
    BY <1>5, HeadTailProperties DEF Deliver, Typed, TypeOK
  <2>2. broker' \in [AllTopics -> Nat]
    BY <1>5, <2>1 DEF Deliver, Typed, Message
  <2> QED
    BY <1>5, <2>1, <2>2 DEF Deliver, Typed, TypeOK, Tracked
<1>6. CASE Connect
  BY <1>6 DEF Connect, QueueUnchanged, Typed, TypeOK, Tracked
<1>7. CASE Subscribed \/ Reconnect
  BY <1>7 DEF Subscribed, Reconnect, QueueUnchanged, Typed, TypeOK, Tracked
<1>8. CASE Break
  <2>1. wire' = <<>> /\ wire' \in Seq(Message)
    BY <1>8 DEF Break
  <2>2. broker' \in [AllTopics -> Nat]
    BY <1>8 DEF Break, Typed
  <2> QED
    BY <1>8, <2>1, <2>2 DEF Break, QueueUnchanged, Typed, TypeOK, Tracked
<1>9. CASE Disconnected \/ ConnectFails
  <2>1. HandleError
    BY <1>9 DEF Disconnected, ConnectFails
  <2>2. wire' = <<>> /\ wire' \in Seq(Message)
    BY <2>1 DEF HandleError
  <2> QED
    BY <2>1, <2>2 DEF HandleError, QueueUnchanged, Typed, TypeOK, Tracked
<1>10. CASE UNCHANGED vars
  BY <1>10 DEF vars, Typed, TypeOK, Tracked
<1> QED
  BY <1>1, <1>2, <1>3, <1>4, <1>5, <1>6, <1>7, <1>8, <1>9, <1>10 DEF Next

LEMMA MessagingTyped == Spec => []Typed
<1>1. Init => Typed
  BY DEF Init, Typed, TypeOK, Tracked
<1> QED
  BY <1>1, NextTyped, PTL DEF Spec

\* Every reachable state is typed: the publishers that wait for the connection are among
\* those alive, and nothing is on its way where no connection is.
THEOREM MessagingTypeCorrect == Spec => []TypeOK
BY MessagingTyped, PTL DEF Typed

-----------------------------------------------------------------------------
\* The tracked messages.

LEMMA PutTracksLast ==
  ASSUME Typed, TrackedIsLast, NEW item \in Message, Put(item)
  PROVE  TrackedIsLast'
<1> DEFINE rest == Replaced(item)
<1>1. /\ rest \in Seq(Message) /\ Len(rest) \in Nat /\ queue' = Append(rest, item)
      /\ DOMAIN queue = 1..Len(queue) /\ Len(queue) \in Nat
      /\ tracked' = [tracked EXCEPT ![item.topic] = item]
  BY TakesItsTopic, WithoutOne, LenProperties DEF Put, Typed, TypeOK
<1>2. /\ DOMAIN queue' = 1..Len(rest) + 1 /\ queue'[Len(rest) + 1] = item
      /\ \A i \in 1..Len(rest) : queue'[i] = rest[i]
  BY <1>1
<1> SUFFICES ASSUME NEW t \in AllTopics, tracked'[t] # NoMessage
             PROVE  \E i \in DOMAIN queue' :
                      /\ Same(queue'[i], tracked'[t])
                      /\ \A j \in DOMAIN queue' : j > i => queue'[j].topic # t
  BY DEF TrackedIsLast, Same
<1>3. CASE t = item.topic
  <2>1. tracked'[t] = item
    BY <1>1, <1>3 DEF Typed, TypeOK
  <2> QED
    BY <1>1, <1>2, <2>1 DEF Same
<1>4. CASE t # item.topic
  <2>1. tracked'[t] = tracked[t]
    BY <1>1, <1>4 DEF Typed, TypeOK
  <2>2. PICK i \in DOMAIN queue : /\ Same(queue[i], tracked[t])
                                  /\ \A j \in DOMAIN queue : j > i => queue[j].topic # t
    BY <2>1 DEF TrackedIsLast
  <2>3. \E k \in 1..Len(rest) : /\ Same(rest[k], tracked[t])
                                /\ \A j \in 1..Len(rest) : j > k => rest[j].topic # t
    <3>1. CASE rest = queue
      BY <1>1, <2>2, <3>1
    <3>2. ASSUME NEW n \in DOMAIN queue, queue[n].topic = item.topic, rest = RemoveAt(queue, n)
          PROVE  \E k \in 1..Len(rest) : /\ Same(rest[k], tracked[t])
                                         /\ \A j \in 1..Len(rest) : j > k => rest[j].topic # t
      <4>1. /\ Len(rest) = Len(queue) - 1
            /\ \A k \in 1..Len(queue) - 1 : rest[k] = IF k < n THEN queue[k] ELSE queue[k + 1]
        BY <3>2, WithoutOne DEF Typed, TypeOK
      <4>2. i # n
        BY <1>4, <2>1, <2>2, <3>2 DEF Same, Typed, Tracked
      <4> DEFINE k == IF i < n THEN i ELSE i - 1
      <4>3. k \in 1..Len(rest) /\ rest[k] = queue[i]
        BY <1>1, <4>1, <4>2
      <4>4. ASSUME NEW j \in 1..Len(rest), j > k
            PROVE  rest[j].topic # t
        <5>1. CASE j < n
          <6>1. j > i /\ j \in DOMAIN queue /\ rest[j] = queue[j]
            BY <1>1, <4>1, <4>4, <5>1
          <6> QED
            BY <2>2, <6>1
        <5>2. CASE ~(j < n)
          <6>1. j + 1 > i /\ j + 1 \in DOMAIN queue /\ rest[j] = queue[j + 1]
            BY <1>1, <4>1, <4>4, <5>2
          <6> QED
            BY <2>2, <6>1
        <5> QED
          BY <5>1, <5>2
      <4> HIDE DEF k
      <4> QED
        BY <2>2, <4>3, <4>4
    <3> QED
      BY <3>1, <3>2, TakesItsTopic
  <2>4. PICK k \in 1..Len(rest) : /\ Same(rest[k], tracked[t])
                                  /\ \A j \in 1..Len(rest) : j > k => rest[j].topic # t
    BY <2>3
  <2> HIDE DEF rest
  <2>5. k \in DOMAIN queue' /\ Same(queue'[k], tracked'[t])
    BY <1>1, <1>2, <2>1, <2>4
  <2>6. ASSUME NEW j \in DOMAIN queue', j > k
        PROVE  queue'[j].topic # t
    BY <1>1, <1>2, <1>4, <2>4, <2>6
  <2> QED
    BY <2>5, <2>6
<1> QED
  BY <1>3, <1>4

LEMMA GetTracksLast ==
  ASSUME Typed, TrackedIsLast, Get
  PROVE  TrackedIsLast'
<1>1. /\ queue # <<>> /\ queue' = Tail(queue)
      /\ tracked' = [tracked EXCEPT ![Head(queue).topic] = NoMessage]
      /\ Head(queue) = queue[1] /\ Len(queue) \in Nat /\ DOMAIN queue = 1..Len(queue)
      /\ Len(queue') = Len(queue) - 1 /\ DOMAIN queue' = 1..Len(queue')
      /\ \A i \in 1..Len(queue') : queue'[i] = queue[i + 1]
  BY HeadTailProperties, LenProperties DEF Get, Typed, TypeOK
<1> SUFFICES ASSUME NEW t \in AllTopics, tracked'[t] # NoMessage
             PROVE  \E i \in DOMAIN queue' :
                      /\ Same(queue'[i], tracked'[t])
                      /\ \A j \in DOMAIN queue' : j > i => queue'[j].topic # t
  BY DEF TrackedIsLast, Same
<1>2. t # queue[1].topic /\ tracked'[t] = tracked[t]
  BY <1>1 DEF Typed, TypeOK
<1>3. PICK i \in DOMAIN queue : /\ Same(queue[i], tracked[t])
                                /\ \A j \in DOMAIN queue : j > i => queue[j].topic # t
  BY <1>2 DEF TrackedIsLast
<1>4. i # 1
  BY <1>2, <1>3 DEF Same, Typed, Tracked
<1>5. i - 1 \in DOMAIN queue' /\ queue'[i - 1] = queue[i]
  BY <1>1, <1>4
<1>6. ASSUME NEW j \in DOMAIN queue', j > i - 1
      PROVE  queue'[j].topic # t
  <2>1. j + 1 \in DOMAIN queue /\ j + 1 > i /\ queue'[j] = queue[j + 1]
    BY <1>1, <1>6
  <2> QED
    BY <1>3, <2>1
<1> QED
  BY <1>2, <1>3, <1>5, <1>6

\* Whatever is queued, replaced, published and refused, a tracked message is the last one
\* of its topic in the queue, so that send_message always finds the message it replaces.
THEOREM TrackedStaysLast == Spec => []TrackedIsLast
<1>1. Init => TrackedIsLast
  BY DEF Init, TrackedIsLast
<1>2. Typed /\ TrackedIsLast /\ [Next]_vars => TrackedIsLast'
  <2> SUFFICES ASSUME Typed, TrackedIsLast, [Next]_vars
               PROVE  TrackedIsLast'
    OBVIOUS
  <2>1. ASSUME NEW topic \in AllTopics, NEW payload \in Payloads, SendMessage(topic, payload)
        PROVE  TrackedIsLast'
    <3>1. [topic |-> topic, payload |-> payload, number |-> sent[topic] + 1] \in Message
      BY DEF Message, Typed
    <3> QED
      BY <2>1, <3>1, PutTracksLast DEF SendMessage
  <2>2. CASE Send
    BY <2>1, <2>2 DEF Send, AllTopics
  <2>3. CASE Greet
    <3>1. (CHOOSE p \in Payloads : TRUE) \in Payloads
      BY MessagingAssumption
    <3> QED
      BY <2>1, <2>3, <3>1 DEF Greet, AllTopics
  <2>4. CASE HandlePublish
    BY <2>4, GetTracksLast DEF HandlePublish
  <2>5. CASE UNCHANGED <<queue, tracked>>
    BY <2>5 DEF TrackedIsLast, Same
  <2> QED
    BY <2>2, <2>3, <2>4, <2>5 DEF Next, vars, Published, Deliver, Connect, Subscribed, Break,
       Disconnected, ConnectFails, Reconnect, HandleError, QueueUnchanged
<1> QED
  BY <1>1, <1>2, MessagingTyped, PTL DEF Spec

-----------------------------------------------------------------------------
\* The order of the messages of a topic, from the broker to the end of the queue.

Precedes(m, n) == m.topic = n.topic => m.number <= n.number
Sorted(s) == \A i, j \in DOMAIN s : i < j => Precedes(s[i], s[j])
Above(r, s) == \A i \in DOMAIN r, j \in DOMAIN s : Precedes(r[i], s[j])
Fits(s) == \A i \in DOMAIN s : /\ broker[s[i].topic] <= s[i].number
                               /\ s[i].number <= sent[s[i].topic]

Ordered ==
    /\ Sorted(wire) /\ Sorted(queue) /\ Above(wire, queue)
    /\ Fits(wire) /\ Fits(queue)
    /\ \A t \in AllTopics : broker[t] <= sent[t]

\* Taking messages out does not disturb the others.
LEMMA ThinnedOrder ==
  ASSUME NEW r, NEW s, Thinned(r, s), NEW w
  PROVE  /\ Sorted(s) => Sorted(r)
         /\ Fits(s) => Fits(r)
         /\ Above(w, s) => Above(w, r)
         /\ Above(s, w) => Above(r, w)
<1>1. PICK f \in [DOMAIN r -> DOMAIN s] :
        /\ \A i \in DOMAIN r : r[i] = s[f[i]]
        /\ \A i, j \in DOMAIN r : i < j => f[i] < f[j]
  BY DEF Thinned
<1>2. \A i \in DOMAIN r : f[i] \in DOMAIN s
  BY <1>1
<1> QED
  BY <1>1, <1>2 DEF Sorted, Fits, Above

\* A message that is later than all others goes last.
LEMMA AppendOrder ==
  ASSUME NEW s \in Seq(Message), NEW item \in Message, Sorted(s),
         \A i \in DOMAIN s : Precedes(s[i], item)
  PROVE  /\ Sorted(Append(s, item))
         /\ \A i \in DOMAIN Append(s, item) :
              Append(s, item)[i] = item \/ \E j \in DOMAIN s : Append(s, item)[i] = s[j]
<1> DEFINE r == Append(s, item)
<1>1. /\ DOMAIN r = 1..Len(s) + 1 /\ DOMAIN s = 1..Len(s) /\ Len(s) \in Nat
      /\ r[Len(s) + 1] = item /\ \A i \in 1..Len(s) : r[i] = s[i]
  BY LenProperties
<1> HIDE DEF r
<1>2. \A i, j \in DOMAIN r : i < j => Precedes(r[i], r[j])
  <2> SUFFICES ASSUME NEW i \in DOMAIN r, NEW j \in DOMAIN r, i < j
               PROVE  Precedes(r[i], r[j])
    OBVIOUS
  <2>1. i \in DOMAIN s /\ r[i] = s[i] /\ (j = Len(s) + 1 \/ (j \in DOMAIN s /\ r[j] = s[j]))
    BY <1>1
  <2> QED
    BY <1>1, <2>1 DEF Sorted
<1>3. \A i \in DOMAIN r : r[i] = item \/ \E j \in DOMAIN s : r[i] = s[j]
  <2> SUFFICES ASSUME NEW i \in DOMAIN r
               PROVE  r[i] = item \/ \E j \in DOMAIN s : r[i] = s[j]
    OBVIOUS
  <2>1. i = Len(s) + 1 \/ i \in DOMAIN s
    BY <1>1
  <2> QED
    BY <1>1, <2>1
<1> QED
  BY <1>2, <1>3 DEF Sorted, r

LEMMA SendOrder ==
  ASSUME Typed, Ordered, NEW topic \in AllTopics, NEW payload \in Payloads,
         SendMessage(topic, payload)
  PROVE  Ordered'
<1> DEFINE item == [topic |-> topic, payload |-> payload, number |-> sent[topic] + 1]
           rest == Replaced(item)
<1>1. item \in Message /\ item.topic = topic /\ item.number = sent[topic] + 1
  BY DEF Message, Typed
<1>2. Put(item) /\ sent' = [sent EXCEPT ![topic] = sent[topic] + 1] /\ UNCHANGED <<wire, broker>>
  BY DEF SendMessage
<1> HIDE DEF item
<1>3. rest \in Seq(Message) /\ Thinned(rest, queue)
  BY <1>1, TakesItsTopic, WithoutOne, ThinnedSelf, ThinnedWithout DEF Typed, TypeOK
<1>4. queue' = Append(rest, item)
  BY <1>2 DEF Put
<1> HIDE DEF rest
<1>5. Sorted(rest) /\ Fits(rest) /\ Above(wire, rest)
  BY <1>3, ThinnedOrder DEF Ordered
<1>6. sent[topic] \in Nat /\ \A t \in AllTopics : sent[t] \in Nat /\ broker[t] \in Nat
  BY DEF Typed
<1>7. \A t \in AllTopics : sent'[t] = IF t = topic THEN sent[t] + 1 ELSE sent[t]
  BY <1>2 DEF Typed
<1>8. /\ \A i \in DOMAIN wire : wire[i] \in Message
      /\ \A i \in DOMAIN rest : rest[i] \in Message
      /\ \A m \in Message : m.topic \in AllTopics /\ m.number \in Nat
  BY <1>3, ElementOfSeq, LenProperties DEF Typed, TypeOK, Message
<1>9. (\A i \in DOMAIN wire : Precedes(wire[i], item)) /\ \A i \in DOMAIN rest : Precedes(rest[i], item)
  BY <1>1, <1>5, <1>6, <1>8 DEF Ordered, Fits, Precedes
<1>10. /\ Sorted(queue')
       /\ \A i \in DOMAIN queue' : queue'[i] = item \/ \E j \in DOMAIN rest : queue'[i] = rest[j]
  BY <1>1, <1>3, <1>4, <1>5, <1>9, AppendOrder
<1>11. Above(wire, queue')
  BY <1>5, <1>9, <1>10 DEF Above
<1>12. ASSUME NEW m \in Message, broker[m.topic] <= m.number, m.number <= sent[m.topic]
       PROVE  broker'[m.topic] <= m.number /\ m.number <= sent'[m.topic]
  BY <1>2, <1>6, <1>7, <1>8, <1>12
<1>13. broker'[item.topic] <= item.number /\ item.number <= sent'[item.topic]
  BY <1>1, <1>2, <1>6, <1>7 DEF Ordered
<1>14. Fits(wire)' /\ Fits(queue)'
  <2>1. Fits(wire)'
    BY <1>2, <1>8, <1>12 DEF Ordered, Fits
  <2>2. ASSUME NEW i \in DOMAIN queue'
        PROVE  broker'[queue'[i].topic] <= queue'[i].number /\ queue'[i].number <= sent'[queue'[i].topic]
    BY <1>5, <1>8, <1>10, <1>12, <1>13 DEF Fits
  <2> QED
    BY <2>1, <2>2 DEF Fits
<1>15. (\A t \in AllTopics : broker[t] <= sent[t])'
  BY <1>2, <1>6, <1>7 DEF Ordered
<1> QED
  BY <1>2, <1>10, <1>11, <1>14, <1>15 DEF Ordered, Sorted, Above

LEMMA PublishOrder ==
  ASSUME Typed, Ordered, HandlePublish
  PROVE  Ordered'
<1>1. /\ queue # <<>> /\ queue' = Tail(queue) /\ UNCHANGED <<broker, sent>>
      /\ queue \in Seq(Message) /\ wire \in Seq(Message)
  BY DEF HandlePublish, Get, Typed, TypeOK
<1>2. Sorted(queue') /\ Fits(queue') /\ Above(wire, queue')
  BY <1>1, ThinnedTail, ThinnedOrder DEF Ordered
<1>3. /\ Head(queue) \in Message /\ Head(queue) = queue[1] /\ 1 \in DOMAIN queue
      /\ DOMAIN queue' = 1..Len(queue) - 1 /\ DOMAIN queue = 1..Len(queue) /\ Len(queue) \in Nat
      /\ \A i \in 1..Len(queue) - 1 : queue'[i] = queue[i + 1]
  BY <1>1, HeadTailProperties, LenProperties, EmptySeq
<1>4. Fits(queue)' /\ (\A t \in AllTopics : broker[t] <= sent[t])'
  BY <1>1, <1>2 DEF Ordered, Fits
<1>5. CASE UNCHANGED wire
  BY <1>1, <1>2, <1>4, <1>5 DEF Ordered, Sorted, Above, Fits
<1>6. CASE wire' = Append(wire, Head(queue))
  <2>1. \A i \in DOMAIN wire : Precedes(wire[i], Head(queue))
    BY <1>3 DEF Ordered, Above
  <2>2. \A j \in DOMAIN queue' : Precedes(Head(queue), queue'[j])
    BY <1>3 DEF Ordered, Sorted
  <2>3. /\ Sorted(wire')
        /\ \A i \in DOMAIN wire' : wire'[i] = Head(queue) \/ \E j \in DOMAIN wire : wire'[i] = wire[j]
    BY <1>1, <1>3, <1>6, <2>1, AppendOrder DEF Ordered
  <2>4. Above(wire', queue')
    BY <1>2, <2>2, <2>3 DEF Above
  <2>5. Fits(wire)'
    BY <1>1, <1>3, <2>3 DEF Ordered, Fits
  <2> QED
    BY <1>2, <1>4, <2>3, <2>4, <2>5 DEF Ordered, Sorted, Above
<1> QED
  BY <1>5, <1>6 DEF HandlePublish

LEMMA DeliverOrder ==
  ASSUME Typed, Ordered, Deliver
  PROVE  Ordered' /\ \A t \in AllTopics : broker[t] <= broker'[t]
<1>1. /\ wire # <<>> /\ wire' = Tail(wire) /\ UNCHANGED <<queue, sent>>
      /\ queue \in Seq(Message) /\ wire \in Seq(Message)
      /\ broker' = [broker EXCEPT ![Head(wire).topic] = Head(wire).number]
  BY DEF Deliver, Typed, TypeOK
<1>2. Sorted(wire') /\ Fits(wire') /\ Above(wire', queue)
  BY <1>1, ThinnedTail, ThinnedOrder DEF Ordered
<1>3. /\ Head(wire) \in Message /\ Head(wire) = wire[1] /\ 1 \in DOMAIN wire
      /\ DOMAIN wire' = 1..Len(wire) - 1 /\ DOMAIN wire = 1..Len(wire) /\ Len(wire) \in Nat
      /\ \A i \in 1..Len(wire) - 1 : wire'[i] = wire[i + 1]
  BY <1>1, HeadTailProperties, LenProperties, EmptySeq
<1>4. Head(wire).topic \in AllTopics /\ Head(wire).number \in Nat
  BY <1>3 DEF Message
<1>5. /\ broker[Head(wire).topic] <= Head(wire).number
      /\ Head(wire).number <= sent[Head(wire).topic]
  BY <1>3 DEF Ordered, Fits
<1>6. \A t \in AllTopics : broker'[t] = IF t = Head(wire).topic THEN Head(wire).number ELSE broker[t]
  BY <1>1, <1>4 DEF Typed
<1>7. \A t \in AllTopics : broker[t] <= broker'[t] /\ broker'[t] <= sent'[t]
  BY <1>1, <1>5, <1>6 DEF Ordered, Typed
<1>8. /\ \A j \in DOMAIN queue : Precedes(Head(wire), queue[j])
      /\ \A j \in DOMAIN wire' : Precedes(Head(wire), wire'[j])
  BY <1>3 DEF Ordered, Above, Sorted
<1>9. /\ \A i \in DOMAIN wire' : wire'[i] \in Message
      /\ \A i \in DOMAIN queue : queue[i] \in Message
      /\ \A m \in Message : m.topic \in AllTopics
  <2>1. \A i \in DOMAIN wire : wire[i] \in Message
    BY <1>1, ElementOfSeq, LenProperties
  <2>2. \A i \in DOMAIN queue : queue[i] \in Message
    BY <1>1, ElementOfSeq, LenProperties
  <2>3. \A i \in DOMAIN wire' : wire'[i] = wire[i + 1] /\ i + 1 \in DOMAIN wire
    BY <1>3
  <2> QED
    BY <2>1, <2>2, <2>3 DEF Message
<1>10. ASSUME NEW m \in Message, broker[m.topic] <= m.number, Precedes(Head(wire), m)
       PROVE  broker'[m.topic] <= m.number
  BY <1>6, <1>9, <1>10 DEF Precedes
<1>11. Fits(wire)' /\ Fits(queue)'
  <2>1. Fits(wire)'
    BY <1>1, <1>2, <1>8, <1>9, <1>10 DEF Fits
  <2>2. Fits(queue)'
    BY <1>1, <1>8, <1>9, <1>10 DEF Fits, Ordered
  <2> QED
    BY <2>1, <2>2
<1> QED
  BY <1>1, <1>2, <1>7, <1>11 DEF Ordered, Sorted, Above

\* The connection is gone, and what it had not passed on.
LEMMA BrokenOrder ==
  ASSUME Typed, Ordered, wire' = <<>>, UNCHANGED <<queue, sent>>,
         broker' \in [AllTopics -> Nat], \A t \in AllTopics : broker'[t] <= broker[t]
  PROVE  Ordered'
<1>1. \A t \in AllTopics : broker[t] \in Nat /\ sent[t] \in Nat
  BY DEF Typed
<1>2. \A i \in DOMAIN queue : queue[i].topic \in AllTopics /\ queue[i].number \in Nat
  <2>1. \A i \in DOMAIN queue : queue[i] \in Message
    BY ElementOfSeq, LenProperties DEF Typed, TypeOK
  <2> QED
    BY <2>1 DEF Message
<1>3. Fits(queue)'
  BY <1>1, <1>2 DEF Ordered, Fits
<1>4. Sorted(wire)' /\ Above(wire, queue)' /\ Fits(wire)'
  BY DEF Sorted, Above, Fits
<1> QED
  BY <1>1, <1>3, <1>4 DEF Ordered, Sorted

\* One step: the order is kept, and only a connection that breaks takes the status back.
LEMMA NextOrder ==
  ASSUME Typed, Ordered, [Next]_vars
  PROVE  /\ Ordered'
         /\ \A t \in AllTopics : broker'[t] < broker[t] => t = Status /\ link /\ ~link'
<1>1. \A t \in AllTopics : broker[t] \in Nat
  BY DEF Typed
<1>2. ASSUME NEW topic \in AllTopics, NEW payload \in Payloads, SendMessage(topic, payload)
      PROVE  Ordered' /\ UNCHANGED broker
  BY <1>2, SendOrder DEF SendMessage
<1>3. CASE Send
  BY <1>1, <1>2, <1>3 DEF Send, AllTopics
<1>4. CASE Greet
  <2>1. (CHOOSE p \in Payloads : TRUE) \in Payloads
    BY MessagingAssumption
  <2> QED
    BY <1>1, <1>2, <1>4, <2>1 DEF Greet, AllTopics
<1>5. CASE HandlePublish
  <2>1. UNCHANGED broker
    BY <1>5 DEF HandlePublish
  <2> QED
    BY <1>1, <1>5, <2>1, PublishOrder
<1>6. CASE Deliver
  <2>1. Ordered' /\ \A t \in AllTopics : broker[t] <= broker'[t]
    BY <1>6, DeliverOrder
  <2>2. \A t \in AllTopics : broker'[t] \in Nat
    BY NextTyped DEF Typed
  <2> QED
    BY <1>1, <2>1, <2>2
<1>7. CASE Break
  <2>1. /\ wire' = <<>> /\ UNCHANGED <<queue, sent>> /\ link /\ ~link'
        /\ broker' = [broker EXCEPT ![Status] = 0]
    BY <1>7 DEF Break, QueueUnchanged
  <2>2. \A t \in AllTopics : broker'[t] = IF t = Status THEN 0 ELSE broker[t]
    BY <2>1 DEF Typed
  <2>3. broker' \in [AllTopics -> Nat]
    BY NextTyped DEF Typed
  <2>4. \A t \in AllTopics : broker'[t] <= broker[t]
    BY <1>1, <2>2
  <2> QED
    BY <1>1, <2>1, <2>2, <2>3, <2>4, BrokenOrder
<1>8. CASE Disconnected \/ ConnectFails
  <2>1. wire' = <<>> /\ UNCHANGED <<queue, sent, broker>>
    BY <1>8 DEF Disconnected, ConnectFails, HandleError, QueueUnchanged
  <2> QED
    BY <1>1, <2>1, BrokenOrder DEF Typed
<1>9. CASE UNCHANGED <<queue, wire, broker, sent>>
  BY <1>1, <1>9 DEF Ordered, Sorted, Above, Fits
<1> QED
  BY <1>3, <1>4, <1>5, <1>6, <1>7, <1>8, <1>9 DEF Next, vars, Published, Connect, Subscribed,
     Reconnect, QueueUnchanged

\* No broker ever gets an older message of a topic after a newer one, for any number of
\* publishers that outlived their connection: they take the queue's messages in turn, and
\* hand them over before anyone else runs.
THEOREM BrokerNeverOlder == Spec => NeverOlder
<1>1. Init => Ordered
  BY DEF Init, Ordered, Sorted, Above, Fits
<1>2. Typed /\ Ordered /\ [Next]_vars =>
        [\A t \in AllTopics : broker'[t] < broker[t] => t = Status /\ link /\ ~link']_vars
  BY NextOrder
<1>3. Typed /\ Ordered /\ [Next]_vars => Ordered'
  BY NextOrder
<1> QED
  BY <1>1, <1>2, <1>3, MessagingTyped, PTL DEF Spec, NeverOlder
====
