----------------------------- MODULE Messaging -----------------------------
(***************************************************************************)
(* Outgoing messages: the queue that keeps the last message of each topic  *)
(* while the broker cannot be reached (core/messaging/queue.py), and the   *)
(* client that connects, publishes what is in the queue, and connects      *)
(* again (core/messaging/mqtt.py).                                         *)
(*                                                                         *)
(* A message is its topic, its payload and, as history, its number among   *)
(* the messages of the topic; the code compares topic and payload only.    *)
(* The library under the client is external: a connection passes on what   *)
(* is handed to it in order until it breaks, and refuses it then.          *)
(*                                                                         *)
(* gather, which _subscribe_manager ends with, does not cancel the other   *)
(* tasks when one of them fails: the publisher of a broken connection      *)
(* lives on beside the next one.  Publishers have no state of their own    *)
(* but whether one waits for the queue or for the connection, so they are  *)
(* counted.  Incoming messages and how long a reconnect waits are left out. *)
(***************************************************************************)
EXTENDS Naturals, Sequences, SequencesExt

CONSTANTS
    Topics,    \* the topics of states
    Status,    \* the topic of the device's own availability
    Payloads,  \* what can be sent on a topic
    MaxSends,  \* bound on the messages of each topic
    MaxFaults  \* bound on connections that break or fail

ASSUME MessagingAssumption ==
    /\ Status \notin Topics
    /\ Payloads # {}
    /\ MaxSends \in Nat /\ MaxFaults \in Nat

VARIABLES
    queue,      \* publish_queue, a sequence of messages
    tracked,    \* _unique_items: for each topic a message or NoMessage
    connected,  \* _is_connected of the queue, and _connection_established
    phase,      \* where start_client is
    link,       \* the connection of the current client is up
    publishers, \* the tasks that run _handle_publish
    sending,    \* those of them that wait for the connection
    greetings,  \* reconnect_callback tasks that have not run yet
    wire,       \* external: handed to the connection, not yet at the broker
    broker,     \* external: the number of the last message of each topic
    sent, lost, faults \* history: numbers sent; how a topic's last one was lost

vars == <<queue, tracked, connected, phase, link, publishers, sending, greetings, wire,
          broker, sent, lost, faults>>

AllTopics == Topics \union {Status}
NoMessage == [topic |-> "none"]
Message == [topic : AllTopics, payload : Payloads, number : Nat]
Same(a, b) == a.topic = b.topic /\ a.payload = b.payload

Init ==
    /\ queue = <<>>
    /\ tracked = [t \in AllTopics |-> NoMessage]
    /\ connected = FALSE
    /\ phase = "connecting"
    /\ link = FALSE
    /\ publishers = 0 /\ sending = 0 /\ greetings = 0
    /\ wire = <<>>
    /\ broker = [t \in AllTopics |-> 0]
    /\ sent = [t \in AllTopics |-> 0]
    /\ lost = [t \in AllTopics |-> "no"]
    /\ faults = 0

(***************************************************************************)
(* The queue.                                                              *)
(***************************************************************************)
\* remove takes the first equal item out.
Replaced(item) ==
    LET old == tracked[item.topic]
    IN  IF ~connected /\ old # NoMessage
        THEN RemoveFirstMatch(queue, LAMBDA m : Same(m, old))
        ELSE queue

\* Fault for the runs: the older message of the topic keeps its place and goes last.
PutBefore(item) ==
    /\ queue' = IF ~connected /\ queue # <<>> THEN <<item>> \o queue
                                              ELSE Append(queue, item)
    /\ tracked' = [tracked EXCEPT ![item.topic] = item]

Put(item) ==
    /\ queue' = Append(Replaced(item), item)
    /\ tracked' = [tracked EXCEPT ![item.topic] = item]

\* Fault for the runs: a message that was taken is still tracked.
GetKeepsTracking ==
    /\ queue # <<>>
    /\ queue' = Tail(queue)
    /\ UNCHANGED tracked

Get ==
    /\ queue # <<>>
    /\ queue' = Tail(queue)
    /\ tracked' = [tracked EXCEPT ![Head(queue).topic] = NoMessage]

SendMessage(topic, payload) ==
    /\ sent[topic] < MaxSends
    /\ sent' = [sent EXCEPT ![topic] = @ + 1]
    /\ lost' = [lost EXCEPT ![topic] = "no"]
    /\ Put([topic |-> topic, payload |-> payload, number |-> sent[topic] + 1])
    /\ UNCHANGED <<connected, phase, link, publishers, sending, wire, broker, faults>>

Send == \E t \in Topics, p \in Payloads : SendMessage(t, p) /\ UNCHANGED greetings

\* reconnect_callback: the device is online.
Greet ==
    /\ greetings > 0
    /\ greetings' = greetings - 1
    /\ SendMessage(Status, CHOOSE p \in Payloads : TRUE)

(***************************************************************************)
(* Publishing.                                                             *)
(***************************************************************************)
\* The topics whose last message is among the items.
LastOf(items) == {t \in AllTopics : \E m \in items : m.topic = t /\ m.number = sent[t]}
Lose(items, how) == lost' = [t \in AllTopics |-> IF t \in LastOf(items) THEN how ELSE lost[t]]

\* A waiting publisher takes a message and hands it to the connection, which refuses it if
\* it is down: the error is logged, and the publisher waits for the next message.
HandlePublish ==
    /\ sending < publishers
    /\ Get
    /\ \/ /\ link
          /\ sending' = sending + 1
          /\ wire' = Append(wire, Head(queue))
          /\ UNCHANGED lost
       \/ /\ ~link
          /\ Lose({Head(queue)}, "refused")
          /\ UNCHANGED <<sending, wire>>
    /\ UNCHANGED <<connected, phase, link, publishers, greetings, broker, sent, faults>>

\* The connection confirms a message, or gives up on it.
Published ==
    /\ sending > 0
    /\ sending' = sending - 1
    /\ UNCHANGED <<queue, tracked, connected, phase, link, publishers, greetings, wire,
                   broker, sent, lost, faults>>

\* External: the broker receives a message.
Deliver ==
    /\ wire # <<>>
    /\ wire' = Tail(wire)
    /\ broker' = [broker EXCEPT ![Head(wire).topic] = Head(wire).number]
    /\ UNCHANGED <<queue, tracked, connected, phase, link, publishers, sending, greetings,
                   sent, lost, faults>>

(***************************************************************************)
(* The connection.                                                         *)
(***************************************************************************)
QueueUnchanged == UNCHANGED <<queue, tracked, sending, sent>>

\* Fault for the runs: nobody is told that the device is online again.
ConnectSilently ==
    /\ phase = "connecting"
    /\ phase' = "subscribing"
    /\ link' = TRUE
    /\ connected' = TRUE
    /\ publishers' = publishers + 1
    /\ greetings' = IF publishers = 0 THEN greetings + 1 ELSE greetings
    /\ QueueUnchanged
    /\ UNCHANGED <<wire, broker, lost, faults>>

\* The client connects; a publisher and reconnect_callback are started.
Connect ==
    /\ phase = "connecting"
    /\ phase' = "subscribing"
    /\ link' = TRUE
    /\ connected' = TRUE
    /\ publishers' = publishers + 1
    /\ greetings' = greetings + 1
    /\ QueueUnchanged
    /\ UNCHANGED <<wire, broker, lost, faults>>

Subscribed ==
    /\ phase = "subscribing" /\ link
    /\ phase' = "serving"
    /\ QueueUnchanged
    /\ UNCHANGED <<connected, link, publishers, greetings, wire, broker, lost, faults>>

\* External: the connection breaks; what it had not passed on is lost, and the broker
\* publishes the client's will.
Break ==
    /\ link /\ faults < MaxFaults
    /\ faults' = faults + 1
    /\ link' = FALSE
    /\ wire' = <<>>
    /\ Lose(ToSet(wire), "broken")
    /\ broker' = [broker EXCEPT ![Status] = 0]
    /\ QueueUnchanged
    /\ UNCHANGED <<connected, phase, publishers, greetings>>

\* The MqttError handler of start_client; leaving the client's context ends its connection.
HandleError ==
    /\ phase' = "sleeping"
    /\ connected' = FALSE
    /\ link' = FALSE
    /\ wire' = <<>>
    /\ Lose(ToSet(wire), "broken")
    /\ QueueUnchanged
    /\ UNCHANGED <<publishers, greetings, broker>>

\* The task that reads messages finds the connection broken.
Disconnected ==
    /\ phase \in {"subscribing", "serving"} /\ ~link
    /\ HandleError
    /\ UNCHANGED faults

\* The broker cannot be reached, or does not answer the subscription in time.
ConnectFails ==
    /\ phase = "connecting" \/ (phase = "subscribing" /\ link)
    /\ faults < MaxFaults
    /\ faults' = faults + 1
    /\ HandleError

Reconnect ==
    /\ phase = "sleeping"
    /\ phase' = "connecting"
    /\ QueueUnchanged
    /\ UNCHANGED <<connected, link, publishers, greetings, wire, broker, lost, faults>>

Next ==
    \/ Send \/ Greet
    \/ HandlePublish \/ Published \/ Deliver
    \/ Connect \/ Subscribed \/ Break \/ Disconnected \/ ConnectFails \/ Reconnect

\* Tasks run and a connection passes on what it is given; nothing has to be sent.
Spec ==
    /\ Init /\ [][Next]_vars
    /\ WF_vars(Greet) /\ WF_vars(HandlePublish) /\ WF_vars(Published) /\ WF_vars(Deliver)
    /\ WF_vars(Connect) /\ WF_vars(Subscribed) /\ WF_vars(Disconnected) /\ WF_vars(Reconnect)

(***************************************************************************)
(* Properties.                                                             *)
(***************************************************************************)
\* Tasks and tracked messages are what the code can have.
TypeOK ==
    /\ queue \in Seq(Message) /\ wire \in Seq(Message)
    /\ tracked \in [AllTopics -> Message \union {NoMessage}]
    /\ sending \in 0 .. publishers
    /\ (link => connected) /\ (wire # <<>> => link)

\* A tracked message is the last of its topic in the queue.  A message that was tracked but
\* no longer queued would make the next send_message raise, and one that is not the last
\* would be replaced in place of a newer one.
TrackedIsLast ==
    \A t \in AllTopics : tracked[t] # NoMessage =>
        \E i \in DOMAIN queue :
            /\ Same(queue[i], tracked[t])
            /\ \A j \in DOMAIN queue : j > i => queue[j].topic # t

\* The broker never gets an older message of a topic after a newer one, whatever publishers,
\* reconnections and replacements in the queue do; only a broken connection takes the
\* status back.
NeverOlder ==
    [][\A t \in AllTopics :
           broker'[t] < broker[t] => t = Status /\ link /\ ~link']_vars

\* Once connections hold, the broker has the last message of every topic that was not lost
\* with a connection or refused by one that was down, and knows that the device is online.
Delivered ==
    <>[](/\ \A t \in AllTopics : lost[t] = "no" => broker[t] = sent[t]
         /\ broker[Status] > 0)
=============================================================================

