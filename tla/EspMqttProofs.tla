----------------------------- MODULE EspMqttProofs -----------------------------
(***************************************************************************)
(* Theorems about the MQTT process, for any number of client tasks, any    *)
(* length of the event queue and any number of messages, stops included.   *)
(***************************************************************************)
EXTENDS EspMqtt, QueueFacts, TLAPS

USE ClientAssumption DEF Tasks

LEMMA FreeIsNoTask == Free \notin Tasks /\ Mqtt \in Tasks /\ Mqtt \notin Clients
BY DEF Free, Mqtt

\* The places of EspMqtt, spelled out.
LEMMA Places ==
  /\ DOMAIN AfterMain = {"connect", "lock_failed", "lock_session", "lock_work", "lock_close",
                         "lock_publish", "lock_request", "lock_start", "stop_main"}
  /\ DOMAIN AfterSelect = {"lock_wait", "lock_select", "stop_select"}
  /\ InMain = {"open", "failed", "handshake", "work", "close", "publish", "request", "start",
               "stop_select", "stop", "stop_delete"}
  /\ InSelect = {"wait", "select", "stop", "stop_delete"}
<1>1. DOMAIN AfterMain = {"connect", "lock_failed", "lock_session", "lock_work", "lock_close",
                          "lock_publish", "lock_request", "lock_start", "stop_main"}
  BY DEF AfterMain
<1>2. DOMAIN AfterSelect = {"lock_wait", "lock_select", "stop_select"}
  BY DEF AfterSelect
<1>3. InMain = {"open", "failed", "handshake", "work", "close", "publish", "request", "start",
                "stop_select", "stop", "stop_delete"}
  BY <1>1 DEF AfterMain, InMain
<1>4. InSelect = {"wait", "select", "stop", "stop_delete"}
  BY <1>2 DEF AfterSelect, InSelect
<1> QED BY <1>1, <1>2, <1>3, <1>4

\* Taking the select mutex changes nothing about the main one.
LEMMA Locked ==
  \A p \in DOMAIN AfterSelect : AfterSelect[p] \in InMain <=> p \in InMain
BY Places DEF AfterSelect

-----------------------------------------------------------------------------
\* A task that stands where a mutex is needed has it.
Holding ==
  \A t \in Tasks : /\ pc[t] \in InMain => main = t
                   /\ pc[t] \in InSelect => select = t

\* Only a started process has a background task, or anything to stop; whoever is
\* about to delete the task has closed the connection.
Living ==
  /\ pc[Mqtt] # "none" => running
  /\ \A t \in Tasks : pc[t] = "stop_delete" => running /\ ~connected

\* A client has closed the connection and will delete the background task.
Closing == \E c \in Clients : pc[c] = "stop_delete"

\* What is known of the socket during an attempt, and of the flag after it.
Serving ==
  /\ pc[Mqtt] \in {"lock_wait", "wait"} => socket = "opening" \/ Closing
  /\ pc[Mqtt] \in {"lock_session", "handshake"} => socket = "open" \/ Closing
  /\ connected => pc[Mqtt] \in Session /\ running /\ socket = "open"
  /\ pc[Mqtt] \in Session => connected \/ Closing

\* What was last reported, by place of the background task.
Reporting ==
  /\ pc[Mqtt] \in {"connect", "open", "lock_wait", "wait", "lock_session", "handshake",
                   "lock_failed", "failed", "delay", "announce"} => emitted # "connected"
  /\ pc[Mqtt] \in (Session \ {"announce"}) \cup {"announce_lost"} => emitted = "connected"

\* Only a callback has a message in hand, or the stop that it calls.
Handled ==
  /\ handling # 0 => pc[Mqtt] \in {"callback", "stop_main", "stop_select", "stop", "stop_delete"}
  /\ pc[Mqtt] = "callback" => handling # 0

\* The dispatched messages, the one in hand and those in the queue, in this order,
\* are in order of arrival.
Ordered ==
  /\ \A i, j \in DOMAIN event_queue : i < j => event_queue[i] < event_queue[j]
  /\ \A j \in DOMAIN event_queue : handling < event_queue[j] /\ event_queue[j] <= arrived
  /\ handling <= arrived
  /\ \A i \in DOMAIN dispatched : dispatched[i] <= arrived
  /\ \A i \in DOMAIN dispatched : handling # 0 => dispatched[i] < handling
  /\ \A i \in DOMAIN dispatched, j \in DOMAIN event_queue : dispatched[i] < event_queue[j]
  /\ MessagesInOrder

IInv == /\ TypeOK /\ Holding /\ Living /\ Serving /\ Reporting
        /\ Handled /\ Ordered /\ MessagesAccounted

-----------------------------------------------------------------------------
\* The mutexes do what they are for: a task gets one only when it is free.
LEMMA HoldingStep ==
  ASSUME PlaceTypes, Holding, Next
  PROVE  Holding'
<1> USE Places DEF PlaceTypes, Holding
<1>1. ASSUME NEW t \in Tasks, LockMain(t) PROVE Holding'
  <2>1. \A u \in Tasks : main # u /\ (pc[u] \notin InMain)
    BY <1>1, FreeIsNoTask DEF LockMain
  <2>2. AfterMain[pc[t]] \notin InSelect
    BY <1>1 DEF LockMain, AfterMain
  <2>3. pc' = [pc EXCEPT ![t] = AfterMain[pc[t]]] /\ main' = t /\ select' = select
    BY <1>1 DEF LockMain
  <2> HIDE Places
  <2> QED BY <2>1, <2>2, <2>3
<1>2. ASSUME NEW t \in Tasks, LockSelect(t) PROVE Holding'
  <2>1. \A u \in Tasks : select # u /\ (pc[u] \notin InSelect)
    BY <1>2, FreeIsNoTask DEF LockSelect
  <2>2. AfterSelect[pc[t]] \in InMain <=> pc[t] \in InMain
    BY <1>2, Locked DEF LockSelect
  <2>3. pc' = [pc EXCEPT ![t] = AfterSelect[pc[t]]] /\ select' = t /\ main' = main
    BY <1>2 DEF LockSelect
  <2> HIDE Places
  <2> QED BY <2>1, <2>2, <2>3
<1>3. ASSUME NEW t \in Tasks, Receive(t) PROVE Holding'
  BY <1>3 DEF Receive, locks
<1>4. CASE Connecting
  <2>1. CASE Open
    BY <2>1 DEF Open, GiveMain
  <2>2. CASE Wait
    BY <2>2 DEF Wait, GiveSelect
  <2>3. CASE ConnectFailed \/ Handshake
    BY <2>3 DEF ConnectFailed, Handshake, Goto, GiveMain
  <2>4. CASE Retry \/ Announce
    BY <2>4 DEF Retry, Announce, Goto, locks
  <2> QED BY <1>4, <2>1, <2>2, <2>3, <2>4 DEF Connecting
<1>5. CASE Yielding
  <2>1. CASE CheckError
    BY <2>1 DEF CheckError, Goto, locks
  <2>4. CASE Dispatch
    BY <2>4 DEF Dispatch, locks
  <2>5. CASE Callback \/ CallbackStop \/ AnnounceLost
    BY <2>5 DEF Callback, CallbackStop, AnnounceLost, Goto, locks
  <2>2. CASE Select \/ Work \/ Close
    BY <2>2 DEF Select, Work, Close, Goto, GiveMain, GiveSelect
  <2>3. CASE StopClose(Mqtt) \/ StopSelf
    BY <2>3 DEF StopClose, StopSelf, Goto, locks
  <2> QED BY <1>5, <2>1, <2>2, <2>3, <2>4, <2>5 DEF Yielding
<1>6. ASSUME NEW t \in Tasks, Answer(t) PROVE Holding'
  BY <1>6 DEF Answer, GiveMain, Back
<1>7. ASSUME NEW c \in Clients, Publish(c) \/ Subscribe(c) \/ Start(c) \/ Stop(c) PROVE Holding'
  BY <1>7 DEF Publish, Subscribe, Start, Stop, Goto, locks
<1>8. ASSUME NEW c \in Clients, StartTask(c) \/ StopIdle(c) PROVE Holding'
  BY <1>8 DEF StartTask, StopIdle, Goto, GiveMain, GiveSelect
<1>9. ASSUME NEW c \in Clients, StopClose(c) \/ StopTask(c) PROVE Holding'
  BY <1>9 DEF StopClose, StopTask, Goto, GiveMain, GiveSelect, locks
<1> QED BY <1>1, <1>2, <1>3, <1>4, <1>5, <1>6, <1>7, <1>8, <1>9 DEF Next, Finish

-----------------------------------------------------------------------------
LEMMA PlaceStep ==
  ASSUME PlaceTypes, LockTypes, Next
  PROVE  PlaceTypes' /\ LockTypes'
<1> USE Places, FreeIsNoTask DEF PlaceTypes, LockTypes, MqttPcs, ClientPcs
<1>1. ASSUME NEW t \in Tasks, LockMain(t) PROVE PlaceTypes' /\ LockTypes'
  BY <1>1 DEF LockMain, AfterMain
<1>2. ASSUME NEW t \in Tasks, LockSelect(t) PROVE PlaceTypes' /\ LockTypes'
  BY <1>2 DEF LockSelect, AfterSelect
<1>3. ASSUME NEW t \in Tasks, Receive(t) PROVE PlaceTypes' /\ LockTypes'
  BY <1>3 DEF Receive, locks
<1>4. CASE Connecting
  <2>1. CASE Open
    BY <2>1 DEF Open, GiveMain
  <2>2. CASE Wait
    BY <2>2 DEF Wait, GiveSelect
  <2>3. CASE ConnectFailed \/ Handshake
    BY <2>3 DEF ConnectFailed, Handshake, Goto, GiveMain
  <2>4. CASE Retry \/ Announce
    BY <2>4 DEF Retry, Announce, Goto, locks
  <2> QED BY <1>4, <2>1, <2>2, <2>3, <2>4 DEF Connecting
<1>5. CASE Yielding
  <2>1. CASE CheckError
    BY <2>1 DEF CheckError, Goto, locks
  <2>2. CASE Dispatch
    BY <2>2 DEF Dispatch, locks
  <2>3. CASE Callback \/ CallbackStop \/ AnnounceLost
    BY <2>3 DEF Callback, CallbackStop, AnnounceLost, Goto, locks
  <2>4. CASE Select \/ Work \/ Close
    BY <2>4 DEF Select, Work, Close, Goto, GiveMain, GiveSelect
  <2>5. CASE StopClose(Mqtt) \/ StopSelf
    BY <2>5 DEF StopClose, StopSelf, Goto, locks
  <2> QED BY <1>5, <2>1, <2>2, <2>3, <2>4, <2>5 DEF Yielding
<1>6. ASSUME NEW t \in Tasks, Answer(t) PROVE PlaceTypes' /\ LockTypes'
  BY <1>6 DEF Answer, GiveMain, Back
<1>7. ASSUME NEW c \in Clients, Publish(c) \/ Subscribe(c) \/ Start(c) \/ Stop(c)
      PROVE  PlaceTypes' /\ LockTypes'
  BY <1>7 DEF Publish, Subscribe, Start, Stop, Goto, locks
<1>8. ASSUME NEW c \in Clients, StartTask(c) \/ StopIdle(c) PROVE PlaceTypes' /\ LockTypes'
  BY <1>8 DEF StartTask, StopIdle, Goto, GiveMain, GiveSelect
<1>9. ASSUME NEW c \in Clients, StopClose(c) \/ StopTask(c) PROVE PlaceTypes' /\ LockTypes'
  BY <1>9 DEF StopClose, StopTask, Goto, GiveMain, GiveSelect, locks
<1> QED BY <1>1, <1>2, <1>3, <1>4, <1>5, <1>6, <1>7, <1>8, <1>9 DEF Next, Finish

\* Only the status callbacks, the connection and the requests touch these.
LEMMA FlagStep ==
  ASSUME FlagTypes, Next
  PROVE  FlagTypes'
<1> USE DEF FlagTypes
<1>1. ASSUME NEW t \in Tasks, LockMain(t) \/ LockSelect(t) \/ Receive(t) PROVE FlagTypes'
  BY <1>1 DEF LockMain, LockSelect, Receive, flags, net, told
<1>2. CASE Connecting
  BY <1>2 DEF Connecting, Open, Wait, ConnectFailed, Handshake, Retry, Announce, flags, net, told
<1>3. CASE CheckError \/ Dispatch \/ Callback \/ CallbackStop \/ AnnounceLost
  BY <1>3 DEF CheckError, Dispatch, Callback, CallbackStop, AnnounceLost, flags, net, told
<1>4. CASE Select \/ Work \/ Close
  BY <1>4 DEF Select, Work, Close, flags, net, told
<1>5. CASE StopSelf
  BY <1>5 DEF StopSelf, DeleteTask, flags, net, told
<1>6. ASSUME NEW t \in Tasks, StopClose(t) PROVE FlagTypes'
  BY <1>6 DEF StopClose, flags, net, told
<1>7. ASSUME NEW t \in Tasks, Answer(t) PROVE FlagTypes'
  BY <1>7 DEF Answer, flags, net, told
<1>8. ASSUME NEW c \in Clients, Publish(c) \/ Subscribe(c) \/ Start(c) \/ Stop(c) \/ StopIdle(c)
      PROVE  FlagTypes'
  BY <1>8 DEF Publish, Subscribe, Start, Stop, StopIdle, flags, net, told
<1>9. ASSUME NEW c \in Clients, StartTask(c) PROVE FlagTypes'
  BY <1>9 DEF StartTask, flags, net, told
<1>10. ASSUME NEW c \in Clients, StopTask(c) PROVE FlagTypes'
  BY <1>10 DEF StopTask, DeleteTask, flags, net, told
<1> QED BY <1>1, <1>2, <1>3, <1>4, <1>5, <1>6, <1>7, <1>8, <1>9, <1>10, FreeIsNoTask
        DEF Next, Finish, Yielding

-----------------------------------------------------------------------------
\* Receiving from the event queue.
LEMMA Dequeued ==
  ASSUME NEW q \in Seq(Nat), q # <<>>
  PROVE  /\ Head(q) \in Nat /\ Tail(q) \in Seq(Nat)
         /\ Len(Tail(q)) = Len(q) - 1 /\ Len(q) \in Nat
         /\ Head(q) = q[1] /\ 1 \in DOMAIN q
         /\ \A i \in DOMAIN Tail(q) : /\ i + 1 \in DOMAIN q /\ Tail(q)[i] = q[i + 1]
                                      /\ i \in Nat /\ 1 < i + 1
<1>1. /\ Head(q) \in Nat /\ Head(q) = q[1] /\ Tail(q) \in Seq(Nat)
      /\ Len(q) \in Nat /\ Len(q) > 0 /\ Len(Tail(q)) = Len(q) - 1
      /\ \A i \in 1 .. Len(q) - 1 : Tail(q)[i] = q[i + 1]
  BY TailFacts
<1>2. DOMAIN q = 1 .. Len(q) /\ DOMAIN Tail(q) = 1 .. Len(q) - 1
  BY <1>1
<1> QED BY <1>1, <1>2

\* Sending to a queue.
LEMMA Enqueued ==
  ASSUME NEW q \in Seq(Nat), NEW x \in Nat
  PROVE  /\ Append(q, x) \in Seq(Nat)
         /\ Len(Append(q, x)) = Len(q) + 1 /\ Len(q) \in Nat
         /\ \A i \in DOMAIN Append(q, x) :
              /\ i \in Nat
              /\ \/ i \in DOMAIN q /\ Append(q, x)[i] = q[i]
                 \/ i = Len(q) + 1 /\ Append(q, x)[i] = x
         /\ \A i \in DOMAIN q : i \in Nat /\ i < Len(q) + 1 /\ q[i] \in Nat
<1>1. /\ Append(q, x) \in Seq(Nat) /\ Len(Append(q, x)) = Len(q) + 1 /\ Len(q) \in Nat
      /\ Append(q, x)[Len(q) + 1] = x
      /\ \A i \in 1 .. Len(q) : Append(q, x)[i] = q[i]
  BY AppendFacts
<1>2. DOMAIN q = 1 .. Len(q) /\ DOMAIN Append(q, x) = 1 .. Len(q) + 1
  BY <1>1
<1>3. \A i \in DOMAIN q : i \in Nat /\ i < Len(q) + 1 /\ q[i] \in Nat
  BY <1>1, <1>2
<1>4. ASSUME NEW i \in DOMAIN Append(q, x)
      PROVE  /\ i \in Nat
             /\ \/ i \in DOMAIN q /\ Append(q, x)[i] = q[i]
                \/ i = Len(q) + 1 /\ Append(q, x)[i] = x
  BY <1>1, <1>2
<1> QED BY <1>1, <1>3, <1>4

Events == EventTypes /\ Ordered /\ MessagesAccounted

\* A step that leaves the messages alone, or drops the one in hand.
LEMMA EventsSame ==
  ASSUME Events, UNCHANGED <<event_queue, dispatched, arrived, dropped>>,
         \/ UNCHANGED <<handling, abandoned>>
         \/ /\ handling' = 0
            /\ abandoned' = abandoned + (IF handling # 0 THEN 1 ELSE 0)
  PROVE  Events'
<1>1. EventTypes'
  BY DEF Events, EventTypes
<1>2. Ordered'
  BY DEF Events, EventTypes, Ordered, MessagesInOrder
<1>3. Len(event_queue) \in Nat /\ Len(dispatched) \in Nat /\ handling \in Nat /\ abandoned \in Nat
  BY DEF Events, EventTypes
<1>4. MessagesAccounted'
  <2>1. CASE UNCHANGED <<handling, abandoned>>
    BY <2>1 DEF Events, MessagesAccounted
  <2>2. CASE handling' = 0 /\ abandoned' = abandoned + (IF handling # 0 THEN 1 ELSE 0)
    <3>1. /\ arrived' = arrived /\ dropped' = dropped /\ handling' = 0
          /\ Len(dispatched') = Len(dispatched) /\ Len(event_queue') = Len(event_queue)
      BY <2>2
    <3>2. arrived = Len(dispatched) + Len(event_queue) + (IF handling # 0 THEN 1 ELSE 0)
                    + dropped + abandoned
      BY DEF Events, MessagesAccounted
    <3>3. dropped \in Nat
      BY DEF Events, EventTypes
    <3>4. arrived' = Len(dispatched') + Len(event_queue') + dropped' + abandoned'
      BY <2>2, <1>3, <3>1, <3>2, <3>3
    <3> QED BY <3>1, <3>4, <1>3, <3>3 DEF MessagesAccounted
  <2> QED BY <2>1, <2>2
<1> QED BY <1>1, <1>2, <1>4 DEF Events

\* A message arrives: it is younger than all others.
LEMMA ReceiveEvents ==
  ASSUME Events, NEW t \in Tasks, Receive(t)
  PROVE  Events'
<1> USE SizeAssumption DEF Events, EventTypes
<1>1. arrived' = arrived + 1 /\ UNCHANGED <<handling, dispatched, abandoned>>
  BY DEF Receive
<1>2. /\ Len(event_queue) \in Nat /\ Len(dispatched) \in Nat
      /\ {handling, arrived, dropped, abandoned} \subseteq Nat
  OBVIOUS
<1>3. CASE /\ Len(event_queue) < QueueSize
           /\ event_queue' = Append(event_queue, arrived + 1) /\ dropped' = dropped
  <2>1. event_queue' = Append(event_queue, arrived + 1) /\ dropped' = dropped
    BY <1>3
  <2>2. /\ event_queue' \in Seq(Nat)
        /\ Len(event_queue') = Len(event_queue) + 1 /\ Len(event_queue) \in Nat
        /\ \A i \in DOMAIN event_queue' :
             /\ i \in Nat
             /\ \/ i \in DOMAIN event_queue /\ event_queue'[i] = event_queue[i]
                \/ i = Len(event_queue) + 1 /\ event_queue'[i] = arrived + 1
        /\ \A i \in DOMAIN event_queue : /\ i \in Nat /\ i < Len(event_queue) + 1
                                        /\ event_queue[i] \in Nat
    BY <2>1, Enqueued
  <2>3. EventTypes'
    BY <1>1, <1>3, <2>1, <2>2
  <2>4. \A i \in DOMAIN dispatched : dispatched[i] \in Nat
    OBVIOUS
  <2>5. Ordered'
    <3> HIDE DEF EventTypes
    <3>1. handling \in Nat /\ arrived \in Nat
      BY DEF EventTypes
    <3>2. \A i \in DOMAIN event_queue : event_queue[i] < arrived + 1
      BY <2>2, <3>1 DEF Ordered
    <3>3. ASSUME NEW i \in DOMAIN event_queue', NEW j \in DOMAIN event_queue', i < j
          PROVE  event_queue'[i] < event_queue'[j]
      <4>1. i \in DOMAIN event_queue /\ event_queue'[i] = event_queue[i]
        BY <2>2, <3>3
      <4> QED BY <2>2, <3>3, <3>2, <4>1 DEF Ordered
    <3>4. ASSUME NEW j \in DOMAIN event_queue'
          PROVE  handling' < event_queue'[j] /\ event_queue'[j] <= arrived'
      BY <1>1, <2>2, <3>1, <3>2 DEF Ordered
    <3>5. handling' <= arrived' /\ \A i \in DOMAIN dispatched' : dispatched'[i] <= arrived'
      BY <1>1, <2>4, <3>1 DEF Ordered
    <3>6. \A i \in DOMAIN dispatched', j \in DOMAIN event_queue' : dispatched'[i] < event_queue'[j]
      BY <1>1, <2>2, <2>4, <3>1 DEF Ordered
    <3> QED BY <1>1, <3>3, <3>4, <3>5, <3>6 DEF Ordered, MessagesInOrder
  <2>6. Len(event_queue') = Len(event_queue) + 1
    BY <2>2
  <2>7. MessagesAccounted'
    <3> HIDE DEF EventTypes
    <3> QED BY <1>1, <1>2, <2>1, <2>6 DEF MessagesAccounted
  <2> QED BY <2>3, <2>5, <2>7
<1>4. CASE event_queue' = event_queue /\ dropped' = dropped + 1
  <2>1. event_queue' = event_queue /\ dropped' = dropped + 1
    BY <1>4
  <2>2. \A i \in DOMAIN dispatched : dispatched[i] \in Nat
    OBVIOUS
  <2>3. \A i \in DOMAIN event_queue : event_queue[i] \in Nat
    OBVIOUS
  <2>4. Ordered'
    <3>1. arrived \in Nat /\ handling \in Nat
      OBVIOUS
    <3> HIDE DEF EventTypes
    <3>2. \A j \in DOMAIN event_queue : event_queue[j] <= arrived + 1
      BY <2>3, <3>1 DEF Ordered
    <3>3. handling <= arrived + 1 /\ \A i \in DOMAIN dispatched : dispatched[i] <= arrived + 1
      BY <2>2, <3>1 DEF Ordered
    <3> QED BY <1>1, <2>1, <3>2, <3>3 DEF Ordered, MessagesInOrder
  <2>5. MessagesAccounted'
    <3> HIDE DEF EventTypes
    <3> QED BY <1>1, <1>2, <2>1 DEF MessagesAccounted
  <2> QED BY <1>1, <2>1, <2>4, <2>5
<1> QED BY <1>3, <1>4 DEF Receive

\* The oldest message leaves the queue for the callback.
LEMMA DispatchEvents ==
  ASSUME Events, Handled, Dispatch
  PROVE  Events'
<1> USE DEF Events, EventTypes
<1>1. handling = 0 /\ UNCHANGED <<arrived, dispatched, dropped, abandoned>>
  BY DEF Dispatch, Handled
<1>2. CASE event_queue # <<>>
  <2>1. handling' = Head(event_queue) /\ event_queue' = Tail(event_queue)
    BY <1>2 DEF Dispatch
  <2>2. /\ handling' \in Nat /\ event_queue' \in Seq(Nat)
        /\ Len(event_queue') = Len(event_queue) - 1 /\ Len(event_queue) \in Nat
        /\ handling' = event_queue[1] /\ 1 \in DOMAIN event_queue
        /\ \A i \in DOMAIN event_queue' :
             /\ i + 1 \in DOMAIN event_queue /\ event_queue'[i] = event_queue[i + 1]
             /\ i \in Nat /\ 1 < i + 1
    BY <1>2, <2>1, Dequeued
  <2>3. EventTypes'
    BY <1>1, <2>2, SizeAssumption
  <2>4. Ordered'
    <3> HIDE DEF EventTypes
    <3>1. \A i, j \in DOMAIN event_queue' : i < j => event_queue'[i] < event_queue'[j]
      BY <2>2 DEF Ordered
    <3>2. \A j \in DOMAIN event_queue' : handling' < event_queue'[j] /\ event_queue'[j] <= arrived'
      BY <1>1, <2>2 DEF Ordered
    <3>3. handling' <= arrived' /\ \A i \in DOMAIN dispatched' : dispatched'[i] <= arrived'
      BY <1>1, <2>2 DEF Ordered
    <3>4. \A i \in DOMAIN dispatched' : dispatched'[i] < handling'
      BY <1>1, <2>2 DEF Ordered
    <3>5. \A i \in DOMAIN dispatched', j \in DOMAIN event_queue' : dispatched'[i] < event_queue'[j]
      BY <1>1, <2>2 DEF Ordered
    <3> QED BY <1>1, <3>1, <3>2, <3>3, <3>4, <3>5 DEF Ordered, MessagesInOrder
  <2>5. handling' # 0
    <3>1. handling < event_queue[1]
      BY <2>2 DEF Ordered
    <3> HIDE DEF Events, EventTypes
    <3> QED BY <1>1, <2>2, <3>1
  <2>6. MessagesAccounted'
    BY <1>1, <2>2, <2>5 DEF MessagesAccounted
  <2> QED BY <2>3, <2>4, <2>6
<1>3. CASE event_queue = <<>>
  BY <1>1, <1>3, EventsSame DEF Dispatch
<1> QED BY <1>2, <1>3

\* The callback has taken the message.
LEMMA CallbackEvents ==
  ASSUME Events, Handled, Callback
  PROVE  Events'
<1> USE DEF Events, EventTypes
<1>1. /\ handling # 0 /\ handling' = 0 /\ dispatched' = Append(dispatched, handling)
      /\ UNCHANGED <<event_queue, arrived, dropped, abandoned>>
  BY DEF Callback, Handled, Goto
<1>2. /\ dispatched' \in Seq(Nat)
      /\ Len(dispatched') = Len(dispatched) + 1 /\ Len(dispatched) \in Nat
      /\ \A i \in DOMAIN dispatched' :
           /\ i \in Nat
           /\ \/ i \in DOMAIN dispatched /\ dispatched'[i] = dispatched[i]
              \/ i = Len(dispatched) + 1 /\ dispatched'[i] = handling
      /\ \A i \in DOMAIN dispatched : i \in Nat /\ i < Len(dispatched) + 1 /\ dispatched[i] \in Nat
  BY <1>1, Enqueued
<1>3. EventTypes'
  BY <1>1, <1>2
<1>4. \A i \in DOMAIN event_queue : event_queue[i] \in Nat
  OBVIOUS
<1>5. handling \in Nat /\ arrived \in Nat
  OBVIOUS
<1>6. Ordered'
  <2> HIDE DEF EventTypes
  <2> QED BY <1>1, <1>2, <1>4, <1>5 DEF Ordered, MessagesInOrder
<1>7. MessagesAccounted'
  BY <1>1, <1>2 DEF MessagesAccounted
<1> QED BY <1>3, <1>6, <1>7

\* Only four actions touch the messages.
LEMMA EventStep ==
  ASSUME Events, Handled, Next
  PROVE  Events'
<1>1. ASSUME NEW t \in Tasks, LockMain(t) \/ LockSelect(t) PROVE Events'
  BY <1>1, EventsSame DEF LockMain, LockSelect, events
<1>2. ASSUME NEW t \in Tasks, Receive(t) PROVE Events'
  BY <1>2, ReceiveEvents
<1>3. CASE Connecting
  BY <1>3, EventsSame
     DEF Connecting, Open, Wait, ConnectFailed, Handshake, Retry, Announce, events
<1>4. CASE CheckError \/ CallbackStop \/ AnnounceLost \/ Select \/ Work \/ Close
  BY <1>4, EventsSame DEF CheckError, CallbackStop, AnnounceLost, Select, Work, Close, events
<1>5. CASE Dispatch
  BY <1>5, DispatchEvents
<1>6. CASE Callback
  BY <1>6, CallbackEvents
<1>7. CASE DeleteTask
  BY <1>7, EventsSame DEF DeleteTask
<1>8. ASSUME NEW t \in Tasks, StopClose(t) \/ Answer(t) PROVE Events'
  BY <1>8, EventsSame DEF StopClose, Answer, events
<1>9. ASSUME NEW c \in Clients,
             Publish(c) \/ Subscribe(c) \/ Start(c) \/ Stop(c) \/ StopIdle(c) \/ StartTask(c)
      PROVE  Events'
  BY <1>9, EventsSame DEF Publish, Subscribe, Start, Stop, StopIdle, StartTask, events
<1> QED BY <1>1, <1>2, <1>3, <1>4, <1>5, <1>6, <1>7, <1>8, <1>9, FreeIsNoTask
        DEF Next, Finish, Yielding, StopTask, StopSelf

LEMMA HandledStep ==
  ASSUME PlaceTypes, Holding, Living, EventTypes, Events, Handled, Next
  PROVE  Handled'
<1> USE FreeIsNoTask DEF Handled, PlaceTypes
<1>1. ASSUME NEW t \in Tasks, LockMain(t) PROVE Handled'
  BY <1>1, Places DEF LockMain, AfterMain, events
<1>2. ASSUME NEW t \in Tasks, LockSelect(t) PROVE Handled'
  BY <1>2, Places DEF LockSelect, AfterSelect, events
<1>3. ASSUME NEW t \in Tasks, Receive(t) PROVE Handled'
  BY <1>3 DEF Receive
<1>4. CASE Connecting
  <2>1. CASE Open \/ Wait
    BY <2>1 DEF Open, Wait, events
  <2>2. CASE ConnectFailed \/ Handshake \/ Retry \/ Announce
    BY <2>2 DEF ConnectFailed, Handshake, Retry, Announce, Goto, events
  <2> QED BY <1>4, <2>1, <2>2 DEF Connecting
<1>5. CASE CheckError \/ CallbackStop \/ AnnounceLost \/ Select \/ Work \/ Close
  BY <1>5 DEF CheckError, CallbackStop, AnnounceLost, Select, Work, Close, Goto, events
<1>6. CASE Dispatch
  <2>1. CASE event_queue # <<>>
    <3>1. Head(event_queue) \in Nat /\ Head(event_queue) = event_queue[1] /\ 1 \in DOMAIN event_queue
      BY <2>1, Dequeued DEF EventTypes
    <3>2. handling < Head(event_queue) /\ handling \in Nat
      BY <3>1 DEF Events, Ordered, EventTypes
    <3>3. handling' # 0 /\ pc' = [pc EXCEPT ![Mqtt] = "callback"]
      BY <1>6, <2>1, <3>1, <3>2 DEF Dispatch
    <3> QED BY <3>3
  <2>2. CASE event_queue = <<>>
    BY <1>6, <2>2 DEF Dispatch
  <2> QED BY <2>1, <2>2
<1>7. CASE Callback
  BY <1>7 DEF Callback, Goto
<1>8. CASE StopSelf
  BY <1>8 DEF StopSelf, DeleteTask, Goto
<1>9. ASSUME NEW t \in Tasks, StopClose(t) PROVE Handled'
  BY <1>9 DEF StopClose, Goto, events
<1>10. ASSUME NEW t \in Tasks, Answer(t) PROVE Handled'
  BY <1>10 DEF Answer, Back, events
<1>11. ASSUME NEW c \in Clients, Publish(c) \/ Subscribe(c) \/ Start(c) \/ Stop(c) \/ StopIdle(c)
      PROVE  Handled'
  BY <1>11 DEF Publish, Subscribe, Start, Stop, StopIdle, Goto, events
<1>12. ASSUME NEW c \in Clients, StartTask(c) PROVE Handled'
  BY <1>12 DEF StartTask, Living, events
<1>13. ASSUME NEW c \in Clients, StopTask(c) PROVE Handled'
  BY <1>13 DEF StopTask, DeleteTask
<1> QED BY <1>1, <1>2, <1>3, <1>4, <1>5, <1>6, <1>7, <1>8, <1>9, <1>10, <1>11, <1>12, <1>13
        DEF Next, Finish, Yielding

-----------------------------------------------------------------------------
\* Whoever holds the main mutex is the only one who needs it.
LEMMA Alone ==
  ASSUME Holding, NEW t \in Tasks, pc[t] \in InMain, NEW u \in Tasks, u # t
  PROVE  pc[u] \notin InMain
BY DEF Holding

LEMMA LivingStep ==
  ASSUME PlaceTypes, Holding, Living, Next
  PROVE  Living'
<1> USE FreeIsNoTask DEF PlaceTypes, Living
<1>1. ASSUME NEW t \in Tasks, LockMain(t) PROVE Living'
  BY <1>1 DEF LockMain, AfterMain, flags
<1>2. ASSUME NEW t \in Tasks, LockSelect(t) PROVE Living'
  BY <1>2 DEF LockSelect, AfterSelect, flags
<1>3. ASSUME NEW t \in Tasks, Receive(t) PROVE Living'
  BY <1>3 DEF Receive, flags
<1>4. CASE Handshake
  <2>1. pc[Mqtt] = "handshake" /\ running' = running
    BY <1>4 DEF Handshake
  <2>2. \A t \in Tasks : pc[t] # "stop_delete"
    BY <2>1, Alone, Places
  <2>3. \A t \in Tasks : pc'[t] # "stop_delete"
    BY <1>4, <2>2 DEF Handshake
  <2> QED BY <2>1, <2>3
<1>5. CASE Open \/ Wait \/ ConnectFailed \/ Retry \/ Announce
  <2>1. CASE Open \/ Wait
    BY <2>1 DEF Open, Wait, flags
  <2>2. CASE ConnectFailed \/ Retry \/ Announce
    BY <2>2 DEF ConnectFailed, Retry, Announce, Goto, flags
  <2> QED BY <1>5, <2>1, <2>2
<1>6. CASE CheckError \/ Dispatch \/ Callback \/ CallbackStop \/ AnnounceLost
  <2>1. CASE CheckError \/ Dispatch
    BY <2>1 DEF CheckError, Dispatch, Goto, flags
  <2>2. CASE Callback \/ CallbackStop \/ AnnounceLost
    BY <2>2 DEF Callback, CallbackStop, AnnounceLost, Goto, flags
  <2> QED BY <1>6, <2>1, <2>2
<1>7. CASE Select \/ Work \/ Close
  BY <1>7 DEF Select, Work, Close, Goto, flags
<1>8. CASE StopSelf
  BY <1>8 DEF StopSelf, DeleteTask, Goto
<1>9. ASSUME NEW t \in Tasks, StopClose(t) PROVE Living'
  BY <1>9 DEF StopClose, Goto
<1>10. ASSUME NEW t \in Tasks, Answer(t) PROVE Living'
  BY <1>10 DEF Answer, Back
<1>11. ASSUME NEW c \in Clients, Publish(c) \/ Subscribe(c) \/ Start(c) \/ Stop(c) \/ StopIdle(c)
      PROVE  Living'
  BY <1>11 DEF Publish, Subscribe, Start, Stop, StopIdle, Goto, flags
<1>12. ASSUME NEW c \in Clients, StartTask(c) PROVE Living'
  BY <1>12 DEF StartTask
<1>13. ASSUME NEW c \in Clients, StopTask(c) PROVE Living'
  <2>1. \A t \in Tasks : t # c => pc[t] # "stop_delete"
    BY <1>13, Alone, Places DEF StopTask
  <2>2. pc' = [pc EXCEPT ![c] = "idle", ![Mqtt] = "none"]
    BY <1>13 DEF StopTask
  <2> QED BY <2>1, <2>2
<1> QED BY <1>1, <1>2, <1>3, <1>4, <1>5, <1>6, <1>7, <1>8, <1>9, <1>10, <1>11, <1>12, <1>13
        DEF Next, Connecting, Finish, Yielding

\* A step after which the background task stands where it stood, or at a place of
\* the same kind, and the connection is what it was.
LEMMA ServingSame ==
  ASSUME Serving, UNCHANGED <<connected, socket>>, running => running',
         \A c \in Clients : pc[c] = "stop_delete" => pc'[c] = "stop_delete",
         pc'[Mqtt] \in {"lock_wait", "wait"} => pc[Mqtt] \in {"lock_wait", "wait"},
         pc'[Mqtt] \in {"lock_session", "handshake"} => pc[Mqtt] \in {"lock_session", "handshake"},
         pc'[Mqtt] \in Session <=> pc[Mqtt] \in Session
  PROVE  Serving'
BY DEF Serving, Closing

LEMMA ServingStep ==
  ASSUME PlaceTypes, Holding, Living, Serving, Next
  PROVE  Serving'
<1> USE FreeIsNoTask DEF PlaceTypes
<1>1. ASSUME NEW t \in Tasks, LockMain(t) PROVE Serving'
  BY <1>1, ServingSame DEF LockMain, AfterMain, flags, net, Session
<1>2. ASSUME NEW t \in Tasks, LockSelect(t) PROVE Serving'
  BY <1>2, ServingSame DEF LockSelect, AfterSelect, flags, net, Session
<1>3. ASSUME NEW t \in Tasks, Receive(t) PROVE Serving'
  BY <1>3, ServingSame DEF Receive, flags, net
<1>4. CASE Open
  BY <1>4 DEF Open, Serving, Session, flags
<1>5. CASE Wait
  BY <1>5 DEF Wait, Serving, Session, flags
<1>6. CASE ConnectFailed
  BY <1>6 DEF ConnectFailed, Goto, Serving, Session, flags
<1>7. CASE Handshake
  <2>1. ~Closing
    BY <1>7, Alone, Places DEF Handshake, Closing
  <2>2. pc[Mqtt] = "handshake" /\ socket = "open" /\ running
    BY <1>7, <2>1 DEF Handshake, Serving, Living
  <2> QED BY <1>7, <2>2 DEF Handshake, Serving, Session
<1>8. CASE Retry \/ Announce
  BY <1>8, ServingSame DEF Retry, Announce, Goto, flags, net, Session
<1>9. CASE CheckError \/ Dispatch
  BY <1>9, ServingSame DEF CheckError, Dispatch, Goto, flags, net, Session
<1>10. CASE Callback \/ CallbackStop \/ AnnounceLost
  BY <1>10, ServingSame DEF Callback, CallbackStop, AnnounceLost, Goto, flags, net, Session
<1>11. CASE Select \/ Work
  BY <1>11, ServingSame DEF Select, Work, flags, net, Session
<1>12. CASE Close
  BY <1>12 DEF Close, Goto, Serving, Session
<1>13. CASE StopSelf
  BY <1>13 DEF StopSelf, DeleteTask, Goto, Serving, Session, net
<1>14. CASE StopClose(Mqtt)
  BY <1>14 DEF StopClose, Goto, Serving, Session
<1>15. ASSUME NEW c \in Clients, StopClose(c) PROVE Serving'
  <2>1. Closing' /\ ~connected'
    BY <1>15 DEF StopClose, Goto, Closing
  <2> QED BY <2>1 DEF Serving
<1>16. ASSUME NEW t \in Tasks, Answer(t) PROVE Serving'
  <2>1. CASE t = Mqtt
    <3>1. pc[Mqtt] = "request"
      BY <1>16, <2>1, Places DEF Answer, MqttPcs
    <3> QED BY <1>16, <2>1, <3>1, ServingSame DEF Answer, Back, Session
  <2>2. CASE t # Mqtt
    BY <1>16, <2>2, ServingSame DEF Answer, Back
  <2> QED BY <2>1, <2>2
<1>17. ASSUME NEW c \in Clients, Publish(c) \/ Subscribe(c) \/ Start(c) \/ Stop(c) \/ StopIdle(c)
      PROVE  Serving'
  BY <1>17, ServingSame DEF Publish, Subscribe, Start, Stop, StopIdle, Goto, flags, net
<1>18. ASSUME NEW c \in Clients, StartTask(c) PROVE Serving'
  <2>1. CASE pc' = [pc EXCEPT ![c] = "idle"] /\ UNCHANGED running
    BY <1>18, <2>1, ServingSame DEF StartTask, net
  <2>2. CASE ~running /\ pc' = [pc EXCEPT ![c] = "idle", ![Mqtt] = "connect"]
    BY <1>18, <2>2 DEF StartTask, Serving, Session, net
  <2> QED BY <1>18, <2>1, <2>2 DEF StartTask
<1>19. ASSUME NEW c \in Clients, StopTask(c) PROVE Serving'
  BY <1>19 DEF StopTask, DeleteTask, Living, Serving, Session, net
<1> QED BY <1>1, <1>2, <1>3, <1>4, <1>5, <1>6, <1>7, <1>8, <1>9, <1>10, <1>11, <1>12, <1>13,
           <1>14, <1>15, <1>16, <1>17, <1>18, <1>19 DEF Next, Connecting, Finish, Yielding

LEMMA ReportingStep ==
  ASSUME PlaceTypes, Living, Reporting, Next
  PROVE  Reporting'
<1> USE FreeIsNoTask DEF PlaceTypes, Reporting, Session
<1>1. ASSUME NEW t \in Tasks, LockMain(t) PROVE Reporting'
  BY <1>1 DEF LockMain, AfterMain, told
<1>2. ASSUME NEW t \in Tasks, LockSelect(t) PROVE Reporting'
  BY <1>2 DEF LockSelect, AfterSelect, told
<1>3. ASSUME NEW t \in Tasks, Receive(t) PROVE Reporting'
  BY <1>3 DEF Receive, told
<1>4. CASE Open \/ Wait
  BY <1>4 DEF Open, Wait, told
<1>5. CASE ConnectFailed \/ Handshake
  BY <1>5 DEF ConnectFailed, Handshake, Goto, told
<1>6. CASE Retry \/ Announce
  BY <1>6 DEF Retry, Announce, Goto, told
<1>7. CASE CheckError \/ Dispatch
  BY <1>7 DEF CheckError, Dispatch, Goto, told
<1>8. CASE Callback \/ CallbackStop \/ AnnounceLost
  BY <1>8 DEF Callback, CallbackStop, AnnounceLost, Goto, told
<1>9. CASE Select \/ Work \/ Close
  BY <1>9 DEF Select, Work, Close, Goto, told
<1>10. CASE StopSelf
  BY <1>10 DEF StopSelf, DeleteTask, Goto, told
<1>11. ASSUME NEW t \in Tasks, StopClose(t) PROVE Reporting'
  BY <1>11 DEF StopClose, Goto, told
<1>12. ASSUME NEW t \in Tasks, Answer(t) PROVE Reporting'
  <2>1. CASE t = Mqtt
    <3>1. pc[Mqtt] = "request"
      BY <1>12, <2>1, Places DEF Answer, MqttPcs
    <3> QED BY <1>12, <2>1, <3>1 DEF Answer, Back
  <2>2. CASE t # Mqtt
    BY <1>12, <2>2 DEF Answer
  <2> QED BY <2>1, <2>2
<1>13. ASSUME NEW c \in Clients, Publish(c) \/ Subscribe(c) \/ Start(c) \/ Stop(c) \/ StopIdle(c)
      PROVE  Reporting'
  BY <1>13 DEF Publish, Subscribe, Start, Stop, StopIdle, Goto, told
<1>14. ASSUME NEW c \in Clients, StartTask(c) PROVE Reporting'
  BY <1>14 DEF StartTask, Living
<1>15. ASSUME NEW c \in Clients, StopTask(c) PROVE Reporting'
  BY <1>15 DEF StopTask, DeleteTask, told
<1> QED BY <1>1, <1>2, <1>3, <1>4, <1>5, <1>6, <1>7, <1>8, <1>9, <1>10, <1>11, <1>12, <1>13,
           <1>14, <1>15 DEF Next, Connecting, Finish, Yielding

-----------------------------------------------------------------------------
LEMMA InitInv == Init => IInv
<1> SUFFICES ASSUME Init PROVE IInv
  OBVIOUS
<1> USE FreeIsNoTask DEF Init
<1>1. PlaceTypes /\ LockTypes
  BY Places DEF PlaceTypes, LockTypes, MqttPcs, ClientPcs
<1>2. FlagTypes /\ EventTypes
  <2>1. FlagTypes
    BY DEF FlagTypes
  <2>2. <<>> \in Seq(Nat) /\ Len(<<>>) = 0
    OBVIOUS
  <2>3. EventTypes
    BY <2>2, SizeAssumption DEF EventTypes
  <2> QED BY <2>1, <2>3
<1>3. Holding /\ Living
  BY Places DEF Holding, Living
<1>4. Serving /\ Reporting
  BY DEF Serving, Reporting, Session
<1>5. Handled /\ Ordered /\ MessagesAccounted
  BY DEF Handled, Ordered, MessagesInOrder, MessagesAccounted
<1> QED BY <1>1, <1>2, <1>3, <1>4, <1>5 DEF IInv, TypeOK

\* The strengthening is inductive: each part only needs the parts named.
LEMMA InductiveStep ==
  ASSUME IInv, [Next]_vars
  PROVE  IInv'
<1>1. CASE Next
  <2>1. TypeOK' /\ Ordered' /\ MessagesAccounted'
    BY <1>1, PlaceStep, FlagStep, EventStep DEF IInv, TypeOK, Events
  <2>2. Holding' /\ Living' /\ Serving'
    BY <1>1, HoldingStep, LivingStep, ServingStep DEF IInv, TypeOK
  <2>3. Reporting' /\ Handled'
    BY <1>1, ReportingStep, HandledStep DEF IInv, TypeOK, Events
  <2> QED BY <2>1, <2>2, <2>3 DEF IInv
<1>2. CASE UNCHANGED vars
  <2> USE <1>2 DEF IInv, vars
  <2>1. TypeOK'
    BY DEF TypeOK, PlaceTypes, LockTypes, FlagTypes, EventTypes, locks, flags, net, events, told
  <2>2. Holding' /\ Living' /\ Serving' /\ Reporting'
    BY DEF Holding, Living, Serving, Closing, Reporting, locks, flags, net, told
  <2>3. Handled' /\ Ordered' /\ MessagesAccounted'
    BY DEF Handled, Ordered, MessagesInOrder, MessagesAccounted, events
  <2> QED BY <2>1, <2>2, <2>3
<1> QED BY <1>1, <1>2

LEMMA Invariance == Spec => []IInv
<1>1. Init => IInv
  BY InitInv
<1>2. IInv /\ [Next]_vars => IInv'
  BY InductiveStep
<1> QED BY <1>1, <1>2, PTL DEF Spec

\* Every variable of the process keeps its type: in particular the event queue of
\* esp_mqtt.c never grows beyond its length.
THEOREM TypeCorrect == Spec => []TypeOK
BY Invariance, PTL DEF IInv

\* One task at a time uses the lwmqtt client, whatever the number of tasks and
\* although esp_mqtt_process_connect gives the mutex up in its middle.
THEOREM ClientExclusive == Spec => []OneUser
<1>1. IInv => OneUser
  BY Alone DEF IInv, OneUser
<1> QED BY <1>1, Invariance, PTL

\* esp_mqtt_stop never closes the socket under the background task's select().
THEOREM SocketKept == Spec => []SelectSafe
<1>1. ASSUME IInv PROVE SelectSafe
  <2>1. pc[Mqtt] \in {"wait", "select"} => ~Closing
    BY <1>1, Places, FreeIsNoTask DEF IInv, Holding, Closing
  <2> QED BY <1>1, <2>1 DEF IInv, Serving, SelectSafe, Session
<1> QED BY <1>1, Invariance, PTL

\* esp_mqtt_connected is set exactly while the background task serves an open
\* connection, except between the two halves of esp_mqtt_stop.
THEOREM FlagIsTrue == Spec => []ConnectedIsServed
<1>1. IInv => ConnectedIsServed
  BY DEF IInv, Serving, Closing, ConnectedIsServed
<1> QED BY <1>1, Invariance, PTL

\* Messages are dispatched in the order of arrival, although any task may read
\* them and only the background task dispatches them.
THEOREM DispatchedInOrder == Spec => []MessagesInOrder
BY Invariance, PTL DEF IInv, Ordered

\* No message is lost but by the handler, out of memory or to a full queue, or with a
\* deleted task.
THEOREM NoneForgotten == Spec => []MessagesAccounted
BY Invariance, PTL DEF IInv

-----------------------------------------------------------------------------
\* A background task that never calls esp_mqtt_stop itself is deleted by a task
\* that holds both mutexes.
Deleted ==
  /\ pc[Mqtt] \notin {"stop_main", "stop_select", "stop", "stop_delete"}
  /\ NoOrphanedLock

LEMMA DeletedStep ==
  ASSUME ~CallbackStops, PlaceTypes, Holding, Deleted, Next
  PROVE  Deleted'
<1> USE FreeIsNoTask DEF PlaceTypes, Deleted, NoOrphanedLock
<1>1. ASSUME NEW t \in Tasks, LockMain(t) PROVE Deleted'
  BY <1>1 DEF LockMain, AfterMain
<1>2. ASSUME NEW t \in Tasks, LockSelect(t) PROVE Deleted'
  BY <1>2 DEF LockSelect, AfterSelect
<1>3. ASSUME NEW t \in Tasks, Receive(t) PROVE Deleted'
  BY <1>3 DEF Receive, locks
<1>4. CASE Connecting
  <2>1. CASE Open \/ Wait
    BY <2>1 DEF Open, Wait
  <2>2. CASE ConnectFailed \/ Handshake \/ Retry \/ Announce
    BY <2>2 DEF ConnectFailed, Handshake, Retry, Announce, Goto
  <2> QED BY <1>4, <2>1, <2>2 DEF Connecting
<1>5. CASE Yielding
  BY <1>5 DEF Yielding, CheckError, Dispatch, Callback, CallbackStop, AnnounceLost, Select, Work,
       Close, StopClose, StopSelf, Goto
<1>6. ASSUME NEW t \in Tasks, Answer(t) PROVE Deleted'
  BY <1>6 DEF Answer, GiveMain, Back, Mqtt, Free
<1>7. ASSUME NEW c \in Clients, Publish(c) \/ Subscribe(c) \/ Start(c) \/ Stop(c) PROVE Deleted'
  BY <1>7 DEF Publish, Subscribe, Start, Stop, Goto, locks
<1>8. ASSUME NEW c \in Clients, StopIdle(c) \/ StartTask(c) PROVE Deleted'
  BY <1>8 DEF StopIdle, StartTask, Goto, GiveMain, GiveSelect, Mqtt, Free
<1>9. ASSUME NEW c \in Clients, StopClose(c) PROVE Deleted'
  BY <1>9 DEF StopClose, Goto, locks
<1>10. ASSUME NEW c \in Clients, StopTask(c) PROVE Deleted'
  <2>1. main = c /\ select = c
    BY <1>10, Places DEF StopTask, Holding
  <2> QED BY <1>10, <2>1 DEF StopTask, GiveMain, GiveSelect, Mqtt, Free
<1> QED BY <1>1, <1>2, <1>3, <1>4, <1>5, <1>6, <1>7, <1>8, <1>9, <1>10 DEF Next, Finish

\* esp_mqtt_stop leaves no mutex with the task it deletes, unless it is called by
\* that task.
THEOREM LocksSurvive ==
  ASSUME ~CallbackStops
  PROVE  Spec => []NoOrphanedLock
<1>1. Init => Deleted
  BY FreeIsNoTask DEF Init, Deleted, NoOrphanedLock, Free, Mqtt
<1>2. IInv /\ Deleted /\ [Next]_vars => Deleted'
  <2>1. ASSUME IInv, Deleted, Next PROVE Deleted'
    BY <2>1, DeletedStep DEF IInv, TypeOK
  <2>2. ASSUME Deleted, UNCHANGED vars PROVE Deleted'
    BY <2>2 DEF Deleted, NoOrphanedLock, vars, locks
  <2> QED BY <2>1, <2>2
<1>3. Deleted => NoOrphanedLock
  BY DEF Deleted
<1> QED BY <1>1, <1>2, <1>3, Invariance, PTL DEF Spec

-----------------------------------------------------------------------------
(***************************************************************************)
(* The refinement of MqttProcess.                                          *)
(***************************************************************************)

\* A step that the application does not see.
LEMMA Unseen ==
  ASSUME UNCHANGED <<running, emitted, last>>,
         pc'[Mqtt] \in Session <=> pc[Mqtt] \in Session
  PROVE  UNCHANGED Process!vars
BY DEF Process!vars, Phase

LEMMA ProcessStep ==
  ASSUME IInv, Next
  PROVE  [Process!Next]_Process!vars
<1> USE FreeIsNoTask DEF Session
<1>1. pc \in [Tasks -> MqttPcs \cup ClientPcs] /\ pc[Mqtt] \in MqttPcs
  BY DEF IInv, TypeOK, PlaceTypes
<1>2. Reporting /\ Living /\ Serving /\ Holding
  BY DEF IInv
<1>3. ASSUME NEW t \in Tasks, LockMain(t) PROVE UNCHANGED Process!vars
  BY <1>1, <1>3, Unseen DEF LockMain, AfterMain, flags, told
<1>4. ASSUME NEW t \in Tasks, LockSelect(t) PROVE UNCHANGED Process!vars
  BY <1>1, <1>4, Unseen DEF LockSelect, AfterSelect, flags, told
<1>5. ASSUME NEW t \in Tasks, Receive(t) PROVE UNCHANGED Process!vars
  BY <1>1, <1>5, Unseen DEF Receive, flags, told
<1>6. CASE Open \/ Wait
  BY <1>1, <1>6, Unseen DEF Open, Wait, flags, told
<1>7. CASE ConnectFailed \/ Retry
  BY <1>1, <1>7, Unseen DEF ConnectFailed, Retry, Goto, flags, told
<1>8. CASE Handshake
  <2>1. CASE pc' = [pc EXCEPT ![Mqtt] = "announce"]
    BY <1>1, <1>2, <1>8, <2>1
       DEF Handshake, Process!Next, Process!Connect, Phase, Living, Reporting, told
  <2>2. CASE pc' = [pc EXCEPT ![Mqtt] = "delay"]
    BY <1>1, <1>8, <2>2, Unseen DEF Handshake, told
  <2> QED BY <1>8, <2>1, <2>2 DEF Handshake
<1>9. CASE Announce
  BY <1>1, <1>2, <1>9
     DEF Announce, Goto, Process!Next, Process!ReportConnected, Phase, Reporting, flags
<1>10. CASE CheckError \/ Dispatch
  BY <1>1, <1>10, Unseen DEF CheckError, Dispatch, Goto, flags, told
<1>11. CASE Callback \/ CallbackStop
  BY <1>1, <1>11, Unseen DEF Callback, CallbackStop, Goto, flags, told
<1>12. CASE Select \/ Work
  BY <1>1, <1>12, Unseen DEF Select, Work, flags, told
<1>13. CASE Close
  BY <1>1, <1>2, <1>13
     DEF Close, Goto, Process!Next, Process!Lose, Phase, Living, Reporting, told
<1>14. CASE AnnounceLost
  BY <1>1, <1>2, <1>14
     DEF AnnounceLost, Goto, Process!Next, Process!ReportLost, Phase, Living, Reporting, flags
<1>15. CASE StopClose(Mqtt)
  BY <1>1, <1>2, <1>15
     DEF StopClose, Goto, Process!Next, Process!Lose, Phase, Reporting, told
<1>16. CASE StopSelf
  BY <1>1, <1>16, Unseen DEF StopSelf, DeleteTask, Goto, told
<1>17. ASSUME NEW c \in Clients, StopClose(c) PROVE UNCHANGED Process!vars
  BY <1>1, <1>17, Unseen DEF StopClose, Goto, told
<1>18. ASSUME NEW t \in Tasks, Answer(t) PROVE Process!Next
  <2>1. Phase' = Phase
    <3>1. CASE t = Mqtt
      <4>1. pc[Mqtt] = "request"
        BY <1>1, <1>18, <3>1, Places DEF Answer, MqttPcs
      <4> QED BY <1>1, <1>18, <3>1, <4>1 DEF Answer, Back, Phase
    <3>2. CASE t # Mqtt
      BY <1>1, <1>18, <3>2 DEF Answer, Phase
    <3> QED BY <3>1, <3>2
  <2>2. connected <=> pc[Mqtt] \in Session
    <3>1. ~Closing
      BY <1>2, <1>18, Alone, Places DEF Answer, Closing
    <3> QED BY <1>2, <3>1 DEF Serving
  <2>3. connected <=> Phase = "online"
    BY <2>2 DEF Phase
  <2>4. /\ emitted' = emitted
        /\ \/ ~connected /\ last' = "refused"
           \/ connected /\ last' \in {"ok", "failed"}
    BY <1>18 DEF Answer
  <2> QED BY <2>1, <2>3, <2>4 DEF Process!Next, Process!Succeed, Process!Fail, Process!Refuse
<1>19. ASSUME NEW c \in Clients, Publish(c) \/ Subscribe(c) \/ Start(c) \/ Stop(c) \/ StopIdle(c)
       PROVE  UNCHANGED Process!vars
  BY <1>1, <1>19, Unseen DEF Publish, Subscribe, Start, Stop, StopIdle, Goto, flags, told
<1>20. ASSUME NEW c \in Clients, StartTask(c) PROVE [Process!Next]_Process!vars
  <2>1. CASE pc' = [pc EXCEPT ![c] = "idle"] /\ UNCHANGED <<running, emitted>>
    BY <1>1, <1>20, <2>1, Unseen DEF StartTask
  <2>2. CASE /\ ~running /\ running' = TRUE /\ emitted' = "none"
             /\ pc' = [pc EXCEPT ![c] = "idle", ![Mqtt] = "connect"]
    <3>1. Phase = "off" /\ Phase' = "connecting"
      BY <1>1, <1>2, <2>2 DEF Phase, Living
    <3> QED BY <1>20, <2>2, <3>1 DEF StartTask, Process!Next, Process!Start
  <2> QED BY <1>20, <2>1, <2>2 DEF StartTask
<1>21. ASSUME NEW c \in Clients, StopTask(c) PROVE Process!Next
  <2>1. running
    BY <1>2, <1>21 DEF StopTask, Living
  <2>2. Phase # "off" /\ Phase' = "off"
    BY <1>1, <1>21, <2>1 DEF StopTask, Phase
  <2> QED BY <1>21, <2>2 DEF StopTask, DeleteTask, told, Process!Next, Process!Stop
<1> QED BY <1>3, <1>4, <1>5, <1>6, <1>7, <1>8, <1>9, <1>10, <1>11, <1>12, <1>13, <1>14, <1>15,
           <1>16, <1>17, <1>18, <1>19, <1>20, <1>21 DEF Next, Connecting, Yielding, Finish

\* What esp_mqtt.h promises an application, the implementation keeps, however
\* many tasks call it: reports of connections and losses in turn, none of them
\* early, and success of a request only on a connection.
THEOREM Implementation == Spec => ImplementsProcess
<1>1. Init => Process!Init
  BY FreeIsNoTask DEF Init, Process!Init, Phase, Session
<1>2. IInv /\ [Next]_vars => [Process!Next]_Process!vars
  <2>1. ASSUME UNCHANGED vars PROVE UNCHANGED Process!vars
    BY <2>1, Unseen DEF vars, flags, told
  <2> QED BY <2>1, ProcessStep
<1> QED BY <1>1, <1>2, Invariance, PTL DEF Spec, ImplementsProcess, Process!Spec

=============================================================================
