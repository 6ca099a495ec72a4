------------------------------- MODULE EspMqtt -------------------------------
(***************************************************************************)
(* The MQTT process of components/lwmqtt-esp-mqtt, esp_mqtt.c: a background *)
(* task that connects, waits for data and reconnects, the calls other      *)
(* tasks make, and the callbacks that components/mqtt_client installs.     *)
(*                                                                         *)
(* Two mutexes protect it.  The main mutex covers the lwmqtt client and    *)
(* the flags; the select mutex is held while the task sleeps in select(),  *)
(* so that others can use the client meanwhile but nobody closes the       *)
(* socket.  A step is what a task does between two lock operations; what   *)
(* the network answers is left open, every call into lwmqtt may fail.      *)
(***************************************************************************)
EXTENDS Integers, Sequences, FiniteSets, SequencesExt

CONSTANTS
  Clients,        \* the application's tasks
  QueueSize,      \* CONFIG_ESP_MQTT_EVENT_QUEUE_SIZE
  MayStop,        \* clients call esp_mqtt_stop
  CallbackStops,  \* the message callback calls esp_mqtt_stop
  MaxMessages     \* bound: messages the broker sends

Mqtt == "mqtt"    \* the background task
Free == "free"    \* nobody holds the mutex
Tasks == Clients \cup {Mqtt}

ASSUME ClientAssumption == Clients # {} /\ {Mqtt, Free} \cap Clients = {}
ASSUME SizeAssumption == QueueSize \in Nat \ {0} /\ MaxMessages \in Nat
ASSUME ChoiceAssumption == {MayStop, CallbackStops} \subseteq BOOLEAN

VARIABLES
  main, select,    \* the task that holds each mutex, or Free
  pc,              \* where each task stands
  running, connected, error,   \* esp_mqtt_running, _connected and _error
  socket,          \* "closed", "opening" or "open"
  available,       \* what the last select() said
  event_queue,     \* received messages, oldest first
  handling,        \* the message in the callback, 0 if there is none
  is_connected,    \* MQTTClient::is_connected_
  \* History: the last status reported since the task's start, how the last
  \* request ended, whether the present connection failed, and the messages.
  emitted, last, fault, arrived, dispatched, dropped, abandoned

locks  == <<main, select>>
flags  == <<running, connected, error>>
net    == <<socket, available, fault>>
events == <<event_queue, handling, arrived, dispatched, dropped, abandoned>>
told   == <<is_connected, emitted, last>>
vars   == <<locks, pc, flags, net, events, told>>

AfterMain_NoSelect ==
  [connect      |-> "open",       lock_failed  |-> "failed",
   lock_session |-> "handshake",  lock_work    |-> "work",
   lock_close   |-> "close",      lock_publish |-> "publish",
   lock_request |-> "request",    lock_start   |-> "start",
   stop_main    |-> "stop"]

\* LOCK_MAIN and LOCK_SELECT: from where they are called, and what follows.
AfterMain ==
  [connect      |-> "open",       lock_failed  |-> "failed",
   lock_session |-> "handshake",  lock_work    |-> "work",
   lock_close   |-> "close",      lock_publish |-> "publish",
   lock_request |-> "request",    lock_start   |-> "start",
   stop_main    |-> "stop_select"]

AfterSelect == [lock_wait |-> "wait", lock_select |-> "select", stop_select |-> "stop"]

\* Where a task holds the main mutex, and where it holds the select mutex.
InMain   == {AfterMain[p] : p \in DOMAIN AfterMain} \cup {"stop", "stop_delete"}
InSelect == {AfterSelect[p] : p \in DOMAIN AfterSelect} \cup {"stop_delete"}

MqttPcs == (DOMAIN AfterMain \cup DOMAIN AfterSelect \cup InMain \cup InSelect
            \cup {"none", "delay", "announce", "check", "dispatch", "callback", "announce_lost"})
           \ {"lock_start", "start", "lock_publish", "publish"}

ClientPcs == {"idle", "lock_publish", "publish", "lock_request", "request", "lock_start",
              "start", "stop_main", "stop_select", "stop", "stop_delete"}

\* Where the background task stands while there is a connection.
Session == {"announce", "lock_request", "request", "check", "lock_select", "select",
            "lock_work", "work", "dispatch", "callback", "lock_close", "close",
            "stop_main", "stop_select", "stop"}

Goto(t, from, to) == pc[t] = from /\ pc' = [pc EXCEPT ![t] = to]

\* xSemaphoreGive by task t
GiveMain(t)   == main' = IF main = t THEN Free ELSE main
GiveSelect(t) == select' = IF select = t THEN Free ELSE select

Init ==
  /\ main = Free /\ select = Free
  /\ pc = [t \in Tasks |-> IF t = Mqtt THEN "none" ELSE "idle"]
  /\ running = FALSE /\ connected = FALSE /\ error = FALSE
  /\ socket = "closed" /\ available = FALSE /\ fault = FALSE
  /\ event_queue = <<>> /\ handling = 0 /\ arrived = 0
  /\ dispatched = <<>> /\ dropped = 0 /\ abandoned = 0
  /\ is_connected = FALSE /\ emitted = "none" /\ last = "none"

LockMain(t) ==
  /\ pc[t] \in DOMAIN AfterMain /\ main = Free
  /\ main' = t
  /\ pc' = [pc EXCEPT ![t] = AfterMain[pc[t]]]
  /\ UNCHANGED <<select, flags, net, events, told>>

LockSelect(t) ==
  /\ pc[t] \in DOMAIN AfterSelect /\ select = Free
  /\ select' = t
  /\ pc' = [pc EXCEPT ![t] = AfterSelect[pc[t]]]
  /\ UNCHANGED <<main, flags, net, events, told>>

-----------------------------------------------------------------------------
(***************************************************************************)
(* The connection loop of esp_mqtt_process.                                *)
(***************************************************************************)

\* The client is set up anew and the TCP connection initiated, or not.
Open ==
  /\ pc[Mqtt] = "open" /\ GiveMain(Mqtt)
  /\ \/ socket' = "opening" /\ pc' = [pc EXCEPT ![Mqtt] = "lock_wait"]
     \/ socket' = "closed" /\ pc' = [pc EXCEPT ![Mqtt] = "delay"]
  /\ fault' = FALSE
  /\ UNCHANGED <<select, flags, available, events, told>>

Wait_Unlocked ==
  /\ pc[Mqtt] = "wait" /\ GiveSelect(Mqtt)
  /\ \/ socket' = "open" /\ pc' = [pc EXCEPT ![Mqtt] = "handshake"]
     \/ socket' \in {"opening", "closed"} /\ pc' = [pc EXCEPT ![Mqtt] = "lock_failed"]
  /\ UNCHANGED <<main, flags, available, fault, events, told>>

\* The TCP connection is made, not made in time, or refused; in the last case
\* the socket is closed at once, under the select mutex only.
Wait ==
  /\ pc[Mqtt] = "wait" /\ GiveSelect(Mqtt)
  /\ \/ socket' = "open" /\ pc' = [pc EXCEPT ![Mqtt] = "lock_session"]
     \/ socket' \in {"opening", "closed"} /\ pc' = [pc EXCEPT ![Mqtt] = "lock_failed"]
  /\ UNCHANGED <<main, flags, available, fault, events, told>>

ConnectFailed ==
  /\ Goto(Mqtt, "failed", "delay") /\ GiveMain(Mqtt)
  /\ socket' = "closed"
  /\ UNCHANGED <<select, flags, available, fault, events, told>>

\* lwmqtt_connect
Handshake ==
  /\ pc[Mqtt] = "handshake" /\ GiveMain(Mqtt)
  /\ \/ /\ connected' = TRUE /\ UNCHANGED socket
        /\ pc' = [pc EXCEPT ![Mqtt] = "announce"]
     \/ /\ socket' = "closed" /\ UNCHANGED connected
        /\ pc' = [pc EXCEPT ![Mqtt] = "delay"]
  /\ UNCHANGED <<select, running, error, available, fault, events, told>>

Retry == Goto(Mqtt, "delay", "connect") /\ UNCHANGED <<locks, flags, net, events, told>>

\* The status callback: handle_connect, which publishes a test message (QoS 1).
Announce ==
  /\ Goto(Mqtt, "announce", "lock_request")
  /\ is_connected' = TRUE /\ emitted' = "connected" /\ last' = "none"
  /\ UNCHANGED <<locks, flags, net, events>>

-----------------------------------------------------------------------------
(***************************************************************************)
(* The yield loop and what follows it.                                     *)
(***************************************************************************)

CheckError ==
  /\ Goto(Mqtt, "check", IF error THEN "lock_close" ELSE "lock_select")
  /\ UNCHANGED <<locks, flags, net, events, told>>

Select ==
  /\ pc[Mqtt] = "select" /\ GiveSelect(Mqtt)
  /\ \/ /\ available' \in BOOLEAN /\ UNCHANGED fault
        /\ pc' = [pc EXCEPT ![Mqtt] = "lock_work"]
     \/ /\ fault' = TRUE /\ UNCHANGED available
        /\ pc' = [pc EXCEPT ![Mqtt] = "lock_close"]
  /\ UNCHANGED <<main, flags, socket, events, told>>

Receive_DropsOldest(t) ==
  /\ \/ t = Mqtt /\ pc[t] = "work" /\ available
     \/ pc[t] = "request" /\ connected
  /\ arrived < MaxMessages /\ arrived' = arrived + 1
  /\ \/ /\ Len(event_queue) < QueueSize
        /\ event_queue' = Append(event_queue, arrived + 1) /\ UNCHANGED dropped
     \/ /\ Len(event_queue) = QueueSize
        /\ event_queue' = Append(Tail(event_queue), arrived + 1) /\ UNCHANGED dropped
     \/ dropped' = dropped + 1 /\ UNCHANGED event_queue
  /\ UNCHANGED <<locks, pc, flags, net, handling, dispatched, abandoned, told>>

\* esp_mqtt_message_handler, called by whichever task reads packets: in
\* lwmqtt_yield, or while it waits for the answer to its own request.  Without
\* memory for the message, or room in the queue, it is dropped; lwmqtt
\* acknowledges it all the same.
Receive(t) ==
  /\ \/ t = Mqtt /\ pc[t] = "work" /\ available
     \/ pc[t] = "request" /\ connected
  /\ arrived < MaxMessages /\ arrived' = arrived + 1
  /\ \/ /\ Len(event_queue) < QueueSize
        /\ event_queue' = Append(event_queue, arrived + 1) /\ UNCHANGED dropped
     \/ dropped' = dropped + 1 /\ UNCHANGED event_queue
  /\ UNCHANGED <<locks, pc, flags, net, handling, dispatched, abandoned, told>>

\* Peek, lwmqtt_yield and lwmqtt_keep_alive return.
Work ==
  /\ pc[Mqtt] = "work" /\ GiveMain(Mqtt)
  /\ \/ pc' = [pc EXCEPT ![Mqtt] = "dispatch"] /\ UNCHANGED fault
     \/ pc' = [pc EXCEPT ![Mqtt] = "lock_close"] /\ fault' = TRUE
  /\ UNCHANGED <<select, flags, socket, available, events, told>>

Dispatch_Last ==
  /\ pc[Mqtt] = "dispatch"
  /\ IF event_queue # <<>>
     THEN /\ handling' = Last(event_queue)
          /\ event_queue' = Front(event_queue)
          /\ pc' = [pc EXCEPT ![Mqtt] = "callback"]
     ELSE /\ pc' = [pc EXCEPT ![Mqtt] = "check"]
          /\ UNCHANGED <<handling, event_queue>>
  /\ UNCHANGED <<locks, flags, net, arrived, dispatched, dropped, abandoned, told>>

Dispatch_OnlyAvailable ==
  /\ pc[Mqtt] = "dispatch"
  /\ IF event_queue # <<>> /\ available
     THEN /\ handling' = Head(event_queue)
          /\ event_queue' = Tail(event_queue)
          /\ pc' = [pc EXCEPT ![Mqtt] = "callback"]
     ELSE /\ pc' = [pc EXCEPT ![Mqtt] = "check"]
          /\ UNCHANGED <<handling, event_queue>>
  /\ UNCHANGED <<locks, flags, net, arrived, dispatched, dropped, abandoned, told>>

\* esp_mqtt_dispatch_events, without a mutex
Dispatch ==
  /\ pc[Mqtt] = "dispatch"
  /\ IF event_queue # <<>>
     THEN /\ handling' = Head(event_queue)
          /\ event_queue' = Tail(event_queue)
          /\ pc' = [pc EXCEPT ![Mqtt] = "callback"]
     ELSE /\ pc' = [pc EXCEPT ![Mqtt] = "check"]
          /\ UNCHANGED <<handling, event_queue>>
  /\ UNCHANGED <<locks, flags, net, arrived, dispatched, dropped, abandoned, told>>

Callback ==
  /\ Goto(Mqtt, "callback", "dispatch")
  /\ dispatched' = Append(dispatched, handling) /\ handling' = 0
  /\ UNCHANGED <<locks, flags, net, event_queue, arrived, dropped, abandoned, told>>

CallbackStop ==
  /\ CallbackStops /\ Goto(Mqtt, "callback", "stop_main")
  /\ UNCHANGED <<locks, flags, net, events, told>>

Close ==
  /\ Goto(Mqtt, "close", "announce_lost") /\ GiveMain(Mqtt)
  /\ socket' = "closed" /\ connected' = FALSE /\ error' = FALSE
  /\ UNCHANGED <<select, running, available, fault, events, told>>

AnnounceLost_Ends ==
  /\ Goto(Mqtt, "announce_lost", "none")
  /\ is_connected' = FALSE /\ emitted' = "disconnected"
  /\ UNCHANGED <<locks, flags, net, events, last>>

\* The status callback: handle_disconnect.
AnnounceLost ==
  /\ Goto(Mqtt, "announce_lost", "connect")
  /\ is_connected' = FALSE /\ emitted' = "disconnected"
  /\ UNCHANGED <<locks, flags, net, events, last>>

-----------------------------------------------------------------------------
(***************************************************************************)
(* The calls of other tasks.                                               *)
(***************************************************************************)

\* MQTTClient::publish asks is_connected() first.  With QoS 0 nothing is read,
\* with a higher one the answer is awaited.
Publish(c) ==
  /\ pc[c] = "idle" /\ is_connected
  /\ pc' = [pc EXCEPT ![c] = "lock_publish"] \/ pc' = [pc EXCEPT ![c] = "lock_request"]
  /\ UNCHANGED <<locks, flags, net, events, told>>

\* esp_mqtt_subscribe, esp_mqtt_unsubscribe
Subscribe(c) ==
  /\ Goto(c, "idle", "lock_request")
  /\ UNCHANGED <<locks, flags, net, events, told>>

Back(t) == IF t = Mqtt THEN "check" ELSE "idle"

Answer_Unchecked(t) ==
  /\ pc[t] \in {"publish", "request"} /\ GiveMain(t)
  /\ pc' = [pc EXCEPT ![t] = Back(t)]
  /\ \/ last' = "ok" /\ UNCHANGED <<error, fault>>
     \/ last' = "failed" /\ error' = TRUE /\ fault' = TRUE
  /\ UNCHANGED <<select, running, connected, socket, available, events, is_connected, emitted>>

Answer_Retries(t) ==
  /\ pc[t] \in {"publish", "request"} /\ GiveMain(t)
  /\ pc' = [pc EXCEPT ![t] = IF connected THEN Back(t) ELSE "lock_request"]
  /\ \/ ~connected /\ last' = "refused" /\ UNCHANGED <<error, fault>>
     \/ connected /\ last' = "ok" /\ UNCHANGED <<error, fault>>
     \/ connected /\ last' = "failed" /\ error' = TRUE /\ fault' = TRUE
  /\ UNCHANGED <<select, running, connected, socket, available, events, is_connected, emitted>>

\* A publish, subscribe or unsubscribe call returns.
Answer(t) ==
  /\ pc[t] \in {"publish", "request"} /\ GiveMain(t)
  /\ pc' = [pc EXCEPT ![t] = Back(t)]
  /\ \/ ~connected /\ last' = "refused" /\ UNCHANGED <<error, fault>>
     \/ connected /\ last' = "ok" /\ UNCHANGED <<error, fault>>
     \/ connected /\ last' = "failed" /\ error' = TRUE /\ fault' = TRUE
  /\ UNCHANGED <<select, running, connected, socket, available, events, is_connected, emitted>>

Start(c) == Goto(c, "idle", "lock_start") /\ UNCHANGED <<locks, flags, net, events, told>>

\* The rest of esp_mqtt_start; creating the task can fail.
StartTask(c) ==
  /\ pc[c] = "start" /\ GiveMain(c)
  /\ \/ pc' = [pc EXCEPT ![c] = "idle"] /\ UNCHANGED <<running, emitted>>
     \/ /\ ~running /\ running' = TRUE
        /\ pc' = [pc EXCEPT ![c] = "idle", ![Mqtt] = "connect"]
        /\ emitted' = "none"
  /\ UNCHANGED <<select, connected, error, net, events, is_connected, last>>

Stop(c) ==
  /\ MayStop /\ Goto(c, "idle", "stop_main")
  /\ UNCHANGED <<locks, flags, net, events, told>>

\* The rest of esp_mqtt_stop, with both mutexes held.
StopIdle(c) ==
  /\ Goto(c, "stop", "idle") /\ ~running
  /\ GiveMain(c) /\ GiveSelect(c)
  /\ UNCHANGED <<flags, net, events, told>>

StopClose_KeepsConnected(t) ==
  /\ Goto(t, "stop", "stop_delete") /\ running
  /\ socket' = "closed"
  /\ UNCHANGED <<locks, flags, available, fault, events, told>>

\* lwmqtt_disconnect, whose outcome is ignored, and the end of the socket.
StopClose(t) ==
  /\ Goto(t, "stop", "stop_delete") /\ running
  /\ connected' = FALSE /\ socket' = "closed"
  /\ UNCHANGED <<locks, running, error, available, fault, events, told>>

\* The background task is deleted wherever it stands, also in a callback.
DeleteTask ==
  /\ abandoned' = abandoned + (IF handling # 0 THEN 1 ELSE 0) /\ handling' = 0
  /\ UNCHANGED <<connected, error, net, event_queue, arrived, dispatched, dropped, told>>

StopTask(c) ==
  /\ pc[c] = "stop_delete" /\ DeleteTask
  /\ pc' = [pc EXCEPT ![c] = "idle", ![Mqtt] = "none"]
  /\ running' = FALSE
  /\ GiveMain(c) /\ GiveSelect(c)

\* Called by the background task itself, esp_mqtt_stop never gets past vTaskDelete.
StopSelf ==
  /\ Goto(Mqtt, "stop_delete", "none") /\ DeleteTask
  /\ UNCHANGED <<locks, running>>

-----------------------------------------------------------------------------
Connecting == Open \/ Wait \/ ConnectFailed \/ Handshake \/ Retry \/ Announce

Yielding == \/ CheckError \/ Select \/ Work \/ Dispatch \/ Callback \/ CallbackStop
            \/ Close \/ AnnounceLost \/ StopClose(Mqtt) \/ StopSelf

\* The part of a call that follows the last lock operation.
Finish(c) == Answer(c) \/ StartTask(c) \/ StopIdle(c) \/ StopClose(c) \/ StopTask(c)

Next ==
  \/ \E t \in Tasks : LockMain(t) \/ LockSelect(t) \/ Receive(t)
  \/ Connecting \/ Yielding \/ Answer(Mqtt)
  \/ \E c \in Clients : Publish(c) \/ Subscribe(c) \/ Start(c) \/ Stop(c) \/ Finish(c)

Spec == Init /\ [][Next]_vars

\* Every call into the network ends by its timeout, and a task that waits for a
\* mutex gets it: FreeRTOS wakes the waiting tasks in turn.  The broker is
\* reachable again and again: connecting does not fail forever.
Fairness ==
  /\ WF_vars(Connecting \/ Yielding \/ Answer(Mqtt))
  /\ \A t \in Tasks : SF_vars(LockMain(t)) /\ SF_vars(LockSelect(t))
  /\ \A c \in Clients : WF_vars(Finish(c))
  /\ SF_vars(Open /\ socket' = "opening")
  /\ SF_vars(Wait /\ socket' = "open")
  /\ SF_vars(Handshake /\ connected')

FairSpec == Spec /\ Fairness

-----------------------------------------------------------------------------
LockTypes == {main, select} \subseteq Tasks \cup {Free}

PlaceTypes ==
  /\ pc \in [Tasks -> MqttPcs \cup ClientPcs]
  /\ pc[Mqtt] \in MqttPcs /\ \A c \in Clients : pc[c] \in ClientPcs

FlagTypes ==
  /\ {running, connected, error, available, fault, is_connected} \subseteq BOOLEAN
  /\ socket \in {"closed", "opening", "open"}
  /\ emitted \in {"none", "connected", "disconnected"}
  /\ last \in {"none", "ok", "failed", "refused"}

EventTypes ==
  /\ event_queue \in Seq(Nat) /\ dispatched \in Seq(Nat)
  /\ Len(event_queue) <= QueueSize
  /\ {handling, arrived, dropped, abandoned} \subseteq Nat

\* Every variable keeps its type; the event queue never exceeds its length.
TypeOK == LockTypes /\ PlaceTypes /\ FlagTypes /\ EventTypes

\* At most one task is inside a call into lwmqtt or changes the flags, although
\* a connection attempt gives the main mutex up in its middle and takes it again.
OneUser == \A t, u \in Tasks : pc[t] \in InMain /\ pc[u] \in InMain => t = u

\* The socket that the background task sleeps on is never closed meanwhile: the
\* descriptor could be in other use when select() returns.
SelectSafe ==
  /\ pc[Mqtt] = "wait" => socket = "opening"
  /\ pc[Mqtt] = "select" => socket = "open"

\* Whenever a call may look at it, esp_mqtt_connected tells the truth: there is
\* an open socket and a background task that serves it, and never otherwise.
ConnectedIsServed ==
  /\ connected => pc[Mqtt] \in Session /\ running /\ socket = "open"
  /\ pc[Mqtt] \in Session /\ (\A c \in Clients : pc[c] # "stop_delete") => connected

\* The process gives a connection up only if something failed on this one; an
\* error of an earlier connection does not count.
LostForAReason == pc[Mqtt] \in {"lock_close", "close"} => fault

\* "The process can be stopped anytime by calling esp_mqtt_stop()"
\* (esp_mqtt.h:74): a deleted task leaves no mutex taken, or no call would return.
NoOrphanedLock == pc[Mqtt] = "none" => Mqtt \notin {main, select}

\* Messages reach the callback in the order they arrived, each at most once,
\* whichever task read them off the network.
MessagesInOrder == \A i, j \in DOMAIN dispatched : i < j => dispatched[i] < dispatched[j]

\* A message is lost only where the handler says so, for want of memory or of room
\* in the event queue, or with the task that was handling it when esp_mqtt_stop
\* deleted it; a lost connection, or stop and start, lose no other.
MessagesAccounted ==
  arrived = Len(dispatched) + Len(event_queue) + (IF handling # 0 THEN 1 ELSE 0)
            + dropped + abandoned

\* What the application sees of the process, see MqttProcess.
Phase == IF pc[Mqtt] \in Session THEN "online" ELSE IF running THEN "connecting" ELSE "off"

Process == INSTANCE MqttProcess WITH phase <- Phase, status <- emitted

\* Reports of connections and losses alternate, no connection is made before the
\* last loss is reported, and requests succeed only on a connection.
ImplementsProcess == Process!Spec

\* No call blocks forever: whoever waits for a mutex or an answer goes on.
CallsReturn == \A c \in Clients : (pc[c] # "idle") ~> (pc[c] = "idle")

\* The process reconnects for as long as it runs.
Reconnects == []<>(running => connected)

\* Once connections stop failing and nobody stops the process, whatever was
\* received before, and by whichever task, is passed on.
MessagesDelivered ==
  <>[](running /\ ~fault) => ((event_queue # <<>>) ~> (event_queue = <<>>))

=============================================================================
