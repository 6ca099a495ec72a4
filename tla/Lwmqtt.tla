------------------------------- MODULE Lwmqtt --------------------------------
(***************************************************************************)
(* The MQTT client of lwmqtt/src/client.c on the connections that          *)
(* esp_mqtt.c gives it.  A call writes a packet and reads packets until    *)
(* the answer it waits for has come, doing on the way what every packet    *)
(* asks for; packets that nobody waits for are read by lwmqtt_yield.  The  *)
(* main mutex of esp_mqtt.c lets one call run at a time.                   *)
(*                                                                         *)
(* The two byte streams of a connection are sequences of packets.  A write *)
(* that stops in the middle of a packet leaves the stream torn: whatever   *)
(* follows is taken for the rest of that packet.  From then on, and when a *)
(* read stops in the middle, the streams are out of step and what is read  *)
(* is arbitrary.  The network may fail at any time, and the command timer  *)
(* of a call may run out at any time.                                      *)
(***************************************************************************)
EXTENDS Integers, Sequences, FiniteSets, SequencesExt

CONSTANTS
  MaxId,         \* 65535, the last packet id
  Requests,      \* kinds of acknowledged requests that the tasks make
  MaxRequests,   \* bound: requests made
  MaxMessages,   \* bound: messages the broker sends
  MaxBacklog,    \* bound: further messages that wait to be read
  MaxSlips       \* bound: requests between a failure and the connection's end

\* What each request writes, and what it waits for.
Opening == [connect   |-> "CONNECT",   publish1    |-> "PUBLISH1",
            publish2  |-> "PUBLISH2",  subscribe   |-> "SUBSCRIBE",
            unsubscribe |-> "UNSUBSCRIBE"]
Needle  == [connect   |-> "CONNACK",   publish1    |-> "PUBACK",
            publish2  |-> "PUBCOMP",   subscribe   |-> "SUBACK",
            unsubscribe |-> "UNSUBACK"]

ASSUME IdAssumption == MaxId \in Nat \ {0} /\ MaxSlips \in 0 .. MaxId - 1
ASSUME RequestAssumption == Requests \subseteq DOMAIN Needle \ {"connect"}
ASSUME BoundAssumption == {MaxRequests, MaxMessages, MaxBacklog} \subseteq Nat

VARIABLES
  last_packet_id, pong_pending,   \* lwmqtt_client_t
  connection,      \* "closed", "new" or "connected"
  error,           \* "none"; "flagged": esp_mqtt_error; "leaving": the
                   \* background task has left its loop to close the connection
  call,            \* the call in progress
  up, down,        \* packets on the way to the broker, and from it
  torn, mangled,   \* the last packet up is incomplete; the streams are out of step
  held, unacked,   \* broker: QoS 2 publishes not yet released, and its own
                   \* messages not yet acknowledged
  \* History: requests made, those that returned success in step with the broker
  \* and those the broker carried out; messages sent by the broker, those of
  \* them sent on earlier connections, and those passed on, on this connection;
  \* requests since the failure.
  requests, confirmed, accepted, published, base, passed_on, slips

client == <<last_packet_id, pong_pending>>
status == <<connection, error, slips>>
stream == <<up, torn, mangled>>
broker == <<held, unacked, accepted, published, base>>
vars   == <<client, status, call, stream, down, broker, requests, confirmed, passed_on>>

\* A packet: its id, and the number of the request or message it belongs to, or
\* the return code, 0 for a refusal.
Packet(type, id, arg) == [type |-> type, id |-> id, arg |-> arg]

\* A call: what it is, its packet id and number, how many packets were waiting
\* when lwmqtt_yield began, and whether its command timer has run out.
Call(kind, id, n, todo) == [kind |-> kind, id |-> id, n |-> n, todo |-> todo, late |-> FALSE]
NoCall == Call("none", 0, 0, 0)

Init ==
  /\ last_packet_id = 0 /\ pong_pending = FALSE
  /\ connection = "closed" /\ error = "none" /\ call = NoCall
  /\ up = <<>> /\ down = <<>> /\ torn = FALSE /\ mangled = FALSE
  /\ held = {} /\ unacked = {}
  /\ requests = 0 /\ confirmed = {} /\ accepted = {}
  /\ published = 0 /\ base = 0 /\ passed_on = <<>> /\ slips = 0

\* lwmqtt_get_next_packet_id
NextId_Zero == (last_packet_id + 1) % (MaxId + 1)

NextId == IF last_packet_id = MaxId THEN 1 ELSE last_packet_id + 1

-----------------------------------------------------------------------------
(***************************************************************************)
(* Writing a packet, and the end of a call.                                *)
(***************************************************************************)
Written(p) ==
  /\ up' = IF torn THEN up ELSE Append(up, p)
  /\ mangled' = (mangled \/ torn)
  /\ UNCHANGED torn

\* Encoding fails, or the network before the first or before the last byte.
NotWritten ==
  \/ UNCHANGED stream
  \/ torn' = TRUE /\ mangled' = (mangled \/ torn) /\ UNCHANGED up

\* lwmqtt returns an error: a request sets esp_mqtt_error, the background task
\* gives up connecting or leaves its loop.
Failed(kind) ==
  error' = CASE kind \in {"connect", "yield"} -> "leaving"
             [] error = "leaving" -> error
             [] OTHER -> "flagged"

CallFailed ==
  /\ call' = NoCall /\ Failed(call.kind)
  /\ UNCHANGED <<connection, confirmed>>

CallSucceeded ==
  /\ call' = NoCall
  /\ connection' = "connected" /\ UNCHANGED error
  /\ confirmed' = IF call.n = 0 \/ mangled THEN confirmed ELSE confirmed \cup {call.n}

-----------------------------------------------------------------------------
(***************************************************************************)
(* The calls.  Each begins with a write.                                   *)
(***************************************************************************)
Idle == call.kind = "none" /\ connection = "connected"

Open_KeepsPong ==
  /\ connection = "closed" /\ connection' = "new"
  /\ last_packet_id' = 0 /\ UNCHANGED pong_pending
  /\ UNCHANGED <<error, slips, call, stream, down, broker, requests, confirmed, passed_on>>

\* esp_mqtt_process_connect: lwmqtt_init and a new socket.
Open ==
  /\ connection = "closed" /\ connection' = "new"
  /\ last_packet_id' = 0 /\ pong_pending' = FALSE
  /\ UNCHANGED <<error, slips, call, stream, down, broker, requests, confirmed, passed_on>>

\* lwmqtt_connect
Connect ==
  /\ connection = "new" /\ call.kind = "none" /\ error = "none"
  /\ \/ /\ Written(Packet("CONNECT", 0, 0)) /\ UNCHANGED error
        /\ call' = Call("connect", 0, 0, 0)
     \/ NotWritten /\ Failed("connect") /\ UNCHANGED call
  /\ UNCHANGED <<client, connection, slips, down, broker, requests, confirmed, passed_on>>

\* Between a failure and the end of the connection other requests slip in.
Slip == /\ error # "none" => slips < MaxSlips
        /\ slips' = IF error # "none" THEN slips + 1 ELSE slips

\* lwmqtt_publish with QoS 1 and 2, lwmqtt_subscribe, lwmqtt_unsubscribe
Request(kind) ==
  /\ Idle /\ requests < MaxRequests /\ requests' = requests + 1
  /\ Slip /\ last_packet_id' = NextId
  /\ \/ /\ Written(Packet(Opening[kind], NextId, requests + 1))
        /\ call' = Call(kind, NextId, requests + 1, 0) /\ UNCHANGED error
     \/ NotWritten /\ Failed(kind) /\ UNCHANGED call
  /\ UNCHANGED <<pong_pending, connection, down, broker, confirmed, passed_on>>

\* lwmqtt_publish with QoS 0 waits for nothing.
Publish0 ==
  /\ Idle /\ requests < MaxRequests /\ requests' = requests + 1
  /\ Slip
  /\ \/ Written(Packet("PUBLISH0", 0, requests + 1)) /\ UNCHANGED error
     \/ NotWritten /\ Failed("publish0")
  /\ UNCHANGED <<client, connection, call, down, broker, confirmed, passed_on>>

\* lwmqtt_yield, when there is something to read
Yield ==
  /\ Idle /\ error # "leaving" /\ down # <<>>
  /\ call' = Call("yield", 0, 0, Len(down))
  /\ UNCHANGED <<client, status, stream, down, broker, requests, confirmed, passed_on>>

KeepAlive_BeforeSending ==
  /\ Idle /\ error # "leaving"
  /\ \/ /\ ~pong_pending /\ pong_pending' = TRUE
        /\ \/ Written(Packet("PINGREQ", 0, 0)) /\ UNCHANGED error
           \/ NotWritten /\ UNCHANGED error
     \/ pong_pending /\ error' = "leaving" /\ UNCHANGED <<pong_pending, stream>>
  /\ UNCHANGED <<last_packet_id, connection, slips, call, down, broker, requests, confirmed, passed_on>>

\* lwmqtt_keep_alive, when a ping is due
KeepAlive ==
  /\ Idle /\ error # "leaving"
  /\ \/ /\ ~pong_pending
        /\ \/ Written(Packet("PINGREQ", 0, 0)) /\ pong_pending' = TRUE /\ UNCHANGED error
           \/ NotWritten /\ error' = "leaving" /\ UNCHANGED pong_pending
     \/ pong_pending /\ error' = "leaving" /\ UNCHANGED <<pong_pending, stream>>
  /\ UNCHANGED <<last_packet_id, connection, slips, call, down, broker, requests, confirmed, passed_on>>

\* The connection's end; the broker's session ends with it (clean session).
\* (esp_mqtt_stop leaves esp_mqtt_error set, of which module EspMqtt tells what
\* follows: the next connection ends at once, as it may here for another reason.)
End ==
  /\ connection' = "closed" /\ error' = "none" /\ slips' = 0
  /\ up' = <<>> /\ down' = <<>> /\ torn' = FALSE /\ mangled' = FALSE
  /\ held' = {} /\ unacked' = {} /\ passed_on' = <<>> /\ base' = published
  /\ UNCHANGED <<client, call, accepted, published, requests, confirmed>>

\* The background task acts on a failure.
Close == call.kind = "none" /\ error # "none" /\ End

\* esp_mqtt_stop: the outcome of lwmqtt_disconnect is ignored.
Disconnect == Idle /\ End

-----------------------------------------------------------------------------
(***************************************************************************)
(* lwmqtt_cycle_until: one round of lwmqtt_cycle_once at a time.           *)
(***************************************************************************)

Reply_Incomplete == [PUBLISH1 |-> "PUBACK", PUBLISH2 |-> "PUBREC", PUBREC |-> "PUBREL"]

\* What client and broker answer to the packets of a publish.
Reply == [PUBLISH1 |-> "PUBACK", PUBLISH2 |-> "PUBREC", PUBREC |-> "PUBREL", PUBREL |-> "PUBCOMP"]

Publishes == {"PUBLISH0", "PUBLISH1", "PUBLISH2"}

\* The packet is for the caller: the call ends, well if it is the right answer.
Answered_AnyId(p) ==
  IF p.type = Needle[call.kind] /\ p.arg # 0
  THEN CallSucceeded ELSE CallFailed

Answered(p) ==
  IF p.type = Needle[call.kind] /\ p.id = call.id /\ p.arg # 0
  THEN CallSucceeded ELSE CallFailed

\* esp_lwmqtt_timer_get, before every read and after every packet
InTime_Forgotten == TRUE

InTime == ~call.late

\* The packet is not what the caller waits for.  lwmqtt_yield waits for nothing:
\* it ends when all that was there is read.  Either ends when the command timer
\* has run out by now, a request without its answer.
Goes_On ==
  \/ call.kind = "yield" /\ CallSucceeded
  \/ call.kind # "yield" /\ CallFailed
  \/ /\ call.todo # 1
     /\ call' = [call EXCEPT !.todo = IF call.kind = "yield" THEN @ - 1 ELSE 0]
     /\ UNCHANGED <<connection, error, confirmed>>

Read_NoCallback ==
  LET p == Head(down) IN
  /\ call.kind # "none" /\ InTime /\ ~mangled /\ down # <<>> /\ down' = Tail(down)
  /\ passed_on' = IF p.type \in Publishes /\ call.kind = "yield"
                  THEN Append(passed_on, p.arg) ELSE passed_on
  /\ pong_pending' = (pong_pending /\ p.type # "PINGRESP")
  /\ IF p.type \in DOMAIN Reply
     THEN \/ Written(Packet(Reply[p.type], p.id, p.arg)) /\ Goes_On
          \/ NotWritten /\ CallFailed
     ELSE /\ IF call.kind # "yield" /\ p.type = Needle[call.kind] THEN Answered(p) ELSE Goes_On
          /\ UNCHANGED stream
  /\ UNCHANGED <<last_packet_id, slips, broker, requests>>

Read_AckFirst ==
  LET p == Head(down) IN
  /\ call.kind # "none" /\ InTime /\ ~mangled /\ down # <<>> /\ down' = Tail(down)
  /\ pong_pending' = (pong_pending /\ p.type # "PINGRESP")
  /\ IF p.type \in DOMAIN Reply
     THEN \/ /\ Written(Packet(Reply[p.type], p.id, p.arg)) /\ Goes_On
             /\ passed_on' = IF p.type \in Publishes THEN Append(passed_on, p.arg) ELSE passed_on
          \/ NotWritten /\ CallFailed /\ UNCHANGED passed_on
     ELSE /\ passed_on' = IF p.type \in Publishes THEN Append(passed_on, p.arg) ELSE passed_on
          /\ IF call.kind # "yield" /\ p.type = Needle[call.kind] THEN Answered(p) ELSE Goes_On
          /\ UNCHANGED stream
  /\ UNCHANGED <<last_packet_id, slips, broker, requests>>

\* Read a packet and do what it asks for, whoever reads it: pass a message on
\* and acknowledge it, continue a QoS 2 exchange, note a pong.
Read ==
  LET p == Head(down) IN
  /\ call.kind # "none" /\ InTime /\ ~mangled /\ down # <<>> /\ down' = Tail(down)
  /\ passed_on' = IF p.type \in Publishes THEN Append(passed_on, p.arg) ELSE passed_on
  /\ pong_pending' = (pong_pending /\ p.type # "PINGRESP")
  /\ IF p.type \in DOMAIN Reply
     THEN \/ Written(Packet(Reply[p.type], p.id, p.arg)) /\ Goes_On
          \/ NotWritten /\ CallFailed
     ELSE /\ IF call.kind # "yield" /\ p.type = Needle[call.kind] THEN Answered(p) ELSE Goes_On
          /\ UNCHANGED stream
  /\ UNCHANGED <<last_packet_id, slips, broker, requests>>

TimerRunsOut ==
  /\ call.kind # "none" /\ ~call.late /\ call' = [call EXCEPT !.late = TRUE]
  /\ UNCHANGED <<client, status, stream, down, broker, requests, confirmed, passed_on>>

\* Nothing can be read: the network fails, or the command timer has run out.
Expire ==
  /\ call.kind # "none" /\ CallFailed
  /\ UNCHANGED <<client, slips, stream, down, broker, requests, passed_on>>

TimedOut == call.late /\ Expire

\* The same in the middle of a packet, or the packet does not fit the buffer.
Misread ==
  /\ call.kind # "none" /\ down # <<>> /\ CallFailed
  /\ mangled' = TRUE
  /\ UNCHANGED <<client, slips, up, torn, down, broker, requests, passed_on>>

\* What is read from a stream that is out of step can be anything.
ReadMangled ==
  /\ call.kind # "none" /\ InTime /\ mangled /\ CallSucceeded
  /\ UNCHANGED <<client, slips, stream, down, broker, requests, passed_on>>

-----------------------------------------------------------------------------
(***************************************************************************)
(* The broker: what client.c expects of it.                                *)
(***************************************************************************)
Answers(p) ==
  CASE p.type \in DOMAIN Reply -> {Packet(Reply[p.type], p.id, 1)}
    [] p.type = "CONNECT"      -> {Packet("CONNACK", 0, code) : code \in 0 .. 1}
    [] p.type = "SUBSCRIBE"    -> {Packet("SUBACK", p.id, code) : code \in 0 .. 1}
    [] p.type = "UNSUBSCRIBE"  -> {Packet("UNSUBACK", p.id, 1)}
    [] p.type = "PINGREQ"      -> {Packet("PINGRESP", 0, 1)}
    [] OTHER                   -> {}

BrokerReads ==
  LET p == Head(up) IN
  /\ up # <<>> /\ up' = Tail(up)
  /\ IF Answers(p) = {} THEN UNCHANGED down
     ELSE \E a \in Answers(p) : down' = Append(down, a)
  /\ held' = CASE p.type = "PUBLISH2" -> held \cup {<<p.id, p.arg>>}
               [] p.type = "PUBREL"   -> {h \in held : h[1] # p.id}
               [] OTHER -> held
  /\ accepted' = accepted \cup
       (CASE p.type = "PUBREL" -> {h[2] : h \in {h \in held : h[1] = p.id}}
          [] p.type \in {"PUBLISH0", "PUBLISH1", "SUBSCRIBE", "UNSUBSCRIBE"} -> {p.arg}
          [] OTHER -> {})
  /\ unacked' = IF p.type \in {"PUBACK", "PUBCOMP"} THEN unacked \ {p.id} ELSE unacked
  /\ UNCHANGED <<client, status, call, torn, mangled, published, base, requests, confirmed, passed_on>>

\* The broker sends a message of its own.
BrokerPublishes(type) ==
  /\ connection = "connected" /\ published < MaxMessages /\ published' = published + 1
  /\ down' = Append(down, Packet(type, published', published'))
  /\ unacked' = IF type = "PUBLISH0" THEN unacked ELSE unacked \cup {published'}
  /\ UNCHANGED <<client, status, call, stream, held, accepted, base, requests, confirmed, passed_on>>

\* It sends more, as often as it likes: messages with QoS 0 that no property
\* follows.
BrokerGoesOn ==
  /\ connection = "connected"
  /\ Cardinality({i \in DOMAIN down : down[i].type = "MORE"}) < MaxBacklog
  /\ down' = Append(down, Packet("MORE", 0, 0))
  /\ UNCHANGED <<client, status, call, stream, broker, requests, confirmed, passed_on>>

-----------------------------------------------------------------------------
Broker == BrokerReads \/ BrokerGoesOn \/ \E type \in Publishes : BrokerPublishes(type)

Reading == Read \/ TimerRunsOut \/ Expire \/ Misread \/ ReadMangled

Next ==
  \/ Open \/ Connect \/ Publish0 \/ Yield \/ KeepAlive \/ Close \/ Disconnect
  \/ \E kind \in Requests : Request(kind)
  \/ Reading \/ Broker

Spec == Init /\ [][Next]_vars

\* The clock goes on.  A call reads while there is something to read, and a read
\* returns when the command timer has run out; the background task reads what
\* has come, with the mutex that it gets in turn, and acts on a failure.  Nothing
\* is assumed of the broker.
Fairness == WF_vars(TimerRunsOut) /\ WF_vars(Read \/ TimedOut) /\ SF_vars(Yield) /\ SF_vars(Close)

FairSpec == Spec /\ Fairness

-----------------------------------------------------------------------------
Types == DOMAIN Reply \cup {Reply[t] : t \in DOMAIN Reply} \cup {Opening[k] : k \in DOMAIN Opening}
         \cup {Needle[k] : k \in DOMAIN Needle} \cup {"PUBLISH0", "MORE", "PINGREQ", "PINGRESP"}

Packets == [type : Types, id : Nat, arg : Nat]

\* Every variable keeps its type.  A request has a packet id from 1 on, as the
\* protocol demands, also after the last one was used.
TypeOK ==
  /\ last_packet_id \in 0 .. MaxId /\ {pong_pending, torn, mangled} \subseteq BOOLEAN
  /\ connection \in {"closed", "new", "connected"} /\ error \in {"none", "flagged", "leaving"}
  /\ call.kind \in DOMAIN Needle \cup {"none", "yield"}
  /\ call.kind \in Requests => call.id \in 1 .. MaxId
  /\ up \in Seq(Packets) /\ down \in Seq(Packets)
  /\ held \subseteq (1 .. MaxId) \X (1 .. MaxRequests) /\ unacked \subseteq 1 .. MaxMessages

\* A request that returns success was carried out by the broker: this very
\* request, not an earlier one of its kind whose answer came late.
ConfirmedIsAccepted == confirmed \subseteq accepted

\* Every message is passed on once and in the order sent, whether it is read by
\* lwmqtt_yield or while some request waits for its answer.  (What is passed on
\* from a stream that is out of step is left out.)
PassedOnInOrder ==
  \A i \in DOMAIN passed_on : passed_on[i] = base + i

\* Whatever the broker holds for acknowledged has been passed on; a message that
\* needs no acknowledgement has, or is on its way.
AcknowledgedIsPassedOn ==
  \A m \in base + 1 .. published :
    \/ m \in Range(passed_on) \/ m \in unacked
    \/ \E i \in DOMAIN down : down[i].type = "PUBLISH0" /\ down[i].arg = m

\* lwmqtt_keep_alive gives up for a missing pong only if it is missing: as long
\* as pong_pending is set, the ping or the answer is on its way.
PongIsDue ==
  pong_pending /\ ~mangled /\ connection = "connected" =>
    \/ \E i \in DOMAIN up : up[i].type = "PINGREQ"
    \/ \E i \in DOMAIN down : down[i].type = "PINGRESP"

\* Every call comes to its end, also if the broker never answers it, and also if
\* the broker never stops sending other packets: the command timer is set once for
\* the whole call, and no packet that the call reads on the way sets it anew.
CallsEnd == (call.kind # "none") ~> (call.kind = "none")

\* If the broker reads what it gets, every message that asks for it is
\* acknowledged, QoS 2 exchanges included, or the connection ends.
MessagesAnswered ==
  WF_vars(BrokerReads) => \A m \in 1 .. MaxMessages : (m \in unacked) ~> (m \notin unacked)

=============================================================================
