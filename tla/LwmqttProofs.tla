----------------------------- MODULE LwmqttProofs -----------------------------
(***************************************************************************)
(* Theorems about the MQTT client: for every number of packet ids, every   *)
(* set of requests and any number of requests, messages and connections.   *)
(***************************************************************************)
EXTENDS Lwmqtt, QueueFacts

-----------------------------------------------------------------------------
(***************************************************************************)
(* The packets.                                                            *)
(***************************************************************************)
LEMMA Tables ==
  /\ DOMAIN Reply = {"PUBLISH1", "PUBLISH2", "PUBREC", "PUBREL"}
  /\ Reply["PUBLISH1"] = "PUBACK" /\ Reply["PUBLISH2"] = "PUBREC"
  /\ Reply["PUBREC"] = "PUBREL" /\ Reply["PUBREL"] = "PUBCOMP"
  /\ DOMAIN Needle = {"connect", "publish1", "publish2", "subscribe", "unsubscribe"}
  /\ Needle["connect"] = "CONNACK" /\ Needle["publish1"] = "PUBACK" /\ Needle["publish2"] = "PUBCOMP"
  /\ Needle["subscribe"] = "SUBACK" /\ Needle["unsubscribe"] = "UNSUBACK"
  /\ Opening["connect"] = "CONNECT" /\ Opening["publish1"] = "PUBLISH1"
  /\ Opening["publish2"] = "PUBLISH2" /\ Opening["subscribe"] = "SUBSCRIBE"
  /\ Opening["unsubscribe"] = "UNSUBSCRIBE"
BY DEF Reply, Needle, Opening

Named == {"CONNECT", "CONNACK", "PUBLISH0", "PUBLISH1", "PUBLISH2", "PUBACK", "PUBREC", "PUBREL", "PUBCOMP",
          "SUBSCRIBE", "SUBACK", "UNSUBSCRIBE", "UNSUBACK", "PINGREQ", "PINGRESP", "MORE"}

LEMMA TypesAre == Named \subseteq Types
<1>1. {"PUBLISH1", "PUBLISH2", "PUBREC", "PUBREL"} \subseteq Types
  BY Tables DEF Types
<1>2. {"PUBACK", "PUBCOMP"} \subseteq Types
  <2>1. \A t \in DOMAIN Reply : Reply[t] \in Types
    BY DEF Types
  <2> QED BY <2>1, Tables
<1>3. {"CONNECT", "SUBSCRIBE", "UNSUBSCRIBE"} \subseteq Types
  <2>1. \A k \in DOMAIN Opening : Opening[k] \in Types
    BY DEF Types
  <2>2. {"connect", "subscribe", "unsubscribe"} \subseteq DOMAIN Opening
    BY DEF Opening
  <2> QED BY <2>1, <2>2, Tables
<1>4. {"CONNACK", "SUBACK", "UNSUBACK"} \subseteq Types
  <2>1. \A k \in DOMAIN Needle : Needle[k] \in Types
    BY DEF Types
  <2> QED BY <2>1, Tables
<1>5. {"PUBLISH0", "MORE", "PINGREQ", "PINGRESP"} \subseteq Types
  BY DEF Types
<1> QED BY <1>1, <1>2, <1>3, <1>4, <1>5 DEF Named

LEMMA PacketIs ==
  ASSUME NEW type \in Named, NEW id \in Nat, NEW arg \in Nat
  PROVE  /\ Packet(type, id, arg) \in Packets
         /\ Packet(type, id, arg).type = type
         /\ Packet(type, id, arg).id = id
         /\ Packet(type, id, arg).arg = arg
BY TypesAre DEF Packet, Packets

\* Packets of the exchanges that the client's requests begin: those on the way
\* to the broker, and those coming back.
Asking == {"PUBLISH1", "PUBLISH2", "SUBSCRIBE", "UNSUBSCRIBE", "PUBREL"}
Answering == {"PUBACK", "PUBREC", "PUBCOMP", "SUBACK", "UNSUBACK"}

\* What the broker answers.
LEMMA AnswersAre ==
  ASSUME NEW p \in Packets, NEW a \in Answers(p)
  PROVE  /\ a \in Packets
         /\ a.type \notin Publishes
         /\ a.type \in Answering => a.id = p.id /\ p.type \in Asking
         /\ (a.type = "PUBREC") <=> (p.type = "PUBLISH2")
         /\ a.type = "PUBREL" => a.id = p.id /\ p.type = "PUBREC"
         /\ p.type = "PINGREQ" => a.type = "PINGRESP"
<1> DEFINE same(t) == Packet(t, p.id, 1)
<1>1. p.id \in Nat /\ 0 \in Nat /\ 1 \in Nat
  BY DEF Packets
<1>2. \/ p.type = "PUBLISH1" /\ a = Packet("PUBACK", p.id, 1)
      \/ p.type = "PUBLISH2" /\ a = Packet("PUBREC", p.id, 1)
      \/ p.type = "PUBREC" /\ a = Packet("PUBREL", p.id, 1)
      \/ p.type = "PUBREL" /\ a = Packet("PUBCOMP", p.id, 1)
      \/ p.type = "CONNECT" /\ \E code \in 0 .. 1 : a = Packet("CONNACK", 0, code)
      \/ p.type = "SUBSCRIBE" /\ \E code \in 0 .. 1 : a = Packet("SUBACK", p.id, code)
      \/ p.type = "UNSUBSCRIBE" /\ a = Packet("UNSUBACK", p.id, 1)
      \/ p.type = "PINGREQ" /\ a = Packet("PINGRESP", 0, 1)
  BY Tables DEF Answers
<1>3. PICK t \in Named, id \in Nat, arg \in Nat :
        /\ a = Packet(t, id, arg)
        /\ t \notin Publishes
        /\ t \in Answering => id = p.id /\ p.type \in Asking
        /\ (t = "PUBREC") <=> (p.type = "PUBLISH2")
        /\ t = "PUBREL" => id = p.id /\ p.type = "PUBREC"
        /\ p.type = "PINGREQ" => t = "PINGRESP"
  BY <1>1, <1>2 DEF Named, Publishes, Answering, Asking
<1> QED BY <1>3, PacketIs

-----------------------------------------------------------------------------
(***************************************************************************)
(* Queues of packets.                                                      *)
(***************************************************************************)
NoneOf(q, T) == \A i \in DOMAIN q : q[i].type \notin T
OneOf(q, T) == \A i, j \in DOMAIN q : q[i].type \in T /\ q[j].type \in T => i = j

LEMMA TailTypes ==
  ASSUME NEW q \in Seq(Packets), q # <<>>, NEW T
  PROVE  /\ NoneOf(q, T) => NoneOf(Tail(q), T)
         /\ OneOf(q, T) => OneOf(Tail(q), T)
         /\ OneOf(q, T) /\ Head(q).type \in T => NoneOf(Tail(q), T)
<1>1. /\ Len(q) \in Nat /\ DOMAIN q = 1 .. Len(q) /\ DOMAIN Tail(q) = 1 .. Len(q) - 1
      /\ Head(q) = q[1] /\ 1 \in DOMAIN q
      /\ \A i \in 1 .. Len(q) - 1 : i + 1 \in DOMAIN q /\ Tail(q)[i] = q[i + 1]
  BY TailFacts
<1>2. NoneOf(q, T) => NoneOf(Tail(q), T)
  BY <1>1 DEF NoneOf
<1>3. OneOf(q, T) => OneOf(Tail(q), T)
  <2> SUFFICES ASSUME OneOf(q, T), NEW i \in DOMAIN Tail(q), NEW j \in DOMAIN Tail(q),
                      Tail(q)[i].type \in T, Tail(q)[j].type \in T
               PROVE  i = j
    BY DEF OneOf
  <2>1. i + 1 \in DOMAIN q /\ j + 1 \in DOMAIN q /\ q[i + 1].type \in T /\ q[j + 1].type \in T
    BY <1>1
  <2>2. i + 1 = j + 1
    BY <2>1 DEF OneOf
  <2> QED BY <1>1, <2>2
<1>4. OneOf(q, T) /\ Head(q).type \in T => NoneOf(Tail(q), T)
  <2> SUFFICES ASSUME OneOf(q, T), q[1].type \in T, NEW i \in DOMAIN Tail(q), Tail(q)[i].type \in T
               PROVE  FALSE
    BY <1>1 DEF NoneOf
  <2>1. i + 1 \in DOMAIN q /\ q[i + 1].type \in T
    BY <1>1
  <2>2. i + 1 = 1
    BY <1>1, <2>1 DEF OneOf
  <2> QED BY <1>1, <2>2
<1> QED BY <1>2, <1>3, <1>4

LEMMA AppendTypes ==
  ASSUME NEW q \in Seq(Packets), NEW p \in Packets, NEW T
  PROVE  /\ NoneOf(q, T) /\ p.type \notin T => NoneOf(Append(q, p), T)
         /\ OneOf(q, T) /\ p.type \notin T => OneOf(Append(q, p), T)
         /\ NoneOf(q, T) => OneOf(Append(q, p), T)
<1>1. /\ Len(q) \in Nat /\ DOMAIN q = 1 .. Len(q) /\ DOMAIN Append(q, p) = 1 .. Len(q) + 1
      /\ Append(q, p)[Len(q) + 1] = p
      /\ \A i \in 1 .. Len(q) : Append(q, p)[i] = q[i]
  BY AppendFacts
<1>2. \A i \in DOMAIN Append(q, p) : i \in DOMAIN q \/ i = Len(q) + 1
  BY <1>1
<1> QED BY <1>1, <1>2, Zenon DEF NoneOf, OneOf

LEMMA Empty ==
  /\ <<>> \in Seq(Packets) /\ ToSet(<<>>) = {}
  /\ \A T : NoneOf(<<>>, T) /\ OneOf(<<>>, T)
BY DEF ToSet, NoneOf, OneOf

LEMMA Constants ==
  /\ MaxId \in Nat /\ MaxId > 0 /\ MaxSlips \in Nat /\ MaxSlips < MaxId
  /\ MaxRequests \in Nat /\ MaxMessages \in Nat
  /\ Requests \subseteq {"publish1", "publish2", "subscribe", "unsubscribe"}
BY IdAssumption, RequestAssumption, BoundAssumption, Tables

-----------------------------------------------------------------------------
(***************************************************************************)
(* Types, calls and connections.                                           *)
(***************************************************************************)
\* TypeOK, variable by variable, and more of it.
Streams ==
  /\ up \in Seq(Packets) /\ down \in Seq(Packets)
  /\ torn \in BOOLEAN /\ mangled \in BOOLEAN

CallType ==
  [kind : Requests \cup {"none", "connect", "yield"}, id : Nat, n : Nat, todo : Int, late : BOOLEAN]

Typed ==
  /\ last_packet_id \in 0 .. MaxId /\ pong_pending \in BOOLEAN
  /\ connection \in {"closed", "new", "connected"} /\ error \in {"none", "flagged", "leaving"}
  /\ call \in CallType
  /\ requests \in 0 .. MaxRequests /\ published \in 0 .. MaxMessages
  /\ base \in Nat /\ passed_on \in Seq(Nat) /\ slips \in 0 .. MaxSlips

\* A request has the latest id; what belongs to none has no number.
Calls ==
  IF call.kind \in Requests THEN call.id = last_packet_id /\ call.id \in 1 .. MaxId
  ELSE call.n = 0

\* Nothing is left of a connection that was closed.
Closed == connection = "closed" => call.kind = "none" /\ up = <<>> /\ down = <<>>

Basic == Streams /\ Typed /\ Calls /\ Closed /\ (error = "none" => slips = 0)

LEMMA WrittenIs ==
  ASSUME Streams, NEW p \in Packets, Written(p)
  PROVE  /\ up' \in Seq(Packets) /\ torn' \in BOOLEAN /\ mangled' \in BOOLEAN
         /\ mangled => mangled'
         /\ ToSet(up') \subseteq ToSet(up) \cup {p}
         /\ ~mangled' => up' = Append(up, p) /\ ToSet(up') = ToSet(up) \cup {p}
<1>1. Append(up, p) \in Seq(Packets) /\ ToSet(Append(up, p)) = ToSet(up) \cup {p}
  BY AppendFacts DEF Streams
<1> QED BY <1>1 DEF Written, Streams

LEMMA NotWrittenIs ==
  ASSUME Streams, NotWritten
  PROVE  /\ up' = up /\ torn' \in BOOLEAN /\ mangled' \in BOOLEAN
         /\ mangled => mangled'
BY DEF NotWritten, Streams, stream

\* What Head and Tail are of the two queues.
LEMMA Heads ==
  ASSUME NEW q \in Seq(Packets), q # <<>>
  PROVE  /\ Head(q) \in Packets /\ Tail(q) \in Seq(Packets)
         /\ Head(q) \in ToSet(q) /\ ToSet(q) = {Head(q)} \cup ToSet(Tail(q))
BY TailFacts

\* A packet that the client writes, whatever for.
LEMMA Replies ==
  ASSUME NEW p \in Packets, p.type \in DOMAIN Reply
  PROVE  LET r == Packet(Reply[p.type], p.id, p.arg)
         IN /\ r \in Packets /\ r.id = p.id /\ r.arg = p.arg /\ r.type = Reply[p.type]
            /\ (r.type = "PUBREL" /\ p.type = "PUBREC") \/ r.type \notin Asking
            /\ r.type # "PINGREQ"
            /\ r.type \in {"PUBACK", "PUBREC", "PUBCOMP"} =>
                 p.type \in {"PUBLISH1", "PUBLISH2", "PUBREL"}
<1>1. p.id \in Nat /\ p.arg \in Nat
  BY DEF Packets
<1>2. Reply[p.type] \in Named
  BY Tables DEF Named
<1> DEFINE r == Packet(Reply[p.type], p.id, p.arg)
<1>3. r \in Packets /\ r.id = p.id /\ r.arg = p.arg /\ r.type = Reply[p.type]
  BY <1>1, <1>2, PacketIs
<1>4. \/ p.type = "PUBLISH1" /\ Reply[p.type] = "PUBACK"
      \/ p.type = "PUBLISH2" /\ Reply[p.type] = "PUBREC"
      \/ p.type = "PUBREC" /\ Reply[p.type] = "PUBREL"
      \/ p.type = "PUBREL" /\ Reply[p.type] = "PUBCOMP"
  BY Tables
<1> HIDE DEF r
<1>5. /\ (r.type = "PUBREL" /\ p.type = "PUBREC") \/ r.type \notin Asking
      /\ r.type # "PINGREQ"
      /\ r.type \in {"PUBACK", "PUBREC", "PUBCOMP"} => p.type \in {"PUBLISH1", "PUBLISH2", "PUBREL"}
  BY <1>3, <1>4 DEF Asking
<1> QED BY <1>3, <1>5 DEF r

\* The rest of a call's round: it goes on, or ends one way or the other.
LEMMA RoundIs ==
  ASSUME Basic, call.kind # "none", CallFailed \/ CallSucceeded \/ Goes_On
  PROVE  /\ call'.kind \in {call.kind, "none"}
         /\ call'.kind = call.kind => call'.id = call.id /\ call'.n = call.n
         /\ call'.kind = "none" => call'.n = 0
         /\ connection' \in {connection, "connected"}
         /\ error' \in {"none", "flagged", "leaving"}
         /\ error' = error \/ error' # "none"
BY DEF Basic, Typed, CallType, CallFailed, CallSucceeded, Goes_On, Failed, NoCall, Call

LEMMA CallIs ==
  ASSUME NEW kind \in Requests \cup {"none", "connect", "yield"}, NEW id \in Nat, NEW n \in Nat, NEW todo \in Int
  PROVE  /\ Call(kind, id, n, todo) \in CallType
         /\ Call(kind, id, n, todo).kind = kind
         /\ Call(kind, id, n, todo).id = id /\ Call(kind, id, n, todo).n = n
BY DEF Call, CallType

\* The command timer changes nothing else.
LEMMA LateIs ==
  ASSUME Typed, TimerRunsOut
  PROVE  /\ call' \in CallType /\ call.kind # "none"
         /\ call'.kind = call.kind /\ call'.id = call.id /\ call'.n = call.n
BY DEF Typed, CallType, TimerRunsOut

\* Further messages are in nobody's way.
LEMMA MoreIs ==
  ASSUME Streams, BrokerGoesOn
  PROVE  \E m \in Packets : /\ m.type = "MORE"
                             /\ down' = Append(down, m) /\ ToSet(down') = ToSet(down) \cup {m}
<1> DEFINE m == Packet("MORE", 0, 0)
<1>1. m \in Packets /\ m.type = "MORE"
  BY PacketIs DEF Named
<1>2. down' = Append(down, m)
  BY DEF BrokerGoesOn
<1> HIDE DEF m
<1> QED BY <1>1, <1>2, AppendFacts DEF Streams

-----------------------------------------------------------------------------
LEMMA BasicInit == Init => Basic
<1> SUFFICES ASSUME Init PROVE Basic
  OBVIOUS
<1>1. Streams /\ Closed
  BY Empty DEF Init, Streams, Closed, NoCall, Call
<1>2. "none" \notin Requests
  BY Constants
<1>3. Typed /\ Calls
  <2>1. passed_on \in Seq(Nat)
    BY DEF Init
  <2>2. call \in CallType
    BY DEF Init, NoCall, Call, CallType
  <2>3. call.kind = "none" /\ call.n = 0
    BY DEF Init, NoCall, Call
  <2>4. /\ last_packet_id \in 0 .. MaxId /\ requests \in 0 .. MaxRequests /\ published \in 0 .. MaxMessages
        /\ base \in Nat /\ slips \in 0 .. MaxSlips
    BY Constants DEF Init
  <2> QED BY <1>2, <2>1, <2>2, <2>3, <2>4 DEF Init, Typed, Calls
<1> QED BY <1>1, <1>3 DEF Basic, Init

\* The parts of Basic are kept by steps that leave their variables alone.
LEMMA NextIdIs ==
  ASSUME Typed
  PROVE  NextId \in 1 .. MaxId
BY Constants DEF Typed, NextId

\* Each request that begins, and each packet it writes.
LEMMA OpeningIs ==
  ASSUME NEW kind \in Requests
  PROVE  Opening[kind] \in {"PUBLISH1", "PUBLISH2", "SUBSCRIBE", "UNSUBSCRIBE"}
BY Constants, Tables

LEMMA StreamsNext == Basic /\ [Next]_vars => Streams'
<1> SUFFICES ASSUME Basic, [Next]_vars PROVE Streams'
  OBVIOUS
<1> USE DEF Basic
<1>1. ASSUME NEW p \in Packets, Written(p), down' = down PROVE Streams'
  BY <1>1, WrittenIs DEF Streams
<1>2. ASSUME NotWritten, down' = down PROVE Streams'
  BY <1>2, NotWrittenIs DEF Streams
<1>3. ASSUME UNCHANGED stream, down' = down PROVE Streams'
  BY <1>3 DEF Streams, stream
<1>4. CASE Open
  BY <1>4, <1>3 DEF Open
<1>5. CASE Connect
  <2>1. Packet("CONNECT", 0, 0) \in Packets
    BY PacketIs DEF Named
  <2> QED BY <1>5, <1>1, <1>2, <2>1 DEF Connect
<1>6. CASE Publish0
  <2>1. Packet("PUBLISH0", 0, requests + 1) \in Packets
    BY PacketIs DEF Named, Typed
  <2> QED BY <1>6, <1>1, <1>2, <2>1 DEF Publish0
<1>7. CASE Yield
  BY <1>7, <1>3 DEF Yield
<1>8. CASE KeepAlive
  <2>1. Packet("PINGREQ", 0, 0) \in Packets
    BY PacketIs DEF Named
  <2> QED BY <1>8, <1>1, <1>2, <1>3, <2>1 DEF KeepAlive
<1>9. CASE Close \/ Disconnect
  BY <1>9, Empty DEF Close, Disconnect, End, Streams
<1>10. ASSUME NEW kind \in Requests, Request(kind) PROVE Streams'
  <2>1. Packet(Opening[kind], NextId, requests + 1) \in Packets
    <3>1. Opening[kind] \in Named
      BY OpeningIs DEF Named
    <3>2. NextId \in Nat /\ requests + 1 \in Nat
      BY NextIdIs, Constants DEF Typed
    <3> QED BY <3>1, <3>2, PacketIs
  <2> QED BY <1>10, <1>1, <1>2, <2>1 DEF Request
<1>11. CASE Read
  <2>1. Head(down) \in Packets /\ down' \in Seq(Packets)
    BY <1>11, Heads DEF Read, Streams
  <2>2. CASE UNCHANGED stream
    BY <2>1, <2>2 DEF Streams, stream
  <2>3. CASE NotWritten
    BY <2>1, <2>3, NotWrittenIs DEF Streams
  <2>4. CASE Head(down).type \in DOMAIN Reply
             /\ Written(Packet(Reply[Head(down).type], Head(down).id, Head(down).arg))
    BY <2>1, <2>4, Replies, WrittenIs DEF Streams
  <2> QED BY <1>11, <2>2, <2>3, <2>4 DEF Read
<1>12. CASE Expire \/ ReadMangled
  BY <1>12, <1>3 DEF Expire, ReadMangled
<1>13. CASE Misread
  BY <1>13 DEF Misread, Streams
<1>14. CASE BrokerReads
  <2>1. Head(up) \in Packets /\ up' \in Seq(Packets)
    BY <1>14, Heads DEF BrokerReads, Streams
  <2>2. ASSUME NEW a \in Answers(Head(up)), down' = Append(down, a) PROVE down' \in Seq(Packets)
    BY <2>1, <2>2, AnswersAre, AppendFacts DEF Streams
  <2> QED BY <1>14, <2>1, <2>2 DEF BrokerReads, Streams
<1>15. ASSUME NEW type \in Publishes, BrokerPublishes(type) PROVE Streams'
  <2>1. Packet(type, published', published') \in Packets
    <3>1. type \in Named /\ published' \in Nat
      BY <1>15 DEF Named, Typed, Publishes, BrokerPublishes
    <3> QED BY <3>1, PacketIs
  <2> QED BY <1>15, <2>1, AppendFacts DEF BrokerPublishes, Streams, stream
<1>t. CASE TimerRunsOut
  BY <1>t, <1>3 DEF TimerRunsOut
<1>g. CASE BrokerGoesOn
  BY <1>g, MoreIs, AppendFacts DEF BrokerGoesOn, Streams, stream
<1>16. CASE UNCHANGED vars
  BY <1>16, <1>3 DEF vars
<1> QED BY <1>4, <1>5, <1>6, <1>7, <1>8, <1>9, <1>10, <1>11, <1>12, <1>13, <1>14, <1>15, <1>16, <1>t, <1>g
  DEF Next, Reading, Broker

\* What a call is, from one step to the next.
LEMMA CallNext ==
  Basic /\ [Next]_vars =>
    /\ call' \in CallType
    /\ Calls' /\ Closed'
    /\ connection' \in {"closed", "new", "connected"} /\ error' \in {"none", "flagged", "leaving"}
<1> DEFINE Kept == /\ call' \in CallType
                   /\ Calls' /\ Closed'
                   /\ connection' \in {"closed", "new", "connected"}
                   /\ error' \in {"none", "flagged", "leaving"}
<1> SUFFICES ASSUME Basic, [Next]_vars PROVE Kept
  OBVIOUS
<1>a. "none" \notin Requests /\ "connect" \notin Requests /\ "yield" \notin Requests
  BY Constants
<1>b. /\ call \in CallType
      /\ Calls /\ Closed
      /\ connection \in {"closed", "new", "connected"} /\ error \in {"none", "flagged", "leaving"}
  BY DEF Basic, Typed
<1>c. ASSUME NEW kind PROVE Failed(kind) => error' \in {"flagged", "leaving"}
  BY <1>b DEF Failed
<1>1. CASE Open
  BY <1>1, <1>a, <1>b DEF Open, Calls, Closed
<1>2. CASE Connect
  <2>1. 0 \in Nat /\ 0 \in Int
    OBVIOUS
  <2> QED BY <1>2, <2>1, <1>a, <1>b, <1>c, CallIs DEF Connect, Calls, Closed, client
<1>3. CASE Publish0
  BY <1>3, <1>a, <1>b, <1>c DEF Publish0, Calls, Closed, Idle, client
<1>4. CASE Yield
  <2>1. Len(down) \in Int
    BY DEF Basic, Streams
  <2> QED BY <1>4, <2>1, <1>a, <1>b DEF Yield, Calls, Closed, Idle, client, status, Call, CallType
<1>5. CASE KeepAlive
  BY <1>5, <1>a, <1>b DEF KeepAlive, Calls, Closed, Idle
<1>6. CASE Close \/ Disconnect
  BY <1>6, <1>a, <1>b DEF Close, Disconnect, End, Calls, Closed, Idle, client
<1>7. ASSUME NEW kind \in Requests, Request(kind) PROVE Kept
  <2>1. NextId \in 1 .. MaxId /\ NextId \in Nat /\ requests + 1 \in Nat
    BY NextIdIs, Constants DEF Basic, Typed
  <2>2. LET new == Call(kind, NextId, requests + 1, 0)
        IN new \in CallType /\ new.kind = kind /\ new.id = NextId
    BY <2>1, CallIs
  <2> QED BY <1>7, <2>1, <2>2, <1>a, <1>b, <1>c DEF Request, Calls, Closed, Idle
<1>8. CASE call.kind # "none" /\ (CallFailed \/ CallSucceeded \/ Goes_On) /\ last_packet_id' = last_packet_id
  <2>1. call' \in CallType
    <3>1. NoCall \in CallType
      BY CallIs DEF NoCall
    <3>2. call.todo # 1 /\ call' = [call EXCEPT !.todo = IF call.kind = "yield" THEN @ - 1 ELSE 0]
          => call' \in CallType
      BY <1>b DEF CallType
    <3> QED BY <1>8, <3>1, <3>2 DEF CallFailed, CallSucceeded, Goes_On
  <2>2. Calls'
    BY <1>8, <1>a, <1>b, RoundIs DEF Calls
  <2>3. Closed'
    BY <1>8, <1>b, RoundIs DEF Closed
  <2> QED BY <1>8, <2>1, <2>2, <2>3, <1>b, RoundIs
<1>9. CASE Read
  <2>1. call.kind # "none" /\ last_packet_id' = last_packet_id
    BY <1>9 DEF Read
  <2>2. CallFailed \/ CallSucceeded \/ Goes_On
    BY <1>9 DEF Read, Answered
  <2> QED BY <2>1, <2>2, <1>8
<1>10. CASE Expire \/ Misread \/ ReadMangled
  BY <1>10, <1>8 DEF Expire, Misread, ReadMangled, client
<1>11. CASE BrokerReads
  BY <1>11, <1>b DEF BrokerReads, Calls, Closed, client, status, Basic
<1>12. ASSUME NEW type \in Publishes, BrokerPublishes(type) PROVE Kept
  BY <1>12, <1>b DEF BrokerPublishes, Calls, Closed, client, status
<1>t. CASE TimerRunsOut
  BY <1>t, <1>a, <1>b, LateIs DEF TimerRunsOut, Basic, Calls, Closed, client, status
<1>g. CASE BrokerGoesOn
  BY <1>g, <1>b DEF BrokerGoesOn, Calls, Closed, client, status
<1>13. CASE UNCHANGED vars
  BY <1>13, <1>b DEF vars, client, status, stream, Calls, Closed
<1> QED BY <1>1, <1>2, <1>3, <1>4, <1>5, <1>6, <1>7, <1>9, <1>10, <1>11, <1>12, <1>13, <1>t, <1>g
  DEF Next, Reading, Broker

\* The counters and the history.
LEMMA CountNext ==
  Basic /\ [Next]_vars =>
    /\ last_packet_id' \in 0 .. MaxId /\ pong_pending' \in BOOLEAN
    /\ requests' \in 0 .. MaxRequests /\ published' \in 0 .. MaxMessages
    /\ base' \in Nat /\ passed_on' \in Seq(Nat) /\ slips' \in 0 .. MaxSlips
    /\ error' = "none" => slips' = 0
<1> DEFINE Kept == /\ last_packet_id' \in 0 .. MaxId /\ pong_pending' \in BOOLEAN
                   /\ requests' \in 0 .. MaxRequests /\ published' \in 0 .. MaxMessages
                   /\ base' \in Nat /\ passed_on' \in Seq(Nat) /\ slips' \in 0 .. MaxSlips
                   /\ error' = "none" => slips' = 0
<1> SUFFICES ASSUME Basic, [Next]_vars PROVE Kept
  OBVIOUS
<1>a. /\ last_packet_id \in 0 .. MaxId /\ pong_pending \in BOOLEAN
      /\ requests \in 0 .. MaxRequests /\ published \in 0 .. MaxMessages
      /\ base \in Nat /\ passed_on \in Seq(Nat) /\ slips \in 0 .. MaxSlips
      /\ error = "none" => slips = 0
  BY DEF Basic, Typed
<1>b. ASSUME NEW kind PROVE Failed(kind) => error' # "none"
  BY DEF Failed
<1>c. 0 \in 0 .. MaxSlips /\ 0 \in 0 .. MaxId /\ <<>> \in Seq(Nat)
  BY Constants
<1>d. Slip => slips' \in 0 .. MaxSlips /\ (error = "none" => slips' = 0)
  BY <1>a, Constants DEF Slip
<1>1. CASE Open
  BY <1>1, <1>a, <1>c DEF Open, status, broker, client
<1>2. CASE Connect
  BY <1>2, <1>a, <1>b DEF Connect, client, broker
<1>3. CASE Publish0
  <2>1. requests' \in 0 .. MaxRequests
    BY <1>3, <1>a, Constants DEF Publish0
  <2> QED BY <1>3, <2>1, <1>a, <1>b, <1>d DEF Publish0, client, broker
<1>4. CASE Yield
  BY <1>4, <1>a DEF Yield, client, status, broker
<1>5. CASE KeepAlive
  BY <1>5, <1>a DEF KeepAlive, broker
<1>6. CASE Close \/ Disconnect
  <2>1. End
    BY <1>6 DEF Close, Disconnect
  <2>2. passed_on' \in Seq(Nat)
    BY <2>1, <1>c, Zenon DEF End
  <2>3. base' \in Nat /\ slips' \in 0 .. MaxSlips /\ slips' = 0
    BY <2>1, <1>a, <1>c, Constants DEF End
  <2> QED BY <2>1, <2>2, <2>3, <1>a DEF End, client
<1>7. ASSUME NEW kind \in Requests, Request(kind) PROVE Kept
  <2>1. requests' \in 0 .. MaxRequests
    BY <1>7, <1>a, Constants DEF Request
  <2>2. last_packet_id' \in 0 .. MaxId
    BY <1>7, NextIdIs, Constants DEF Basic, Request
  <2> QED BY <1>7, <2>1, <2>2, <1>a, <1>b, <1>d DEF Request, broker
<1>8. CASE Read
  <2>1. CallFailed \/ CallSucceeded \/ Goes_On
    BY <1>8 DEF Read, Answered
  <2>2. error' = "none" => error = "none"
    BY <1>8, <2>1, RoundIs DEF Read
  <2>3. Head(down).arg \in Nat
    BY <1>8, Heads DEF Read, Basic, Streams, Packets
  <2>4. passed_on' \in Seq(Nat)
    BY <1>8, <2>3, <1>a DEF Read
  <2> QED BY <1>8, <2>2, <2>4, <1>a DEF Read, broker
<1>9. CASE Expire \/ Misread \/ ReadMangled
  <2>1. error' = "none" => error = "none"
    BY <1>9, RoundIs DEF Expire, Misread, ReadMangled
  <2> QED BY <1>9, <2>1, <1>a DEF Expire, Misread, ReadMangled, client, broker
<1>10. CASE BrokerReads
  BY <1>10, <1>a DEF BrokerReads, client, status
<1>11. ASSUME NEW type \in Publishes, BrokerPublishes(type) PROVE Kept
  <2>1. published' \in 0 .. MaxMessages
    BY <1>11, <1>a, Constants DEF BrokerPublishes
  <2> QED BY <1>11, <2>1, <1>a DEF BrokerPublishes, client, status
<1>t. CASE TimerRunsOut
  BY <1>t, <1>a DEF TimerRunsOut, client, status, broker
<1>g. CASE BrokerGoesOn
  BY <1>g, <1>a DEF BrokerGoesOn, client, status, broker
<1>12. CASE UNCHANGED vars
  BY <1>12, <1>a DEF vars, client, status, broker
<1> QED BY <1>1, <1>2, <1>3, <1>4, <1>5, <1>6, <1>7, <1>8, <1>9, <1>10, <1>11, <1>12, <1>t, <1>g
  DEF Next, Reading, Broker

LEMMA BasicNext == Basic /\ [Next]_vars => Basic'
BY StreamsNext, CallNext, CountNext DEF Basic, Typed

-----------------------------------------------------------------------------
(***************************************************************************)
(* TypeOK.  The packet ids of all requests are in range, those that the    *)
(* broker repeats in its answers too.                                      *)
(***************************************************************************)
AskedWell(P) ==
  \A p \in P : p.type \in Asking => /\ p.id \in 1 .. MaxId
                                    /\ p.type = "PUBLISH2" => p.arg \in 1 .. MaxRequests

AnsweredWell(P) == \A p \in P : p.type \in Answering => p.id \in 1 .. MaxId

Sized ==
  /\ AskedWell(ToSet(up)) /\ AnsweredWell(ToSet(down))
  /\ held \subseteq (1 .. MaxId) \X (1 .. MaxRequests) /\ unacked \subseteq 1 .. MaxMessages

LEMMA SizedInit == Init => Sized
BY Empty DEF Init, Sized, AskedWell, AnsweredWell

LEMMA SizedNext == Basic /\ Sized /\ [Next]_vars => Sized'
<1> SUFFICES ASSUME Basic, Sized, [Next]_vars PROVE Sized'
  OBVIOUS
<1>s. Streams
  BY DEF Basic
<1>a. ASSUME NEW p \in Packets, p.type \notin Asking, Written(p) PROVE AskedWell(ToSet(up'))
  BY <1>a, <1>s, WrittenIs DEF Sized, AskedWell
<1>b. ASSUME NotWritten PROVE AskedWell(ToSet(up'))
  BY <1>b, <1>s, NotWrittenIs DEF Sized
<1>c. ASSUME AskedWell(ToSet(up')), UNCHANGED <<down, held, unacked>> PROVE Sized'
  BY <1>c DEF Sized
<1>1. CASE Open
  BY <1>1, <1>c DEF Open, stream, broker, Sized
<1>2. CASE Connect
  <2>1. Packet("CONNECT", 0, 0) \in Packets /\ Packet("CONNECT", 0, 0).type \notin Asking
    BY PacketIs DEF Named, Asking
  <2> QED BY <1>2, <2>1, <1>a, <1>b, <1>c DEF Connect, broker
<1>3. CASE Publish0
  <2>1. /\ Packet("PUBLISH0", 0, requests + 1) \in Packets
        /\ Packet("PUBLISH0", 0, requests + 1).type \notin Asking
    <3>1. requests + 1 \in Nat
      BY Constants DEF Basic, Typed
    <3> QED BY <3>1, PacketIs DEF Named, Asking
  <2> QED BY <1>3, <2>1, <1>a, <1>b, <1>c DEF Publish0, broker
<1>4. CASE Yield
  BY <1>4, <1>c DEF Yield, stream, broker, Sized
<1>5. CASE KeepAlive
  <2>1. Packet("PINGREQ", 0, 0) \in Packets /\ Packet("PINGREQ", 0, 0).type \notin Asking
    BY PacketIs DEF Named, Asking
  <2> QED BY <1>5, <2>1, <1>a, <1>b, <1>c DEF KeepAlive, broker, stream, Sized
<1>6. CASE Close \/ Disconnect
  <2>1. ToSet(up') = {} /\ ToSet(down') = {} /\ held' = {} /\ unacked' = {}
    BY <1>6, Empty DEF Close, Disconnect, End
  <2> QED BY <2>1 DEF Sized, AskedWell, AnsweredWell
<1>7. ASSUME NEW kind \in Requests, Request(kind) PROVE Sized'
  <2>1. Opening[kind] \in Named /\ NextId \in 1 .. MaxId /\ NextId \in Nat
    BY OpeningIs, NextIdIs DEF Named, Basic
  <2>2. requests + 1 \in Nat /\ requests + 1 \in 1 .. MaxRequests
    BY <1>7, Constants DEF Request, Basic, Typed
  <2>3. CASE Written(Packet(Opening[kind], NextId, requests + 1))
    <3>1. AskedWell(ToSet(up'))
      BY <2>1, <2>2, <2>3, <1>s, PacketIs, WrittenIs DEF Sized, AskedWell
    <3> QED BY <3>1, <1>7, <1>c DEF Request, broker
  <2>4. CASE NotWritten
    BY <2>4, <1>7, <1>b, <1>c DEF Request, broker
  <2> QED BY <1>7, <2>3, <2>4 DEF Request
<1>8. CASE Read
  <2>1. /\ Head(down) \in Packets /\ Head(down) \in ToSet(down) /\ ToSet(down') \subseteq ToSet(down)
    BY <1>8, <1>s, Heads DEF Read, Streams
  <2>2. AnsweredWell(ToSet(down')) /\ UNCHANGED <<held, unacked>>
    BY <1>8, <2>1 DEF Read, broker, Sized, AnsweredWell
  <2>3. AskedWell(ToSet(up'))
    <3>1. CASE UNCHANGED stream
      BY <3>1 DEF Sized, stream
    <3>2. CASE NotWritten
      BY <3>2, <1>b
    <3>3. CASE Head(down).type \in DOMAIN Reply
               /\ Written(Packet(Reply[Head(down).type], Head(down).id, Head(down).arg))
      <4> DEFINE r == Packet(Reply[Head(down).type], Head(down).id, Head(down).arg)
      <4>1. /\ r \in Packets /\ r.id = Head(down).id
            /\ (r.type = "PUBREL" /\ Head(down).type = "PUBREC") \/ r.type \notin Asking
        BY <3>3, <2>1, Replies
      <4>2. ToSet(up') \subseteq ToSet(up) \cup {r}
        BY <3>3, <4>1, <1>s, WrittenIs
      <4> HIDE DEF r
      <4>3. r.type \in Asking => r.id \in 1 .. MaxId /\ r.type # "PUBLISH2"
        BY <4>1, <2>1 DEF Sized, AnsweredWell, Answering
      <4> QED BY <4>2, <4>3 DEF Sized, AskedWell
    <3> QED BY <1>8, <3>1, <3>2, <3>3 DEF Read
  <2> QED BY <2>2, <2>3 DEF Sized
<1>9. CASE Expire \/ Misread \/ ReadMangled
  BY <1>9 DEF Expire, Misread, ReadMangled, Sized, stream, broker
<1>10. CASE BrokerReads
  <2>1. /\ Head(up) \in Packets /\ Head(up) \in ToSet(up) /\ ToSet(up') \subseteq ToSet(up)
    BY <1>10, <1>s, Heads DEF BrokerReads, Streams
  <2>2. AskedWell(ToSet(up'))
    BY <2>1 DEF Sized, AskedWell
  <2>3. AnsweredWell(ToSet(down'))
    <3>1. ASSUME NEW a \in Answers(Head(up)), down' = Append(down, a) PROVE AnsweredWell(ToSet(down'))
      <4>1. a \in Packets /\ (a.type \in Answering => a.id = Head(up).id /\ Head(up).type \in Asking)
        BY <2>1, AnswersAre
      <4>2. ToSet(down') = ToSet(down) \cup {a}
        BY <3>1, <4>1, <1>s, AppendFacts DEF Streams
      <4> QED BY <4>1, <4>2, <2>1 DEF Sized, AskedWell, AnsweredWell
    <3> QED BY <1>10, <3>1 DEF BrokerReads, Sized
  <2>4. held' \subseteq (1 .. MaxId) \X (1 .. MaxRequests)
    <3>1. Head(up).type = "PUBLISH2" => <<Head(up).id, Head(up).arg>> \in (1 .. MaxId) \X (1 .. MaxRequests)
      BY <2>1 DEF Sized, AskedWell, Asking
    <3> QED BY <1>10, <3>1 DEF BrokerReads, Sized
  <2>5. unacked' \subseteq 1 .. MaxMessages
    BY <1>10 DEF BrokerReads, Sized
  <2> QED BY <2>2, <2>3, <2>4, <2>5 DEF Sized
<1>11. ASSUME NEW type \in Publishes, BrokerPublishes(type) PROVE Sized'
  <2>1. published' \in 1 .. MaxMessages /\ published' \in Nat
    BY <1>11, Constants DEF BrokerPublishes, Basic, Typed
  <2>2. type \in Named /\ type \notin Answering
    BY DEF Named, Publishes, Answering
  <2>3. AnsweredWell(ToSet(down'))
    <3> DEFINE p == Packet(type, published', published')
    <3>1. p \in Packets /\ p.type \notin Answering
      BY <2>1, <2>2, PacketIs
    <3>2. down' = Append(down, p)
      BY <1>11 DEF BrokerPublishes
    <3> HIDE DEF p
    <3>3. ToSet(down') = ToSet(down) \cup {p}
      BY <3>1, <3>2, <1>s, AppendFacts DEF Streams
    <3> QED BY <3>1, <3>3 DEF Sized, AnsweredWell
  <2>4. unacked' \subseteq 1 .. MaxMessages
    BY <1>11, <2>1 DEF BrokerPublishes, Sized
  <2> QED BY <1>11, <2>3, <2>4 DEF BrokerPublishes, Sized, stream
<1>t. CASE TimerRunsOut
  BY <1>t, <1>c DEF TimerRunsOut, stream, broker, Sized
<1>g. CASE BrokerGoesOn
  BY <1>g, <1>s, MoreIs DEF BrokerGoesOn, Sized, AnsweredWell, Answering, stream, broker
<1>12. CASE UNCHANGED vars
  BY <1>12 DEF vars, stream, broker, Sized
<1> QED BY <1>1, <1>2, <1>3, <1>4, <1>5, <1>6, <1>7, <1>8, <1>9, <1>10, <1>11, <1>12, <1>t, <1>g
  DEF Next, Reading, Broker

\* Every variable keeps its type; each request has a packet id from 1 on, also
\* after lwmqtt_get_next_packet_id has used the last one.
THEOREM TypeCorrect == Spec => []TypeOK
<1>1. Init => Basic /\ Sized
  BY BasicInit, SizedInit
<1>2. Basic /\ Sized /\ [Next]_vars => (Basic /\ Sized)'
  BY BasicNext, SizedNext
<1>3. Basic /\ Sized => TypeOK
  <2> SUFFICES ASSUME Basic, Sized PROVE TypeOK
    OBVIOUS
  <2>1. call.kind \in DOMAIN Needle \cup {"none", "yield"}
    BY Constants, Tables DEF Basic, Typed, CallType
  <2> QED BY <2>1 DEF TypeOK, Basic, Streams, Typed, Calls, Sized
<1> QED BY <1>1, <1>2, <1>3, PTL DEF Spec

-----------------------------------------------------------------------------
(***************************************************************************)
(* The keep-alive.                                                         *)
(***************************************************************************)
Coming == (\E p \in ToSet(up) : p.type = "PINGREQ") \/ (\E p \in ToSet(down) : p.type = "PINGRESP")

Pong ==
  /\ connection = "new" => ~pong_pending
  /\ pong_pending /\ ~mangled /\ connection = "connected" => Coming

LEMMA PongNext == Basic /\ Pong /\ [Next]_vars => Pong'
<1> SUFFICES ASSUME Basic, Pong, [Next]_vars PROVE Pong'
  OBVIOUS
<1>s. Streams
  BY DEF Basic
<1>a. ASSUME NEW p \in Packets, Written(p)
      PROVE  ~mangled' => ~mangled /\ ToSet(up') = ToSet(up) \cup {p}
  BY <1>a, <1>s, WrittenIs DEF Streams
<1>b. ASSUME NotWritten PROVE up' = up /\ (~mangled' => ~mangled)
  BY <1>b, <1>s, NotWrittenIs
<1>1. CASE Open
  BY <1>1 DEF Open, Pong
<1>2. CASE Connect
  BY <1>2 DEF Connect, Pong, client
<1>3. CASE Publish0
  <2>1. Packet("PUBLISH0", 0, requests + 1) \in Packets
    BY PacketIs DEF Named, Basic, Typed
  <2> QED BY <1>3, <2>1, <1>a, <1>b DEF Publish0, Pong, Coming, client
<1>4. CASE Yield
  BY <1>4 DEF Yield, Pong, Coming, client, status, stream
<1>5. CASE KeepAlive
  <2>1. Packet("PINGREQ", 0, 0) \in Packets /\ Packet("PINGREQ", 0, 0).type = "PINGREQ"
    BY PacketIs DEF Named
  <2> QED BY <1>5, <2>1, <1>a, <1>b DEF KeepAlive, Pong, Coming, stream, Idle
<1>6. CASE Close \/ Disconnect
  BY <1>6 DEF Close, Disconnect, End, Pong
<1>7. ASSUME NEW kind \in Requests, Request(kind) PROVE Pong'
  <2>1. Opening[kind] \in Named /\ NextId \in Nat /\ requests + 1 \in Nat
    BY OpeningIs, NextIdIs, Constants DEF Named, Basic, Typed
  <2>2. Packet(Opening[kind], NextId, requests + 1) \in Packets
    BY <2>1, PacketIs
  <2> QED BY <1>7, <2>2, <1>a, <1>b DEF Request, Pong, Coming, Idle
<1>8. CASE Read
  <2>1. /\ Head(down) \in Packets /\ ToSet(down) = {Head(down)} \cup ToSet(down')
        /\ pong_pending' => pong_pending /\ Head(down).type # "PINGRESP"
    BY <1>8, <1>s, Heads DEF Read, Streams
  <2>2. ~mangled' => ToSet(up) \subseteq ToSet(up')
    <3>1. CASE Head(down).type \in DOMAIN Reply
               /\ Written(Packet(Reply[Head(down).type], Head(down).id, Head(down).arg))
      BY <3>1, <2>1, Replies, <1>a
    <3> QED BY <1>8, <3>1, <1>b DEF Read, stream
  <2>3. connection' \in {connection, "connected"}
    BY <1>8, RoundIs DEF Read, Answered
  <2>4. ~mangled /\ connection \in {"closed", "new", "connected"} /\ connection # "closed"
    BY <1>8 DEF Read, Basic, Typed, Closed
  <2> QED BY <2>1, <2>2, <2>3, <2>4 DEF Pong, Coming
<1>9. CASE Expire \/ Misread \/ ReadMangled
  BY <1>9 DEF Expire, Misread, ReadMangled, CallFailed, CallSucceeded, client, stream, Pong, Coming
<1>10. CASE BrokerReads
  <2>1. Head(up) \in Packets /\ ToSet(up) = {Head(up)} \cup ToSet(up')
    BY <1>10, <1>s, Heads DEF BrokerReads, Streams
  <2>2. ToSet(down) \subseteq ToSet(down')
    <3>1. ASSUME NEW a \in Answers(Head(up)), down' = Append(down, a) PROVE ToSet(down) \subseteq ToSet(down')
      BY <3>1, <2>1, <1>s, AnswersAre, AppendFacts DEF Streams
    <3> QED BY <1>10, <3>1 DEF BrokerReads
  <2>3. Head(up).type = "PINGREQ" => \E p \in ToSet(down') : p.type = "PINGRESP"
    <3> SUFFICES ASSUME Head(up).type = "PINGREQ" PROVE \E p \in ToSet(down') : p.type = "PINGRESP"
      OBVIOUS
    <3>1. Answers(Head(up)) # {}
      BY Tables DEF Answers
    <3>2. PICK a \in Answers(Head(up)) : down' = Append(down, a)
      BY <1>10, <3>1 DEF BrokerReads
    <3>3. a.type = "PINGRESP" /\ a \in ToSet(down')
      BY <3>2, <2>1, <1>s, AnswersAre, AppendFacts DEF Streams
    <3> QED BY <3>3
  <2> QED BY <1>10, <2>1, <2>2, <2>3 DEF BrokerReads, Pong, Coming, client, status
<1>11. ASSUME NEW type \in Publishes, BrokerPublishes(type) PROVE Pong'
  <2>1. type \in Named /\ published' \in Nat
    BY <1>11 DEF Named, Publishes, BrokerPublishes, Basic, Typed
  <2>2. ToSet(down) \subseteq ToSet(down')
    BY <1>11, <2>1, <1>s, PacketIs, AppendFacts DEF BrokerPublishes, Streams
  <2> QED BY <1>11, <2>2 DEF BrokerPublishes, Pong, Coming, client, status, stream
<1>t. CASE TimerRunsOut
  BY <1>t DEF TimerRunsOut, Pong, Coming, client, status, stream
<1>g. CASE BrokerGoesOn
  BY <1>g, <1>s, MoreIs DEF BrokerGoesOn, Pong, Coming, client, status, stream
<1>12. CASE UNCHANGED vars
  BY <1>12 DEF vars, client, status, stream, Pong, Coming
<1> QED BY <1>1, <1>2, <1>3, <1>4, <1>5, <1>6, <1>7, <1>8, <1>9, <1>10, <1>11, <1>12, <1>t, <1>g
  DEF Next, Reading, Broker

\* lwmqtt_keep_alive gives up for a missing pong only if it is missing.
THEOREM PongAwaited == Spec => []PongIsDue
<1>1. Init => Basic /\ Pong
  BY BasicInit DEF Init, Pong
<1>2. Basic /\ Pong /\ [Next]_vars => (Basic /\ Pong)'
  BY BasicNext, PongNext
<1>3. Basic /\ Pong => PongIsDue
  BY DEF Pong, PongIsDue, Coming, ToSet
<1> QED BY <1>1, <1>2, <1>3, PTL DEF Spec

-----------------------------------------------------------------------------
(***************************************************************************)
(* The broker's messages.  Those in the stream are the ones that come      *)
(* after the last one passed on, in order and without a gap; what is       *)
(* acknowledged has been passed on.                                        *)
(***************************************************************************)
InLine(q, lo, hi) ==
  /\ \A i \in DOMAIN q : q[i].type \in Publishes => q[i].arg \in lo + 1 .. hi
  /\ \A i, j \in DOMAIN q :
       q[i].type \in Publishes /\ q[j].type \in Publishes /\ i < j => q[i].arg < q[j].arg
  /\ \A m \in lo + 1 .. hi : \E i \in DOMAIN q : q[i].type \in Publishes /\ q[i].arg = m

\* Reading takes the message that is next in line.
LEMMA InLineTail ==
  ASSUME NEW q \in Seq(Packets), q # <<>>, NEW lo \in Nat, NEW hi \in Nat, InLine(q, lo, hi)
  PROVE  IF Head(q).type \in Publishes
         THEN Head(q).arg = lo + 1 /\ lo + 1 <= hi /\ InLine(Tail(q), lo + 1, hi)
         ELSE InLine(Tail(q), lo, hi)
<1>1. /\ Len(q) \in Nat /\ DOMAIN q = 1 .. Len(q) /\ DOMAIN Tail(q) = 1 .. Len(q) - 1
      /\ Head(q) = q[1] /\ 1 \in DOMAIN q
      /\ \A i \in 1 .. Len(q) - 1 : i + 1 \in DOMAIN q /\ Tail(q)[i] = q[i + 1]
  BY TailFacts
<1>2. \A i \in DOMAIN q : q[i].arg \in Nat
  <2>1. \A i \in DOMAIN q : q[i] \in Packets
    OBVIOUS
  <2> QED BY <2>1 DEF Packets
<1>3. \A i \in DOMAIN q : i # 1 => i - 1 \in DOMAIN Tail(q) /\ Tail(q)[i - 1] = q[i]
  BY <1>1
<1>4. \A i, j \in DOMAIN Tail(q) :
        Tail(q)[i].type \in Publishes /\ Tail(q)[j].type \in Publishes /\ i < j
          => Tail(q)[i].arg < Tail(q)[j].arg
  <2> SUFFICES ASSUME NEW i \in DOMAIN Tail(q), NEW j \in DOMAIN Tail(q), i < j,
                      Tail(q)[i].type \in Publishes, Tail(q)[j].type \in Publishes
               PROVE  Tail(q)[i].arg < Tail(q)[j].arg
    OBVIOUS
  <2>1. /\ i + 1 \in DOMAIN q /\ j + 1 \in DOMAIN q /\ i + 1 < j + 1
        /\ Tail(q)[i] = q[i + 1] /\ Tail(q)[j] = q[j + 1]
    BY <1>1
  <2> QED BY <2>1 DEF InLine
<1>5. CASE q[1].type \in Publishes
  <2>1. q[1].arg = lo + 1 /\ lo + 1 <= hi
    <3>1. q[1].arg \in lo + 1 .. hi
      BY <1>1, <1>5 DEF InLine
    <3>2. PICK i \in DOMAIN q : q[i].type \in Publishes /\ q[i].arg = lo + 1
      BY <3>1 DEF InLine
    <3>3. i = 1 \/ 1 < i
      BY <1>1
    <3>4. 1 < i => q[1].arg < q[i].arg
      BY <1>1, <1>5, <3>2 DEF InLine
    <3> QED BY <3>1, <3>2, <3>3, <3>4
  <2>2. ASSUME NEW i \in DOMAIN Tail(q), Tail(q)[i].type \in Publishes
        PROVE  Tail(q)[i].arg \in (lo + 1) + 1 .. hi
    <3>1. i + 1 \in DOMAIN q /\ 1 < i + 1 /\ Tail(q)[i] = q[i + 1]
      BY <1>1
    <3>2. q[1].arg < q[i + 1].arg /\ q[i + 1].arg \in lo + 1 .. hi
      BY <1>1, <1>5, <2>2, <3>1 DEF InLine
    <3> QED BY <2>1, <3>1, <3>2
  <2>3. ASSUME NEW m \in (lo + 1) + 1 .. hi
        PROVE  \E i \in DOMAIN Tail(q) : Tail(q)[i].type \in Publishes /\ Tail(q)[i].arg = m
    <3>1. m \in lo + 1 .. hi /\ m # lo + 1
      OBVIOUS
    <3>2. PICK i \in DOMAIN q : q[i].type \in Publishes /\ q[i].arg = m
      BY <3>1 DEF InLine
    <3> QED BY <3>1, <3>2, <2>1, <1>3
  <2> QED BY <1>1, <1>4, <1>5, <2>1, <2>2, <2>3 DEF InLine
<1>6. CASE q[1].type \notin Publishes
  <2>1. ASSUME NEW i \in DOMAIN Tail(q), Tail(q)[i].type \in Publishes
        PROVE  Tail(q)[i].arg \in lo + 1 .. hi
    BY <1>1, <2>1 DEF InLine
  <2>2. ASSUME NEW m \in lo + 1 .. hi
        PROVE  \E i \in DOMAIN Tail(q) : Tail(q)[i].type \in Publishes /\ Tail(q)[i].arg = m
    <3>1. PICK i \in DOMAIN q : q[i].type \in Publishes /\ q[i].arg = m
      BY DEF InLine
    <3> QED BY <3>1, <1>6, <1>3
  <2> QED BY <1>1, <1>4, <1>6, <2>1, <2>2 DEF InLine
<1> QED BY <1>1, <1>5, <1>6

\* The broker sends the message that comes after all others.
LEMMA InLineAppend ==
  ASSUME NEW q \in Seq(Packets), NEW p \in Packets, NEW lo \in Nat, NEW hi \in Nat, InLine(q, lo, hi)
  PROVE  /\ p.type \notin Publishes => InLine(Append(q, p), lo, hi)
         /\ p.type \in Publishes /\ p.arg = hi + 1 /\ lo <= hi => InLine(Append(q, p), lo, hi + 1)
<1> DEFINE r == Append(q, p)
<1>1. /\ Len(q) \in Nat /\ DOMAIN q = 1 .. Len(q) /\ DOMAIN r = 1 .. Len(q) + 1
      /\ r[Len(q) + 1] = p
      /\ \A i \in 1 .. Len(q) : r[i] = q[i]
  BY AppendFacts
<1> HIDE DEF r
<1>2. /\ \A i \in DOMAIN r : (i \in DOMAIN q /\ r[i] = q[i]) \/ (i = Len(q) + 1 /\ r[i] = p)
      /\ \A i \in DOMAIN q : i \in DOMAIN r /\ i < Len(q) + 1
  BY <1>1
<1>3. \A i \in DOMAIN q : q[i].arg \in Nat
  <2>1. \A i \in DOMAIN q : q[i] \in Packets
    OBVIOUS
  <2> QED BY <2>1 DEF Packets
<1>4. ASSUME p.type \notin Publishes PROVE InLine(r, lo, hi)
  <2>1. \A i \in DOMAIN r : r[i].type \in Publishes => i \in DOMAIN q /\ r[i] = q[i]
    BY <1>2, <1>4
  <2>2. \A i \in DOMAIN r : r[i].type \in Publishes => r[i].arg \in lo + 1 .. hi
    BY <2>1 DEF InLine
  <2>3. \A i, j \in DOMAIN r :
          r[i].type \in Publishes /\ r[j].type \in Publishes /\ i < j => r[i].arg < r[j].arg
    BY <2>1 DEF InLine
  <2>4. \A m \in lo + 1 .. hi : \E i \in DOMAIN r : r[i].type \in Publishes /\ r[i].arg = m
    BY <1>1, <1>2 DEF InLine
  <2> QED BY <2>2, <2>3, <2>4 DEF InLine
<1>5. ASSUME p.type \in Publishes, p.arg = hi + 1, lo <= hi PROVE InLine(r, lo, hi + 1)
  <2>1. \A i \in DOMAIN q : q[i].type \in Publishes => q[i].arg \in lo + 1 .. hi
    BY DEF InLine
  <2>2. \A i \in DOMAIN r : r[i].type \in Publishes => r[i].arg \in lo + 1 .. hi + 1
    BY <1>2, <1>5, <2>1
  <2>3. ASSUME NEW i \in DOMAIN r, NEW j \in DOMAIN r,
               r[i].type \in Publishes, r[j].type \in Publishes, i < j
        PROVE  r[i].arg < r[j].arg
    <3>1. i \in DOMAIN q /\ r[i] = q[i]
      BY <1>1, <1>2, <2>3
    <3>2. CASE j \in DOMAIN q /\ r[j] = q[j]
      BY <2>3, <3>1, <3>2 DEF InLine
    <3>3. CASE r[j] = p
      BY <1>3, <1>5, <2>1, <2>3, <3>1, <3>3
    <3> QED BY <1>2, <3>2, <3>3
  <2>4. ASSUME NEW m \in lo + 1 .. hi + 1
        PROVE  \E i \in DOMAIN r : r[i].type \in Publishes /\ r[i].arg = m
    <3>1. CASE m = hi + 1
      BY <1>1, <1>5, <3>1
    <3>2. CASE m # hi + 1
      <4>1. PICK i \in DOMAIN q : q[i].type \in Publishes /\ q[i].arg = m
        BY <3>2 DEF InLine
      <4> QED BY <4>1, <1>1, <1>2
    <3> QED BY <3>1, <3>2
  <2> QED BY <2>2, <2>3, <2>4 DEF InLine
<1> QED BY <1>4, <1>5 DEF r

LastPassed == base + Len(passed_on)

Waiting(P, passed, un) ==
  \A p \in P :
    /\ p.type \in Publishes => p.id = p.arg /\ (p.type # "PUBLISH0" => p.arg \in un)
    /\ p.type = "PUBREL" => p.id <= passed

Acknowledged(P, passed) == \A p \in P : p.type \in {"PUBACK", "PUBREC", "PUBCOMP"} => p.id <= passed

Messages ==
  /\ PassedOnInOrder
  /\ LastPassed <= published
  /\ InLine(down, LastPassed, published)
  /\ Waiting(ToSet(down), LastPassed, unacked)
  /\ Acknowledged(ToSet(up), LastPassed)

LEMMA MessagesInit == Init => Messages
<1> SUFFICES ASSUME Init PROVE Messages
  OBVIOUS
<1>1. base = 0 /\ published = 0 /\ DOMAIN passed_on = {} /\ Len(passed_on) = 0 /\ DOMAIN down = {}
  BY DEF Init
<1>2. ToSet(down) = {} /\ ToSet(up) = {}
  BY Empty DEF Init
<1>3. LastPassed = 0
  BY <1>1 DEF LastPassed
<1> QED BY <1>1, <1>2, <1>3 DEF Messages, PassedOnInOrder, InLine, Waiting, Acknowledged

\* Steps that pass nothing on and leave the messages in the stream.
LEMMA MessagesQuiet ==
  ASSUME Messages, UNCHANGED <<down, passed_on, base, published, unacked>>,
         Acknowledged(ToSet(up'), LastPassed)
  PROVE  Messages'
<1>1. LastPassed' = LastPassed /\ PassedOnInOrder'
  BY DEF LastPassed, Messages, PassedOnInOrder
<1> QED BY <1>1 DEF Messages

LEMMA MessagesNext == Basic /\ Messages /\ [Next]_vars => Messages'
<1> SUFFICES ASSUME Basic, Messages, [Next]_vars PROVE Messages'
  OBVIOUS
<1>s. Streams
  BY DEF Basic
<1>n. /\ base \in Nat /\ Len(passed_on) \in Nat /\ passed_on \in Seq(Nat)
      /\ LastPassed \in Nat /\ published \in Nat /\ LastPassed <= published
  <2>1. base \in Nat /\ passed_on \in Seq(Nat) /\ published \in Nat
    BY Constants DEF Basic, Typed
  <2> QED BY <2>1 DEF Messages, LastPassed
<1>a. ASSUME NEW p \in Packets, p.type \notin {"PUBACK", "PUBREC", "PUBCOMP"}, Written(p)
      PROVE  Acknowledged(ToSet(up'), LastPassed)
  BY <1>a, <1>s, WrittenIs DEF Messages, Acknowledged
<1>b. ASSUME NotWritten PROVE Acknowledged(ToSet(up'), LastPassed)
  BY <1>b, <1>s, NotWrittenIs DEF Messages
<1>c. ASSUME UNCHANGED stream PROVE Acknowledged(ToSet(up'), LastPassed)
  BY <1>c DEF Messages, stream
<1>1. CASE Open
  BY <1>1, <1>c, MessagesQuiet DEF Open, broker
<1>2. CASE Connect
  <2>1. Packet("CONNECT", 0, 0) \in Packets /\ Packet("CONNECT", 0, 0).type = "CONNECT"
    BY PacketIs DEF Named
  <2> QED BY <1>2, <2>1, <1>a, <1>b, MessagesQuiet DEF Connect, broker
<1>3. CASE Publish0
  <2>1. requests + 1 \in Nat
    BY Constants DEF Basic, Typed
  <2>2. /\ Packet("PUBLISH0", 0, requests + 1) \in Packets
        /\ Packet("PUBLISH0", 0, requests + 1).type = "PUBLISH0"
    BY <2>1, PacketIs DEF Named
  <2> QED BY <1>3, <2>2, <1>a, <1>b, MessagesQuiet DEF Publish0, broker
<1>4. CASE Yield
  BY <1>4, <1>c, MessagesQuiet DEF Yield, broker
<1>5. CASE KeepAlive
  <2>1. Packet("PINGREQ", 0, 0) \in Packets /\ Packet("PINGREQ", 0, 0).type = "PINGREQ"
    BY PacketIs DEF Named
  <2> QED BY <1>5, <2>1, <1>a, <1>b, <1>c, MessagesQuiet DEF KeepAlive, broker
<1>6. CASE Close \/ Disconnect
  <2>1. /\ up' = <<>> /\ down' = <<>> /\ passed_on' = <<>> /\ base' = published /\ published' = published
    BY <1>6 DEF Close, Disconnect, End
  <2>2. ToSet(up') = {} /\ ToSet(down') = {} /\ DOMAIN down' = {} /\ DOMAIN passed_on' = {}
        /\ Len(passed_on') = 0
    BY <2>1, Empty
  <2>3. LastPassed' = published /\ LastPassed' <= published'
    BY <2>1, <2>2, <1>n DEF LastPassed
  <2>4. InLine(down', LastPassed', published')
    BY <2>1, <2>2, <2>3, <1>n DEF InLine
  <2> QED BY <2>2, <2>3, <2>4 DEF Messages, PassedOnInOrder, Waiting, Acknowledged
<1>7. ASSUME NEW kind \in Requests, Request(kind) PROVE Messages'
  <2>1. Opening[kind] \in Named /\ NextId \in Nat /\ requests + 1 \in Nat
    BY OpeningIs, NextIdIs, Constants DEF Named, Basic, Typed
  <2>2. /\ Packet(Opening[kind], NextId, requests + 1) \in Packets
        /\ Packet(Opening[kind], NextId, requests + 1).type = Opening[kind]
    BY <2>1, PacketIs
  <2>3. Opening[kind] \notin {"PUBACK", "PUBREC", "PUBCOMP"}
    BY OpeningIs
  <2> QED BY <1>7, <2>2, <2>3, <1>a, <1>b, MessagesQuiet DEF Request, broker
<1>8. CASE Read
  <2> DEFINE p == Head(down)
             r == Packet(Reply[p.type], p.id, p.arg)
  <2>1. /\ p \in Packets /\ p \in ToSet(down) /\ ToSet(down') \subseteq ToSet(down)
        /\ down \in Seq(Packets) /\ down # <<>> /\ down' = Tail(down) /\ p.arg \in Nat
    BY <1>8, <1>s, Heads DEF Read, Streams, Packets
  <2>2. /\ UNCHANGED <<base, published, unacked>>
        /\ passed_on' = IF p.type \in Publishes THEN Append(passed_on, p.arg) ELSE passed_on
    BY <1>8 DEF Read, broker
  <2>3. UNCHANGED stream \/ NotWritten \/ (p.type \in DOMAIN Reply /\ Written(r))
    BY <1>8 DEF Read
  <2> HIDE DEF p
  <2>4. /\ p.type \in Publishes => p.arg = LastPassed + 1 /\ LastPassed' = LastPassed + 1
                                    /\ LastPassed' <= published /\ p.id = LastPassed'
        /\ p.type \notin Publishes => LastPassed' = LastPassed
        /\ InLine(down', LastPassed', published')
    <3>1. IF p.type \in Publishes
          THEN p.arg = LastPassed + 1 /\ LastPassed + 1 <= published /\ InLine(down', LastPassed + 1, published)
          ELSE InLine(down', LastPassed, published)
      BY <2>1, <1>n, InLineTail DEF p, Messages
    <3>2. p.type \in Publishes => LastPassed' = LastPassed + 1
      BY <2>1, <2>2, <1>n, AppendFacts DEF LastPassed
    <3>3. p.type \notin Publishes => LastPassed' = LastPassed
      BY <2>2 DEF LastPassed
    <3>4. p.type \in Publishes => p.id = p.arg
      BY <2>1 DEF Messages, Waiting
    <3> QED BY <3>1, <3>2, <3>3, <3>4, <2>2
  <2>5. PassedOnInOrder'
    <3>1. CASE p.type \in Publishes
      <4>1. /\ passed_on' = Append(passed_on, p.arg) /\ p.arg = base + (Len(passed_on) + 1)
            /\ DOMAIN passed_on = 1 .. Len(passed_on)
        BY <2>2, <2>4, <3>1, <1>n DEF LastPassed
      <4>2. /\ DOMAIN passed_on' = 1 .. Len(passed_on) + 1
            /\ passed_on'[Len(passed_on) + 1] = p.arg
            /\ \A i \in 1 .. Len(passed_on) : passed_on'[i] = passed_on[i]
        BY <4>1, <2>1, <1>n
      <4>3. \A i \in 1 .. Len(passed_on) + 1 : i \in 1 .. Len(passed_on) \/ i = Len(passed_on) + 1
        BY <1>n
      <4> QED BY <4>1, <4>2, <4>3, <2>2 DEF Messages, PassedOnInOrder
    <3>2. CASE p.type \notin Publishes
      BY <3>2, <2>2 DEF Messages, PassedOnInOrder
    <3> QED BY <3>1, <3>2
  <2>6. LastPassed <= LastPassed' /\ LastPassed' \in Nat /\ LastPassed' <= published'
    BY <2>2, <2>4, <1>n
  <2>7. Waiting(ToSet(down'), LastPassed', unacked')
    <3>1. \A q \in ToSet(down) : q.id \in Nat
      BY <2>1, SeqRange DEF Packets
    <3> QED BY <3>1, <2>1, <2>2, <2>6, <1>n DEF Messages, Waiting
  <2>8. Acknowledged(ToSet(up'), LastPassed')
    <3>1. Acknowledged(ToSet(up), LastPassed')
      <4>1. \A q \in ToSet(up) : q.id \in Nat
        BY <1>s, SeqRange DEF Streams, Packets
      <4> QED BY <4>1, <2>6, <1>n DEF Messages, Acknowledged
    <3>2. CASE up' = up
      BY <3>1, <3>2
    <3>3. CASE p.type \in DOMAIN Reply /\ Written(r)
      <4>1. /\ r \in Packets /\ r.id = p.id
            /\ r.type \in {"PUBACK", "PUBREC", "PUBCOMP"} => p.type \in {"PUBLISH1", "PUBLISH2", "PUBREL"}
        BY <3>3, <2>1, Replies
      <4>2. ToSet(up') \subseteq ToSet(up) \cup {r}
        BY <3>3, <4>1, <1>s, WrittenIs
      <4>3. p.type = "PUBREL" => p.id <= LastPassed'
        <5>1. p.type = "PUBREL" => p.id <= LastPassed
          BY <2>1 DEF Messages, Waiting
        <5>2. p.id \in Nat
          BY <2>1 DEF Packets
        <5> QED BY <5>1, <5>2, <2>6, <1>n
      <4>4. p.type \in {"PUBLISH1", "PUBLISH2"} => p.id <= LastPassed'
        BY <2>4, <2>6 DEF Publishes
      <4> HIDE DEF r
      <4> QED BY <4>1, <4>2, <4>3, <4>4, <3>1 DEF Acknowledged
    <3> QED BY <2>3, <3>2, <3>3, <1>s, NotWrittenIs DEF stream
  <2> QED BY <2>4, <2>5, <2>6, <2>7, <2>8 DEF Messages
<1>9. CASE Expire \/ ReadMangled
  BY <1>9, <1>c, MessagesQuiet DEF Expire, ReadMangled, broker
<1>10. CASE Misread
  <2>1. up' = up
    BY <1>10 DEF Misread
  <2>2. Acknowledged(ToSet(up'), LastPassed)
    BY <2>1 DEF Messages
  <2> QED BY <1>10, <2>2, MessagesQuiet DEF Misread, broker
<1>11. CASE BrokerReads
  <2>1. Head(up) \in Packets /\ Head(up) \in ToSet(up) /\ ToSet(up') \subseteq ToSet(up)
    BY <1>11, <1>s, Heads DEF BrokerReads, Streams
  <2>2. UNCHANGED <<base, published, passed_on>> /\ LastPassed' = LastPassed /\ PassedOnInOrder'
    BY <1>11 DEF BrokerReads, LastPassed, Messages, PassedOnInOrder
  <2>3. Acknowledged(ToSet(up'), LastPassed)
    BY <2>1 DEF Messages, Acknowledged
  <2>4. Head(up).type \in {"PUBACK", "PUBCOMP"} => Head(up).id <= LastPassed
    BY <2>1 DEF Messages, Acknowledged
  <2>5. ASSUME NEW q \in ToSet(down), q.type \in Publishes, q.type # "PUBLISH0" PROVE q.arg \in unacked'
    <3>1. q.arg \in unacked
      BY <2>5 DEF Messages, Waiting
    <3>2. q.arg > LastPassed
      <4>1. PICK i \in DOMAIN down : q = down[i]
        BY DEF ToSet
      <4>2. q.arg \in LastPassed + 1 .. published
        BY <4>1, <2>5 DEF Messages, InLine
      <4> QED BY <4>2, <1>n
    <3>3. Head(up).id \in Nat
      BY <2>1 DEF Packets
    <3>4. Head(up).type \in {"PUBACK", "PUBCOMP"} => q.arg # Head(up).id
      BY <2>4, <3>2, <3>3, <1>n
    <3> QED BY <1>11, <3>1, <3>4 DEF BrokerReads
  <2>6. Waiting(ToSet(down), LastPassed, unacked')
    BY <2>5 DEF Messages, Waiting
  <2>7. CASE down' = down
    BY <2>2, <2>3, <2>6, <2>7 DEF Messages
  <2>8. ASSUME NEW a \in Answers(Head(up)), down' = Append(down, a) PROVE Messages'
    <3>1. /\ a \in Packets /\ a.type \notin Publishes
          /\ a.type = "PUBREL" => a.id = Head(up).id /\ Head(up).type = "PUBREC"
      BY <2>1, AnswersAre
    <3>2. a.type = "PUBREL" => a.id <= LastPassed
      BY <2>1, <3>1 DEF Messages, Acknowledged
    <3>3. InLine(down', LastPassed, published)
      BY <2>8, <3>1, <1>n, <1>s, InLineAppend DEF Messages, Streams
    <3>4. ToSet(down') = ToSet(down) \cup {a}
      BY <2>8, <3>1, <1>s, AppendFacts DEF Streams
    <3>5. Waiting(ToSet(down'), LastPassed, unacked')
      BY <2>6, <3>1, <3>2, <3>4 DEF Waiting
    <3> QED BY <2>2, <2>3, <3>3, <3>5 DEF Messages
  <2> QED BY <1>11, <2>7, <2>8 DEF BrokerReads
<1>12. ASSUME NEW type \in Publishes, BrokerPublishes(type) PROVE Messages'
  <2> DEFINE p == Packet(type, published', published')
  <2>1. /\ published' = published + 1 /\ down' = Append(down, p)
        /\ unacked' = IF type = "PUBLISH0" THEN unacked ELSE unacked \cup {published'}
        /\ UNCHANGED <<base, passed_on, up>>
    BY <1>12 DEF BrokerPublishes, stream
  <2>2. p \in Packets /\ p.type = type /\ p.id = published' /\ p.arg = published'
    <3>1. type \in Named /\ published' \in Nat
      BY <2>1, <1>n DEF Named, Publishes
    <3> QED BY <3>1, PacketIs
  <2> HIDE DEF p
  <2>3. LastPassed' = LastPassed /\ PassedOnInOrder' /\ LastPassed <= published'
    BY <2>1, <1>n DEF LastPassed, Messages, PassedOnInOrder
  <2>4. InLine(down', LastPassed, published')
    BY <2>1, <2>2, <1>n, <1>s, InLineAppend DEF Messages, Streams
  <2>5. ToSet(down') = ToSet(down) \cup {p}
    BY <2>1, <2>2, <1>s, AppendFacts DEF Streams
  <2>6. Waiting(ToSet(down'), LastPassed, unacked')
    BY <2>1, <2>2, <2>5 DEF Messages, Waiting, Publishes
  <2> QED BY <2>1, <2>3, <2>4, <2>6 DEF Messages
<1>t. CASE TimerRunsOut
  BY <1>t, <1>c, MessagesQuiet DEF TimerRunsOut, broker
<1>g. CASE BrokerGoesOn
  <2>1. PICK m \in Packets : /\ m.type = "MORE"
                             /\ down' = Append(down, m) /\ ToSet(down') = ToSet(down) \cup {m}
    BY <1>g, <1>s, MoreIs
  <2>2. UNCHANGED <<base, published, passed_on, unacked, up>> /\ LastPassed' = LastPassed /\ PassedOnInOrder'
    BY <1>g DEF BrokerGoesOn, LastPassed, Messages, PassedOnInOrder, broker, stream
  <2>3. m.type \notin Publishes
    BY <2>1 DEF Publishes
  <2>4. InLine(down', LastPassed, published)
    BY <2>1, <2>3, <1>n, <1>s, InLineAppend DEF Messages, Streams
  <2>5. Waiting(ToSet(down'), LastPassed, unacked)
    BY <2>1, <2>3 DEF Messages, Waiting
  <2> QED BY <2>2, <2>4, <2>5 DEF Messages
<1>13. CASE UNCHANGED vars
  BY <1>13, <1>c, MessagesQuiet DEF vars, broker
<1> QED BY <1>1, <1>2, <1>3, <1>4, <1>5, <1>6, <1>7, <1>8, <1>9, <1>10, <1>11, <1>12, <1>13, <1>t, <1>g
  DEF Next, Reading, Broker

\* Every message is passed on once and in the order sent, whether lwmqtt_yield
\* reads it or a request that waits for its answer.
THEOREM PassedInOrder == Spec => []PassedOnInOrder
<1>1. Init => Basic /\ Messages
  BY BasicInit, MessagesInit
<1>2. Basic /\ Messages /\ [Next]_vars => (Basic /\ Messages)'
  BY BasicNext, MessagesNext
<1>3. Messages => PassedOnInOrder
  BY DEF Messages
<1> QED BY <1>1, <1>2, <1>3, PTL DEF Spec

\* What the broker holds for acknowledged has been passed on, and no message is
\* lost on the way.
THEOREM AcknowledgedPassedOn == Spec => []AcknowledgedIsPassedOn
<1>1. Init => Basic /\ Messages
  BY BasicInit, MessagesInit
<1>2. Basic /\ Messages /\ [Next]_vars => (Basic /\ Messages)'
  BY BasicNext, MessagesNext
<1>3. Basic /\ Messages => AcknowledgedIsPassedOn
  <2> SUFFICES ASSUME Basic, Messages, NEW m \in base + 1 .. published
               PROVE  \/ m \in Range(passed_on) \/ m \in unacked
                      \/ \E i \in DOMAIN down : down[i].type = "PUBLISH0" /\ down[i].arg = m
    BY DEF AcknowledgedIsPassedOn
  <2>1. base \in Nat /\ passed_on \in Seq(Nat) /\ published \in Nat
    BY Constants DEF Basic, Typed
  <2>2. CASE m <= LastPassed
    <3>1. m - base \in DOMAIN passed_on
      BY <2>1, <2>2 DEF LastPassed
    <3>2. passed_on[m - base] = m
      BY <2>1, <3>1 DEF Messages, PassedOnInOrder
    <3> QED BY <3>1, <3>2 DEF Range
  <2>3. CASE m > LastPassed
    <3>1. PICK i \in DOMAIN down : down[i].type \in Publishes /\ down[i].arg = m
      BY <2>1, <2>3 DEF Messages, InLine, LastPassed
    <3>2. down[i] \in ToSet(down)
      BY DEF ToSet
    <3> QED BY <3>1, <3>2 DEF Messages, Waiting
  <2> QED BY <2>1, <2>2, <2>3 DEF LastPassed
<1> QED BY <1>1, <1>2, <1>3, PTL DEF Spec

-----------------------------------------------------------------------------
(***************************************************************************)
(* Answers and the calls they are taken for.  Packet ids come round again, *)
(* and after a failure the answer to an earlier request may still come.    *)
(* It bears an id that is at most MaxSlips requests old, so that the ids   *)
(* in use differ; as long as there was no failure, at most one packet of   *)
(* the client's exchanges is on the way.                                   *)
(***************************************************************************)
\* How many requests ago the packet id was given out.
Age(id) == IF id <= last_packet_id THEN last_packet_id - id ELSE last_packet_id - id + MaxId

AskedSince(P, n) == \A p \in P : p.type \in Asking => Age(p.id) <= n
AnsweredSince(P, n) == \A p \in P : p.type \in Answering => Age(p.id) <= n

Recent == AskedSince(ToSet(up), slips) /\ AnsweredSince(ToSet(down), slips)

Single ==
  error = "none" =>
    /\ OneOf(up, Asking) /\ OneOf(down, Answering)
    /\ NoneOf(up, Asking) \/ NoneOf(down, Answering)
    /\ call.kind \notin Requests => NoneOf(up, Asking) /\ NoneOf(down, Answering)

\* What the packets on the way say of the request in progress.
Taken == call.n \in accepted
Held == <<call.id, call.n>> \in held

AskedFor(P) ==
  \A p \in P : p.type \in Asking /\ p.id = call.id => IF p.type = "PUBREL" THEN Held \/ Taken ELSE p.arg = call.n

AnsweredFor(P) ==
  \A p \in P : p.type \in Answering /\ p.id = call.id => Taken \/ (p.type = "PUBREC" /\ Held)

Underway == call.kind \in Requests => AskedFor(ToSet(up)) /\ AnsweredFor(ToSet(down))

Exchanges == (~mangled => Recent /\ Single /\ Underway) /\ ConfirmedIsAccepted

\* An id that is not yet too old differs from the next one, and gets older by one.
LEMMA Older ==
  ASSUME Typed, NEW id \in 1 .. MaxId, NEW n \in Nat, n < MaxSlips, Age(id) <= n,
         last_packet_id' = NextId
  PROVE  Age(id)' <= n + 1 /\ id # NextId
BY Constants DEF Typed, Age, NextId

LEMMA Newest ==
  ASSUME Typed, NEW id, id = NextId, last_packet_id' = NextId
  PROVE  Age(id)' = 0
BY Constants DEF Typed, Age, NextId

\* A queue without packets of some types, element by element.
LEMMA NoneIs ==
  ASSUME NEW q, NEW T, NoneOf(q, T)
  PROVE  \A p \in ToSet(q) : p.type \notin T
BY DEF NoneOf, ToSet

LEMMA NeedleIs ==
  ASSUME NEW kind \in Requests
  PROVE  Needle[kind] \in Answering /\ Needle[kind] # "PUBREC" /\ Needle[kind] \notin DOMAIN Reply
BY Constants, Tables DEF Answering

\* What reading a packet does to the exchanges: a PUBREC is followed by a PUBREL
\* with its id, and a request ends well with the answer that bears its id.
LEMMA ReadIs ==
  ASSUME Basic, Read
  PROVE  LET p == Head(down) IN
         /\ p \in Packets /\ down' = Tail(down) /\ down # <<>>
         /\ p \in ToSet(down) /\ ToSet(down') \subseteq ToSet(down)
         /\ ~mangled /\ UNCHANGED <<last_packet_id, slips, held, accepted>>
         /\ error' = "none" => error = "none"
         /\ ~mangled' => \/ up' = up
                         \/ \E r \in Packets :
                              /\ up' = Append(up, r) /\ ToSet(up') = ToSet(up) \cup {r}
                              /\ r.type \in Asking => r.type = "PUBREL" /\ r.id = p.id /\ p.type = "PUBREC"
         /\ call'.kind \in Requests => call'.kind = call.kind /\ call'.id = call.id /\ call'.n = call.n
         /\ call.kind \in Requests /\ call'.kind \notin Requests /\ error' = "none" =>
              p.type \in Answering /\ up' = up
         /\ \/ confirmed' = confirmed
            \/ /\ call.kind \in Requests /\ confirmed' = confirmed \cup {call.n}
               /\ p.type \in Answering /\ p.type # "PUBREC" /\ p.id = call.id
<1> DEFINE p == Head(down)
           r == Packet(Reply[p.type], p.id, p.arg)
<1>1. /\ p \in Packets /\ down' = Tail(down) /\ p \in ToSet(down) /\ ToSet(down') \subseteq ToSet(down)
      /\ ~mangled /\ UNCHANGED <<last_packet_id, slips, held, accepted>> /\ call.kind # "none" /\ down # <<>>
  BY Heads DEF Read, Basic, Streams, broker
<1>2. \/ p.type \in DOMAIN Reply /\ Written(r) /\ Goes_On
      \/ p.type \in DOMAIN Reply /\ NotWritten /\ CallFailed
      \/ call.kind # "yield" /\ p.type = Needle[call.kind] /\ UNCHANGED stream /\ p.type \notin DOMAIN Reply /\ Answered(p)
      \/ UNCHANGED stream /\ Goes_On
  BY DEF Read
<1> HIDE DEF p
<1>3. error' = "none" => error = "none"
  BY <1>1, <1>2, RoundIs DEF Answered
<1>4. ~mangled' => \/ up' = up
                   \/ \E q \in Packets :
                        /\ up' = Append(up, q) /\ ToSet(up') = ToSet(up) \cup {q}
                        /\ q.type \in Asking => q.type = "PUBREL" /\ q.id = p.id /\ p.type = "PUBREC"
  <2>1. CASE p.type \in DOMAIN Reply /\ Written(r)
    <3>1. r \in Packets /\ (r.type \in Asking => r.type = "PUBREL" /\ r.id = p.id /\ p.type = "PUBREC")
      BY <1>1, <2>1, Replies
    <3> HIDE DEF r
    <3>2. ~mangled' => up' = Append(up, r) /\ ToSet(up') = ToSet(up) \cup {r}
      BY <2>1, <3>1, WrittenIs DEF Basic
    <3> QED BY <3>1, <3>2
  <2> QED BY <1>2, <2>1, NotWrittenIs DEF Basic, stream
<1>5. "none" \notin Requests /\ "yield" \notin Requests /\ "connect" \notin Requests
  BY Constants
<1>6. call'.kind \in Requests => call'.kind = call.kind /\ call'.id = call.id /\ call'.n = call.n
  BY <1>1, <1>2, <1>5, RoundIs DEF Answered
<1>7. CASE Goes_On \/ CallFailed
  <2>1. confirmed' = confirmed
    BY <1>5, <1>7 DEF Goes_On, CallFailed, CallSucceeded, Basic, Calls
  <2>2. call.kind \in Requests /\ error' = "none" => call'.kind \in Requests
    <3>1. CallFailed => error' # "none"
      BY DEF CallFailed, Failed
    <3>2. call.kind \in Requests /\ Goes_On => CallFailed \/ call'.kind = call.kind
      BY <1>5 DEF Goes_On, Basic, Typed, CallType
    <3> QED BY <1>7, <3>1, <3>2
  <2> QED BY <1>1, <1>3, <1>4, <1>6, <2>1, <2>2 DEF p
<1>8. CASE call.kind # "yield" /\ p.type = Needle[call.kind] /\ UNCHANGED stream
           /\ p.type \notin DOMAIN Reply /\ Answered(p) /\ ~CallFailed
  <2>1. CallSucceeded /\ p.id = call.id
    BY <1>8 DEF Answered
  <2>2. call.kind \in Requests => p.type \in Answering /\ p.type # "PUBREC"
    BY <1>8, NeedleIs
  <2>3. call.kind \notin Requests => confirmed' = confirmed
    BY <2>1 DEF CallSucceeded, Basic, Calls
  <2>4. confirmed' \in {confirmed, confirmed \cup {call.n}}
    BY <2>1 DEF CallSucceeded
  <2>5. up' = up
    BY <1>8 DEF stream
  <2> QED BY <1>1, <1>3, <1>4, <1>6, <2>1, <2>2, <2>3, <2>4, <2>5 DEF p
<1> QED BY <1>2, <1>7, <1>8

\* Every step that begins no request keeps the ids as old as they are.
LEMMA RecentNext ==
  ASSUME Basic, Sized, Single, Recent, [Next]_vars, ~mangled, ~mangled'
  PROVE  Recent'
<1>s. Streams /\ Typed
  BY DEF Basic
<1>n. slips \in Nat /\ slips' \in Nat
  <2>1. slips \in 0 .. MaxSlips /\ slips' \in 0 .. MaxSlips
    BY BasicNext DEF Basic, Typed
  <2> QED BY <2>1, Constants
<1>i. /\ \A p \in ToSet(up) : p.type \in Asking => p.id \in 1 .. MaxId
      /\ \A p \in ToSet(down) : p.type \in Answering => p.id \in 1 .. MaxId
  BY DEF Sized, AskedWell, AnsweredWell
<1>k. ASSUME NEW id \in 1 .. MaxId, last_packet_id' = last_packet_id PROVE Age(id)' = Age(id)
  BY <1>k DEF Age
<1>m. ASSUME NEW id \in 1 .. MaxId PROVE Age(id) \in Int
  BY <1>s, Constants DEF Age, Typed
<1>a. ASSUME NEW p \in Packets, p.type \notin Asking, Written(p)
      PROVE  \A q \in ToSet(up') : q.type \in Asking => q \in ToSet(up)
  BY <1>a, <1>s, WrittenIs
<1>b. ASSUME NotWritten PROVE ToSet(up') = ToSet(up)
  BY <1>b, <1>s, NotWrittenIs
<1>c. ASSUME \A q \in ToSet(up') : q.type \in Asking => q \in ToSet(up) \/ \E p \in ToSet(down) : p.type \in Answering /\ p.id = q.id,
             \A q \in ToSet(down') : q.type \in Answering => q \in ToSet(down) \/ \E p \in ToSet(up) : p.type \in Asking /\ p.id = q.id,
             last_packet_id' = last_packet_id, slips' \in {slips, slips + 1}
      PROVE  Recent'
  <2>1. slips <= slips'
    BY <1>c, <1>n
  <2>2. \A id \in 1 .. MaxId : Age(id) <= slips => Age(id)' <= slips'
    BY <1>c, <1>k, <1>m, <1>n, <2>1
  <2> QED BY <1>c, <1>i, <2>2 DEF Recent, AskedSince, AnsweredSince
<1>1. CASE Open
  BY <1>1, <1>s DEF Open, stream, status, Basic, Closed, Recent, AskedSince, AnsweredSince, ToSet
<1>2. CASE Connect
  <2>1. Packet("CONNECT", 0, 0) \in Packets /\ Packet("CONNECT", 0, 0).type \notin Asking
    BY PacketIs DEF Named, Asking
  <2> QED BY <1>2, <2>1, <1>a, <1>b, <1>c DEF Connect, client
<1>3. CASE Publish0
  <2>1. requests + 1 \in Nat
    BY <1>s, Constants DEF Typed
  <2>2. /\ Packet("PUBLISH0", 0, requests + 1) \in Packets
        /\ Packet("PUBLISH0", 0, requests + 1).type \notin Asking
    BY <2>1, PacketIs DEF Named, Asking
  <2> QED BY <1>3, <2>2, <1>a, <1>b, <1>c DEF Publish0, Slip, client
<1>4. CASE Yield
  BY <1>4, <1>c DEF Yield, client, status, stream
<1>5. CASE KeepAlive
  <2>1. Packet("PINGREQ", 0, 0) \in Packets /\ Packet("PINGREQ", 0, 0).type \notin Asking
    BY PacketIs DEF Named, Asking
  <2> QED BY <1>5, <2>1, <1>a, <1>b, <1>c DEF KeepAlive, stream
<1>6. CASE Close \/ Disconnect
  <2>1. ToSet(up') = {} /\ ToSet(down') = {}
    BY <1>6, Empty DEF Close, Disconnect, End
  <2> QED BY <2>1 DEF Recent, AskedSince, AnsweredSince
<1>7. ASSUME NEW kind \in Requests, Request(kind) PROVE Recent'
  <2>1. Opening[kind] \in Named /\ NextId \in Nat /\ requests + 1 \in Nat
    BY <1>s, OpeningIs, NextIdIs, Constants DEF Named, Typed
  <2>2. PICK w \in Packets : w = Packet(Opening[kind], NextId, requests + 1) /\ w.id = NextId
    BY <2>1, PacketIs
  <2>3. /\ last_packet_id' = NextId /\ down' = down /\ Slip
        /\ Written(w) \/ NotWritten
    BY <1>7, <2>2 DEF Request
  <2>4. \A q \in ToSet(up') : q \in ToSet(up) \/ q = w
    BY <2>2, <2>3, <1>s, <1>b, WrittenIs
  <2>5. PICK latest \in Nat : latest = w.id
    BY <2>1, <2>2
  <2>6. Age(w.id)' <= slips'
    <3>1. Age(latest)' = 0
      BY <1>s, <2>2, <2>3, <2>5, Newest
    <3> QED BY <3>1, <2>5, <1>n
  <2>7. CASE error = "none"
    <3>1. NoneOf(up, Asking) /\ NoneOf(down, Answering)
      <4>1. call.kind = "none" /\ "none" \notin Requests
        BY <1>7, Constants DEF Request, Idle
      <4> QED BY <4>1, <2>7 DEF Single
    <3>2. /\ \A q \in ToSet(up) : q.type \notin Asking
          /\ \A q \in ToSet(down) : q.type \notin Answering
      BY <3>1, NoneIs
    <3> QED BY <3>2, <2>3, <2>4, <2>6 DEF Recent, AskedSince, AnsweredSince
  <2>8. CASE error # "none"
    <3>1. slips < MaxSlips /\ slips' = slips + 1
      BY <2>3, <2>8 DEF Slip
    <3>2. \A id \in 1 .. MaxId : Age(id) <= slips => Age(id)' <= slips'
      BY <1>s, <1>n, <2>3, <3>1, Older
    <3> QED BY <3>2, <1>i, <2>3, <2>4, <2>6 DEF Recent, AskedSince, AnsweredSince
  <2> QED BY <2>7, <2>8
<1>8. CASE Read
  <2>1. \A q \in ToSet(up') : q.type \in Asking =>
          q \in ToSet(up) \/ \E p \in ToSet(down) : p.type \in Answering /\ p.id = q.id
    BY <1>8, ReadIs DEF Answering
  <2> QED BY <1>8, <2>1, <1>c, ReadIs
<1>9. CASE Expire \/ Misread \/ ReadMangled
  BY <1>9, <1>c DEF Expire, Misread, ReadMangled, client, stream
<1>10. CASE BrokerReads
  <2>1. /\ Head(up) \in Packets /\ Head(up) \in ToSet(up) /\ ToSet(up') \subseteq ToSet(up)
    BY <1>10, <1>s, Heads DEF BrokerReads, Streams
  <2>2. \A q \in ToSet(down') : q.type \in Answering =>
          q \in ToSet(down) \/ \E p \in ToSet(up) : p.type \in Asking /\ p.id = q.id
    <3>1. ASSUME NEW a \in Answers(Head(up)), down' = Append(down, a), NEW q \in ToSet(down'), q.type \in Answering
          PROVE  q \in ToSet(down) \/ \E p \in ToSet(up) : p.type \in Asking /\ p.id = q.id
      <4>1. a \in Packets /\ (a.type \in Answering => a.id = Head(up).id /\ Head(up).type \in Asking)
        BY <2>1, AnswersAre
      <4>2. ToSet(down') = ToSet(down) \cup {a}
        BY <3>1, <4>1, <1>s, AppendFacts DEF Streams
      <4> QED BY <3>1, <4>1, <4>2, <2>1
    <3> QED BY <1>10, <3>1 DEF BrokerReads
  <2> QED BY <1>10, <2>1, <2>2, <1>c DEF BrokerReads, client, status
<1>11. ASSUME NEW type \in Publishes, BrokerPublishes(type) PROVE Recent'
  <2>1. type \in Named /\ published' \in Nat /\ type \notin Answering
    BY <1>11, <1>s, Constants DEF Named, Publishes, Answering, BrokerPublishes, Typed
  <2> DEFINE p == Packet(type, published', published')
  <2>2. p \in Packets /\ p.type \notin Answering
    BY <2>1, PacketIs
  <2>3. down' = Append(down, p)
    BY <1>11 DEF BrokerPublishes
  <2> HIDE DEF p
  <2>4. ToSet(down') = ToSet(down) \cup {p}
    BY <2>2, <2>3, <1>s, AppendFacts DEF Streams
  <2> QED BY <1>11, <2>2, <2>4, <1>c DEF BrokerPublishes, client, status, stream
<1>t. CASE TimerRunsOut
  BY <1>t, <1>c DEF TimerRunsOut, client, status, stream
<1>g. CASE BrokerGoesOn
  BY <1>g, <1>s, <1>c, MoreIs DEF BrokerGoesOn, Answering, client, status, stream
<1>12. CASE UNCHANGED vars
  BY <1>12, <1>c DEF vars, client, status, stream
<1> QED BY <1>1, <1>2, <1>3, <1>4, <1>5, <1>6, <1>7, <1>8, <1>9, <1>10, <1>11, <1>12, <1>t, <1>g
  DEF Next, Reading, Broker

LEMMA SingleNext ==
  ASSUME Basic, Single, [Next]_vars, ~mangled, ~mangled'
  PROVE  Single'
<1>s. Streams
  BY DEF Basic
<1>r. "none" \notin Requests /\ "yield" \notin Requests /\ "connect" \notin Requests
  BY Constants
<1>a. ASSUME NEW p \in Packets, p.type \notin Asking, Written(p)
      PROVE  (NoneOf(up, Asking) => NoneOf(up', Asking)) /\ (OneOf(up, Asking) => OneOf(up', Asking))
  <2>1. up' = Append(up, p)
    BY <1>a, <1>s, WrittenIs
  <2> QED BY <1>a, <1>s, <2>1, AppendTypes DEF Streams
<1>b. ASSUME NotWritten PROVE up' = up
  BY <1>b, <1>s, NotWrittenIs
<1>c. ASSUME NoneOf(up, Asking) => NoneOf(up', Asking), OneOf(up, Asking) => OneOf(up', Asking),
             NoneOf(down, Answering) => NoneOf(down', Answering),
             OneOf(down, Answering) => OneOf(down', Answering),
             error' = "none" => error = "none" /\ (call'.kind \notin Requests => call.kind \notin Requests)
      PROVE  Single'
  BY <1>c DEF Single
<1>d. ASSUME NEW p \in Packets, p.type \notin Answering, down' = Append(down, p)
      PROVE  /\ NoneOf(down, Answering) => NoneOf(down', Answering)
             /\ OneOf(down, Answering) => OneOf(down', Answering)
  BY <1>d, <1>s, AppendTypes DEF Streams
<1>1. CASE Open
  BY <1>1, <1>c DEF Open, stream
<1>2. CASE Connect
  <2>1. Packet("CONNECT", 0, 0) \in Packets /\ Packet("CONNECT", 0, 0).type \notin Asking
    BY PacketIs DEF Named, Asking
  <2> QED BY <1>2, <2>1, <1>a, <1>b, <1>c, <1>r DEF Connect
<1>3. CASE Publish0
  <2>1. requests + 1 \in Nat
    BY Constants DEF Basic, Typed
  <2>2. /\ Packet("PUBLISH0", 0, requests + 1) \in Packets
        /\ Packet("PUBLISH0", 0, requests + 1).type \notin Asking
    BY <2>1, PacketIs DEF Named, Asking
  <2>3. Failed("publish0") => error' # "none"
    BY DEF Failed
  <2> QED BY <1>3, <2>2, <2>3, <1>a, <1>b, <1>c DEF Publish0
<1>4. CASE Yield
  BY <1>4, <1>c, <1>r DEF Yield, Idle, status, stream
<1>5. CASE KeepAlive
  <2>1. Packet("PINGREQ", 0, 0) \in Packets /\ Packet("PINGREQ", 0, 0).type \notin Asking
    BY PacketIs DEF Named, Asking
  <2> QED BY <1>5, <2>1, <1>a, <1>b, <1>c DEF KeepAlive, stream
<1>6. CASE Close \/ Disconnect
  <2>1. up' = <<>> /\ down' = <<>>
    BY <1>6 DEF Close, Disconnect, End
  <2> QED BY <2>1, Empty DEF Single
<1>7. ASSUME NEW kind \in Requests, Request(kind) PROVE Single'
  <2>1. Opening[kind] \in Named /\ NextId \in Nat /\ requests + 1 \in Nat
    BY OpeningIs, NextIdIs, Constants DEF Named, Basic, Typed
  <2>2. Packet(Opening[kind], NextId, requests + 1) \in Packets
    BY <2>1, PacketIs
  <2>3. CASE NotWritten /\ Failed(kind)
    BY <2>3 DEF Failed, Single
  <2>4. CASE /\ Written(Packet(Opening[kind], NextId, requests + 1))
             /\ call' = Call(kind, NextId, requests + 1, 0) /\ UNCHANGED error
    <3>1. call'.kind \in Requests
      BY <2>4 DEF Call
    <3>2. up' = Append(up, Packet(Opening[kind], NextId, requests + 1)) /\ down' = down
      BY <1>7, <1>s, <2>2, <2>4, WrittenIs DEF Request
    <3>3. error = "none" => NoneOf(up, Asking) /\ NoneOf(down, Answering)
      BY <1>7, <1>r DEF Single, Request, Idle
    <3>4. error = "none" => OneOf(up', Asking) /\ NoneOf(down', Answering) /\ OneOf(down', Answering)
      BY <1>s, <2>2, <3>2, <3>3, AppendTypes DEF Streams, NoneOf, OneOf
    <3> QED BY <2>4, <3>1, <3>4 DEF Single
  <2> QED BY <1>7, <2>3, <2>4 DEF Request
<1>8. CASE Read
  <2> SUFFICES ASSUME error' = "none" PROVE Single'
    BY DEF Single
  <2> DEFINE p == Head(down)
  <2>1. /\ down \in Seq(Packets) /\ down # <<>> /\ down' = Tail(down) /\ error = "none"
        /\ call.kind \in Requests /\ call'.kind \notin Requests => p.type \in Answering /\ up' = up
    BY <1>8, <1>s, ReadIs DEF Streams
  <2>2. /\ NoneOf(down, Answering) => NoneOf(down', Answering)
        /\ OneOf(down, Answering) => OneOf(down', Answering)
        /\ OneOf(down, Answering) /\ p.type \in Answering => NoneOf(down', Answering)
        /\ p.type \in Answering => ~NoneOf(down, Answering)
    <3>1. 1 \in DOMAIN down /\ p = down[1]
      BY <2>1
    <3> QED BY <2>1, <3>1, TailTypes DEF NoneOf
  <2>3. \/ up' = up
        \/ \E r \in Packets : up' = Append(up, r) /\ r.type \notin Asking
        \/ \E r \in Packets : up' = Append(up, r) /\ p.type = "PUBREC"
    BY <1>8, ReadIs
  <2>4. "PUBREC" \in Answering
    BY DEF Answering
  <2> HIDE DEF p
  <2>5. CASE p.type \in Answering
    <3>1. /\ NoneOf(up, Asking) /\ NoneOf(down', Answering) /\ OneOf(down', Answering) /\ call.kind \in Requests
      BY <2>1, <2>2, <2>5 DEF Single
    <3>2. OneOf(up', Asking) /\ (up' = up => NoneOf(up', Asking))
      BY <1>s, <2>1, <2>3, <3>1, AppendTypes DEF Streams, Single
    <3> QED BY <2>1, <3>1, <3>2 DEF Single
  <2>6. CASE p.type \notin Answering
    <3>1. /\ NoneOf(up, Asking) => NoneOf(up', Asking)
          /\ OneOf(up, Asking) => OneOf(up', Asking)
      BY <1>s, <2>3, <2>4, <2>6, AppendTypes DEF Streams
    <3> QED BY <2>1, <2>2, <2>6, <3>1, <1>c
  <2> QED BY <2>5, <2>6
<1>9. CASE Expire
  BY <1>9 DEF Expire, CallFailed, Failed, Single
<1>10. CASE Misread \/ ReadMangled
  BY <1>10 DEF Misread, ReadMangled, stream
<1>11. CASE BrokerReads
  <2>1. Head(up) \in Packets /\ up \in Seq(Packets) /\ up # <<>> /\ up' = Tail(up) /\ UNCHANGED <<error, call>>
    BY <1>11, <1>s, Heads DEF BrokerReads, Streams, status
  <2>2. /\ NoneOf(up, Asking) => NoneOf(up', Asking)
        /\ OneOf(up, Asking) => OneOf(up', Asking)
        /\ OneOf(up, Asking) /\ Head(up).type \in Asking => NoneOf(up', Asking)
        /\ Head(up).type \in Asking => ~NoneOf(up, Asking)
    <3>1. 1 \in DOMAIN up /\ Head(up) = up[1]
      BY <2>1
    <3> QED BY <2>1, <3>1, TailTypes DEF NoneOf
  <2>3. CASE down' = down
    BY <2>1, <2>2, <2>3, <1>c
  <2>4. ASSUME NEW a \in Answers(Head(up)), down' = Append(down, a) PROVE Single'
    <3>1. a \in Packets /\ (a.type \in Answering => Head(up).type \in Asking)
      BY <2>1, AnswersAre
    <3>2. CASE a.type \notin Answering
      BY <2>1, <2>2, <2>4, <3>1, <3>2, <1>c, <1>d
    <3>3. CASE a.type \in Answering
      <4>1. NoneOf(down, Answering) => OneOf(down', Answering)
        BY <1>s, <2>4, <3>1, AppendTypes DEF Streams
      <4> QED BY <2>1, <2>2, <3>1, <3>3, <4>1 DEF Single
    <3> QED BY <3>2, <3>3
  <2> QED BY <1>11, <2>3, <2>4 DEF BrokerReads
<1>12. ASSUME NEW type \in Publishes, BrokerPublishes(type) PROVE Single'
  <2>1. type \in Named /\ published' \in Nat /\ type \notin Answering
    BY <1>12, Constants DEF Named, Publishes, Answering, BrokerPublishes, Basic, Typed
  <2>2. Packet(type, published', published') \in Packets /\ Packet(type, published', published').type \notin Answering
    BY <2>1, PacketIs
  <2> QED BY <1>12, <2>2, <1>c, <1>d DEF BrokerPublishes, stream, status
<1>t. CASE TimerRunsOut
  BY <1>t, <1>c, LateIs DEF TimerRunsOut, Basic, status, stream
<1>g. CASE BrokerGoesOn
  BY <1>g, <1>s, <1>c, <1>d, MoreIs DEF BrokerGoesOn, Answering, status, stream
<1>13. CASE UNCHANGED vars
  BY <1>13, <1>c DEF vars, status, stream
<1> QED BY <1>1, <1>2, <1>3, <1>4, <1>5, <1>6, <1>7, <1>8, <1>9, <1>10, <1>11, <1>12, <1>13, <1>t, <1>g
  DEF Next, Reading, Broker

LEMMA UnderwayNext ==
  ASSUME Basic, Sized, Recent, Single, Underway, [Next]_vars, ~mangled, ~mangled'
  PROVE  Underway'
<1>s. Streams
  BY DEF Basic
<1>r. "none" \notin Requests /\ "yield" \notin Requests /\ "connect" \notin Requests
  BY Constants
<1>a. ASSUME NEW p \in Packets, p.type \notin Asking, Written(p)
      PROVE  \A q \in ToSet(up') : q.type \in Asking => q \in ToSet(up)
  BY <1>a, <1>s, WrittenIs
<1>b. ASSUME NotWritten PROVE ToSet(up') = ToSet(up)
  BY <1>b, <1>s, NotWrittenIs
<1>c. ASSUME \A q \in ToSet(up') : q.type \in Asking => q \in ToSet(up),
             \A q \in ToSet(down') : q.type \in Answering => q \in ToSet(down),
             call'.kind \in Requests => call'.kind = call.kind /\ call'.id = call.id /\ call'.n = call.n,
             held' = held, accepted' = accepted
      PROVE  Underway'
  BY <1>c DEF Underway, AskedFor, AnsweredFor, Held, Taken
<1>1. CASE Open
  BY <1>1, <1>c DEF Open, stream, broker
<1>2. CASE Connect
  BY <1>2, <1>r DEF Connect, Call, Underway
<1>3. CASE Publish0
  BY <1>3, <1>r DEF Publish0, Idle, Underway
<1>4. CASE Yield
  BY <1>4, <1>r DEF Yield, Call, Underway
<1>5. CASE KeepAlive
  BY <1>5, <1>r DEF KeepAlive, Idle, Underway
<1>6. CASE Close \/ Disconnect
  BY <1>6, <1>r DEF Close, Disconnect, End, Idle, Underway
<1>7. ASSUME NEW kind \in Requests, Request(kind) PROVE Underway'
  <2>1. Opening[kind] \in Named /\ NextId \in Nat /\ requests + 1 \in Nat /\ Opening[kind] # "PUBREL"
    BY OpeningIs, NextIdIs, Constants DEF Named, Basic, Typed
  <2>2. PICK w \in Packets : /\ w = Packet(Opening[kind], NextId, requests + 1)
                             /\ w.type # "PUBREL" /\ w.arg = requests + 1
    BY <2>1, PacketIs
  <2>3. CASE NotWritten /\ UNCHANGED call
    BY <1>7, <2>3, <1>r DEF Request, Idle, Underway
  <2>4. CASE Written(w) /\ call' = Call(kind, NextId, requests + 1, 0)
    <3>1. call'.id = NextId /\ call'.n = requests + 1
      BY <2>4 DEF Call
    <3>2. ToSet(up') \subseteq ToSet(up) \cup {w} /\ down' = down
      BY <1>7, <1>s, <2>4, WrittenIs DEF Request
    <3>3. /\ \A q \in ToSet(up) : q.type \in Asking => q.id # NextId
          /\ \A q \in ToSet(down) : q.type \in Answering => q.id # NextId
      <4>1. CASE error = "none"
        <5>1. NoneOf(up, Asking) /\ NoneOf(down, Answering)
          BY <1>7, <1>r, <4>1 DEF Single, Request, Idle
        <5> QED BY <5>1, NoneIs
      <4>2. CASE error # "none"
        <5>1. slips < MaxSlips /\ last_packet_id' = NextId
          BY <1>7, <4>2 DEF Request, Slip
        <5>2. slips \in Nat /\ Typed
          BY Constants DEF Basic, Typed
        <5>3. \A id \in 1 .. MaxId : Age(id) <= slips => id # NextId
          BY <5>1, <5>2, Older
        <5> QED BY <5>3 DEF Recent, AskedSince, AnsweredSince, Sized, AskedWell, AnsweredWell
      <4> QED BY <4>1, <4>2
    <3> QED BY <2>2, <3>1, <3>2, <3>3 DEF Underway, AskedFor, AnsweredFor
  <2> QED BY <1>7, <2>2, <2>3, <2>4 DEF Request
<1>8. CASE Read
  <2> SUFFICES ASSUME call'.kind \in Requests PROVE AskedFor(ToSet(up))' /\ AnsweredFor(ToSet(down))'
    BY DEF Underway
  <2>1. /\ call'.kind = call.kind /\ call'.id = call.id /\ call'.n = call.n
        /\ Head(down) \in ToSet(down) /\ ToSet(down') \subseteq ToSet(down)
        /\ held' = held /\ accepted' = accepted
    BY <1>8, ReadIs
  <2>2. /\ Held' = Held /\ Taken' = Taken
        /\ AskedFor(ToSet(up)) /\ AnsweredFor(ToSet(down))
    BY <2>1 DEF Held, Taken, Underway
  <2>3. \A q \in ToSet(up') : q.type \in Asking =>
          q \in ToSet(up) \/ (q.type = "PUBREL" /\ Head(down).type = "PUBREC" /\ Head(down).id = q.id)
    BY <1>8, ReadIs
  <2>4. Head(down).type = "PUBREC" /\ Head(down).id = call.id => Held \/ Taken
    BY <2>1, <2>2 DEF AnsweredFor, Answering
  <2>5. AskedFor(ToSet(up))'
    BY <2>1, <2>2, <2>3, <2>4 DEF AskedFor
  <2>6. AnsweredFor(ToSet(down))'
    BY <2>1, <2>2 DEF AnsweredFor
  <2> QED BY <2>5, <2>6
<1>9. CASE Expire
  BY <1>9, <1>r DEF Expire, CallFailed, NoCall, Call, Underway
<1>10. CASE Misread \/ ReadMangled
  BY <1>10 DEF Misread, ReadMangled, stream
<1>11. CASE BrokerReads
  <2> SUFFICES ASSUME call.kind \in Requests PROVE AskedFor(ToSet(up))' /\ AnsweredFor(ToSet(down))'
    BY <1>11 DEF Underway, BrokerReads
  <2> DEFINE p == Head(up)
  <2>1. p \in Packets /\ p \in ToSet(up) /\ ToSet(up') \subseteq ToSet(up) /\ call' = call
    BY <1>11, <1>s, Heads DEF BrokerReads, Streams
  <2>2. AskedFor(ToSet(up)) /\ AnsweredFor(ToSet(down))
    BY DEF Underway
  <2>3. /\ Taken => Taken'
        /\ Held => Held' \/ Taken'
        /\ p.type \in {"PUBLISH1", "SUBSCRIBE", "UNSUBSCRIBE"} /\ p.id = call.id => Taken'
        /\ p.type = "PUBLISH2" /\ p.id = call.id => Held'
        /\ p.type = "PUBREL" /\ p.id = call.id => Taken'
    <3>1. held' = CASE p.type = "PUBLISH2" -> held \cup {<<p.id, p.arg>>}
                    [] p.type = "PUBREL"   -> {h \in held : h[1] # p.id}
                    [] OTHER -> held
      BY <1>11 DEF BrokerReads
    <3>2. accepted' = accepted \cup
            (CASE p.type = "PUBREL" -> {h[2] : h \in {h \in held : h[1] = p.id}}
               [] p.type \in {"PUBLISH0", "PUBLISH1", "SUBSCRIBE", "UNSUBSCRIBE"} -> {p.arg}
               [] OTHER -> {})
      BY <1>11 DEF BrokerReads
    <3> HIDE DEF p
    <3>3. Taken => Taken'
      BY <2>1, <3>2 DEF Taken
    <3>4. p.type = "PUBREL" /\ p.id = call.id /\ Held => Taken'
      BY <2>1, <3>2 DEF Taken, Held
    <3>5. Held => Held' \/ Taken'
      BY <2>1, <3>1, <3>4 DEF Held
    <3>6. p.type \in {"PUBLISH1", "SUBSCRIBE", "UNSUBSCRIBE"} /\ p.id = call.id => Taken'
      BY <2>1, <2>2, <3>2 DEF AskedFor, Asking, Taken
    <3>7. p.type = "PUBLISH2" /\ p.id = call.id => Held'
      BY <2>1, <2>2, <3>1 DEF AskedFor, Asking, Held
    <3>8. p.type = "PUBREL" /\ p.id = call.id => Held \/ Taken
      BY <2>1, <2>2 DEF AskedFor, Asking
    <3> QED BY <3>3, <3>4, <3>5, <3>6, <3>7, <3>8
  <2>4. AskedFor(ToSet(up))'
    BY <2>1, <2>2, <2>3 DEF AskedFor
  <2>5. CASE down' = down
    BY <2>1, <2>2, <2>3, <2>4, <2>5 DEF AnsweredFor
  <2>6. ASSUME NEW a \in Answers(p), down' = Append(down, a) PROVE AnsweredFor(ToSet(down))'
    <3>1. /\ a \in Packets /\ (a.type \in Answering => a.id = p.id /\ p.type \in Asking)
          /\ (a.type = "PUBREC") <=> (p.type = "PUBLISH2")
          /\ p.type = "PUBLISH2" => a.type = "PUBREC"
      BY <2>1, AnswersAre
    <3>2. ToSet(down') = ToSet(down) \cup {a}
      BY <2>6, <3>1, <1>s, AppendFacts DEF Streams
    <3> HIDE DEF p
    <3>3. a.type \in Answering /\ a.id = call.id => Taken' \/ (a.type = "PUBREC" /\ Held')
      BY <2>3, <3>1 DEF Asking
    <3>4. \A q \in ToSet(down) : q.type \in Answering /\ q.id = call.id => Taken' \/ (q.type = "PUBREC" /\ Held')
      BY <2>2, <2>3 DEF AnsweredFor
    <3> QED BY <2>1, <3>2, <3>3, <3>4 DEF AnsweredFor
  <2> QED BY <1>11, <2>4, <2>5, <2>6 DEF BrokerReads
<1>12. ASSUME NEW type \in Publishes, BrokerPublishes(type) PROVE Underway'
  <2>1. type \in Named /\ published' \in Nat /\ type \notin Answering
    BY <1>12, Constants DEF Named, Publishes, Answering, BrokerPublishes, Basic, Typed
  <2> DEFINE p == Packet(type, published', published')
  <2>2. p \in Packets /\ p.type \notin Answering
    BY <2>1, PacketIs
  <2>3. down' = Append(down, p)
    BY <1>12 DEF BrokerPublishes
  <2> HIDE DEF p
  <2>4. ToSet(down') = ToSet(down) \cup {p}
    BY <2>2, <2>3, <1>s, AppendFacts DEF Streams
  <2> QED BY <1>12, <2>2, <2>4, <1>c DEF BrokerPublishes, stream
<1>t. CASE TimerRunsOut
  BY <1>t, <1>c, LateIs DEF TimerRunsOut, Basic, stream, broker
<1>g. CASE BrokerGoesOn
  BY <1>g, <1>s, <1>c, MoreIs DEF BrokerGoesOn, Answering, stream, broker
<1>13. CASE UNCHANGED vars
  BY <1>13, <1>c DEF vars, stream, broker
<1> QED BY <1>1, <1>2, <1>3, <1>4, <1>5, <1>6, <1>7, <1>8, <1>9, <1>10, <1>11, <1>12, <1>13, <1>t, <1>g
  DEF Next, Reading, Broker

LEMMA ConfirmedNext ==
  ASSUME Basic, ~mangled => Underway, ConfirmedIsAccepted, [Next]_vars
  PROVE  ConfirmedIsAccepted'
<1>1. accepted \subseteq accepted'
  <2>1. BrokerReads => accepted \subseteq accepted'
    BY DEF BrokerReads
  <2> QED BY <2>1 DEF Next, Reading, Broker, Open, Connect, Publish0, Yield, KeepAlive, Close, Disconnect, End,
                      Request, Read, TimerRunsOut, Expire, Misread, ReadMangled, BrokerPublishes, BrokerGoesOn,
                      broker, vars
<1>2. CASE Read
  <2> DEFINE p == Head(down)
  <2>1. ~mangled /\ p \in ToSet(down)
    BY <1>2, ReadIs
  <2>2. \/ confirmed' = confirmed
        \/ /\ call.kind \in Requests /\ confirmed' = confirmed \cup {call.n}
           /\ p.type \in Answering /\ p.type # "PUBREC" /\ p.id = call.id
    BY <1>2, ReadIs
  <2> HIDE DEF p
  <2>3. call.kind \in Requests /\ p.type \in Answering /\ p.type # "PUBREC" /\ p.id = call.id => call.n \in accepted
    BY <2>1 DEF Underway, AnsweredFor, Taken
  <2> QED BY <1>1, <2>2, <2>3 DEF ConfirmedIsAccepted
<1>3. CASE ReadMangled
  BY <1>1, <1>3 DEF ReadMangled, CallSucceeded, ConfirmedIsAccepted
<1>4. ASSUME confirmed' = confirmed PROVE ConfirmedIsAccepted'
  BY <1>1, <1>4 DEF ConfirmedIsAccepted
<1>5. CASE Expire \/ Misread
  BY <1>4, <1>5 DEF Expire, Misread, CallFailed
<1> QED BY <1>2, <1>3, <1>4, <1>5
  DEF Next, Reading, Broker, Open, Connect, Publish0, Yield, KeepAlive, Close, Disconnect, End,
      Request, TimerRunsOut, BrokerReads, BrokerPublishes, BrokerGoesOn, vars

\* Only the end of a connection puts the streams in step again.
LEMMA MangledNext ==
  ASSUME Basic, [Next]_vars, mangled, ~mangled'
  PROVE  up' = <<>> /\ down' = <<>> /\ call'.kind \notin Requests
<1>1. ASSUME NEW p, Written(p) PROVE FALSE
  BY <1>1 DEF Written
<1>2. ~NotWritten /\ ~(UNCHANGED stream)
  BY DEF NotWritten, stream
<1>3. Close \/ Disconnect
  <2>1. ~Read /\ ~TimerRunsOut /\ ~Expire /\ ~Misread /\ ~ReadMangled
    BY <1>2 DEF Read, TimerRunsOut, Expire, Misread, ReadMangled
  <2>2. ~BrokerReads /\ ~BrokerGoesOn /\ ~\E type \in Publishes : BrokerPublishes(type)
    BY <1>2 DEF BrokerReads, BrokerGoesOn, BrokerPublishes
  <2>3. ~Open /\ ~Yield /\ ~(UNCHANGED vars)
    BY <1>2 DEF Open, Yield, vars
  <2>4. ~Connect /\ ~Publish0 /\ ~KeepAlive
    BY <1>1, <1>2 DEF Connect, Publish0, KeepAlive
  <2>5. ~\E kind \in Requests : Request(kind)
    BY <1>1, <1>2 DEF Request
  <2> QED BY <2>1, <2>2, <2>3, <2>4, <2>5 DEF Next, Reading, Broker
<1> QED BY <1>3, Constants DEF Close, Disconnect, End, Idle

LEMMA ExchangesNext == Basic /\ Sized /\ Exchanges /\ [Next]_vars => Exchanges'
<1> SUFFICES ASSUME Basic, Sized, Exchanges, [Next]_vars PROVE Exchanges'
  OBVIOUS
<1>1. ConfirmedIsAccepted'
  BY ConfirmedNext DEF Exchanges
<1>2. ASSUME ~mangled, ~mangled' PROVE Recent' /\ Single' /\ Underway'
  BY <1>2, RecentNext, SingleNext, UnderwayNext DEF Exchanges
<1>3. ASSUME mangled, ~mangled' PROVE Recent' /\ Single' /\ Underway'
  <2>1. up' = <<>> /\ down' = <<>> /\ call'.kind \notin Requests
    BY <1>3, MangledNext
  <2>2. /\ ToSet(up') = {} /\ ToSet(down') = {}
        /\ NoneOf(up', Asking) /\ NoneOf(down', Answering) /\ OneOf(up', Asking) /\ OneOf(down', Answering)
    BY <2>1, Empty
  <2> QED BY <2>1, <2>2 DEF Recent, AskedSince, AnsweredSince, Single, Underway
<1> QED BY <1>1, <1>2, <1>3 DEF Exchanges

\* A request that returns success was carried out by the broker: this very
\* request, not an earlier one of its kind whose answer came late.
THEOREM ConfirmedAccepted == Spec => []ConfirmedIsAccepted
<1>1. Init => Basic /\ Sized /\ Exchanges
  <2>1. Init => Exchanges
    <3> SUFFICES ASSUME Init PROVE Exchanges
      OBVIOUS
    <3>1. /\ ToSet(up) = {} /\ ToSet(down) = {} /\ call.kind = "none"
          /\ NoneOf(up, Asking) /\ NoneOf(down, Answering) /\ OneOf(up, Asking) /\ OneOf(down, Answering)
      BY Empty DEF Init, NoCall, Call
    <3>2. "none" \notin Requests /\ confirmed = {}
      BY Constants DEF Init
    <3> QED BY <3>1, <3>2 DEF Exchanges, Recent, AskedSince, AnsweredSince, Single, Underway, ConfirmedIsAccepted
  <2> QED BY <2>1, BasicInit, SizedInit
<1>2. Basic /\ Sized /\ Exchanges /\ [Next]_vars => (Basic /\ Sized /\ Exchanges)'
  BY BasicNext, SizedNext, ExchangesNext
<1>3. Exchanges => ConfirmedIsAccepted
  BY DEF Exchanges
<1> QED BY <1>1, <1>2, <1>3, PTL DEF Spec

=============================================================================
