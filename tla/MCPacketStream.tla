--------------------------- MODULE MCPacketStream ----------------------------
(***************************************************************************)
(* Scenarios for PacketStream: the packets a broker sends, written out byte *)
(* by byte together with what they mean, and the calls of the client.      *)
(***************************************************************************)
EXTENDS PacketStream

P(bytes, type, data) == [bytes |-> bytes, type |-> type, ok |-> TRUE, data |-> data]
Bad(bytes, type) == [bytes |-> bytes, type |-> type, ok |-> FALSE, data |-> [err |-> "malformed"]]

Message(qos, id, payload, flags) ==
  [err |-> "SUCCESS", qos |-> qos, id |-> id, topic |-> <<97>>, payload |-> payload,
   dup |-> "dup" \in flags, retained |-> "retained" \in flags]
Ack(id) == [err |-> "SUCCESS", id |-> id]
Granted(id, codes) == [err |-> "SUCCESS", id |-> id, granted |-> codes]
Return(code, present) == [err |-> "SUCCESS", return_code |-> code, session_present |-> present]

Messages == {
  P(<<48, 3, 0, 1, 97>>, "PUBLISH", Message(0, 0, <<>>, {})),
  P(<<49, 132, 0, 0, 1, 97, 33>>, "PUBLISH", Message(0, 0, <<33>>, {"retained"})),
  P(<<50, 7, 0, 1, 97, 1, 5, 33, 34>>, "PUBLISH", Message(1, 261, <<33, 34>>, {})),
  P(<<60, 5, 0, 1, 97, 0, 5>>, "PUBLISH", Message(2, 5, <<>>, {"dup"})) }

Exchanges == {
  P(<<80, 2, 0, 1>>, "PUBREC", Ack(1)),
  P(<<98, 2, 0, 5>>, "PUBREL", Ack(5)),
  Pong }

\* Longer than the read buffer.
Oversized == P(<<48, 8, 0, 1, 97, 48, 3, 0, 1, 98>>, "PUBLISH", Message(0, 0, <<48, 3, 0, 1, 98>>, {}))

Malformeds == {
  Bad(<<50, 5, 0, 1, 97, 0, 0>>, "PUBLISH"),             \* packet id 0
  Bad(<<54, 5, 0, 1, 97, 0, 5>>, "PUBLISH"),             \* QoS 3
  Bad(<<48, 4, 0, 4, 97, 33>>, "PUBLISH"),               \* a topic longer than the packet
  Bad(<<50, 4, 0, 1, 97, 0>>, "PUBLISH"),                \* no room for the packet id
  Bad(<<48, 1, 0>>, "PUBLISH"),                          \* no topic
  Bad(<<96, 2, 0, 5>>, "PUBREL"),                        \* wrong flags
  Bad(<<80, 3, 0, 1, 0>>, "PUBREC"),                     \* wrong length
  Bad(<<16, 0>>, "CONNECT"),                             \* not for a client
  Bad(<<48, 128, 128, 128, 128, 1>>, "PUBLISH") }        \* length of five bytes

\* Answers to requests with packet id 1.
Answers == {
  P(<<64, 2, 0, 1>>, "PUBACK", Ack(1)), P(<<64, 2, 1, 1>>, "PUBACK", Ack(257)),
  Bad(<<64, 3, 0, 1, 0>>, "PUBACK"), Bad(<<65, 2, 0, 1>>, "PUBACK"),
  P(<<112, 2, 0, 1>>, "PUBCOMP", Ack(1)),
  P(<<144, 4, 0, 1, 1, 128>>, "SUBACK", Granted(1, <<1, QosFailure>>)),
  P(<<144, 4, 0, 1, 0, 2>>, "SUBACK", Granted(1, <<0, 2>>)),
  Bad(<<144, 5, 0, 1, 0, 2, 0>>, "SUBACK"), Bad(<<144, 2, 0, 1>>, "SUBACK"),
  P(<<176, 2, 0, 1>>, "UNSUBACK", Ack(1)) }

Connacks == {
  P(<<32, 2, 1, 0>>, "CONNACK", Return(0, TRUE)), P(<<32, 2, 0, 5>>, "CONNACK", Return(5, FALSE)),
  P(<<32, 2, 0, 9>>, "CONNACK", Return(UnknownReturnCode, FALSE)), Bad(<<32, 3, 0, 0, 0>>, "CONNACK") }

-----------------------------------------------------------------------------
(***************************************************************************)
(* Calls.                                                                  *)
(***************************************************************************)
Bytes(n) == [i \in 1 .. n |-> 97]

Publish(qos, dup, retained, topic, payload) ==
  [type |-> "PUBLISH", id |-> IF qos > 0 THEN 1 ELSE 0, qos |-> qos, dup |-> dup,
   retained |-> retained, topic |-> Bytes(topic), payload_len |-> payload]
Filters(qos) == [i \in DOMAIN qos |-> [topic |-> Bytes(i), qos |-> qos[i]]]
Subscribe(qos) == [type |-> "SUBSCRIBE", id |-> 1, filters |-> Filters(qos)]
Unsubscribe(qos) == [type |-> "UNSUBSCRIBE", id |-> 1, filters |-> Filters(qos)]
Connect(client_id, will, username, password) ==
  [type |-> "CONNECT", client_id |-> Bytes(client_id), will |-> will, clean_session |-> username = 0,
   keep_alive |-> 258, username |-> Bytes(username), password |-> Bytes(password)]
WillMessage(qos, retained, topic, payload) ==
  [topic |-> Bytes(topic), payload |-> Bytes(payload), qos |-> qos, retained |-> retained]

\* Lengths on both sides of each boundary of the remaining length.
Boundaries == {0, 123, 124, 125, 16379, 16380, 16381, 2097147, 2097148, 2097149, 268435451, 268435452, 268435453}

EncodedCalls ==
  {Publish(q, FALSE, r, 1, n) : q \in {0, 2}, r \in BOOLEAN, n \in Boundaries}
  \cup {Publish(1, TRUE, FALSE, n, 0) : n \in {1, 121, 122, 123, 124}}
  \cup {Subscribe(q) : q \in {<<0>>, <<1>>, <<2, 0>>}}
  \cup {Unsubscribe(q) : q \in {<<0>>, <<2, 0>>}}
  \cup {Connect(c, w, u, p) : c \in {0, 1, 102, 103, 115, 116},
          w \in {<<>>, <<WillMessage(1, TRUE, 2, 0)>>, <<WillMessage(2, FALSE, 1, 3)>>}, u \in {0, 3}, p \in {0, 2}}

-----------------------------------------------------------------------------
Scenario(packets, c, room, drop, tls, cuts) ==
  [sent |-> packets, request |-> c, room |-> room, drop_overflow |-> drop, tls |-> tls, cuts |-> cuts]

Good == Messages \cup Exchanges
Pairs == {<<a>> : a \in Good \cup Malformeds} \cup (Good \X (Good \cup Malformeds))
WithOversized == {<<Oversized, a>> : a \in Messages} \cup {<<a, Oversized>> : a \in Messages}
Lengths(packets) == Total(Each(packets, LAMBDA p : Len(p.bytes)))

\* Over TCP and TLS, in one piece or cut inside the packets.
Streams(packets, c, drop) ==
  {Scenario(packets, c, IF c.type = "CONNECT" THEN 40 ELSE 8, drop, tls, {i \in cuts : i <= Lengths(packets)}) :
     tls \in BOOLEAN, cuts \in {{}, {1, 4, 10}}}

RequestsAnswered ==
  {Publish(1, FALSE, FALSE, 1, 0), Publish(2, FALSE, FALSE, 1, 0), Subscribe(<<0>>), Subscribe(<<0, 1>>),
   Unsubscribe(<<0>>)}

AroundAnswers ==
  {<<Oversized, P(<<64, 2, 0, 1>>, "PUBACK", Ack(1)), Good1>> : Good1 \in Messages}

MCScenarios ==
  UNION {Streams(p, NoCall, FALSE) : p \in Pairs}
  \cup UNION {Streams(p, NoCall, d) : p \in WithOversized, d \in BOOLEAN}
  \cup UNION {Streams(<<a>>, c, FALSE) : a \in Answers, c \in RequestsAnswered}
  \cup UNION {Streams(p, Publish(1, FALSE, FALSE, 1, 0), TRUE) : p \in AroundAnswers}
  \cup UNION {Streams(<<a>>, Connect(1, <<>>, 0, 0), FALSE) : a \in Connacks}
  \cup {Scenario(<<m>>, NoCall, 3, FALSE, FALSE, {}) : m \in Messages \cup Exchanges}
  \cup {Scenario(<<>>, c, r, FALSE, FALSE, {}) : c \in EncodedCalls, r \in {7, 40, 200}}

=============================================================================
