----------------------------- MODULE PacketCodec -----------------------------
(***************************************************************************)
(* Packets as bytes: lwmqtt/src/packet.c and helpers.c.  Buffers, strings  *)
(* and payloads are sequences of bytes.  Where the code moves a pointer    *)
(* through a buffer, an operator has the place it reads at; every result   *)
(* has the error that the function returns.                                *)
(***************************************************************************)
EXTENDS Integers, Sequences

\* lwmqtt_packet_type_t
Code == [CONNECT |-> 1, CONNACK |-> 2, PUBLISH |-> 3, PUBACK |-> 4, PUBREC |-> 5,
         PUBREL |-> 6, PUBCOMP |-> 7, SUBSCRIBE |-> 8, SUBACK |-> 9,
         UNSUBSCRIBE |-> 10, UNSUBACK |-> 11, PINGREQ |-> 12, PINGRESP |-> 13,
         DISCONNECT |-> 14]

\* lwmqtt_return_code_t and lwmqtt_qos_t
UnknownReturnCode == 6
QosFailure == 128

Error(e) == [err |-> e]

-----------------------------------------------------------------------------
(***************************************************************************)
(* helpers.c.  A field of bits is named by the weights of its lowest bit   *)
(* and of the bit above it; fields are written into a zero byte.           *)
(***************************************************************************)
ReadBits(byte, low, above) == (byte % above) \div low
Flag(set, weight) == IF set THEN weight ELSE 0
Header(type, flags) == 16 * Code[type] + flags

\* lwmqtt_read_num, lwmqtt_write_num, lwmqtt_write_string
ReadNum(buf, at) == 256 * buf[at] + buf[at + 1]
WriteNum(n) == <<n \div 256, n % 256>>
WriteString(s) == WriteNum(Len(s)) \o s

Weight == <<1, 128, 16384, 2097152>>
VarnumLimit == 268435456

Least(S) == CHOOSE i \in S : \A j \in S : i <= j

WriteVarnum_OffByOne(n) ==
  LET len == Least({i \in 1 .. 4 : i = 4 \/ n <= 128 * Weight[i]})
  IN [i \in 1 .. len |-> ((n \div Weight[i]) % 128) + Flag(i < len, 128)]

\* Seven bits a byte, lowest first, until nothing is left.  (Longer numbers are
\* refused before; the last quotient fits the last byte.)
WriteVarnum(n) ==
  LET len == Least({i \in 1 .. 4 : n < 128 * Weight[i]})
  IN [i \in 1 .. len |-> ((n \div Weight[i]) % 128) + Flag(i < len, 128)]

\* lwmqtt_read_varnum: the number ends with the first byte below 128 and has at
\* most four; a fifth byte must be there to tell.
ReadVarnum(buf, at) ==
  LET byte(i) == buf[at + i - 1]
      ends == {i \in 1 .. 4 : at + i - 1 <= Len(buf) /\ byte(i) < 128}
      len == Least(ends)
      digit(i) == IF i <= len THEN (byte(i) % 128) * Weight[i] ELSE 0
  IN IF ends # {}
     THEN [err |-> "SUCCESS", num |-> digit(1) + digit(2) + digit(3) + digit(4), next |-> at + len]
     ELSE Error(IF Len(buf) < at + 4 THEN "BUFFER_TOO_SHORT" ELSE "VARNUM_OVERFLOW")

-----------------------------------------------------------------------------
(***************************************************************************)
(* What the client writes, into a buffer of "room" bytes.  The remaining   *)
(* length is computed beforehand, the body written piece by piece.         *)
(***************************************************************************)
Encode(header, rem_len, body, room) ==
  LET packet == <<header>> \o WriteVarnum(rem_len) \o body
  IN IF rem_len >= VarnumLimit THEN Error("REMAINING_LENGTH_OVERFLOW")
     ELSE IF Len(packet) > room THEN Error("BUFFER_TOO_SHORT")
     ELSE [err |-> "SUCCESS", packet |-> packet]

Concat(pieces) ==
  LET upTo[i \in 0 .. Len(pieces)] == IF i = 0 THEN <<>> ELSE upTo[i - 1] \o pieces[i]
  IN upTo[Len(pieces)]

Total(numbers) ==
  LET upTo[i \in 0 .. Len(numbers)] == IF i = 0 THEN 0 ELSE upTo[i - 1] + numbers[i]
  IN upTo[Len(numbers)]

Each(seq, f(_)) == [i \in 1 .. Len(seq) |-> f(seq[i])]

WillLength(w) == Len(w.topic) + 2 + Len(w.payload) + 2
WillFlags(w) == 4 + 8 * w.qos + Flag(w.retained, 32)
WillFields(w) == WriteString(w.topic) \o WriteString(w.payload)

\* c.will has one element, or none.  A password makes the user name present too.
EncodeConnect(c, room) ==
  LET user == c.username # <<>> \/ c.password # <<>>
      password == c.password # <<>>
      rem_len == 10 + Len(c.client_id) + 2 + Total(Each(c.will, WillLength))
                 + (IF user THEN Len(c.username) + 2 ELSE 0)
                 + (IF password THEN Len(c.password) + 2 ELSE 0)
      flags == Flag(c.clean_session, 2) + Total(Each(c.will, WillFlags))
               + Flag(user, 128) + Flag(password, 64)
  IN Encode(Header("CONNECT", 0), rem_len,
            <<0, 4, 77, 81, 84, 84, 4, flags>> \o WriteNum(c.keep_alive)
            \o WriteString(c.client_id)
            \o Concat(Each(c.will, WillFields))
            \o (IF user THEN WriteString(c.username) ELSE <<>>)
            \o (IF password THEN WriteString(c.password) ELSE <<>>), room)

\* lwmqtt_encode_zero: pings and the disconnect
EncodeZero(type, room) == Encode(Header(type, 0), 0, <<>>, room)

EncodeAck(type, id, room) ==
  Encode(Header(type, Flag(type = "PUBREL", 2)), 2, WriteNum(id), room)

\* The payload is sent from where it is, after the buffer.
EncodePublish(c, room) ==
  LET id == IF c.qos > 0 THEN WriteNum(c.id) ELSE <<>>
  IN Encode(Header("PUBLISH", Flag(c.dup, 8) + 2 * c.qos + Flag(c.retained, 1)),
            2 + Len(c.topic) + c.payload_len + (IF c.qos > 0 THEN 2 ELSE 0),
            WriteString(c.topic) \o id, room)

\* c.filters is a sequence of topics and QoS levels.
EncodeSubscribe(c, room) ==
  Encode(Header("SUBSCRIBE", 2), 2 + Total(Each(c.filters, LAMBDA f : 2 + Len(f.topic) + 1)),
         WriteNum(c.id) \o Concat(Each(c.filters, LAMBDA f : WriteString(f.topic) \o <<f.qos>>)), room)

EncodeUnsubscribe(c, room) ==
  Encode(Header("UNSUBSCRIBE", 2), 2 + Total(Each(c.filters, LAMBDA f : 2 + Len(f.topic))),
         WriteNum(c.id) \o Concat(Each(c.filters, LAMBDA f : WriteString(f.topic))), room)

EncodeCall(c, room) ==
  CASE c.type = "CONNECT"     -> EncodeConnect(c, room)
    [] c.type = "PUBLISH"     -> EncodePublish(c, room)
    [] c.type = "SUBSCRIBE"   -> EncodeSubscribe(c, room)
    [] c.type = "UNSUBSCRIBE" -> EncodeUnsubscribe(c, room)
    [] c.type \in {"PUBACK", "PUBREC", "PUBREL", "PUBCOMP"} -> EncodeAck(c.type, c.id, room)
    [] OTHER                  -> EncodeZero(c.type, room)

-----------------------------------------------------------------------------
(***************************************************************************)
(* What it reads, from the start of the whole read buffer: a packet may    *)
(* be followed there by what earlier ones have left.                       *)
(***************************************************************************)
Received == {"CONNACK", "PUBLISH", "PUBACK", "PUBREC", "PUBREL", "PUBCOMP",
             "SUBACK", "UNSUBACK", "PINGRESP"}

\* lwmqtt_detect_packet_type
DetectType(header) ==
  LET types == {t \in Received : Code[t] = ReadBits(header, 16, 256)}
  IN IF types = {} THEN Error("MISSING_OR_WRONG_PACKET")
     ELSE [err |-> "SUCCESS", type |-> CHOOSE t \in types : TRUE]

\* lwmqtt_detect_remaining_length
DetectRemainingLength(buf, at) ==
  LET r == ReadVarnum(buf, at)
  IN IF r.err = "VARNUM_OVERFLOW" THEN Error("REMAINING_LENGTH_OVERFLOW") ELSE r

\* How every decoder begins: with the header and the remaining length, which must
\* be one of "lengths".
Begins(buf, type, flags, lengths) ==
  LET r == ReadVarnum(buf, 2)
  IN IF ReadBits(buf[1], 16, 256) # Code[type] \/ ReadBits(buf[1], 1, 16) \notin flags
     THEN "MISSING_OR_WRONG_PACKET"
     ELSE IF r.err # "SUCCESS" THEN r.err
     ELSE IF r.num \notin lengths THEN "REMAINING_LENGTH_MISMATCH"
     ELSE "SUCCESS"

DecodeConnack(buf) ==
  LET begins == Begins(buf, "CONNACK", 0 .. 15, {2})
      r == ReadVarnum(buf, 2)
  IN IF begins # "SUCCESS" THEN Error(begins)
     ELSE IF Len(buf) < r.next + 1 THEN Error("BUFFER_TOO_SHORT")
     ELSE [err |-> "SUCCESS", session_present |-> ReadBits(buf[r.next], 1, 2) = 1,
           return_code |-> IF buf[r.next + 1] <= 5 THEN buf[r.next + 1] ELSE UnknownReturnCode]

DecodeAck(buf, type) ==
  LET begins == Begins(buf, type, {IF type = "PUBREL" THEN 2 ELSE 0}, {2})
      r == ReadVarnum(buf, 2)
  IN IF begins # "SUCCESS" THEN Error(begins)
     ELSE IF Len(buf) < r.next + 1 THEN Error("BUFFER_TOO_SHORT")
     ELSE [err |-> "SUCCESS", id |-> ReadNum(buf, r.next)]

PublishEnd_Buffer(buf, r) == Len(buf)

\* The buffer's end is set back to the packet's.
PublishEnd(buf, r) == r.next + r.num - 1

DecodePublish(buf) ==
  LET begins == Begins(buf, "PUBLISH", {f \in 0 .. 15 : ReadBits(f, 2, 8) # 3}, Nat \ 0 .. 1)
      r == ReadVarnum(buf, 2)
      last == PublishEnd(buf, r)
      qos == ReadBits(buf[1], 2, 8)
      topic == r.next + 2
      rest == topic + ReadNum(buf, r.next)
      payload == IF qos > 0 THEN rest + 2 ELSE rest
      id == IF qos > 0 THEN ReadNum(buf, rest) ELSE 0
  IN IF begins # "SUCCESS" THEN Error(begins)
     ELSE IF Len(buf) < last \/ payload > last + 1 THEN Error("BUFFER_TOO_SHORT")
     ELSE IF qos > 0 /\ id = 0 THEN Error("MISSING_OR_WRONG_PACKET")
     ELSE [err |-> "SUCCESS", qos |-> qos, id |-> id, dup |-> ReadBits(buf[1], 8, 16) = 1,
           retained |-> ReadBits(buf[1], 1, 2) = 1,
           topic |-> SubSeq(buf, topic, rest - 1), payload |-> SubSeq(buf, payload, last)]

\* One code for each of at most max_count filters.
DecodeSuback(buf, max_count) ==
  LET begins == Begins(buf, "SUBACK", 0 .. 15, Nat \ 0 .. 2)
      r == ReadVarnum(buf, 2)
      count == r.num - 2
      granted(code) == IF code <= 2 THEN code ELSE QosFailure
  IN IF begins # "SUCCESS" THEN Error(begins)
     ELSE IF count > max_count THEN Error("SUBACK_ARRAY_OVERFLOW")
     ELSE IF Len(buf) < r.next + 1 + count THEN Error("BUFFER_TOO_SHORT")
     ELSE [err |-> "SUCCESS", id |-> ReadNum(buf, r.next),
           granted |-> Each(SubSeq(buf, r.next + 2, r.next + 1 + count), granted)]

=============================================================================
