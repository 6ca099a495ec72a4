---------------------------- MODULE PacketStream -----------------------------
(***************************************************************************)
(* How bytes become packets.  A connection delivers the broker's bytes in  *)
(* pieces; client.c reads a packet into the read buffer field by field,    *)
(* esp_mqtt.c's loop decides when, from what select() and peek say, and a  *)
(* task that waits for the answer to its request reads what comes before.  *)
(* With TLS (esp_tls_lwmqtt.c) the bytes come in records: select() sees    *)
(* the socket, peek and read see the record that was opened last.          *)
(*                                                                         *)
(* Time is left out: a timeout may come whenever there is nothing to read, *)
(* and in every round of the loop a ping may be due or, since every packet *)
(* that another task sends puts it off, not be due.                        *)
(***************************************************************************)
EXTENDS BrokerParser, SequencesExt, FiniteSetsExt

CONSTANTS
  ReadSize,    \* read_buf_size
  MaxPings,    \* bound: pings before the end of the stream
  \* What can happen on the connection: the packets sent, each with its bytes and
  \* what they mean, the request another task makes, write_buf_size,
  \* drop_overflow, whether TLS is used and where the stream is cut.
  Scenarios

NoCall == [type |-> "none"]
Pong == [bytes |-> <<208, 0>>, type |-> "PINGRESP", ok |-> TRUE, data |-> [err |-> "SUCCESS"]]

ASSUME SizeAssumption == ReadSize \in Nat \ {0, 1} /\ MaxPings \in Nat

VARIABLES
  setting,       \* the member of Scenarios
  sent,          \* packets the broker has sent,
  wire, pieces, \* their bytes, and where the network cuts them
  arrived,       \* bytes of them that have arrived,
  opened,        \* that have left the socket (for an opened TLS record)
  taken,         \* and that the client has read
  ended,         \* the broker has closed the connection
  read_buf, pong_pending, overflow_counter,   \* lwmqtt_client_t
  pc,            \* background task: "connect", "select", "lock", "work", "closed"
  available,     \* the loop's variable
  again,         \* its errno is EAGAIN
  failed,        \* esp_mqtt_error
  request,       \* the request still to be made
  call,          \* the call that holds the main mutex
  written,       \* the last packet written: what for, and what was encoded
  torn,          \* a read has stopped in the middle of a packet
  handled,       \* history: packets read
  pings          \* history: pings sent

network == <<sent, wire, pieces, arrived, opened, taken, ended>>
reader  == <<read_buf, pong_pending, overflow_counter, torn, handled>>
loop    == <<pc, available, again, failed, pings>>
vars    == <<setting, network, reader, loop, request, call, written>>

stream  == <<sent, wire, pieces>>
\* Reading a packet: its field, how much of it is in the buffer and how much of
\* the field is missing; how much lwmqtt_cycle_until has read, and may.
Call(c, budget) ==
  [type |-> c.type, of |-> c, field |-> "header", got |-> 0, missing |-> 1,
   packet |-> "none", read |-> 0, budget |-> budget]

Init ==
  /\ setting \in Scenarios /\ sent = setting.sent /\ request = setting.request
  /\ wire = Concat(Each(sent, LAMBDA p : p.bytes))
  /\ pieces = setting.cuts \cup {Len(wire)}
  /\ arrived = 0 /\ opened = 0 /\ taken = 0 /\ ended = FALSE
  /\ read_buf = [i \in 1 .. ReadSize |-> 0]
  /\ pong_pending = FALSE /\ overflow_counter = 0
  /\ pc = IF setting.request.type = "CONNECT" THEN "connect" ELSE "select"
  /\ available = FALSE /\ again = FALSE /\ failed = FALSE
  /\ call = NoCall /\ written = [call |-> NoCall]
  /\ torn = FALSE /\ handled = <<>> /\ pings = 0

-----------------------------------------------------------------------------
(***************************************************************************)
(* The network.                                                            *)
(***************************************************************************)
Send(packet) ==
  /\ sent' = Append(sent, packet) /\ wire' = wire \o packet.bytes
  /\ pieces' = pieces \cup {Len(wire')}

\* The next segment arrives, or TLS record, which is of no use incomplete.
Arrive ==
  /\ arrived < Len(wire)
  /\ arrived' = Min({e \in pieces : e > arrived})
  /\ UNCHANGED <<setting, stream, opened, taken, ended, reader, loop, request, call, written>>

\* The end of the stream arrives after all that was sent: the broker has closed
\* the connection.
BrokerCloses ==
  /\ ~ended /\ pc # "closed" /\ arrived = Len(wire) /\ ended' = TRUE
  /\ UNCHANGED <<setting, stream, arrived, opened, taken, reader, loop, request, call, written>>

InSocket == arrived > opened
AtEnd == ended /\ taken = arrived

\* How far the stream can be read at once: all that is there, or the rest of the
\* opened record, or the next one.
Readable ==
  IF ~setting.tls THEN arrived
  ELSE IF opened > taken \/ ~InSocket THEN opened
  ELSE Min({e \in pieces : e > opened})

-----------------------------------------------------------------------------
(***************************************************************************)
(* The end of a call.                                                      *)
(***************************************************************************)
Closed ==
  /\ pc' = "closed" /\ UNCHANGED <<available, again, failed, pings>>

\* lwmqtt_yield goes on to lwmqtt_keep_alive, lwmqtt_connect to the loop.
Succeeds ==
  /\ call' = NoCall
  /\ pc' = CASE call.type = "yield" -> "work" [] call.type = "CONNECT" -> "select" [] OTHER -> pc
  /\ UNCHANGED <<available, again, failed, pings>>

\* The background task closes the connection; a request sets esp_mqtt_error.
Fails ==
  /\ call' = NoCall
  /\ IF call.type \in {"yield", "CONNECT"} THEN Closed
     ELSE failed' = TRUE /\ UNCHANGED <<pc, available, again, pings>>

FailsBetween == Fails /\ UNCHANGED torn
FailsWithin == Fails /\ torn' = TRUE

\* lwmqtt_cycle_until goes on: a request until its answer is there, lwmqtt_yield
\* until it has read what was available or the command timer has run out.
NextPacket(length) ==
  LET read == call.read + length
  IN \/ /\ call.type # "yield" \/ read < call.budget
        /\ call' = [Call(call.of, call.budget) EXCEPT !.read = read]
        /\ UNCHANGED <<loop, torn>>
     \/ call.type = "yield" /\ Succeeds /\ UNCHANGED torn
     \/ call.type # "yield" /\ FailsBetween

-----------------------------------------------------------------------------
(***************************************************************************)
(* Writing.                                                                *)
(***************************************************************************)
Write(c) == written' = [call |-> c, out |-> EncodeCall(c, setting.room)]
Fits(c) == EncodeCall(c, setting.room).err = "SUCCESS"

\* The packet that answers a request.
Needle == [CONNECT |-> "CONNACK", SUBSCRIBE |-> "SUBACK", UNSUBSCRIBE |-> "UNSUBACK"]
NeedleOf(c) ==
  IF c.type # "PUBLISH" THEN Needle[c.type] ELSE IF c.qos = 1 THEN "PUBACK" ELSE "PUBCOMP"

\* Only a publish of QoS 0 is not answered.
Answered(c) == c.type \in DOMAIN Needle \/ c.qos > 0

\* A task makes its request, lwmqtt_connect's before the loop begins.
Request ==
  /\ call.type = "none" /\ request.type # "none" /\ request' = NoCall
  /\ pc \in (IF request.type = "CONNECT" THEN {"connect"} ELSE {"select", "lock"})
  /\ Write(request)
  /\ CASE ~Fits(request) -> /\ UNCHANGED call
                             /\ IF pc = "connect" THEN Closed
                                ELSE failed' = TRUE /\ UNCHANGED <<pc, available, again, pings>>
       [] Fits(request) /\ Answered(request)  -> call' = Call(request, 0) /\ UNCHANGED loop
       [] Fits(request) /\ ~Answered(request) -> UNCHANGED <<call, loop>>
  /\ UNCHANGED <<setting, network, reader>>

-----------------------------------------------------------------------------
(***************************************************************************)
(* A packet is complete: lwmqtt_cycle_once, and the caller's decoding of   *)
(* the answer.  "b" is the read buffer.                                    *)
(***************************************************************************)
Decoded(type, b) ==
  CASE type = "PUBLISH"              -> DecodePublish(b)
    [] type \in {"PUBREC", "PUBREL"} -> DecodeAck(b, type)
    [] OTHER                         -> [err |-> "SUCCESS"]

Answer(c, type, b) ==
  CASE type = "CONNACK" -> DecodeConnack(b)
    [] type = "SUBACK"  -> DecodeSuback(b, Len(c.filters))
    [] OTHER            -> DecodeAck(b, type)

\* The return code, the packet id and the granted levels decide.
Accepts(d) ==
  IF call.type = "CONNECT" THEN d.return_code = 0
  ELSE d.id = call.of.id /\ (call.type = "SUBSCRIBE" => QosFailure \notin ToSet(d.granted))

Reply(type, d) ==
  CASE type = "PUBLISH" /\ d.qos = 1 -> [type |-> "PUBACK", id |-> d.id]
    [] type = "PUBLISH" /\ d.qos = 2 -> [type |-> "PUBREC", id |-> d.id]
    [] type = "PUBREC"               -> [type |-> "PUBREL", id |-> d.id]
    [] type = "PUBREL"               -> [type |-> "PUBCOMP", id |-> d.id]
    [] OTHER                         -> NoCall

Note(type, d) == handled' = Append(handled, [type |-> type, data |-> d])

\* The caller takes the packet it waits for.
TakeAnswer(type, b) ==
  LET d == Answer(call.of, type, b)
  IN /\ Note(type, d)
     /\ IF d.err = "SUCCESS" /\ Accepts(d) THEN Succeeds /\ UNCHANGED torn ELSE FailsBetween
     /\ UNCHANGED <<pong_pending, written>>

\* Every other packet: pass a message on, reply, note a pong.
Handle(type, length, b) ==
  LET d == Decoded(type, b)
      reply == Reply(type, d)
  IN /\ Note(type, d)
     /\ pong_pending' = (pong_pending /\ type # "PINGRESP")
     /\ CASE d.err # "SUCCESS"     -> FailsBetween /\ UNCHANGED written
          [] d.err = "SUCCESS" /\ reply.type = "none" -> NextPacket(length) /\ UNCHANGED written
          [] OTHER                 -> Write(reply) /\ IF Fits(reply) THEN NextPacket(length) ELSE FailsBetween

Complete(type, length, b) ==
  /\ IF call.type # "yield" /\ type = NeedleOf(call.of)
     THEN TakeAnswer(type, b) ELSE Handle(type, length, b)
  /\ UNCHANGED overflow_counter

-----------------------------------------------------------------------------
(***************************************************************************)
(* lwmqtt_read_packet_in_buffer: a field is complete, the next one is      *)
(* asked for.  "b" is the buffer, "length" what is in it of the packet.    *)
(***************************************************************************)
Keeps == UNCHANGED <<torn, handled, pong_pending, overflow_counter, written>>

Malformed == FailsWithin /\ UNCHANGED <<handled, pong_pending, overflow_counter, written>>

Ask_Unchecked(field, type, length, missing) ==
  /\ call' = [call EXCEPT !.field = field, !.packet = type, !.got = length, !.missing = missing]
  /\ UNCHANGED loop /\ Keeps

\* lwmqtt_read_from_network reads nothing that the buffer cannot hold.
Ask(field, type, length, missing) ==
  IF length + missing > ReadSize THEN Malformed
  ELSE /\ call' = [call EXCEPT !.field = field, !.packet = type, !.got = length, !.missing = missing]
       /\ UNCHANGED loop /\ Keeps

\* lwmqtt_drain_network
Drain(missing) ==
  /\ call' = [call EXCEPT !.field = "drain", !.missing = missing]
  /\ UNCHANGED loop /\ Keeps

HeaderRead(b) ==
  LET d == DetectType(b[1])
  IN IF d.err = "SUCCESS" THEN Ask("length", d.type, 1, 1) ELSE Malformed

LengthRead(length, b) ==
  LET d == DetectRemainingLength(SubSeq(b, 1, length), 2)
  IN CASE d.err = "BUFFER_TOO_SHORT" -> Ask("length", call.packet, length, 1)
       [] d.err # "SUCCESS" /\ d.err # "BUFFER_TOO_SHORT" -> Malformed
       [] d.err = "SUCCESS" ->
            IF setting.drop_overflow /\ length + d.num > ReadSize THEN Drain(d.num)
            ELSE IF d.num > 0 THEN Ask("rest", call.packet, length, d.num)
            ELSE Complete(call.packet, length, b)

\* The counter of bytes starts anew; lwmqtt_yield takes a dropped packet for no
\* packet and returns.
Dropped ==
  /\ overflow_counter' = overflow_counter + 1
  /\ Note("dropped", [err |-> "SUCCESS"])
  /\ IF call.type = "yield" THEN Succeeds /\ UNCHANGED torn
     ELSE NextPacket(0 - call.read)
  /\ UNCHANGED <<pong_pending, written>>

\* network_read returns what there is, at most what is asked for; only the last
\* piece completes the field.
Read ==
  LET drain == call.field = "drain"
      wanted == IF drain THEN Min({call.missing, ReadSize}) ELSE call.missing
      n == Min({wanted, Readable - taken})
      at == IF drain THEN 0 ELSE call.got
      b == SubSeq(read_buf, 1, at) \o SubSeq(wire, taken + 1, taken + n)
           \o SubSeq(read_buf, at + n + 1, ReadSize)
  IN /\ call.type # "none" /\ n > 0
     /\ read_buf' = b /\ taken' = taken + n
     /\ opened' = IF setting.tls THEN Readable ELSE taken'
     /\ IF n < call.missing
        THEN /\ call' = [call EXCEPT !.got = IF drain THEN @ ELSE @ + n, !.missing = @ - n]
             /\ UNCHANGED loop /\ Keeps
        ELSE CASE call.field = "header" -> HeaderRead(b)
               [] call.field = "length" -> LengthRead(call.got + 1, b)
               [] call.field = "rest"   -> Complete(call.packet, call.got + n, b)
               [] call.field = "drain"  -> Dropped
     /\ UNCHANGED <<setting, stream, arrived, ended, request>>

NoMore ==
  /\ IF call.field = "header" THEN FailsBetween ELSE FailsWithin
  /\ UNCHANGED <<setting, network, read_buf, pong_pending, overflow_counter, handled, request, written>>

\* Nothing comes before the command timer runs out.  (lwmqtt_yield begins no packet
\* that is not there: peek has seen it.)
TimeOut == call.type # "none" /\ Readable = taken /\ ~AtEnd /\ NoMore

\* read() returns 0 at the end of the stream.
ReadEnd == call.type # "none" /\ AtEnd /\ NoMore

-----------------------------------------------------------------------------
(***************************************************************************)
(* The background task's loop.                                             *)
(***************************************************************************)
\* select() looks at the socket only.
Select ==
  /\ pc = "select"
  /\ available' = (InSocket \/ ended)
  /\ pc' = "lock" /\ UNCHANGED <<again, failed, pings>>
  /\ UNCHANGED <<setting, network, reader, request, call, written>>

Peek_StaleErrno ==
  /\ pc = "lock" /\ call.type = "none" /\ available
  /\ LET bytes == Readable - taken
     IN IF bytes > 0 /\ ~again
        THEN /\ call' = Call([type |-> "yield"], bytes)
             /\ opened' = IF setting.tls THEN Readable ELSE opened
             /\ UNCHANGED loop
        ELSE /\ UNCHANGED <<opened, call>>
             /\ \/ /\ ~AtEnd \/ again \/ setting.tls
                   /\ pc' = "work" /\ again' = (again \/ (~AtEnd /\ ~setting.tls))
                   /\ UNCHANGED <<available, failed, pings>>
                \/ AtEnd /\ (~again \/ setting.tls) /\ Closed
  /\ UNCHANGED <<setting, stream, arrived, taken, ended, reader, request, written>>

\* What peek finds is what lwmqtt_yield may read.  The end of the stream shows
\* only if errno is not EAGAIN; TLS tells it as an error or, after a proper
\* close, as no data.
Peek ==
  /\ pc = "lock" /\ call.type = "none" /\ available
  /\ LET bytes == Readable - taken
     IN IF bytes > 0
        THEN /\ call' = Call([type |-> "yield"], bytes)
             /\ opened' = IF setting.tls THEN Readable ELSE opened
             /\ UNCHANGED loop
        ELSE /\ UNCHANGED <<opened, call>>
             /\ \/ /\ ~AtEnd \/ again \/ setting.tls
                   /\ pc' = "work" /\ again' = (again \/ (~AtEnd /\ ~setting.tls))
                   /\ UNCHANGED <<available, failed, pings>>
                \/ AtEnd /\ (~again \/ setting.tls) /\ Closed
  /\ UNCHANGED <<setting, stream, arrived, taken, ended, reader, request, written>>

\* select() has timed out.
NothingAvailable ==
  /\ pc = "lock" /\ call.type = "none" /\ ~available
  /\ pc' = "work" /\ UNCHANGED <<available, again, failed, pings>>
  /\ UNCHANGED <<setting, network, reader, request, call, written>>

\* The end of a round; esp_mqtt_error is read at the start of the next one.
NextRound == pc' = (IF failed THEN "closed" ELSE "select") /\ UNCHANGED <<available, again, failed>>

NoPingDue ==
  /\ pc = "work" /\ NextRound /\ UNCHANGED pings
  /\ UNCHANGED <<setting, network, reader, request, call, written>>

Ping_NoPongCheck ==
  /\ pc = "work" /\ (pings < MaxPings \/ pong_pending \/ ended)
  /\ pong_pending' = TRUE /\ UNCHANGED <<pings, stream>>
  /\ Write([type |-> "PINGREQ"]) /\ NextRound
  /\ UNCHANGED <<setting, arrived, opened, taken, ended, read_buf, overflow_counter, torn, handled, request, call>>

\* lwmqtt_keep_alive when a ping is due: the last one must have been answered.  The
\* broker answers as long as it is there; without it the write fails or not.
Ping ==
  /\ pc = "work" /\ (pings < MaxPings \/ pong_pending \/ ended)
  /\ \/ /\ ~pong_pending /\ pong_pending' = TRUE
        /\ pings' = IF ended THEN pings ELSE pings + 1
        /\ IF ended THEN UNCHANGED stream ELSE Send(Pong)
        /\ Write([type |-> "PINGREQ"]) /\ NextRound
     \/ /\ pong_pending \/ ended
        /\ Closed /\ UNCHANGED <<pong_pending, stream, written>>
  /\ UNCHANGED <<setting, arrived, opened, taken, ended, read_buf, overflow_counter, torn, handled, request, call>>

\* Another task writes on a connection that the broker has closed, and is told.
\* (Until then its publishes change nothing here.)
PublishFails ==
  /\ ended /\ call.type = "none" /\ pc \in {"select", "lock"}
  /\ ~failed /\ failed' = TRUE
  /\ UNCHANGED <<setting, network, reader, pc, available, again, pings, request, call, written>>

\* A request has failed before the task got to select().
Close ==
  /\ pc = "select" /\ call.type = "none" /\ failed /\ Closed
  /\ UNCHANGED <<setting, network, reader, request, call, written>>

-----------------------------------------------------------------------------
Loop == Select \/ Peek \/ NothingAvailable \/ NoPingDue \/ Ping \/ Close

Reading == Read \/ TimeOut \/ ReadEnd

Next == Arrive \/ BrokerCloses \/ Request \/ PublishFails \/ Reading \/ Loop

Spec == Init /\ [][Next]_vars

\* Weak fairness of Reading, which is enabled in every call, and of the request
\* that the background task makes to connect; both written out.
FairReading == []<>(call.type = "none") \/ []<><<Reading>>_vars
FairConnecting == []<>(pc # "connect" \/ call.type # "none") \/ []<><<Request>>_vars

\* On a connection that has ended somebody finds out: as long as other tasks
\* publish, one of them in the end; when none does, a ping falls due.
FairWriting == SF_vars(ended /\ (Ping \/ PublishFails))

\* The network delivers, and a task that can go on does.  No ping need ever fall
\* due as long as the connection lasts, for every packet that is sent puts it off.
\* The broker need not close, no other task need make its request.
Fairness == WF_vars(Arrive) /\ WF_vars(Loop) /\ FairWriting /\ FairReading /\ FairConnecting

FairSpec == Spec /\ Fairness

-----------------------------------------------------------------------------
(***************************************************************************)
(* What the broker sends.                                                  *)
(***************************************************************************)
\* A packet that was read is the one that was sent: what a decoder made of it is
\* what it means, what a decoder refused is malformed or grants more than was
\* asked, and only what the buffer cannot hold was dropped.
Agrees(h, p, c) ==
  IF h.type = "dropped" THEN Len(p.bytes) > ReadSize
  ELSE /\ h.type = p.type
       /\ IF h.data.err # "SUCCESS"
          THEN p.ok => p.type = "SUBACK" /\ Len(p.data.granted) > Len(c.filters)
          ELSE DOMAIN h.data = {"err"} \/ (p.ok /\ h.data = p.data)

\* A packet has the type of its header and ends where it says, and what it means is
\* what the decoders make of it alone, whether it answers the request "c" or not.
\* (A client reads no further in a packet of unknown type or of endless length.)
WellFormed(p, c) ==
  LET type == DetectType(p.bytes[1])
      length == DetectRemainingLength(p.bytes, 2)
      answers == c.type # "none" /\ Answered(c) /\ NeedleOf(c) = p.type
  IN /\ p.bytes \in Seq(0 .. 255) /\ p.bytes # <<>>
     /\ type.err = "SUCCESS" =>
          /\ type.type = p.type /\ length.err # "BUFFER_TOO_SHORT"
          /\ length.err = "SUCCESS" =>
               /\ Len(p.bytes) = length.next + length.num - 1
               /\ Agrees([type |-> p.type, data |-> Decoded(p.type, p.bytes)], p, c)
               /\ answers => Agrees([type |-> p.type, data |-> Answer(c, p.type, p.bytes)], p, c)

\* The calls of lwmqtt: no string is longer than lwmqtt_string_t can say.
ByteString == {s \in Seq(0 .. 255) : Len(s) <= 65535}
UInt16 == 0 .. 65535
Filter == [topic : ByteString, qos : 0 .. 2]
Will == [topic : ByteString, payload : ByteString, qos : 0 .. 2, retained : BOOLEAN]
Wills == {w \in Seq(Will) : Len(w) <= 1}
ConnectCalls ==
  [type : {"CONNECT"}, client_id : ByteString, clean_session : BOOLEAN, keep_alive : UInt16,
   will : Wills, username : ByteString, password : ByteString]
PublishCalls ==
  [type : {"PUBLISH"}, id : UInt16, qos : 0 .. 2, dup : BOOLEAN, retained : BOOLEAN,
   topic : ByteString, payload_len : Nat]
FilterCalls == [type : {"SUBSCRIBE", "UNSUBSCRIBE"}, id : UInt16, filters : Seq(Filter)]
Replies == [type : {"PUBACK", "PUBREC", "PUBREL", "PUBCOMP"}, id : UInt16]
Calls == ConnectCalls \cup PublishCalls \cup FilterCalls \cup Replies \cup [type : {"PINGREQ"}]

ASSUME ScenarioAssumption ==
  \A s \in Scenarios :
    /\ {s.tls, s.drop_overflow} \subseteq BOOLEAN /\ s.room \in Nat
    /\ s.request.type # "none" => s.request \in Calls
    /\ s.request.type \in DOMAIN Needle \cup {"none", "PUBLISH"}
    /\ s.sent \in Seq(ToSet(s.sent)) /\ \A i \in DOMAIN s.sent : WellFormed(s.sent[i], s.request)
    /\ s.cuts \subseteq 0 .. Total(Each(s.sent, LAMBDA p : Len(p.bytes)))

-----------------------------------------------------------------------------
(***************************************************************************)
(* Properties                                                              *)
(***************************************************************************)
\* Every variable keeps its type, and what is asked of the network never goes
\* beyond the read buffer, whatever length a packet announces.
TypeOK ==
  /\ pc \in {"connect", "select", "lock", "work", "closed"}
  /\ 0 <= taken /\ taken <= opened /\ opened <= arrived /\ arrived <= Len(wire)
  /\ read_buf \in [1 .. ReadSize -> 0 .. 255]
  /\ {ended, pong_pending, available, again, failed, torn} \subseteq BOOLEAN
  /\ overflow_counter \in 0 .. Len(sent) /\ pings \in 0 .. MaxPings
  /\ call.type # "none" =>
       /\ call.got \in 0 .. ReadSize /\ call.missing > 0
       /\ call.field # "drain" => call.got + call.missing <= ReadSize

\* The packets of the stream are handled one by one, none skipped, none taken
\* for another, none mixed with what an earlier packet left in the buffer, however
\* the network cuts the stream and whoever reads.  After a read that stopped in
\* the middle of a packet the connection is on its way to be closed.
Framed ==
  IF torn THEN pc = "closed" \/ failed
  ELSE /\ Len(handled) <= Len(sent)
       /\ \A i \in DOMAIN handled : Agrees(handled[i], sent[i], setting.request)
       /\ overflow_counter = Cardinality({i \in DOMAIN handled : handled[i].type = "dropped"})
       /\ call.type = "none" =>
            taken = Total([i \in DOMAIN handled |-> Len(sent[i].bytes)])

\* Whatever the client writes, the broker reads as the call that was made: the
\* announced length is that of what follows, over every boundary of the length's
\* coding, and an encoding fails only for a packet too long for it or for the
\* write buffer.
Encoded ==
  written.call.type # "none" =>
    LET c == written.call
        whole == EncodeCall(c, VarnumLimit + 5)
    IN CASE written.out.err = "SUCCESS" ->
              Reads(c, written.out.packet) /\ Len(written.out.packet) <= setting.room
         [] written.out.err = "BUFFER_TOO_SHORT" ->
              whole.err = "SUCCESS" /\ Len(whole.packet) > setting.room
         [] OTHER ->
              \/ c.type = "PUBLISH" /\ c.payload_len + Len(c.topic) + 4 >= VarnumLimit
              \/ c.type \in {"SUBSCRIBE", "UNSUBSCRIBE"} /\ Len(c.filters) > 4000

\* Whatever the broker sends is handled in the end, or the connection is closed:
\* again and again nothing is left.  With TLS this takes pings that fall due again
\* and again, whose answers come: what lies decrypted in the TLS layer select()
\* cannot see.  A client that publishes more often than once in a keep-alive
\* interval sends no pings, and then it lies there until the broker sends more.
AllHandled ==
  (setting.tls => SF_vars(Ping)) => []<>(Len(handled) >= Len(sent) \/ pc = "closed")

\* If the broker closes the connection the background task notices, also when
\* peek does not, because errno is EAGAIN from an earlier call.
EndIsNoticed == ended ~> (pc = "closed")

=============================================================================
