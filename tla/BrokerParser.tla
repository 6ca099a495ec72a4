---------------------------- MODULE BrokerParser -----------------------------
(***************************************************************************)
(* How a broker reads what a client writes, from the protocol and not from *)
(* packet.c.  "Reads" relates a call to a packet: it is what was asked for, *)
(* whole, and nothing follows.                                             *)
(***************************************************************************)
EXTENDS PacketCodec

From(s, i) == SubSeq(s, i, Len(s))

\* A remaining length and the bytes after it.
Number(s) ==
  LET len == Least({i \in 1 .. 4 : i <= Len(s) /\ s[i] < 128})
  IN [value |-> Total([i \in 1 .. len |-> (s[i] % 128) * Weight[i]]), rest |-> From(s, len + 1)]

\* A string that lies behind its length.
Length(s, at) == 256 * s[at] + s[at + 1]
StringAt(s, at) == SubSeq(s, at + 2, at + 1 + Length(s, at))

\* Where n strings lie that follow one another, each with "extra" bytes behind it;
\* the last place is where they end.
Places(s, at, n, extra) ==
  LET place[i \in 0 .. n] ==
        IF i = 0 THEN at
        ELSE LET last == place[i - 1] IN last + 2 + Length(s, last) + extra
  IN place

\* The strings of a CONNECT follow its flags, which tell how many there are.
ReadsConnect(c, s) ==
  LET f == s[8]
      has(weight) == (f \div weight) % 2 = 1
      count(weight) == (f \div weight) % 2
      place == Places(s, 11, 1 + 2 * count(4) + count(128) + count(64), 0)
      string(i) == StringAt(s, place[i - 1])
      will == IF has(4)
              THEN <<[topic |-> string(2), payload |-> string(3), qos |-> (f \div 8) % 4, retained |-> has(32)]>>
              ELSE <<>>
      user == 2 + 2 * count(4)
      name(i, weight) == IF has(weight) THEN string(i) ELSE <<>>
  IN /\ SubSeq(s, 1, 7) = <<0, 4, 77, 81, 84, 84, 4>> /\ ~has(1)
     /\ has(64) => has(128)
     /\ has(2) = c.clean_session /\ Length(s, 9) = c.keep_alive
     /\ string(1) = c.client_id /\ will = c.will
     /\ name(user, 128) = c.username /\ name(user + 1, 64) = c.password
     /\ place[1 + 2 * count(4) + count(128) + count(64)] = Len(s) + 1

ReadsPublish(c, flags, s) ==
  LET id == Length(s, 1) + 3
  IN /\ flags = (IF c.dup THEN 8 ELSE 0) + 2 * c.qos + (IF c.retained THEN 1 ELSE 0)
     /\ StringAt(s, 1) = c.topic
     /\ IF c.qos = 0 THEN id = Len(s) + 1 ELSE Length(s, id) = c.id /\ id + 1 = Len(s)

\* Filters one after another behind the packet id, in a SUBSCRIBE each with its QoS.
ReadsFilters(c, extra, s) ==
  LET n == Len(c.filters)
      place == Places(s, 3, n, extra)
  IN /\ Length(s, 1) = c.id
     /\ \A i \in 1 .. n : /\ StringAt(s, place[i - 1]) = c.filters[i].topic
                          /\ extra = 1 => s[place[i] - 1] = c.filters[i].qos
     /\ place[n] = Len(s) + 1

\* What follows the remaining length, with the flags of the header.
ReadsBody(c, flags, s) ==
  CASE c.type = "CONNECT"     -> flags = 0 /\ ReadsConnect(c, s)
    [] c.type = "PUBLISH"     -> ReadsPublish(c, flags, s)
    [] c.type = "SUBSCRIBE"   -> flags = 2 /\ ReadsFilters(c, 1, s)
    [] c.type = "UNSUBSCRIBE" -> flags = 2 /\ ReadsFilters(c, 0, s)
    [] c.type = "PINGREQ"     -> flags = 0 /\ s = <<>>
    [] OTHER -> flags = (IF c.type = "PUBREL" THEN 2 ELSE 0) /\ Len(s) = 2 /\ Length(s, 1) = c.id

\* The broker takes "packet" for what the call "c" has asked for.  A payload is
\* sent after the packet and counts in its length.
Follows(c) == IF c.type = "PUBLISH" THEN c.payload_len ELSE 0

Reads(c, packet) ==
  LET number == Number(Tail(packet))
  IN /\ packet[1] \div 16 = Code[c.type]
     /\ number.value = Len(number.rest) + Follows(c)
     /\ ReadsBody(c, packet[1] % 16, number.rest)

=============================================================================
