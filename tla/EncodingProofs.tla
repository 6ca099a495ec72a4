---------------------------- MODULE EncodingProofs ----------------------------
(***************************************************************************)
(* What the client writes is read by the broker as the call that was made: *)
(* for every call, every length of its strings, and every write buffer.    *)
(***************************************************************************)
EXTENDS PacketProofs

-----------------------------------------------------------------------------
(***************************************************************************)
(* Pieces of a packet.                                                     *)
(***************************************************************************)
LEMMA FromJoined ==
  ASSUME NEW a \in Seq(Int), NEW b \in Seq(Int)
  PROVE  From(a \o b, Len(a) + 1) = b
<1> DEFINE c == a \o b
           m == Len(a)
           n == Len(b)
           d == SubSeq(c, m + 1, Len(c))
<1>1. c \in Seq(Int) /\ Len(c) = m + n /\ m \in Nat /\ n \in Nat
  OBVIOUS
<1>2. \A i \in 1 .. n : c[m + i] = b[i]
  OBVIOUS
<1>3. b \in Seq(Int) /\ b = [i \in 1 .. n |-> b[i]]
  OBVIOUS
<1> HIDE DEF c, m, n
<1>4. d = [i \in 1 .. n |-> c[m + i]]
  <2>1. Len(c) - (m + 1) + 1 = n
    BY <1>1
  <2>2. \A i \in 1 .. n : (m + 1) + i - 1 = m + i
    BY <1>1
  <2> QED BY <1>1, <2>1, <2>2
<1>5. d = b
  BY <1>2, <1>3, <1>4
<1> QED BY <1>5 DEF From, c, m

LEMMA TailJoined ==
  ASSUME NEW h \in Int, NEW a \in Seq(Int)
  PROVE  /\ <<h>> \o a \in Seq(Int) /\ Tail(<<h>> \o a) = a /\ (<<h>> \o a)[1] = h
         /\ Len(<<h>> \o a) = Len(a) + 1
OBVIOUS

LEMMA TotalOfFour ==
  ASSUME NEW p \in Seq(Nat), Len(p) \in 1 .. 4
  PROVE  Total(p) = p[1] + (IF Len(p) >= 2 THEN p[2] ELSE 0) + (IF Len(p) >= 3 THEN p[3] ELSE 0)
                    + (IF Len(p) >= 4 THEN p[4] ELSE 0)
<1>1. PICK f \in [0 .. Len(p) -> Nat] :
        /\ f[0] = 0 /\ \A i \in 1 .. Len(p) : f[i] = f[i - 1] + p[i]
        /\ Total(p) = f[Len(p)]
  BY TotalIs, Zenon
<1>2. \A i \in 1 .. Len(p) : p[i] \in Nat
  OBVIOUS
<1>3. f[1] = p[1]
  BY <1>1, <1>2
<1>4. Len(p) >= 2 => f[2] = f[1] + p[2]
  BY <1>1
<1>5. Len(p) >= 3 => f[3] = f[2] + p[3]
  BY <1>1
<1>6. Len(p) >= 4 => f[4] = f[3] + p[4]
  BY <1>1
<1>7. Total(p) = f[Len(p)] /\ \A i \in 1 .. Len(p) : f[i] \in Nat
  BY <1>1, SMTT(30)
<1> HIDE DEF Total
<1>8. CASE Len(p) = 1
  BY <1>3, <1>7, <1>8
<1>9. CASE Len(p) = 2
  BY <1>2, <1>3, <1>4, <1>7, <1>9
<1>10. CASE Len(p) = 3
  BY <1>2, <1>3, <1>4, <1>5, <1>7, <1>10
<1>11. CASE Len(p) = 4
  BY <1>2, <1>3, <1>4, <1>5, <1>6, <1>7, <1>11
<1> QED BY <1>8, <1>9, <1>10, <1>11

\* A remaining length is what the broker takes it for.
LEMMA NumberRead ==
  ASSUME NEW n \in Nat, n < VarnumLimit, NEW b \in Seq(Int)
  PROVE  Number(WriteVarnum(n) \o b) = [value |-> n, rest |-> b]
<1> DEFINE v == WriteVarnum(n)
           L == VarnumLen(n)
           s == v \o b
           ends == {i \in 1 .. 4 : i <= Len(s) /\ s[i] < 128}
           p == [i \in 1 .. L |-> (s[i] % 128) * Weight[i]]
<1>1. v \in Seq(Int) /\ Len(v) = L /\ \A i \in 1 .. L : v[i] = Digit(n, i)
  BY WrittenLen, Zenon
<1>2. L \in 1 .. 4
  BY SMT DEF VarnumLen
<1>3. Len(s) >= L /\ \A i \in 1 .. L : s[i] = Digit(n, i)
  <2> HIDE DEF v, L
  <2>1. s \in Seq(Int) /\ Joined(s, v, b)
    BY <1>1, Join, Zenon
  <2> HIDE DEF s
  <2>2. Len(b) \in Nat
    OBVIOUS
  <2> QED BY <1>1, <1>2, <2>1, <2>2 DEF Joined
<1>4. From(s, L + 1) = b
  BY <1>1, FromJoined, Zenon
<1> HIDE DEF s, v
<1>5. ASSUME NEW i \in 1 .. L
      PROVE  /\ Digit(n, i) \in Int
             /\ i < L => Digit(n, i) >= 128
             /\ i = L => Digit(n, i) < 128
             /\ Digit(n, i) % 128 = (n \div Weight[i]) % 128
  <2>1. Digit(n, i) \in Int
    BY <1>1
  <2> QED BY <2>1, Continued
<1>6. Least(ends) = L
  <2> HIDE DEF L
  <2>1. L \in ends
    BY <1>2, <1>3, <1>5
  <2>2. ASSUME NEW j \in ends PROVE L <= j
    <3>1. CASE j < L
      BY <1>2, <1>3, <1>5, <3>1
    <3> QED BY <1>2, <3>1
  <2>3. ends \in SUBSET Int
    OBVIOUS
  <2> HIDE DEF ends
  <2> QED BY <2>1, <2>2, <2>3, LeastIs
<1>7. Total(p) = n
  <2> DEFINE d == [i \in 1 .. 4 |-> IF i <= L THEN ((n \div Weight[i]) % 128) * Weight[i] ELSE 0]
  <2>1. \A i \in 1 .. 4 : Weight[i] \in Nat /\ (n \div Weight[i]) % 128 \in Nat
    <3>1. n \div 1 \in Nat /\ n \div 128 \in Nat /\ n \div 16384 \in Nat /\ n \div 2097152 \in Nat
      OBVIOUS
    <3>0. \A k \in Nat : k % 128 \in Nat
      OBVIOUS
    <3>2. Weight[1] = 1 /\ Weight[2] = 128 /\ Weight[3] = 16384 /\ Weight[4] = 2097152
      BY DEF Weight
    <3>3. ASSUME NEW i \in 1 .. 4 PROVE Weight[i] \in Nat /\ n \div Weight[i] \in Nat
      <4>1. i = 1 \/ i = 2 \/ i = 3 \/ i = 4
        OBVIOUS
      <4> DEFINE w == Weight[i]
      <4>2. w \in {1, 128, 16384, 2097152}
        BY <3>2, <4>1
      <4> HIDE DEF w
      <4>3. w \in Nat /\ n \div w \in Nat
        BY <3>1, <4>2
      <4> QED BY <4>3 DEF w
    <3> QED BY <3>0, <3>3
  <2>2. \A i \in 1 .. L : p[i] = d[i] /\ d[i] \in Nat
    <3>1. ASSUME NEW i \in 1 .. L PROVE p[i] = d[i] /\ d[i] \in Nat
      <4> DEFINE x == (n \div Weight[i]) % 128
                 y == Weight[i]
      <4>1. i \in 1 .. 4 /\ i <= L
        BY <1>2
      <4>2. p[i] = (s[i] % 128) * y /\ s[i] % 128 = x
        BY <1>3, <1>5
      <4>3. d[i] = x * y
        BY <4>1
      <4>4. x \in Nat /\ y \in Nat
        BY <2>1, <4>1
      <4> HIDE DEF x, y, p, d
      <4>5. x * y \in Nat
        BY <4>4
      <4> QED BY <4>2, <4>3, <4>5
    <3> QED BY <3>1
  <2>3. d[1] + d[2] + d[3] + d[4] = n
    <3>1. \A i \in 1 .. 4 : d[i] = IF i <= VarnumLen(n) THEN ((n \div Weight[i]) % 128) * Weight[i] ELSE 0
      OBVIOUS
    <3> HIDE DEF d, L
    <3> QED BY <3>1, Digits
  <2>4. \A i \in 1 .. 4 : i > L => d[i] = 0
    <3> HIDE DEF L
    <3> QED BY <1>2
  <2>5. p \in Seq(Nat) /\ Len(p) = L
    <3>1. p = [i \in 1 .. L |-> p[i]]
      OBVIOUS
    <3> HIDE DEF p, L, d
    <3>2. \A i \in 1 .. L : p[i] \in Nat
      BY <2>2
    <3>3. L \in Nat
      BY <1>2
    <3>4. [i \in 1 .. L |-> p[i]] \in Seq(Nat) /\ Len([i \in 1 .. L |-> p[i]]) = L
      BY <3>2, <3>3
    <3> QED BY <3>1, <3>4, Zenon
  <2> HIDE DEF p, L, d
  <2>6. Total(p) = p[1] + (IF L >= 2 THEN p[2] ELSE 0) + (IF L >= 3 THEN p[3] ELSE 0) + (IF L >= 4 THEN p[4] ELSE 0)
    BY <1>2, <2>5, TotalOfFour
  <2> QED BY <1>2, <2>2, <2>3, <2>4, <2>6
<1>8. Number(s) = [value |-> Total(p), rest |-> From(s, L + 1)]
  <2>1. Number(s) = [value |-> Total([i \in 1 .. Least(ends) |-> (s[i] % 128) * Weight[i]]), rest |-> From(s, Least(ends) + 1)]
    BY DEF Number
  <2> HIDE DEF ends, L
  <2> QED BY <1>6, <2>1
<1> HIDE DEF p, L
<1> QED BY <1>4, <1>7, <1>8 DEF s, v

LEMMA TextIs ==
  ASSUME NEW x \in ByteString
  PROVE  /\ x \in Seq(Byte) /\ x \in Seq(Int) /\ Len(x) \in Nat /\ Len(x) < 65536
         /\ x = [i \in 1 .. Len(x) |-> x[i]]
<1>1. x \in Seq(Byte) /\ Len(x) <= 65535
  BY DEF ByteString, Byte
<1>2. x \in Seq(Int) /\ Len(x) \in Nat /\ x = [i \in 1 .. Len(x) |-> x[i]]
  <2>1. \A b \in Byte : b \in Int
    BY DEF Byte
  <2> QED BY <1>1, <2>1
<1> QED BY <1>1, <1>2

\* A string lies where it was written.
LEMMA StringWritten ==
  ASSUME NEW x \in ByteString
  PROVE  /\ WriteString(x) \in Seq(Int) /\ Len(WriteString(x)) = Len(x) + 2 /\ Len(x) \in Nat
         /\ 256 * WriteString(x)[1] + WriteString(x)[2] = Len(x)
         /\ \A i \in 1 .. Len(x) : WriteString(x)[2 + i] = x[i]
<1> DEFINE w == WriteNum(Len(x))
           y == w \o x
<1>1. x \in Seq(Int) /\ Len(x) \in Nat /\ Len(x) < NumLimit
  BY TextIs DEF NumLimit
<1>2. /\ w \in Seq(Int) /\ Len(w) = 2 /\ 256 * w[1] + w[2] = Len(x)
  BY <1>1, NumRead, Zenon
<1> HIDE DEF w
<1>3. y \in Seq(Int) /\ Joined(y, w, x)
  BY <1>1, <1>2, Join, Zenon
<1> HIDE DEF y
<1>4. /\ Len(y) = Len(x) + 2 /\ y[1] = w[1] /\ y[2] = w[2]
      /\ \A i \in 1 .. Len(x) : y[2 + i] = x[i]
  BY <1>1, <1>2, <1>3 DEF Joined
<1> QED BY <1>1, <1>2, <1>3, <1>4 DEF WriteString, w, y

LEMMA StringRead ==
  ASSUME NEW x \in ByteString, NEW s \in Seq(Int), NEW at \in Nat \ {0}, LiesAt(WriteString(x), s, at)
  PROVE  Length(s, at) = Len(x) /\ StringAt(s, at) = x
<1> DEFINE w == WriteString(x)
           n == Len(x)
<1>1. w \in Seq(Int) /\ Len(w) = n + 2 /\ n \in Nat /\ 256 * w[1] + w[2] = n /\ \A i \in 1 .. n : w[2 + i] = x[i]
  BY StringWritten
<1>2. at + n + 1 <= Len(s) /\ \A i \in 1 .. n + 2 : s[at + i - 1] = w[i]
  BY <1>1 DEF LiesAt
<1>3. x = [i \in 1 .. n |-> x[i]]
  BY TextIs
<1> HIDE DEF w, n
<1>4. s[at] = w[1] /\ s[at + 1] = w[2]
  <2>1. 1 \in 1 .. n + 2 /\ 2 \in 1 .. n + 2 /\ at + 1 - 1 = at /\ at + 2 - 1 = at + 1
    BY <1>1
  <2> QED BY <1>2, <2>1
<1>5. Length(s, at) = n
  BY <1>1, <1>4 DEF Length
<1>6. ASSUME NEW i \in 1 .. n PROVE s[at + 1 + i] = x[i]
  <2>1. 2 + i \in 1 .. n + 2 /\ at + (2 + i) - 1 = at + 1 + i
    BY <1>1
  <2>2. s[at + (2 + i) - 1] = w[2 + i]
    BY <1>2, <2>1, Zenon
  <2>3. w[2 + i] = x[i]
    BY <1>1, Zenon
  <2> QED BY <2>1, <2>2, <2>3, Zenon
<1>7. SubSeq(s, at + 2, at + 1 + n) = [i \in 1 .. n |-> s[at + 1 + i]]
  <2>1. (at + 1 + n) - (at + 2) + 1 = n /\ \A i \in 1 .. n : (at + 2) + i - 1 = at + 1 + i
    BY <1>1
  <2> QED BY <1>1, <2>1
<1>8. SubSeq(s, at + 2, at + 1 + n) = x
  BY <1>3, <1>6, <1>7
<1> QED BY <1>5, <1>8 DEF StringAt, n

-----------------------------------------------------------------------------
(***************************************************************************)
(* A packet: its header, its remaining length, its body.                   *)
(***************************************************************************)
\* What lwmqtt's encoder returns, "e" for "room" bytes and "whole" for as many as
\* any packet has.
EncodedAs(type, flags, rem, body, room, e, whole) ==
  /\ e.err \in {"SUCCESS", "BUFFER_TOO_SHORT", "REMAINING_LENGTH_OVERFLOW"}
  /\ e.err = "SUCCESS" =>
       /\ Len(e.packet) <= room
       /\ e.packet[1] \div 16 = Code[type] /\ e.packet[1] % 16 = flags
       /\ Number(Tail(e.packet)) = [value |-> rem, rest |-> body]
  /\ e.err = "BUFFER_TOO_SHORT" => whole.err = "SUCCESS" /\ Len(whole.packet) > room
  /\ e.err = "REMAINING_LENGTH_OVERFLOW" => rem >= VarnumLimit

LEMMA EncodeIs ==
  ASSUME NEW type \in DOMAIN Code, NEW flags \in 0 .. 15, NEW rem \in Nat, NEW body \in Seq(Int),
         Len(body) <= rem, NEW room \in Nat
  PROVE  EncodedAs(type, flags, rem, body, room, Encode(Header(type, flags), rem, body, room),
                   Encode(Header(type, flags), rem, body, VarnumLimit + 5))
<1> DEFINE h == Header(type, flags)
           v == WriteVarnum(rem)
           packet == <<h>> \o v \o body
           e == Encode(h, rem, body, room)
           whole == Encode(h, rem, body, VarnumLimit + 5)
           n == Number(Tail(packet))
<1>1. CASE rem >= VarnumLimit
  <2>1. e.err = "REMAINING_LENGTH_OVERFLOW"
    BY <1>1 DEF Encode, Error
  <2> HIDE DEF e, whole
  <2> QED BY <1>1, <2>1 DEF EncodedAs, e, whole, h
<1>2. CASE ~(rem >= VarnumLimit)
  <2>1. rem < VarnumLimit
    BY <1>2 DEF VarnumLimit
  <2>2. v \in Seq(Int) /\ Len(v) \in 1 .. 4
    <3>1. v \in Seq(Int) /\ Len(v) = VarnumLen(rem)
      BY <2>1, WrittenLen
    <3>2. VarnumLen(rem) \in 1 .. 4
      BY SMT DEF VarnumLen
    <3> QED BY <3>1, <3>2
  <2>3. h \in Int /\ h \div 16 = Code[type] /\ h % 16 = flags
    <3>1. Code[type] \in 1 .. 14
      BY Codes
    <3>2. ASSUME NEW code \in 1 .. 14
          PROVE  LET x == 16 * code + flags IN x \in Int /\ x \div 16 = code /\ x % 16 = flags
      OBVIOUS
    <3> QED BY <3>1, <3>2 DEF Header
  <2>4. n = [value |-> rem, rest |-> body] /\ packet[1] = h /\ Len(packet) = 1 + Len(v) + Len(body)
    <3> HIDE DEF v, h
    <3> DEFINE a == v \o body
    <3>1. a \in Seq(Int) /\ Len(a) = Len(v) + Len(body) /\ packet = <<h>> \o a
      BY <2>2, <2>3
    <3>2. Number(a) = [value |-> rem, rest |-> body]
      BY <2>1, NumberRead DEF v
    <3> HIDE DEF a
    <3>3. Tail(packet) = a /\ packet[1] = h /\ Len(packet) = Len(a) + 1
      BY <2>3, <3>1, TailJoined
    <3>4. Len(packet) = Len(a) + 1 /\ Len(a) = Len(v) + Len(body) /\ Len(v) \in Int /\ Len(body) \in Int
      BY <2>2, <3>1, <3>3
    <3> HIDE DEF packet
    <3>5. Len(packet) = 1 + Len(v) + Len(body)
      BY <3>4
    <3> QED BY <3>2, <3>3, <3>5
  <2>5. /\ e = IF Len(packet) > room THEN Error("BUFFER_TOO_SHORT") ELSE [err |-> "SUCCESS", packet |-> packet]
        /\ whole = IF Len(packet) > VarnumLimit + 5 THEN Error("BUFFER_TOO_SHORT")
                   ELSE [err |-> "SUCCESS", packet |-> packet]
    BY <1>2, Zenon DEF Encode
  <2>6. Len(packet) \in Nat /\ ~(Len(packet) > VarnumLimit + 5)
    <3>1. Len(body) \in Nat
      OBVIOUS
    <3>2. /\ Len(packet) = 1 + Len(v) + Len(body) /\ Len(v) \in 1 .. 4 /\ VarnumLimit \in Nat
          /\ Len(body) <= rem /\ rem < VarnumLimit
      BY <2>1, <2>2, <2>4, SMT DEF VarnumLimit
    <3> DEFINE p == Len(packet)
               l == Len(v)
               m == Len(body)
    <3> HIDE DEF packet, v, h, p, l, m
    <3>3. p = 1 + l + m /\ l \in 1 .. 4 /\ m \in Nat /\ m <= rem /\ rem < VarnumLimit /\ VarnumLimit \in Nat
      BY <3>1, <3>2 DEF p, l, m
    <3>4. p \in Nat /\ ~(p > VarnumLimit + 5)
      BY <3>3
    <3> QED BY <3>4 DEF p
  <2> HIDE DEF packet, e, whole, n
  <2>7. whole.err = "SUCCESS" /\ whole.packet = packet
    BY <2>5, <2>6
  <2>8. CASE Len(packet) > room
    <3>1. e.err = "BUFFER_TOO_SHORT"
      BY <2>5, <2>8 DEF Error
    <3> QED BY <2>7, <2>8, <3>1 DEF EncodedAs, e, whole, h
  <2>9. CASE ~(Len(packet) > room)
    <3>1. e.err = "SUCCESS" /\ e.packet = packet
      BY <2>5, <2>9
    <3>2. Len(packet) <= room
      BY <2>6, <2>9
    <3>3. EncodedAs(type, flags, rem, body, room, e, whole)
      BY <2>3, <2>4, <3>1, <3>2 DEF EncodedAs, n
    <3> QED BY <3>3 DEF e, whole, h
  <2> QED BY <2>8, <2>9
<1> QED BY <1>1, <1>2

\* What Encoded asks of one call.
Right(c, out, room) ==
  LET whole == EncodeCall(c, VarnumLimit + 5)
  IN CASE out.err = "SUCCESS" -> Reads(c, out.packet) /\ Len(out.packet) <= room
       [] out.err = "BUFFER_TOO_SHORT" -> whole.err = "SUCCESS" /\ Len(whole.packet) > room
       [] OTHER ->
            \/ c.type = "PUBLISH" /\ c.payload_len + Len(c.topic) + 4 >= VarnumLimit
            \/ c.type \in {"SUBSCRIBE", "UNSUBSCRIBE"} /\ Len(c.filters) > 4000

LongCall(c) ==
  \/ c.type = "PUBLISH" /\ c.payload_len + Len(c.topic) + 4 >= VarnumLimit
  \/ c.type \in {"SUBSCRIBE", "UNSUBSCRIBE"} /\ Len(c.filters) > 4000

\* The call is encoded with these flags and this body, and they say what it asks.
Packs(c, flags, body) ==
  /\ \A room \in Nat : EncodeCall(c, room) = Encode(Header(c.type, flags), Len(body) + Follows(c), body, room)
  /\ ReadsBody(c, flags, body)
  /\ Len(body) + Follows(c) >= VarnumLimit => LongCall(c)

LEMMA PackedRight ==
  ASSUME NEW c, c.type \in DOMAIN Code, NEW flags \in 0 .. 15, NEW body \in Seq(Int),
         Follows(c) \in Nat, Packs(c, flags, body), NEW room \in Nat
  PROVE  Right(c, EncodeCall(c, room), room)
<1> DEFINE rem == Len(body) + Follows(c)
           out == EncodeCall(c, room)
           whole == EncodeCall(c, VarnumLimit + 5)
<1>1. rem \in Nat /\ Len(body) <= rem /\ VarnumLimit + 5 \in Nat
  BY DEF VarnumLimit
<1>2. /\ out = Encode(Header(c.type, flags), rem, body, room)
      /\ whole = Encode(Header(c.type, flags), rem, body, VarnumLimit + 5)
  BY <1>1 DEF Packs
<1>3. rem >= VarnumLimit => LongCall(c)
  BY DEF Packs
<1>4. ReadsBody(c, flags, body)
  BY DEF Packs
<1> HIDE DEF rem, out, whole
<1>5. EncodedAs(c.type, flags, rem, body, room, out, whole)
  BY <1>1, <1>2, EncodeIs, Zenon
<1>6. CASE out.err = "SUCCESS"
  <2>1. /\ Len(out.packet) <= room
        /\ out.packet[1] \div 16 = Code[c.type] /\ out.packet[1] % 16 = flags
        /\ Number(Tail(out.packet)) = [value |-> rem, rest |-> body]
    BY <1>5, <1>6 DEF EncodedAs
  <2>2. Reads(c, out.packet)
    BY <1>4, <2>1 DEF Reads, rem
  <2> QED BY <1>6, <2>1, <2>2 DEF Right, out
<1>7. CASE out.err = "BUFFER_TOO_SHORT"
  <2>1. whole.err = "SUCCESS" /\ Len(whole.packet) > room
    BY <1>5, <1>7 DEF EncodedAs
  <2> QED BY <1>7, <2>1 DEF Right, out, whole
<1>8. CASE out.err = "REMAINING_LENGTH_OVERFLOW"
  <2>1. LongCall(c)
    BY <1>3, <1>5, <1>8 DEF EncodedAs
  <2>2. Right(c, out, room)
    BY <1>8, <2>1, SMT DEF Right, LongCall
  <2> QED BY <2>2 DEF out
<1> QED BY <1>5, <1>6, <1>7, <1>8 DEF EncodedAs

-----------------------------------------------------------------------------
(***************************************************************************)
(* The calls, one by one.                                                  *)
(***************************************************************************)
LEMMA PingreqRight ==
  ASSUME NEW c, c.type = "PINGREQ", NEW room \in Nat
  PROVE  Right(c, EncodeCall(c, room), room)
<1>1. \A r : EncodeCall(c, r) = Encode(Header(c.type, 0), 0, <<>>, r)
  BY Zenon DEF EncodeCall, EncodeZero
<1>2. Follows(c) = 0 /\ Len(<<>>) = 0 /\ <<>> \in Seq(Int) /\ c.type \in DOMAIN Code
  BY DEF Follows, Code
<1>3. ReadsBody(c, 0, <<>>)
  BY DEF ReadsBody
<1>4. Packs(c, 0, <<>>)
  BY <1>1, <1>2, <1>3, SMT DEF Packs, VarnumLimit
<1>5. 0 \in 0 .. 15 /\ Follows(c) \in Nat
  BY <1>2
<1> QED BY <1>2, <1>4, <1>5, PackedRight, Zenon

LEMMA SmallNat == \A n \in UInt16 : n \in Nat /\ n < NumLimit
<1> DEFINE m == 65535
<1>1. m \in Nat /\ NumLimit = m + 1
  BY SMT DEF NumLimit
<1>2. UInt16 = 0 .. m
  BY DEF UInt16
<1> HIDE DEF m
<1> QED BY <1>1, <1>2

LEMMA IdRead ==
  ASSUME NEW id \in UInt16
  PROVE  LET w == WriteNum(id) IN w \in Seq(Int) /\ Len(w) = 2 /\ 256 * w[1] + w[2] = id
<1>1. id \in Nat /\ id < NumLimit
  BY SmallNat, Zenon
<1> QED BY <1>1, NumRead, Zenon

LEMMA AckRight ==
  ASSUME NEW c, c.type \in {"PUBACK", "PUBREC", "PUBREL", "PUBCOMP"}, c.id \in UInt16,
         NEW room \in Nat
  PROVE  Right(c, EncodeCall(c, room), room)
<1> DEFINE flags == Flag(c.type = "PUBREL", 2)
           body == WriteNum(c.id)
<1>1. \A r : EncodeCall(c, r) = Encode(Header(c.type, flags), 2, body, r)
  BY DEF EncodeCall, EncodeAck
<1>2. body \in Seq(Int) /\ Len(body) = 2 /\ 256 * body[1] + body[2] = c.id
  BY IdRead
<1>3. flags \in 0 .. 15 /\ flags = IF c.type = "PUBREL" THEN 2 ELSE 0
  BY DEF Flag
<1> HIDE DEF flags, body
<1>4. Follows(c) = 0 /\ c.type \in DOMAIN Code
  BY DEF Follows, Code
<1>5. ReadsBody(c, flags, body)
  BY <1>2, <1>3 DEF ReadsBody, Length
<1>6. Packs(c, flags, body)
  BY <1>1, <1>2, <1>4, <1>5, SMT DEF Packs, VarnumLimit
<1> QED BY <1>2, <1>3, <1>4, <1>6, PackedRight

LEMMA LiesFirst ==
  ASSUME NEW a \in Seq(Int), NEW b \in Seq(Int)
  PROVE  LiesAt(a, a \o b, 1)
<1> DEFINE s == a \o b
<1>1. s \in Seq(Int) /\ Joined(s, a, b)
  BY Join, Zenon
<1>2. Len(a) \in Nat /\ Len(b) \in Nat
  OBVIOUS
<1> HIDE DEF s
<1>3. LiesAt(a, s, 1)
  <2>1. 1 + Len(a) - 1 <= Len(s)
    BY <1>1, <1>2 DEF Joined
  <2>2. ASSUME NEW i \in 1 .. Len(a) PROVE s[1 + i - 1] = a[i]
    BY <1>1, <1>2 DEF Joined
  <2> QED BY <2>1, <2>2 DEF LiesAt
<1> QED BY <1>3 DEF s

LEMMA LiesBehind ==
  ASSUME NEW a \in Seq(Int), NEW b \in Seq(Int), NEW x \in Seq(Int), NEW at \in Nat \ {0}, LiesAt(x, b, at)
  PROVE  LiesAt(x, a \o b, Len(a) + at)
<1> DEFINE s == a \o b
           m == Len(a)
<1>1. s \in Seq(Int) /\ Joined(s, a, b)
  BY Join, Zenon
<1>2. m \in Nat /\ Len(b) \in Nat /\ Len(x) \in Nat
  OBVIOUS
<1>3. Len(s) = m + Len(b) /\ \A i \in 1 .. Len(b) : s[m + i] = b[i]
  BY <1>1 DEF Joined
<1>4. at + Len(x) - 1 <= Len(b) /\ \A i \in 1 .. Len(x) : b[at + i - 1] = x[i]
  BY DEF LiesAt
<1> HIDE DEF s, m
<1>5. LiesAt(x, s, m + at)
  <2>1. (m + at) + Len(x) - 1 <= Len(s)
    BY <1>2, <1>3, <1>4
  <2>2. ASSUME NEW i \in 1 .. Len(x) PROVE s[(m + at) + i - 1] = x[i]
    <3>1. at + i - 1 \in 1 .. Len(b) /\ m + (at + i - 1) = (m + at) + i - 1
      BY <1>2, <1>4
    <3> QED BY <1>3, <1>4, <3>1
  <2> QED BY <2>1, <2>2 DEF LiesAt
<1> QED BY <1>5 DEF s, m

\* A string at the start, and what lies behind it.
LEMMA StringFirst ==
  ASSUME NEW x \in ByteString, NEW b \in Seq(Int)
  PROVE  LET s == WriteString(x) \o b
         IN /\ s \in Seq(Int) /\ Len(s) = Len(x) + 2 + Len(b) /\ Length(s, 1) = Len(x) /\ StringAt(s, 1) = x
            /\ \A i \in 1 .. Len(b) : s[Len(x) + 2 + i] = b[i]
<1> DEFINE w == WriteString(x)
           s == w \o b
<1>1. w \in Seq(Int) /\ Len(w) = Len(x) + 2 /\ Len(x) \in Nat
  BY StringWritten
<1> HIDE DEF w
<1>2. s \in Seq(Int) /\ Joined(s, w, b)
  BY <1>1, Join, Zenon
<1>3. LiesAt(w, s, 1)
  BY <1>1, LiesFirst, Zenon
<1> HIDE DEF s
<1>4. Length(s, 1) = Len(x) /\ StringAt(s, 1) = x
  <2>1. LiesAt(WriteString(x), s, 1)
    BY <1>3 DEF w
  <2> QED BY <1>2, <2>1, StringRead
<1>5. Len(s) = Len(x) + 2 + Len(b) /\ \A i \in 1 .. Len(b) : s[Len(x) + 2 + i] = b[i]
  BY <1>1, <1>2 DEF Joined
<1> QED BY <1>2, <1>4, <1>5 DEF s, w

LEMMA PublishFlags ==
  ASSUME NEW q \in 0 .. 2, NEW d \in BOOLEAN, NEW r \in BOOLEAN
  PROVE  LET flags == Flag(d, 8) + 2 * q + Flag(r, 1)
         IN flags \in 0 .. 15 /\ flags = (IF d THEN 8 ELSE 0) + 2 * q + (IF r THEN 1 ELSE 0)
BY DEF Flag

LEMMA PublishRight ==
  ASSUME NEW c, c.type = "PUBLISH", c.id \in UInt16, c.qos \in 0 .. 2, c.dup \in BOOLEAN,
         c.retained \in BOOLEAN, c.topic \in ByteString, c.payload_len \in Nat, NEW room \in Nat
  PROVE  Right(c, EncodeCall(c, room), room)
<1> DEFINE flags == Flag(c.dup, 8) + 2 * c.qos + Flag(c.retained, 1)
           id == IF c.qos > 0 THEN WriteNum(c.id) ELSE <<>>
           body == WriteString(c.topic) \o id
           n == Len(c.topic)
           rem == 2 + n + c.payload_len + (IF c.qos > 0 THEN 2 ELSE 0)
<1>1. \A r : EncodeCall(c, r) = Encode(Header(c.type, flags), rem, body, r)
  BY DEF EncodeCall, EncodePublish
<1>2. flags \in 0 .. 15 /\ flags = (IF c.dup THEN 8 ELSE 0) + 2 * c.qos + (IF c.retained THEN 1 ELSE 0)
  BY PublishFlags, Zenon
<1>3. /\ id \in Seq(Int) /\ Len(id) = (IF c.qos > 0 THEN 2 ELSE 0)
      /\ c.qos > 0 => 256 * id[1] + id[2] = c.id
  <2>1. CASE c.qos > 0
    BY <2>1, IdRead
  <2>2. CASE ~(c.qos > 0)
    BY <2>2
  <2> QED BY <2>1, <2>2
<1> HIDE DEF flags, id
<1>4. /\ body \in Seq(Int) /\ Len(body) = n + 2 + Len(id) /\ Length(body, 1) = n /\ StringAt(body, 1) = c.topic
      /\ \A i \in 1 .. Len(id) : body[n + 2 + i] = id[i]
  BY <1>3, StringFirst
<1>5. n \in Nat
  BY TextIs
<1>6. Follows(c) = c.payload_len /\ c.type \in DOMAIN Code
  BY DEF Follows, Code
<1> HIDE DEF body, n, rem
<1>7. ReadsPublish(c, flags, body)
  <2>1. CASE c.qos = 0
    <3>1. Length(body, 1) + 3 = Len(body) + 1
      BY <1>3, <1>4, <1>5, <2>1
    <3> QED BY <1>2, <1>4, <2>1, <3>1 DEF ReadsPublish
  <2>2. CASE c.qos # 0
    <3>1. c.qos > 0 /\ Len(id) = 2
      BY <1>3, <2>2
    <3>2. body[n + 2 + 1] = id[1] /\ body[n + 2 + 2] = id[2]
      BY <1>4, <3>1
    <3>3. n + 2 + 1 = n + 3 /\ n + 2 + 2 = (n + 3) + 1 /\ (n + 3) + 1 = Len(body)
      BY <1>4, <1>5, <3>1
    <3>4. Length(body, n + 3) = c.id
      BY <1>3, <3>1, <3>2, <3>3 DEF Length
    <3> QED BY <1>2, <1>4, <2>2, <3>3, <3>4 DEF ReadsPublish
  <2> QED BY <2>1, <2>2
<1>8. ReadsBody(c, flags, body)
  BY <1>7 DEF ReadsBody
<1>9. rem = Len(body) + Follows(c)
  <2>1. Len(id) \in Nat /\ rem = 2 + n + c.payload_len + Len(id)
    BY <1>3 DEF rem
  <2>2. Len(body) = n + 2 + Len(id)
    BY <1>4
  <2> QED BY <1>5, <1>6, <2>1, <2>2
<1>10. Len(body) + Follows(c) >= VarnumLimit => LongCall(c)
  <2>1. VarnumLimit \in Nat
    BY SMT DEF VarnumLimit
  <2>2. Len(body) + Follows(c) >= VarnumLimit => c.payload_len + n + 4 >= VarnumLimit
    BY <1>3, <1>4, <1>5, <1>6, <2>1
  <2> QED BY <2>2 DEF LongCall, n
<1>11. Packs(c, flags, body)
  BY <1>1, <1>8, <1>9, <1>10, SMT DEF Packs
<1> QED BY <1>2, <1>4, <1>6, <1>11, PackedRight

-----------------------------------------------------------------------------
(***************************************************************************)
(* Strings one behind another.                                             *)
(***************************************************************************)
\* The places are those that follow one another so.
Placed(f, s, at, n, extra) ==
  /\ f = [i \in 0 .. n |-> f[i]] /\ f[0] = at
  /\ \A i \in 1 .. n : f[i] = f[i - 1] + 2 + Length(s, f[i - 1]) + extra

LEMMA PlacesAre ==
  ASSUME NEW n \in Nat, NEW f, NEW s, NEW at, NEW extra, Placed(f, s, at, n, extra),
         NEW m \in 0 .. n
  PROVE  Places(s, at, n, extra)[m] = f[m]
<1> DEFINE Eqn(g) == g = [i \in 0 .. n |-> IF i = 0 THEN at
                                          ELSE LET last == g[i - 1] IN last + 2 + Length(s, last) + extra]
           u == CHOOSE g : Eqn(g)
<1>1. Eqn(f)
  <2> DEFINE g == [i \in 0 .. n |-> IF i = 0 THEN at ELSE f[i - 1] + 2 + Length(s, f[i - 1]) + extra]
  <2>1. ASSUME NEW i \in 0 .. n PROVE f[i] = g[i]
    <3>1. CASE i = 0
      BY <3>1 DEF Placed
    <3>2. CASE i # 0
      <4>1. i \in 1 .. n
        BY <3>2
      <4> QED BY <3>2, <4>1 DEF Placed
    <3> QED BY <3>1, <3>2
  <2>2. g = [i \in 0 .. n |-> g[i]]
    OBVIOUS
  <2> HIDE DEF g
  <2>3. f = g
    BY <2>1, <2>2 DEF Placed
  <2> QED BY <2>3, Zenon DEF g
<1>2. Eqn(u)
  BY <1>1, Zenon
<1>3. Places(s, at, n, extra) = u
  BY DEF Places
<1> HIDE DEF u
<1>4. GoOnAlike(u, f, m)
  <2>1. u[0] = f[0]
    <3>1. 0 \in 0 .. n
      OBVIOUS
    <3> QED BY <1>2, <3>1 DEF Placed
  <2>2. ASSUME NEW i \in 1 .. m, u[i - 1] = f[i - 1] PROVE u[i] = f[i]
    <3>1. i \in 0 .. n /\ i \in 1 .. n /\ i # 0
      OBVIOUS
    <3>2. u[i] = u[i - 1] + 2 + Length(s, u[i - 1]) + extra
      BY <1>2, <3>1
    <3> QED BY <2>2, <3>1, <3>2 DEF Placed
  <2> QED BY <2>1, <2>2 DEF GoOnAlike
<1>5. m \in Nat
  OBVIOUS
<1> QED BY <1>3, <1>4, <1>5, Alike, Zenon

LEMMA NumBytes ==
  ASSUME NEW n \in Nat, n < NumLimit
  PROVE  WriteNum(n) \in Seq(Byte)
<1>1. n \div 256 \in 0 .. 255 /\ n % 256 \in 0 .. 255
  BY SMT DEF NumLimit
<1> QED BY <1>1 DEF WriteNum, Byte

LEMMA BytesJoined ==
  ASSUME NEW a \in Seq(Byte), NEW b \in Seq(Byte)
  PROVE  a \o b \in Seq(Byte)
OBVIOUS

\* A filter in a SUBSCRIBE (extra is 1) or in an UNSUBSCRIBE (0).
FilterBytes(f, extra) == WriteString(f.topic) \o (IF extra = 1 THEN <<f.qos>> ELSE <<>>)

LEMMA FilterIs ==
  ASSUME NEW f \in Filter, NEW extra \in 0 .. 1
  PROVE  LET b == FilterBytes(f, extra)
             n == Len(f.topic)
         IN /\ b \in Seq(Byte) /\ b \in Seq(Int) /\ Len(b) = n + 2 + extra /\ n \in Nat /\ n < NumLimit
            /\ LiesAt(WriteString(f.topic), b, 1)
            /\ extra = 1 => b[n + 3] = f.qos
<1> DEFINE x == f.topic
           n == Len(x)
           w == WriteString(x)
           e == IF extra = 1 THEN <<f.qos>> ELSE <<>>
           b == w \o e
<1>1. x \in ByteString /\ f.qos \in Byte
  BY DEF Filter, Byte
<1>2. x \in Seq(Byte) /\ n \in Nat /\ n < NumLimit
  BY <1>1, TextIs, SMT DEF NumLimit
<1>3. e \in Seq(Byte) /\ e \in Seq(Int) /\ Len(e) = extra /\ (extra = 1 => e[1] = f.qos)
  <2>1. f.qos \in Int
    BY DEF Filter
  <2>2. CASE extra = 1
    BY <1>1, <2>1, <2>2
  <2>3. CASE extra # 1
    BY <2>3
  <2> QED BY <2>2, <2>3
<1>4. w \in Seq(Byte)
  <2>1. WriteNum(n) \in Seq(Byte)
    BY <1>2, NumBytes
  <2> QED BY <1>2, <2>1, BytesJoined DEF WriteString
<1>5. w \in Seq(Int) /\ Len(w) = n + 2
  BY <1>1, StringWritten
<1> HIDE DEF w, e, n, x
<1>6. b \in Seq(Byte)
  BY <1>3, <1>4, BytesJoined
<1>7. b \in Seq(Int) /\ Joined(b, w, e) /\ LiesAt(w, b, 1)
  BY <1>3, <1>5, Join, LiesFirst, Zenon
<1> HIDE DEF b
<1>8. Len(b) = n + 2 + extra
  BY <1>3, <1>5, <1>7 DEF Joined
<1>9. extra = 1 => b[n + 3] = f.qos
  <2> SUFFICES ASSUME extra = 1 PROVE b[n + 3] = f.qos
    OBVIOUS
  <2>1. 1 \in 1 .. Len(e) /\ Len(w) + 1 = n + 3
    BY <1>2, <1>3, <1>5
  <2> QED BY <1>3, <1>7, <2>1 DEF Joined
<1> QED BY <1>2, <1>6, <1>7, <1>8, <1>9 DEF FilterBytes, b, w, e, n, x

LEMMA LiesInside ==
  ASSUME NEW x \in Seq(Int), NEW b \in Seq(Int), NEW s \in Seq(Int), NEW at \in Nat \ {0},
         LiesAt(x, b, 1), LiesAt(b, s, at)
  PROVE  LiesAt(x, s, at)
<1>1. Len(x) \in Nat /\ Len(b) \in Nat /\ Len(s) \in Nat
  OBVIOUS
<1>2. 1 + Len(x) - 1 <= Len(b) /\ \A i \in 1 .. Len(x) : b[1 + i - 1] = x[i]
  BY DEF LiesAt
<1>3. at + Len(b) - 1 <= Len(s) /\ \A i \in 1 .. Len(b) : s[at + i - 1] = b[i]
  BY DEF LiesAt
<1>4. at + Len(x) - 1 <= Len(s)
  BY <1>1, <1>2, <1>3
<1>5. ASSUME NEW i \in 1 .. Len(x) PROVE s[at + i - 1] = x[i]
  <2>1. i \in 1 .. Len(b) /\ 1 + i - 1 = i
    BY <1>1, <1>2
  <2> QED BY <1>2, <1>3, <2>1
<1> QED BY <1>4, <1>5 DEF LiesAt

\* A piece lies where the ones before it end.
LEMMA PieceLies ==
  ASSUME NEW P, NEW t \in Seq(P), Sized(t), NEW w \in Seq(Byte), Laid(t, w), NEW k \in 1 .. Len(t)
  PROVE  LiesAt(t[k].bytes, w, Off(t, k - 1) + 1) /\ Off(t, k - 1) \in Nat
<1> DEFINE a == Off(t, k - 1)
           c == Off(t, k)
           l == Len(t[k].bytes)
           m == Len(w)
<1>1. a \in Nat /\ c = a + l /\ l \in Nat
  BY OffStep
<1>2. c <= m /\ m \in Nat
  <2>1. k \in 0 .. Len(t) /\ Len(w) \in Nat
    OBVIOUS
  <2> QED BY <2>1, OffGrows DEF Laid
<1>3. \A i \in 1 .. l : w[a + i] = t[k].bytes[i]
  BY DEF Laid
<1> HIDE DEF a, c, l, m
<1>4. (a + 1) + l - 1 <= m
  BY <1>1, <1>2
<1>5. ASSUME NEW i \in 1 .. l PROVE w[(a + 1) + i - 1] = t[k].bytes[i]
  <2>1. (a + 1) + i - 1 = a + i
    BY <1>1
  <2> QED BY <1>3, <2>1
<1> QED BY <1>1, <1>4, <1>5 DEF LiesAt, a, l, m

\* Filters in a row behind "head".
Pieces(fs, extra) == [i \in 1 .. Len(fs) |-> FilterBytes(fs[i], extra)]
PieceLengths(fs, extra) == [i \in 1 .. Len(fs) |-> 2 + Len(fs[i].topic) + extra]
Row(head, fs, extra) == head \o Concat(Pieces(fs, extra))

\* Each is found where those before it end.
RowIs(s, head, fs, extra) ==
  LET n == Len(fs)
      place == Places(s, Len(head) + 1, n, extra)
  IN /\ s \in Seq(Int) /\ n \in Nat /\ \A i \in 1 .. Len(head) : s[i] = head[i]
     /\ \A i \in 1 .. n : /\ StringAt(s, place[i - 1]) = fs[i].topic
                          /\ extra = 1 => s[place[i] - 1] = fs[i].qos
     /\ place[n] = Len(s) + 1
     /\ Len(s) = Len(head) + Total(PieceLengths(fs, extra))
     /\ Len(s) <= Len(head) + n * 65538 /\ Len(s) \in Nat

LEMMA RowRead ==
  ASSUME NEW head \in Seq(Int), NEW fs \in Seq(Filter), NEW extra \in 0 .. 1
  PROVE  RowIs(Row(head, fs, extra), head, fs, extra)
<1> DEFINE n == Len(fs)
           h == Len(head)
           first == h + 1
           P == [bytes : Seq(Byte)]
           t == [i \in 1 .. n |-> [bytes |-> FilterBytes(fs[i], extra)]]
           w == Concat(Pieces(fs, extra))
           s == head \o w
           topic(i) == fs[i].topic
           l(i) == Len(topic(i))
           f == [i \in 0 .. n |-> first + Off(t, i)]
<1>1. n \in Nat /\ \A i \in 1 .. n : fs[i] \in Filter
  OBVIOUS
<1>2. ASSUME NEW i \in 1 .. n
      PROVE  /\ FilterBytes(fs[i], extra) \in Seq(Byte) /\ FilterBytes(fs[i], extra) \in Seq(Int)
             /\ Len(FilterBytes(fs[i], extra)) = l(i) + 2 + extra /\ l(i) \in Nat /\ l(i) < NumLimit
             /\ LiesAt(WriteString(topic(i)), FilterBytes(fs[i], extra), 1)
             /\ extra = 1 => FilterBytes(fs[i], extra)[l(i) + 3] = fs[i].qos
             /\ topic(i) \in ByteString
  <2>1. fs[i] \in Filter
    BY <1>1
  <2>2. topic(i) \in ByteString
    BY <2>1 DEF Filter
  <2> QED BY <2>1, <2>2, FilterIs
<1>3. t \in Seq(P) /\ Len(t) = n /\ \A i \in 1 .. n : t[i].bytes = FilterBytes(fs[i], extra)
  <2> DEFINE u(i) == FilterBytes(fs[i], extra)
  <2>1. \A i \in 1 .. n : u(i) \in Seq(Byte)
    BY <1>2
  <2> HIDE DEF u
  <2>2. t = [i \in 1 .. n |-> [bytes |-> u(i)]]
    BY DEF u
  <2> HIDE DEF t, n
  <2>3. t \in Seq(P) /\ Len(t) = n /\ \A i \in 1 .. n : t[i].bytes = u(i)
    BY <1>1, <2>1, <2>2, SMTT(30) DEF n
  <2> QED BY <2>3 DEF u
<1>4. w = Concat([i \in 1 .. Len(t) |-> t[i].bytes])
  <2>1. [i \in 1 .. Len(t) |-> t[i].bytes] = Pieces(fs, extra)
    BY <1>3 DEF Pieces
  <2> QED BY <2>1
<1>5. Sized(t)
  BY <1>2, <1>3 DEF Sized
<1>6. h \in Nat /\ first = h + 1
  OBVIOUS
<1> HIDE DEF t, h, first
<1>7. w \in Seq(Byte) /\ Laid(t, w)
  BY <1>3, <1>4, <1>5, LaidInit
<1> HIDE DEF w
<1>8. w \in Seq(Int)
  <2>1. \A b \in Byte : b \in Int
    BY DEF Byte
  <2> QED BY <1>7, <2>1
<1>9. s \in Seq(Int) /\ Joined(s, head, w)
  BY <1>8, Join, Zenon
<1> HIDE DEF s, f
<1>10. Off(t, 0) = 0 /\ Off(t, n) = Len(w) /\ Len(w) \in Nat
  BY <1>3, <1>7, OffZero DEF Laid
<1>11. ASSUME NEW i \in 1 .. n
       PROVE  /\ Off(t, i - 1) \in Nat /\ Off(t, i) = Off(t, i - 1) + (l(i) + 2 + extra)
              /\ LiesAt(t[i].bytes, s, first + Off(t, i - 1))
  <2>1. i \in 1 .. Len(t) /\ t[i].bytes \in Seq(Int) /\ Len(t[i].bytes) = l(i) + 2 + extra
    BY <1>2, <1>3
  <2>2. Off(t, i - 1) \in Nat /\ Off(t, i) = Off(t, i - 1) + Len(t[i].bytes)
    BY <1>3, <1>5, <2>1, OffStep
  <2>3. LiesAt(t[i].bytes, w, Off(t, i - 1) + 1)
    BY <1>3, <1>5, <1>7, <2>1, PieceLies
  <2>4. Off(t, i - 1) + 1 \in Nat \ {0}
    BY <2>2
  <2>5. LiesAt(t[i].bytes, s, h + (Off(t, i - 1) + 1))
    BY <1>8, <2>1, <2>3, <2>4, LiesBehind, Zenon DEF s, h
  <2>6. h + (Off(t, i - 1) + 1) = first + Off(t, i - 1)
    BY <1>6, <2>2
  <2> QED BY <2>1, <2>2, <2>5, <2>6
<1>12. ASSUME NEW i \in 1 .. n
       PROVE  /\ Length(s, first + Off(t, i - 1)) = l(i) /\ StringAt(s, first + Off(t, i - 1)) = topic(i)
              /\ extra = 1 => s[(first + Off(t, i)) - 1] = fs[i].qos
  <2> DEFINE at == first + Off(t, i - 1)
             b == t[i].bytes
             x == topic(i)
  <2>1. at \in Nat \ {0} /\ LiesAt(b, s, at) /\ first + Off(t, i) = at + (l(i) + 2 + extra)
    <3> DEFINE o == Off(t, i - 1)
               k == l(i)
    <3>1. o \in Nat /\ Off(t, i) = o + (k + 2 + extra) /\ LiesAt(b, s, first + o)
      BY <1>11
    <3>2. k \in Nat
      BY <1>2
    <3> HIDE DEF o, k, b
    <3>3. first + o \in Nat \ {0} /\ first + Off(t, i) = (first + o) + (k + 2 + extra)
      BY <1>6, <3>1, <3>2
    <3> QED BY <3>1, <3>3 DEF o, k
  <2>2. /\ b \in Seq(Int) /\ Len(b) = l(i) + 2 + extra /\ l(i) \in Nat /\ LiesAt(WriteString(x), b, 1)
        /\ extra = 1 => b[l(i) + 3] = fs[i].qos
        /\ x \in ByteString
    BY <1>2, <1>3
  <2> HIDE DEF at, b
  <2>3. WriteString(x) \in Seq(Int)
    BY <2>2, StringWritten
  <2> HIDE DEF x, l
  <2>4. LiesAt(WriteString(x), s, at)
    BY <1>9, <2>1, <2>2, <2>3, LiesInside, Zenon
  <2>5. Length(s, at) = Len(x) /\ StringAt(s, at) = x
    BY <1>9, <2>1, <2>2, <2>4, StringRead
  <2>6. extra = 1 => s[(first + Off(t, i)) - 1] = fs[i].qos
    <3> SUFFICES ASSUME extra = 1 PROVE s[(first + Off(t, i)) - 1] = fs[i].qos
      OBVIOUS
    <3>1. (first + Off(t, i)) - 1 = at + (l(i) + 3) - 1 /\ l(i) + 3 \in 1 .. Len(b)
      BY <2>1, <2>2, SMTT(30)
    <3>2. \A j \in 1 .. Len(b) : s[at + j - 1] = b[j]
      BY <2>1 DEF LiesAt
    <3> QED BY <2>2, <3>1, <3>2
  <2> QED BY <2>5, <2>6 DEF at, x, l
<1>13. Placed(f, s, first, n, extra)
  <2>1. f[0] = first
    BY <1>1, <1>6, <1>10 DEF f
  <2>2. ASSUME NEW i \in 1 .. n PROVE f[i] = f[i - 1] + 2 + Length(s, f[i - 1]) + extra
    <3>1. f[i] = first + Off(t, i) /\ f[i - 1] = first + Off(t, i - 1)
      BY <1>1 DEF f
    <3>2. Length(s, f[i - 1]) = l(i) /\ l(i) \in Nat
      BY <1>2, <1>12, <3>1
    <3>3. Off(t, i - 1) \in Nat /\ Off(t, i) = Off(t, i - 1) + (l(i) + 2 + extra)
      BY <1>11
    <3> DEFINE o == Off(t, i - 1)
               k == l(i)
               m == Length(s, f[i - 1])
    <3>4. f[i] = first + (o + (k + 2 + extra)) /\ f[i - 1] = first + o /\ m = k /\ k \in Nat /\ o \in Nat
      BY <3>1, <3>2, <3>3
    <3> HIDE DEF o, k, m
    <3>5. f[i] = f[i - 1] + 2 + m + extra
      BY <1>6, <3>4
    <3> QED BY <3>5 DEF m
  <2>3. f = [i \in 0 .. n |-> f[i]]
    BY DEF f
  <2> QED BY <2>1, <2>2, <2>3 DEF Placed
<1>14. \A m \in 0 .. n : Places(s, first, n, extra)[m] = first + Off(t, m)
  <2>1. ASSUME NEW m \in 0 .. n PROVE Places(s, first, n, extra)[m] = f[m]
    BY <1>1, <1>13, PlacesAre
  <2> QED BY <2>1 DEF f
<1>15. Len(s) = h + Off(t, n)
  BY <1>9, <1>10 DEF Joined, h
<1> DEFINE place == Places(s, first, n, extra)
<1>16. ASSUME NEW i \in 1 .. n
       PROVE  StringAt(s, place[i - 1]) = topic(i) /\ (extra = 1 => s[place[i] - 1] = fs[i].qos)
  <2>1. i - 1 \in 0 .. n /\ i \in 0 .. n
    BY <1>1
  <2>2. place[i - 1] = first + Off(t, i - 1) /\ place[i] = first + Off(t, i)
    BY <1>14, <2>1
  <2> HIDE DEF place
  <2> QED BY <1>12, <2>2
<1>17. place[n] = Len(s) + 1
  <2>1. n \in 0 .. n /\ Off(t, n) \in Nat
    BY <1>1, <1>10
  <2>2. place[n] = first + Off(t, n)
    BY <1>14, <2>1
  <2> HIDE DEF place
  <2> QED BY <1>6, <1>15, <2>1, <2>2
<1>18. Off(t, n) = Total(PieceLengths(fs, extra))
  <2>1. [i \in 1 .. n |-> Len(t[i].bytes)] = PieceLengths(fs, extra)
    <3>1. ASSUME NEW i \in 1 .. n PROVE Len(t[i].bytes) = 2 + l(i) + extra
      <4>1. Len(t[i].bytes) = l(i) + 2 + extra /\ l(i) \in Nat
        BY <1>2, <1>3
      <4> HIDE DEF l
      <4> QED BY <4>1
    <3> QED BY <3>1 DEF PieceLengths
  <2> QED BY <2>1 DEF Off
<1>19. Off(t, n) <= n * 65538
  <2> DEFINE S == {i \in 0 .. n : Off(t, i) <= i * 65538}
  <2>1. 0 \in S
    BY <1>1, <1>10
  <2>2. ASSUME NEW i \in S, i < n PROVE i + 1 \in S
    <3>1. i \in 0 .. n /\ Off(t, i) <= i * 65538
      OBVIOUS
    <3>2. i + 1 \in 1 .. n /\ i + 1 \in 0 .. n /\ (i + 1) - 1 = i
      BY <1>1, <2>2, <3>1
    <3>3. /\ Off(t, i) \in Nat /\ Off(t, i + 1) = Off(t, i) + (l(i + 1) + 2 + extra)
          /\ l(i + 1) \in Nat /\ l(i + 1) < NumLimit
      BY <1>2, <1>11, <3>2
    <3> DEFINE k == l(i + 1)
               a == Off(t, i)
               b == Off(t, i + 1)
    <3>4. a \in Nat /\ b = a + (k + 2 + extra) /\ k \in Nat /\ k < NumLimit /\ a <= i * 65538 /\ i \in Nat
      BY <1>1, <3>1, <3>3
    <3> HIDE DEF k, a, b
    <3>5. b <= (i + 1) * 65538
      BY <3>4, SMT DEF NumLimit
    <3> QED BY <3>2, <3>5 DEF b
  <2>3. S \subseteq 0 .. n
    OBVIOUS
  <2>4. \A i \in S : Off(t, i) <= i * 65538
    OBVIOUS
  <2> HIDE DEF S
  <2>5. S = 0 .. n
    BY <1>1, <2>1, <2>2, <2>3, Induction
  <2>6. n \in S
    BY <1>1, <2>5
  <2> QED BY <2>4, <2>6
<1>20. Len(s) <= h + n * 65538 /\ Len(s) \in Nat
  BY <1>1, <1>6, <1>10, <1>15, <1>19, SMT
<1>21. \A i \in 1 .. h : s[i] = head[i]
  BY <1>9 DEF Joined, h
<1>22. RowIs(s, head, fs, extra)
  <2> HIDE DEF place, topic
  <2> QED BY <1>1, <1>9, <1>15, <1>16, <1>17, <1>18, <1>20, <1>21 DEF RowIs, place, topic, first, h
<1> QED BY <1>22 DEF Row, s, w

-----------------------------------------------------------------------------
(***************************************************************************)
(* SUBSCRIBE and UNSUBSCRIBE.                                              *)
(***************************************************************************)
LEMMA FiltersRead ==
  ASSUME NEW c, c.filters \in Seq(Filter), c.id \in UInt16, NEW extra \in 0 .. 1
  PROVE  LET s == Row(WriteNum(c.id), c.filters, extra)
         IN /\ s \in Seq(Int) /\ Len(s) = 2 + Total(PieceLengths(c.filters, extra))
            /\ ReadsFilters(c, extra, s)
            /\ Len(s) <= 2 + Len(c.filters) * 65538 /\ Len(s) \in Nat /\ Len(c.filters) \in Nat
<1> DEFINE id == WriteNum(c.id)
           s == Row(id, c.filters, extra)
           n == Len(c.filters)
<1>1. id \in Seq(Int) /\ Len(id) = 2 /\ 256 * id[1] + id[2] = c.id
  BY IdRead
<1> HIDE DEF id
<1>2. RowIs(s, id, c.filters, extra)
  BY <1>1, RowRead
<1> HIDE DEF s
<1>3. Length(s, 1) = c.id
  <2>1. 1 \in 1 .. Len(id) /\ 2 \in 1 .. Len(id) /\ 1 + 1 = 2
    BY <1>1
  <2>2. s[1] = id[1] /\ s[2] = id[2]
    BY <1>2, <2>1 DEF RowIs
  <2> QED BY <1>1, <2>1, <2>2 DEF Length
<1>4. Len(id) + 1 = 3
  BY <1>1
<1>5. ReadsFilters(c, extra, s)
  BY <1>2, <1>3, <1>4 DEF RowIs, ReadsFilters
<1> QED BY <1>1, <1>2, <1>5 DEF RowIs, s, id

LEMMA ManyFilters ==
  ASSUME NEW c, c.type \in {"SUBSCRIBE", "UNSUBSCRIBE"}, NEW body, Len(c.filters) \in Nat,
         Len(body) \in Nat, Len(body) <= 2 + Len(c.filters) * 65538
  PROVE  Len(body) >= VarnumLimit => LongCall(c)
<1> DEFINE n == Len(c.filters)
           m == Len(body)
<1>1. n \in Nat /\ m \in Nat /\ m <= 2 + n * 65538
  OBVIOUS
<1> HIDE DEF n, m
<1>2. m >= VarnumLimit => n > 4000
  BY <1>1, SMT DEF VarnumLimit
<1> QED BY <1>2, SMT DEF LongCall, n, m

LEMMA SubscribeRight ==
  ASSUME NEW c, c.type = "SUBSCRIBE", c.filters \in Seq(Filter), c.id \in UInt16, NEW room \in Nat
  PROVE  Right(c, EncodeCall(c, room), room)
<1> DEFINE fs == c.filters
           body == Row(WriteNum(c.id), fs, 1)
<1>1. \A r : EncodeCall(c, r) = Encode(Header(c.type, 2), 2 + Total(PieceLengths(fs, 1)), body, r)
  <2>1. Pieces(fs, 1) = Each(fs, LAMBDA f : WriteString(f.topic) \o <<f.qos>>)
    BY DEF Pieces, Each, FilterBytes
  <2>2. PieceLengths(fs, 1) = Each(fs, LAMBDA f : 2 + Len(f.topic) + 1)
    BY DEF PieceLengths, Each
  <2> QED BY <2>1, <2>2, Zenon DEF EncodeCall, EncodeSubscribe, Row
<1>2. /\ body \in Seq(Int) /\ Len(body) = 2 + Total(PieceLengths(fs, 1)) /\ ReadsFilters(c, 1, body)
      /\ Len(body) <= 2 + Len(fs) * 65538 /\ Len(body) \in Nat /\ Len(fs) \in Nat
  BY FiltersRead
<1> HIDE DEF body
<1>3. Follows(c) = 0 /\ c.type \in DOMAIN Code
  BY DEF Follows, Code
<1>4. ReadsBody(c, 2, body)
  BY <1>2 DEF ReadsBody
<1>5. Len(body) >= VarnumLimit => LongCall(c)
  <2>1. c.type \in {"SUBSCRIBE", "UNSUBSCRIBE"}
    OBVIOUS
  <2> QED BY <1>2, <2>1, ManyFilters, SMTT(30)
<1>6. Len(body) + Follows(c) = Len(body)
  BY <1>2, <1>3
<1>7. Packs(c, 2, body)
  BY <1>1, <1>2, <1>4, <1>5, <1>6 DEF Packs
<1> QED BY <1>2, <1>3, <1>7, PackedRight

LEMMA UnsubscribeRight ==
  ASSUME NEW c, c.type = "UNSUBSCRIBE", c.filters \in Seq(Filter), c.id \in UInt16, NEW room \in Nat
  PROVE  Right(c, EncodeCall(c, room), room)
<1> DEFINE fs == c.filters
           body == Row(WriteNum(c.id), fs, 0)
<1>1. \A r : EncodeCall(c, r) = Encode(Header(c.type, 2), 2 + Total(PieceLengths(fs, 0)), body, r)
  <2>1. \A i \in 1 .. Len(fs) : /\ FilterBytes(fs[i], 0) = WriteString(fs[i].topic)
                                /\ 2 + Len(fs[i].topic) + 0 = 2 + Len(fs[i].topic)
    <3>1. ASSUME NEW i \in 1 .. Len(fs)
          PROVE  /\ FilterBytes(fs[i], 0) = WriteString(fs[i].topic)
                 /\ 2 + Len(fs[i].topic) + 0 = 2 + Len(fs[i].topic)
      <4> DEFINE x == fs[i].topic
      <4>1. x \in ByteString
        <5>1. fs[i] \in Filter
          OBVIOUS
        <5> QED BY <5>1 DEF Filter
      <4> HIDE DEF x
      <4>2. WriteString(x) \in Seq(Int) /\ Len(x) \in Nat
        BY <4>1, StringWritten
      <4>3. WriteString(x) \o <<>> = WriteString(x)
        BY <4>2
      <4> QED BY <4>2, <4>3 DEF FilterBytes, x
    <3> QED BY <3>1
  <2>2. Pieces(fs, 0) = Each(fs, LAMBDA f : WriteString(f.topic))
    BY <2>1 DEF Pieces, Each
  <2>3. PieceLengths(fs, 0) = Each(fs, LAMBDA f : 2 + Len(f.topic))
    BY <2>1 DEF PieceLengths, Each
  <2> QED BY <2>2, <2>3, Zenon DEF EncodeCall, EncodeUnsubscribe, Row
<1>2. /\ body \in Seq(Int) /\ Len(body) = 2 + Total(PieceLengths(fs, 0)) /\ ReadsFilters(c, 0, body)
      /\ Len(body) <= 2 + Len(fs) * 65538 /\ Len(body) \in Nat /\ Len(fs) \in Nat
  BY FiltersRead
<1> HIDE DEF body
<1>3. Follows(c) = 0 /\ c.type \in DOMAIN Code
  BY DEF Follows, Code
<1>4. ReadsBody(c, 2, body)
  BY <1>2 DEF ReadsBody
<1>5. Len(body) >= VarnumLimit => LongCall(c)
  <2>1. c.type \in {"SUBSCRIBE", "UNSUBSCRIBE"}
    OBVIOUS
  <2> QED BY <1>2, <2>1, ManyFilters, SMTT(30)
<1>6. Len(body) + Follows(c) = Len(body)
  BY <1>2, <1>3
<1>7. Packs(c, 2, body)
  BY <1>1, <1>2, <1>4, <1>5, <1>6 DEF Packs
<1> QED BY <1>2, <1>3, <1>7, PackedRight

-----------------------------------------------------------------------------
(***************************************************************************)
(* CONNECT: its strings, too, lie in a row behind the fixed part.          *)
(***************************************************************************)
LEMMA Associative ==
  ASSUME NEW a \in Seq(Int), NEW b \in Seq(Int), NEW c \in Seq(Int)
  PROVE  (a \o b) \o c = a \o (b \o c)
BY SMTT(30)

LEMMA RowStarts ==
  ASSUME NEW head \in Seq(Int)
  PROVE  Row(head, <<>>, 0) = head
<1> DEFINE p == Pieces(<<>>, 0)
<1>1. p \in Seq(Seq(Int)) /\ Len(p) = 0
  BY DEF Pieces
<1> HIDE DEF p
<1>2. Concat(p) = <<>>
  <2>1. \E f \in [0 .. Len(p) -> Seq(Int)] :
          /\ f[0] = <<>> /\ \A i \in 1 .. Len(p) : f[i] = f[i - 1] \o p[i]
          /\ Concat(p) = f[Len(p)]
    BY <1>1, ConcatIs, Zenon
  <2> QED BY <1>1, <2>1
<1>3. head \o <<>> = head
  OBVIOUS
<1> QED BY <1>2, <1>3 DEF Row, p

LEMMA RowGrows ==
  ASSUME NEW head \in Seq(Int), NEW fs \in Seq(Filter), NEW x \in ByteString
  PROVE  LET more == Append(fs, [topic |-> x, qos |-> 0])
         IN /\ more \in Seq(Filter) /\ Len(more) = Len(fs) + 1
            /\ \A i \in 1 .. Len(fs) : more[i] = fs[i]
            /\ more[Len(fs) + 1].topic = x
            /\ Row(head, more, 0) = Row(head, fs, 0) \o WriteString(x)
            /\ Row(head, fs, 0) \in Seq(Int) /\ Row(head, more, 0) \in Seq(Int)
            /\ Len(Row(head, more, 0)) = Len(Row(head, fs, 0)) + Len(x) + 2 /\ Len(x) \in Nat
<1> DEFINE f == [topic |-> x, qos |-> 0]
           more == Append(fs, f)
           n == Len(fs)
           p == Pieces(fs, 0)
           q == Pieces(more, 0)
           w == WriteString(x)
<1>1. f \in Filter /\ f.topic = x
  BY DEF Filter
<1>2. w \in Seq(Int) /\ FilterBytes(f, 0) = w
  <2>1. w \in Seq(Int)
    BY StringWritten
  <2>2. w \o <<>> = w
    BY <2>1
  <2> QED BY <1>1, <2>1, <2>2 DEF FilterBytes
<1> HIDE DEF f, w
<1>3. n \in Nat /\ more \in Seq(Filter) /\ Len(more) = n + 1 /\ more[n + 1] = f /\ \A i \in 1 .. n : more[i] = fs[i]
  BY <1>1
<1> HIDE DEF more
<1>4. ASSUME NEW g \in Filter PROVE FilterBytes(g, 0) \in Seq(Int)
  BY FilterIs
<1>5. p \in Seq(Seq(Int)) /\ Len(p) = n
  <2>1. \A i \in 1 .. n : FilterBytes(fs[i], 0) \in Seq(Int)
    BY <1>4
  <2> QED BY <1>3, <2>1 DEF Pieces
<1>6. q \in Seq(Seq(Int)) /\ Len(q) = n + 1
  <2>1. \A i \in 1 .. n + 1 : FilterBytes(more[i], 0) \in Seq(Int)
    BY <1>3, <1>4
  <2> QED BY <1>3, <2>1 DEF Pieces
<1>7. \A i \in 1 .. Len(p) : q[i] = p[i]
  BY <1>3, <1>5 DEF Pieces
<1>8. q[Len(q)] = w
  BY <1>2, <1>3, <1>6 DEF Pieces
<1> HIDE DEF p, q, n
<1>9. Concat(p) \in Seq(Int) /\ Concat(q) = Concat(p) \o q[Len(q)]
  <2>1. Len(q) = Len(p) + 1
    BY <1>5, <1>6
  <2> QED BY <1>5, <1>6, <1>7, <2>1, ConcatPrefix, Zenon
<1>10. head \o Concat(q) = (head \o Concat(p)) \o w
  <2> DEFINE a == Concat(p)
  <2>1. a \in Seq(Int) /\ Concat(q) = a \o w
    BY <1>8, <1>9
  <2> HIDE DEF a
  <2>2. (head \o a) \o w = head \o (a \o w)
    BY <1>2, <2>1, Associative, Zenon
  <2> QED BY <2>1, <2>2, Zenon DEF a
<1> DEFINE a == Row(head, fs, 0)
           b == Row(head, more, 0)
<1>11. a \in Seq(Int) /\ Len(a) \in Nat
  <2>1. RowIs(a, head, fs, 0)
    BY RowRead
  <2> QED BY <2>1 DEF RowIs
<1>12. b = a \o w
  BY <1>10 DEF Row, p, q
<1> HIDE DEF a, b
<1>13. b \in Seq(Int) /\ Len(b) = Len(a) + Len(w) /\ Len(w) = Len(x) + 2 /\ Len(x) \in Nat
  BY <1>2, <1>11, <1>12, StringWritten DEF w
<1>14. Len(b) = Len(a) + Len(x) + 2
  BY <1>11, <1>13
<1> QED BY <1>1, <1>3, <1>11, <1>12, <1>13, <1>14 DEF a, b, w, n, more, f

\* A string that may be there.
Also(fs, p, x) == IF p THEN Append(fs, [topic |-> x, qos |-> 0]) ELSE fs
One(p) == IF p THEN 1 ELSE 0

Longer(more, fs, p, x) ==
  /\ more \in Seq(Filter) /\ Len(fs) \in Nat /\ Len(more) = Len(fs) + One(p)
  /\ \A i \in 1 .. Len(fs) : more[i] = fs[i]
  /\ p => more[Len(fs) + 1].topic = x

\* The row "b" goes on as "d".
Wider(d, b, p, x) ==
  /\ b \in Seq(Int) /\ d \in Seq(Int)
  /\ d = b \o (IF p THEN WriteString(x) ELSE <<>>)
  /\ Len(d) = Len(b) + (IF p THEN Len(x) + 2 ELSE 0)

LEMMA RowAlso ==
  ASSUME NEW head \in Seq(Int), NEW fs \in Seq(Filter), NEW x \in ByteString, NEW p \in BOOLEAN
  PROVE  /\ Longer(Also(fs, p, x), fs, p, x)
         /\ Wider(Row(head, Also(fs, p, x), 0), Row(head, fs, 0), p, x)
<1> USE DEF Longer, Wider, One
<1>1. CASE p
  <2>1. Also(fs, p, x) = Append(fs, [topic |-> x, qos |-> 0])
    BY <1>1 DEF Also
  <2> DEFINE more == Append(fs, [topic |-> x, qos |-> 0])
  <2>2. /\ more \in Seq(Filter) /\ Len(more) = Len(fs) + 1
        /\ \A i \in 1 .. Len(fs) : more[i] = fs[i]
        /\ more[Len(fs) + 1].topic = x
        /\ Row(head, more, 0) = Row(head, fs, 0) \o WriteString(x)
        /\ Row(head, fs, 0) \in Seq(Int) /\ Row(head, more, 0) \in Seq(Int)
        /\ Len(Row(head, more, 0)) = Len(Row(head, fs, 0)) + Len(x) + 2 /\ Len(x) \in Nat
    BY RowGrows
  <2>3. Len(fs) \in Nat /\ Len(Row(head, fs, 0)) \in Nat
    BY <2>2
  <2> HIDE DEF more
  <2>4. Len(Row(head, more, 0)) = Len(Row(head, fs, 0)) + (Len(x) + 2)
    BY <2>2, <2>3
  <2> QED BY <1>1, <2>1, <2>2, <2>3, <2>4 DEF more
<1>2. CASE ~p
  <2>1. Also(fs, p, x) = fs
    BY <1>2 DEF Also
  <2> DEFINE a == Row(head, fs, 0)
  <2>2. a \in Seq(Int)
    <3>1. RowIs(a, head, fs, 0)
      BY RowRead
    <3> QED BY <3>1 DEF RowIs
  <2> HIDE DEF a
  <2>3. a \o <<>> = a /\ Len(a) = Len(a) + 0 /\ Len(fs) \in Nat /\ Len(fs) = Len(fs) + 0
    BY <2>2
  <2> QED BY <1>2, <2>1, <2>2, <2>3 DEF a
<1> QED BY <1>1, <1>2

LEMMA ShortTotal ==
  ASSUME NEW p \in Seq(Nat)
  PROVE  (Len(p) = 0 => Total(p) = 0) /\ (Len(p) = 1 => Total(p) = p[1])
<1>1. PICK f \in [0 .. Len(p) -> Nat] :
        /\ f[0] = 0 /\ \A i \in 1 .. Len(p) : f[i] = f[i - 1] + p[i]
        /\ Total(p) = f[Len(p)]
  BY TotalIs, Zenon
<1> HIDE DEF Total
<1>2. Len(p) = 1 => f[1] = 0 + p[1] /\ p[1] \in Nat
  BY <1>1
<1> QED BY <1>1, <1>2

LEMMA ShortConcat ==
  ASSUME NEW B, NEW p \in Seq(Seq(B))
  PROVE  (Len(p) = 0 => Concat(p) = <<>>) /\ (Len(p) = 1 => Concat(p) = p[1])
<1>1. PICK f \in [0 .. Len(p) -> Seq(B)] :
        /\ f[0] = <<>> /\ \A i \in 1 .. Len(p) : f[i] = f[i - 1] \o p[i]
        /\ Concat(p) = f[Len(p)]
  BY ConcatIs, Zenon
<1> HIDE DEF Concat
<1>2. Len(p) = 1 => f[1] = <<>> \o p[1] /\ p[1] \in Seq(B)
  <2> SUFFICES ASSUME Len(p) = 1 PROVE f[1] = <<>> \o p[1] /\ p[1] \in Seq(B)
    OBVIOUS
  <2>1. 1 \in 1 .. Len(p) /\ 1 - 1 = 0
    OBVIOUS
  <2>2. f[1] = f[0] \o p[1]
    BY <1>1, <2>1
  <2>3. p[1] \in Seq(B)
    <3>1. p \in [1 .. Len(p) -> Seq(B)]
      OBVIOUS
    <3> QED BY <2>1, <3>1
  <2> QED BY <1>1, <2>2, <2>3
<1>3. \A a \in Seq(B) : <<>> \o a = a
  OBVIOUS
<1> QED BY <1>1, <1>2, <1>3

LEMMA Single ==
  ASSUME NEW S, NEW x \in S
  PROVE  LET g == [i \in 1 .. 1 |-> x] IN g \in Seq(S) /\ Len(g) = 1 /\ g[1] = x
OBVIOUS


\* What a will adds to the length, the flags and the body.
LEMMA WillIs ==
  ASSUME NEW w \in Seq(Will), Len(w) <= 1
  PROVE  /\ w = <<>> => /\ Total(Each(w, WillLength)) = 0 /\ Total(Each(w, WillFlags)) = 0
                        /\ Concat(Each(w, WillFields)) = <<>>
         /\ w # <<>> => /\ w[1] \in Will /\ w = <<w[1]>>
                        /\ Total(Each(w, WillLength)) = Len(w[1].topic) + 2 + Len(w[1].payload) + 2
                        /\ Total(Each(w, WillFlags)) = 4 + 8 * w[1].qos + (IF w[1].retained THEN 32 ELSE 0)
                        /\ Concat(Each(w, WillFields)) = WriteString(w[1].topic) \o WriteString(w[1].payload)
<1> DEFINE l == Each(w, WillLength)
           f == Each(w, WillFlags)
           b == Each(w, WillFields)
<1>1. CASE w = <<>>
  <2>1. l \in Seq(Nat) /\ Len(l) = 0 /\ f \in Seq(Nat) /\ Len(f) = 0 /\ b \in Seq(Seq(Int)) /\ Len(b) = 0
    BY <1>1 DEF Each
  <2> HIDE DEF l, f, b
  <2>2. Total(l) = 0 /\ Total(f) = 0 /\ Concat(b) = <<>>
    BY <2>1, ShortTotal, ShortConcat
  <2> QED BY <1>1, <2>2 DEF l, f, b
<1>2. CASE w # <<>>
  <2> DEFINE v == w[1]
  <2>1. Len(w) = 1 /\ v \in Will /\ w = <<v>>
    BY <1>2
  <2>2. v.topic \in ByteString /\ v.payload \in ByteString /\ v.qos \in 0 .. 2 /\ v.retained \in BOOLEAN
    BY <2>1 DEF Will
  <2>3. Len(v.topic) \in Nat /\ Len(v.payload) \in Nat
    BY <2>2, TextIs
  <2>4. WillLength(v) = Len(v.topic) + 2 + Len(v.payload) + 2 /\ WillLength(v) \in Nat
    <3> DEFINE m == Len(v.topic)
               k == Len(v.payload)
    <3> HIDE DEF m, k
    <3>1. m \in Nat /\ k \in Nat
      BY <2>3 DEF m, k
    <3>2. m + 2 + k + 2 \in Nat
      BY <3>1
    <3> QED BY <3>2 DEF WillLength, m, k
  <2>5. WillFlags(v) = 4 + 8 * v.qos + (IF v.retained THEN 32 ELSE 0) /\ WillFlags(v) \in Nat
    BY <2>2 DEF WillFlags, Flag
  <2>6. WillFields(v) = WriteString(v.topic) \o WriteString(v.payload) /\ WillFields(v) \in Seq(Int)
    <3>1. WriteString(v.topic) \in Seq(Int) /\ WriteString(v.payload) \in Seq(Int)
      BY <2>2, StringWritten
    <3> QED BY <3>1 DEF WillFields
  <2>7. /\ l = [i \in 1 .. 1 |-> WillLength(v)] /\ f = [i \in 1 .. 1 |-> WillFlags(v)]
        /\ b = [i \in 1 .. 1 |-> WillFields(v)]
    <3>1. \A i \in 1 .. 1 : w[i] = v
      OBVIOUS
    <3> QED BY <2>1, <3>1 DEF Each
  <2> HIDE DEF l, f, b
  <2>8. l \in Seq(Nat) /\ Len(l) = 1 /\ l[1] = WillLength(v)
    BY <2>4, <2>7, Single
  <2>9. f \in Seq(Nat) /\ Len(f) = 1 /\ f[1] = WillFlags(v)
    BY <2>5, <2>7, Single
  <2>10. b \in Seq(Seq(Int)) /\ Len(b) = 1 /\ b[1] = WillFields(v)
    BY <2>6, <2>7, Single
  <2>11. Total(l) = WillLength(v) /\ Total(f) = WillFlags(v) /\ Concat(b) = WillFields(v)
    BY <2>8, <2>9, <2>10, ShortTotal, ShortConcat
  <2> QED BY <1>2, <2>1, <2>4, <2>5, <2>6, <2>11 DEF l, f, b
<1> QED BY <1>1, <1>2

\* The connect flags, taken apart.
Bit(f, weight) == (f \div weight) % 2

LEMMA ConnectBits ==
  ASSUME NEW a \in 0 .. 1, NEW w \in 0 .. 1, NEW q \in 0 .. 2, NEW r \in 0 .. 1, NEW p \in 0 .. 1,
         NEW u \in 0 .. 1
  PROVE  LET f == 2 * a + (4 * w + 8 * q + 32 * r) + 128 * u + 64 * p
         IN /\ f \in 0 .. 255
            /\ Bit(f, 1) = 0 /\ Bit(f, 2) = a /\ Bit(f, 4) = w /\ (f \div 8) % 4 = q /\ Bit(f, 32) = r
            /\ Bit(f, 64) = p /\ Bit(f, 128) = u
<1> DEFINE f == 2 * a + (4 * w + 8 * q + 32 * r) + 128 * u + 64 * p
<1>1. f \in 0 .. 255
  OBVIOUS
<1>2. Bit(f, 1) = 0 /\ Bit(f, 2) = a
  BY DEF Bit
<1>3. Bit(f, 4) = w /\ (f \div 8) % 4 = q
  BY DEF Bit
<1>4. Bit(f, 32) = r /\ Bit(f, 64) = p
  BY DEF Bit
<1>5. Bit(f, 128) = u
  BY DEF Bit
<1> QED BY <1>1, <1>2, <1>3, <1>4, <1>5

IsConnect(c) ==
  /\ c.type = "CONNECT" /\ c.client_id \in ByteString /\ c.clean_session \in BOOLEAN
  /\ c.keep_alive \in UInt16 /\ c.will \in Seq(Will) /\ Len(c.will) <= 1
  /\ c.username \in ByteString /\ c.password \in ByteString

HasWill(c) == c.will # <<>>
HasPassword(c) == c.password # <<>>
HasUser(c) == c.username # <<>> \/ c.password # <<>>
Topic(c) == IF HasWill(c) THEN c.will[1].topic ELSE <<>>
Payload(c) == IF HasWill(c) THEN c.will[1].payload ELSE <<>>
ConnectFlags(c) ==
  Flag(c.clean_session, 2) + Total(Each(c.will, WillFlags)) + Flag(HasUser(c), 128) + Flag(HasPassword(c), 64)
ConnectHead(c) == <<0, 4, 77, 81, 84, 84, 4, ConnectFlags(c)>> \o WriteNum(c.keep_alive)

\* The strings of a CONNECT in their order.
Strings1(c) == Also(<<>>, TRUE, c.client_id)
Strings2(c) == Also(Strings1(c), HasWill(c), Topic(c))
Strings3(c) == Also(Strings2(c), HasWill(c), Payload(c))
Strings4(c) == Also(Strings3(c), HasUser(c), c.username)
Strings5(c) == Also(Strings4(c), HasPassword(c), c.password)

LEMMA ConnectParts ==
  ASSUME NEW c, IsConnect(c)
  PROVE  /\ {c.client_id, Topic(c), Payload(c), c.username, c.password} \subseteq ByteString
         /\ {HasWill(c), HasUser(c), HasPassword(c)} \subseteq BOOLEAN
         /\ HasPassword(c) => HasUser(c)
<1>1. <<>> \in ByteString
  BY DEF ByteString
<1>2. HasWill(c) => c.will[1] \in Will
  BY WillIs DEF IsConnect, HasWill
<1>3. HasWill(c) => c.will[1].topic \in ByteString /\ c.will[1].payload \in ByteString
  BY <1>2 DEF Will
<1>4. Topic(c) \in ByteString /\ Payload(c) \in ByteString
  BY <1>1, <1>3 DEF Topic, Payload
<1>5. {HasWill(c), HasUser(c), HasPassword(c)} \subseteq BOOLEAN
  BY DEF HasWill, HasUser, HasPassword
<1>6. HasPassword(c) => HasUser(c)
  BY DEF HasUser, HasPassword
<1> QED BY <1>4, <1>5, <1>6 DEF IsConnect

LEMMA StringsAre ==
  ASSUME NEW c, IsConnect(c)
  PROVE  LET x == Strings5(c)
             w == One(HasWill(c))
         IN /\ x \in Seq(Filter) /\ w \in 0 .. 1
            /\ Len(x) = 1 + 2 * w + One(HasUser(c)) + One(HasPassword(c))
            /\ x[1].topic = c.client_id
            /\ HasWill(c) => x[2].topic = Topic(c) /\ x[3].topic = Payload(c)
            /\ HasUser(c) => x[2 + 2 * w].topic = c.username
            /\ HasPassword(c) => x[3 + 2 * w].topic = c.password
<1> DEFINE w == One(HasWill(c))
           u == One(HasUser(c))
           p == One(HasPassword(c))
           x1 == Strings1(c)
           x2 == Strings2(c)
           x3 == Strings3(c)
           x4 == Strings4(c)
           x5 == Strings5(c)
<1>1. w \in 0 .. 1 /\ u \in 0 .. 1 /\ p \in 0 .. 1 /\ <<>> \in Seq(Int) /\ <<>> \in Seq(Filter) /\ Len(<<>>) = 0
  BY DEF One
<1> HIDE DEF w, u, p
<1>2. x1 \in Seq(Filter) /\ Len(x1) = 1 /\ x1[1].topic = c.client_id
  <2>1. Longer(x1, <<>>, TRUE, c.client_id)
    BY <1>1, ConnectParts, RowAlso DEF Strings1
  <2> QED BY <1>1, <2>1 DEF Longer, One
<1>3. Longer(x2, x1, HasWill(c), Topic(c))
  BY <1>1, <1>2, ConnectParts, RowAlso DEF Strings2
<1>4. Longer(x3, x2, HasWill(c), Payload(c))
  <2>1. x2 \in Seq(Filter)
    BY <1>3 DEF Longer
  <2> QED BY <1>1, <2>1, ConnectParts, RowAlso DEF Strings3
<1>5. Longer(x4, x3, HasUser(c), c.username)
  <2>1. x3 \in Seq(Filter)
    BY <1>4 DEF Longer
  <2> QED BY <1>1, <2>1, ConnectParts, RowAlso DEF Strings4
<1>6. Longer(x5, x4, HasPassword(c), c.password)
  <2>1. x4 \in Seq(Filter)
    BY <1>5 DEF Longer
  <2> QED BY <1>1, <2>1, ConnectParts, RowAlso DEF Strings5
<1>7. (HasWill(c) => w = 1) /\ (HasUser(c) => u = 1) /\ (HasPassword(c) => p = 1 /\ u = 1)
  BY ConnectParts DEF One, w, u, p
<1> HIDE DEF x1, x2, x3, x4, x5
<1>8. /\ Len(x2) = 1 + w /\ Len(x3) = 1 + 2 * w /\ Len(x4) = 1 + 2 * w + u /\ Len(x5) = 1 + 2 * w + u + p
  <2>1. Len(x2) = Len(x1) + w /\ Len(x3) = Len(x2) + w /\ Len(x4) = Len(x3) + u /\ Len(x5) = Len(x4) + p
    BY <1>3, <1>4, <1>5, <1>6 DEF Longer, w, u, p
  <2> QED BY <1>1, <1>2, <2>1
<1>9. x5[1].topic = c.client_id
  <2>1. 1 \in 1 .. Len(x1) /\ 1 \in 1 .. Len(x2) /\ 1 \in 1 .. Len(x3) /\ 1 \in 1 .. Len(x4)
    BY <1>1, <1>2, <1>8
  <2>2. x2[1] = x1[1] /\ x3[1] = x2[1] /\ x4[1] = x3[1] /\ x5[1] = x4[1]
    BY <1>3, <1>4, <1>5, <1>6, <2>1 DEF Longer
  <2> QED BY <1>2, <2>2
<1>10. ASSUME HasWill(c) PROVE x5[2].topic = Topic(c) /\ x5[3].topic = Payload(c)
  <2>1. w = 1 /\ Len(x2) = 2 /\ Len(x3) = 3 /\ Len(x4) \in 3 .. 4
    BY <1>1, <1>7, <1>8, <1>10
  <2>2. x2[2].topic = Topic(c) /\ x3[3].topic = Payload(c)
    <3>1. x2[Len(x1) + 1].topic = Topic(c) /\ x3[Len(x2) + 1].topic = Payload(c)
      BY <1>3, <1>4, <1>10 DEF Longer
    <3>2. Len(x1) + 1 = 2 /\ Len(x2) + 1 = 3
      BY <1>2, <2>1
    <3> QED BY <3>1, <3>2
  <2>3. x3[2] = x2[2] /\ x4[2] = x3[2] /\ x4[3] = x3[3] /\ x5[2] = x4[2] /\ x5[3] = x4[3]
    <3> DEFINE l == Len(x4)
    <3>0. l \in 3 .. 4
      BY <2>1
    <3> HIDE DEF l
    <3>1. 2 \in 1 .. 2 /\ 2 \in 1 .. 3 /\ 3 \in 1 .. 3 /\ 2 \in 1 .. l /\ 3 \in 1 .. l
      BY <3>0
    <3>2. x3[2] = x2[2]
      BY <1>4, <2>1, <3>1 DEF Longer
    <3>3. x4[2] = x3[2] /\ x4[3] = x3[3]
      BY <1>5, <2>1, <3>1 DEF Longer
    <3>4. x5[2] = x4[2] /\ x5[3] = x4[3]
      BY <1>6, <3>1 DEF Longer, l
    <3> QED BY <3>2, <3>3, <3>4
  <2> QED BY <2>2, <2>3
<1>11. ASSUME HasUser(c) PROVE x5[2 + 2 * w].topic = c.username
  <2>1. u = 1 /\ Len(x3) + 1 = 2 + 2 * w /\ 2 + 2 * w \in 1 .. Len(x4)
    BY <1>1, <1>7, <1>8, <1>11
  <2> QED BY <1>5, <1>6, <1>11, <2>1 DEF Longer
<1>12. ASSUME HasPassword(c) PROVE x5[3 + 2 * w].topic = c.password
  <2>1. Len(x4) + 1 = 3 + 2 * w
    BY <1>1, <1>7, <1>8, <1>12
  <2> QED BY <1>6, <1>12, <2>1 DEF Longer
<1>13. x5 \in Seq(Filter)
  BY <1>6 DEF Longer
<1> QED BY <1>1, <1>13, <1>8, <1>9, <1>10, <1>11, <1>12 DEF w, u, p, x5

\* The body of a CONNECT is such a row, and its length is the one computed.
LEMMA ConnectRow ==
  ASSUME NEW c, IsConnect(c), ConnectHead(c) \in Seq(Int)
  PROVE  LET body == Row(ConnectHead(c), Strings5(c), 0)
         IN /\ body = ConnectHead(c) \o WriteString(c.client_id) \o Concat(Each(c.will, WillFields))
                      \o (IF HasUser(c) THEN WriteString(c.username) ELSE <<>>)
                      \o (IF HasPassword(c) THEN WriteString(c.password) ELSE <<>>)
            /\ Len(body) = Len(ConnectHead(c)) + Len(c.client_id) + 2 + Total(Each(c.will, WillLength))
                           + (IF HasUser(c) THEN Len(c.username) + 2 ELSE 0)
                           + (IF HasPassword(c) THEN Len(c.password) + 2 ELSE 0)
<1> DEFINE h == ConnectHead(c)
           b0 == Row(h, <<>>, 0)
           b1 == Row(h, Strings1(c), 0)
           b2 == Row(h, Strings2(c), 0)
           b3 == Row(h, Strings3(c), 0)
           b4 == Row(h, Strings4(c), 0)
           b5 == Row(h, Strings5(c), 0)
           will == Concat(Each(c.will, WillFields))
           length == Total(Each(c.will, WillLength))
<1>1. h \in Seq(Int) /\ <<>> \in Seq(Filter) /\ b0 = h
  BY RowStarts
<1>2. /\ Strings1(c) \in Seq(Filter) /\ Strings2(c) \in Seq(Filter) /\ Strings3(c) \in Seq(Filter)
      /\ Strings4(c) \in Seq(Filter)
  <2>1. Strings1(c) \in Seq(Filter)
    BY <1>1, ConnectParts, RowAlso DEF Longer, Strings1
  <2>2. Strings2(c) \in Seq(Filter)
    BY <1>1, <2>1, ConnectParts, RowAlso DEF Longer, Strings2
  <2>3. Strings3(c) \in Seq(Filter)
    BY <1>1, <2>2, ConnectParts, RowAlso DEF Longer, Strings3
  <2>4. Strings4(c) \in Seq(Filter)
    BY <1>1, <2>3, ConnectParts, RowAlso DEF Longer, Strings4
  <2> QED BY <2>1, <2>2, <2>3, <2>4
<1> HIDE DEF h
<1>3. Wider(b1, b0, TRUE, c.client_id)
  BY <1>1, ConnectParts, RowAlso DEF Strings1
<1>4. Wider(b2, b1, HasWill(c), Topic(c))
  BY <1>1, <1>2, ConnectParts, RowAlso DEF Strings2
<1>5. Wider(b3, b2, HasWill(c), Payload(c))
  BY <1>1, <1>2, ConnectParts, RowAlso DEF Strings3
<1>6. Wider(b4, b3, HasUser(c), c.username)
  BY <1>1, <1>2, ConnectParts, RowAlso DEF Strings4
<1>7. Wider(b5, b4, HasPassword(c), c.password)
  BY <1>1, <1>2, ConnectParts, RowAlso DEF Strings5
<1> HIDE DEF b0, b1, b2, b3, b4, b5
<1>8. b3 = b1 \o will /\ Len(b3) = Len(b1) + length /\ Len(b1) \in Nat /\ length \in Nat
  <2>0. b1 \in Seq(Int) /\ Len(b1) \in Nat
    BY <1>4 DEF Wider
  <2>1. CASE HasWill(c)
    <3> DEFINE t == WriteString(Topic(c))
               p == WriteString(Payload(c))
    <3>1. t \in Seq(Int) /\ p \in Seq(Int) /\ Len(Topic(c)) \in Nat /\ Len(Payload(c)) \in Nat
      BY ConnectParts, StringWritten
    <3>2. will = t \o p /\ length = Len(Topic(c)) + 2 + Len(Payload(c)) + 2
      BY <2>1, WillIs DEF IsConnect, HasWill, Topic, Payload
    <3> HIDE DEF t, p, will, length
    <3>3. b2 = b1 \o t /\ b3 = b2 \o p /\ Len(b2) = Len(b1) + (Len(Topic(c)) + 2)
          /\ Len(b3) = Len(b2) + (Len(Payload(c)) + 2)
      BY <1>4, <1>5, <2>1 DEF Wider, t, p
    <3>4. b3 = b1 \o will
      BY <2>0, <3>1, <3>2, <3>3, Associative
    <3> DEFINE m == Len(Topic(c))
               n == Len(Payload(c))
    <3> HIDE DEF m, n
    <3>5. m \in Nat /\ n \in Nat /\ length = m + 2 + n + 2 /\ Len(b2) = Len(b1) + (m + 2) /\ Len(b3) = Len(b2) + (n + 2)
      BY <3>1, <3>2, <3>3 DEF m, n
    <3>6. Len(b3) = Len(b1) + length /\ length \in Nat
      BY <2>0, <3>5
    <3> QED BY <2>0, <3>4, <3>6 DEF will, length
  <2>2. CASE ~HasWill(c)
    <3>1. will = <<>> /\ length = 0
      BY <2>2, WillIs DEF IsConnect, HasWill
    <3>2. b2 = b1 \o <<>> /\ b3 = b2 \o <<>>
      BY <1>4, <1>5, <2>2 DEF Wider
    <3>3. \A a \in Seq(Int) : a \o <<>> = a
      OBVIOUS
    <3>4. b3 = b1
      BY <2>0, <3>2, <3>3
    <3> QED BY <2>0, <3>1, <3>3, <3>4
  <2> QED BY <2>1, <2>2
<1> HIDE DEF will, length
<1>9. b5 = h \o WriteString(c.client_id) \o will
           \o (IF HasUser(c) THEN WriteString(c.username) ELSE <<>>)
           \o (IF HasPassword(c) THEN WriteString(c.password) ELSE <<>>)
  BY <1>1, <1>3, <1>6, <1>7, <1>8 DEF Wider
<1>10. Len(b5) = Len(h) + Len(c.client_id) + 2 + length
           + (IF HasUser(c) THEN Len(c.username) + 2 ELSE 0)
           + (IF HasPassword(c) THEN Len(c.password) + 2 ELSE 0)
  <2> DEFINE k == Len(c.client_id)
             u == IF HasUser(c) THEN Len(c.username) + 2 ELSE 0
             p == IF HasPassword(c) THEN Len(c.password) + 2 ELSE 0
  <2>1. Len(b1) = Len(h) + (k + 2) /\ Len(b4) = Len(b3) + u /\ Len(b5) = Len(b4) + p
    BY <1>1, <1>3, <1>6, <1>7 DEF Wider
  <2>2. k \in Nat /\ u \in Nat /\ p \in Nat /\ Len(h) \in Nat
    <3>1. k \in Nat /\ Len(c.username) \in Nat /\ Len(c.password) \in Nat /\ Len(h) \in Nat
      BY <1>1, ConnectParts, TextIs
    <3> QED BY <3>1
  <2>3. Len(b5) = ((Len(h) + (k + 2)) + length) + u + p /\ length \in Nat
    BY <1>8, <2>1
  <2> DEFINE n == Len(b5)
             m == Len(h)
  <2> HIDE DEF k, u, p, n, m
  <2>4. n = ((m + (k + 2)) + length) + u + p /\ length \in Nat /\ m \in Nat
    BY <2>2, <2>3 DEF n, m
  <2>5. n = m + k + 2 + length + u + p
    BY <2>2, <2>4
  <2> QED BY <2>5 DEF k, u, p, n, m
<1> QED BY <1>9, <1>10 DEF b5, h, will, length

\* The flags say which strings there are.
LEMMA FlagsAre ==
  ASSUME NEW c, IsConnect(c)
  PROVE  LET f == ConnectFlags(c)
             v == c.will[1]
         IN /\ f \in 0 .. 255
            /\ Bit(f, 1) = 0 /\ Bit(f, 2) = One(c.clean_session) /\ Bit(f, 4) = One(HasWill(c))
            /\ Bit(f, 64) = One(HasPassword(c)) /\ Bit(f, 128) = One(HasUser(c))
            /\ HasWill(c) => (f \div 8) % 4 = v.qos /\ Bit(f, 32) = One(v.retained)
<1> DEFINE f == ConnectFlags(c)
           v == c.will[1]
           a == One(c.clean_session)
           w == One(HasWill(c))
           u == One(HasUser(c))
           p == One(HasPassword(c))
           q == IF HasWill(c) THEN v.qos ELSE 0
           r == IF HasWill(c) THEN One(v.retained) ELSE 0
           total == Total(Each(c.will, WillFlags))
<1>1. HasWill(c) => v.qos \in 0 .. 2 /\ v.retained \in BOOLEAN
  <2>1. HasWill(c) => v \in Will
    BY WillIs DEF IsConnect, HasWill
  <2> QED BY <2>1 DEF Will
<1>2. /\ a \in 0 .. 1 /\ w \in 0 .. 1 /\ u \in 0 .. 1 /\ p \in 0 .. 1 /\ q \in 0 .. 2 /\ r \in 0 .. 1
  BY <1>1 DEF One
<1>3. total = 4 * w + 8 * q + 32 * r
  <2>1. CASE HasWill(c)
    <3>1. total = 4 + 8 * v.qos + (IF v.retained THEN 32 ELSE 0)
      BY <2>1, WillIs DEF IsConnect, HasWill
    <3>2. w = 1 /\ q = v.qos /\ r = One(v.retained)
      BY <2>1 DEF One
    <3>3. 32 * One(v.retained) = IF v.retained THEN 32 ELSE 0
      BY DEF One
    <3>4. 4 * 1 = 4
      OBVIOUS
    <3> QED BY <3>1, <3>2, <3>3, <3>4
  <2>2. CASE ~HasWill(c)
    <3>1. total = 0
      BY <2>2, WillIs DEF IsConnect, HasWill
    <3>2. w = 0 /\ q = 0 /\ r = 0
      BY <2>2 DEF One
    <3> QED BY <3>1, <3>2
  <2> QED BY <2>1, <2>2
<1>4. /\ Flag(c.clean_session, 2) = 2 * a /\ Flag(HasUser(c), 128) = 128 * u
      /\ Flag(HasPassword(c), 64) = 64 * p
  BY DEF Flag, One
<1>5. f = 2 * a + (4 * w + 8 * q + 32 * r) + 128 * u + 64 * p
  BY <1>3, <1>4 DEF ConnectFlags
<1> HIDE DEF f, a, w, u, p, q, r
<1>6. /\ f \in 0 .. 255
      /\ Bit(f, 1) = 0 /\ Bit(f, 2) = a /\ Bit(f, 4) = w /\ (f \div 8) % 4 = q /\ Bit(f, 32) = r
      /\ Bit(f, 64) = p /\ Bit(f, 128) = u
  BY <1>2, <1>5, ConnectBits
<1>7. HasWill(c) => q = v.qos /\ r = One(v.retained)
  BY DEF q, r
<1> QED BY <1>6, <1>7 DEF f, a, w, u, p

LEMMA HeadIs ==
  ASSUME NEW c, IsConnect(c)
  PROVE  LET h == ConnectHead(c)
         IN /\ h \in Seq(Int) /\ Len(h) = 10
            /\ h[1] = 0 /\ h[2] = 4 /\ h[3] = 77 /\ h[4] = 81 /\ h[5] = 84 /\ h[6] = 84 /\ h[7] = 4
            /\ h[8] = ConnectFlags(c) /\ 256 * h[9] + h[10] = c.keep_alive
<1> DEFINE f == ConnectFlags(c)
           a == <<0, 4, 77, 81, 84, 84, 4, f>>
           k == WriteNum(c.keep_alive)
           h == a \o k
<1>1. f \in Int
  BY FlagsAre
<1>2. k \in Seq(Int) /\ Len(k) = 2 /\ 256 * k[1] + k[2] = c.keep_alive
  BY IdRead DEF IsConnect
<1> HIDE DEF f, k
<1>3. /\ a \in Seq(Int) /\ Len(a) = 8
      /\ a[1] = 0 /\ a[2] = 4 /\ a[3] = 77 /\ a[4] = 81 /\ a[5] = 84 /\ a[6] = 84 /\ a[7] = 4 /\ a[8] = f
  BY <1>1
<1> HIDE DEF a
<1>4. h \in Seq(Int) /\ Joined(h, a, k)
  BY <1>2, <1>3, Join, Zenon
<1> HIDE DEF h
<1>5. Len(h) = 10
  BY <1>2, <1>3, <1>4 DEF Joined
<1>6. \A i \in 1 .. 8 : h[i] = a[i]
  BY <1>3, <1>4 DEF Joined
<1>7. h[9] = k[1] /\ h[10] = k[2]
  <2>1. 1 \in 1 .. Len(k) /\ 2 \in 1 .. Len(k) /\ Len(a) + 1 = 9 /\ Len(a) + 2 = 10
    BY <1>2, <1>3
  <2> QED BY <1>4, <2>1 DEF Joined
<1> QED BY <1>2, <1>3, <1>4, <1>5, <1>6, <1>7 DEF ConnectHead, h, a, k, f

LEMMA ConnectRead ==
  ASSUME NEW c, IsConnect(c)
  PROVE  ReadsConnect(c, Row(ConnectHead(c), Strings5(c), 0))
<1> DEFINE h == ConnectHead(c)
           x == Strings5(c)
           s == Row(h, x, 0)
           f == ConnectFlags(c)
           w == One(HasWill(c))
           u == One(HasUser(c))
           p == One(HasPassword(c))
           n == 1 + 2 * w + u + p
           place == Places(s, 11, n, 0)
           will == [topic |-> StringAt(s, place[2 - 1]), payload |-> StringAt(s, place[3 - 1]),
                    qos |-> (f \div 8) % 4, retained |-> Bit(f, 32) = 1]
<1>1. /\ h \in Seq(Int) /\ Len(h) = 10
      /\ h[1] = 0 /\ h[2] = 4 /\ h[3] = 77 /\ h[4] = 81 /\ h[5] = 84 /\ h[6] = 84 /\ h[7] = 4
      /\ h[8] = f /\ 256 * h[9] + h[10] = c.keep_alive
  BY HeadIs
<1>2. /\ x \in Seq(Filter) /\ Len(x) = n
      /\ x[1].topic = c.client_id
      /\ HasWill(c) => x[2].topic = Topic(c) /\ x[3].topic = Payload(c)
      /\ HasUser(c) => x[2 + 2 * w].topic = c.username
      /\ HasPassword(c) => x[3 + 2 * w].topic = c.password
  BY StringsAre
<1>3. /\ Bit(f, 1) = 0 /\ Bit(f, 2) = One(c.clean_session) /\ Bit(f, 4) = w
      /\ Bit(f, 64) = p /\ Bit(f, 128) = u
      /\ HasWill(c) => (f \div 8) % 4 = c.will[1].qos /\ Bit(f, 32) = One(c.will[1].retained)
  BY FlagsAre
<1>4. /\ w \in 0 .. 1 /\ u \in 0 .. 1 /\ p \in 0 .. 1
      /\ HasWill(c) <=> w = 1
      /\ HasUser(c) <=> u = 1
      /\ HasPassword(c) <=> p = 1
      /\ c.clean_session <=> One(c.clean_session) = 1
  BY DEF One
<1> HIDE DEF h, x, f, w, u, p, s
<1>5. RowIs(s, h, x, 0)
  BY <1>1, <1>2, RowRead DEF s
<1>6. /\ s \in Seq(Int) /\ Len(s) \in Nat /\ \A i \in 1 .. 10 : s[i] = h[i]
      /\ \A i \in 1 .. n : StringAt(s, place[i - 1]) = x[i].topic
      /\ place[n] = Len(s) + 1
  <2>1. Len(h) + 1 = 11
    BY <1>1
  <2> QED BY <1>1, <1>2, <1>5, <2>1 DEF RowIs
<1> HIDE DEF n, place
<1>7. n = 1 + 2 * w + u + p
  BY DEF n
<1>8. s[8] = f /\ Length(s, 9) = c.keep_alive
  <2>1. s[8] = h[8] /\ s[9] = h[9] /\ s[10] = h[10] /\ 9 + 1 = 10
    BY <1>6
  <2> QED BY <1>1, <2>1 DEF Length
<1>9. SubSeq(s, 1, 7) = <<0, 4, 77, 81, 84, 84, 4>>
  <2>1. s[1] = 0 /\ s[2] = 4 /\ s[3] = 77 /\ s[4] = 81 /\ s[5] = 84 /\ s[6] = 84 /\ s[7] = 4
    BY <1>1, <1>6
  <2>2. SubSeq(s, 1, 7) = [i \in 1 .. 7 |-> s[i]]
    BY <1>6
  <2>3. [i \in 1 .. 7 |-> s[i]] = <<s[1], s[2], s[3], s[4], s[5], s[6], s[7]>>
    OBVIOUS
  <2> QED BY <2>1, <2>2, <2>3
<1>10. StringAt(s, place[1 - 1]) = c.client_id
  <2>1. 1 \in 1 .. n
    BY <1>4, <1>7
  <2> QED BY <1>2, <1>6, <2>1
<1>11. (IF Bit(f, 4) = 1 THEN <<will>> ELSE <<>>) = c.will
  <2>1. CASE HasWill(c)
    <3>1. w = 1 /\ 2 \in 1 .. n /\ 3 \in 1 .. n
      BY <1>4, <1>7, <2>1
    <3>2. StringAt(s, place[2 - 1]) = Topic(c) /\ StringAt(s, place[3 - 1]) = Payload(c)
      BY <1>2, <1>6, <2>1, <3>1
    <3>3. c.will[1] \in Will /\ c.will = <<c.will[1]>>
      BY <2>1, WillIs DEF IsConnect, HasWill
    <3>4. Topic(c) = c.will[1].topic /\ Payload(c) = c.will[1].payload
      BY <2>1 DEF Topic, Payload
    <3> DEFINE v == c.will[1]
    <3> HIDE DEF v
    <3>5. v.retained \in BOOLEAN
      BY <3>3 DEF Will, v
    <3>6. (Bit(f, 32) = 1) = v.retained
      BY <1>3, <2>1, <3>5 DEF One, v
    <3>7. (f \div 8) % 4 = v.qos
      BY <1>3, <2>1 DEF v
    <3>8. v = [topic |-> v.topic, payload |-> v.payload, qos |-> v.qos, retained |-> v.retained]
      BY <3>3 DEF Will, v
    <3>9. will = v
      BY <3>2, <3>4, <3>6, <3>7, <3>8 DEF v
    <3> QED BY <1>3, <3>1, <3>3, <3>9 DEF v
  <2>2. CASE ~HasWill(c)
    <3>1. w # 1 /\ c.will = <<>>
      BY <1>4, <2>2 DEF HasWill
    <3> QED BY <1>3, <3>1
  <2> QED BY <2>1, <2>2
<1>12. (IF Bit(f, 128) = 1 THEN StringAt(s, place[(2 + 2 * w) - 1]) ELSE <<>>) = c.username
  <2>1. CASE HasUser(c)
    <3>1. u = 1 /\ 2 + 2 * w \in 1 .. n
      BY <1>4, <1>7, <2>1
    <3> QED BY <1>2, <1>3, <1>6, <2>1, <3>1
  <2>2. CASE ~HasUser(c)
    <3>1. u # 1 /\ c.username = <<>>
      BY <1>4, <2>2 DEF HasUser
    <3> QED BY <1>3, <3>1
  <2> QED BY <2>1, <2>2
<1>13. (IF Bit(f, 64) = 1 THEN StringAt(s, place[((2 + 2 * w) + 1) - 1]) ELSE <<>>) = c.password
  <2>1. CASE HasPassword(c)
    <3>1. p = 1 /\ u = 1 /\ 3 + 2 * w \in 1 .. n /\ (2 + 2 * w) + 1 = 3 + 2 * w
      BY <1>4, <1>7, <2>1, ConnectParts
    <3> QED BY <1>2, <1>3, <1>6, <2>1, <3>1
  <2>2. CASE ~HasPassword(c)
    <3>1. p # 1 /\ c.password = <<>>
      BY <1>4, <2>2 DEF HasPassword
    <3> QED BY <1>3, <3>1
  <2> QED BY <2>1, <2>2
<1>14. Bit(f, 64) = 1 => Bit(f, 128) = 1
  BY <1>3, <1>4, ConnectParts
<1>15. ~(Bit(f, 1) = 1) /\ (Bit(f, 2) = 1) = c.clean_session
  BY <1>3, <1>4 DEF IsConnect
<1>16. 1 + 2 * Bit(f, 4) + Bit(f, 128) + Bit(f, 64) = n
  BY <1>3, <1>7
<1>17. ReadsConnect(c, s)
  <2> DEFINE b == s[8]
             m == 1 + 2 * Bit(b, 4) + Bit(b, 128) + Bit(b, 64)
             at == Places(s, 11, m, 0)
             k == 2 + 2 * Bit(b, 4)
  <2>1. b = f /\ m = n /\ k = 2 + 2 * w
    BY <1>3, <1>8, <1>16
  <2>2. at = place
    BY <2>1 DEF place
  <2> HIDE DEF at, m, k, b, place
  <2>3. ~(Bit(b, 1) = 1) /\ (Bit(b, 64) = 1 => Bit(b, 128) = 1) /\ (Bit(b, 2) = 1) = c.clean_session
    BY <1>14, <1>15, <2>1
  <2>4. at[m] = Len(s) + 1 /\ StringAt(s, at[1 - 1]) = c.client_id
    BY <1>6, <1>10, <2>1, <2>2
  <2>5. (IF Bit(b, 4) = 1
         THEN <<[topic |-> StringAt(s, at[2 - 1]), payload |-> StringAt(s, at[3 - 1]),
                 qos |-> (b \div 8) % 4, retained |-> Bit(b, 32) = 1]>>
         ELSE <<>>) = c.will
    BY <1>11, <2>1, <2>2, Zenon
  <2>6. (IF Bit(b, 128) = 1 THEN StringAt(s, at[k - 1]) ELSE <<>>) = c.username
    BY <1>12, <2>1, <2>2, Zenon
  <2>7. (IF Bit(b, 64) = 1 THEN StringAt(s, at[(k + 1) - 1]) ELSE <<>>) = c.password
    BY <1>13, <2>1, <2>2, Zenon
  <2> QED BY <1>8, <1>9, <2>3, <2>4, <2>5, <2>6, <2>7, Zenon DEF ReadsConnect, Bit, at, m, k, b
<1> QED BY <1>17 DEF s, h, x

LEMMA ConnectRight ==
  ASSUME NEW c, IsConnect(c), NEW room \in Nat
  PROVE  Right(c, EncodeCall(c, room), room)
<1> DEFINE h == ConnectHead(c)
           x == Strings5(c)
           body == Row(h, x, 0)
           user == HasUser(c)
           password == HasPassword(c)
           rem == 10 + Len(c.client_id) + 2 + Total(Each(c.will, WillLength))
                  + (IF user THEN Len(c.username) + 2 ELSE 0)
                  + (IF password THEN Len(c.password) + 2 ELSE 0)
           whole == h \o WriteString(c.client_id) \o Concat(Each(c.will, WillFields))
                    \o (IF user THEN WriteString(c.username) ELSE <<>>)
                    \o (IF password THEN WriteString(c.password) ELSE <<>>)
<1>1. c.type = "CONNECT"
  BY DEF IsConnect
<1>2. h \in Seq(Int) /\ Len(h) = 10
  BY HeadIs
<1>3. \A r : EncodeCall(c, r) = Encode(Header(c.type, 0), rem, whole, r)
  <2>1. \A r : EncodeCall(c, r) = EncodeConnect(c, r)
    BY <1>1, Zenon DEF EncodeCall
  <2>2. \A r : EncodeConnect(c, r) = Encode(Header("CONNECT", 0), rem, whole, r)
    BY SMTT(30) DEF EncodeConnect, ConnectHead, ConnectFlags, HasUser, HasPassword
  <2> HIDE DEF rem, whole
  <2> QED BY <1>1, <2>1, <2>2, Zenon
<1>4. body = whole /\ Len(body) = rem
  BY <1>2, ConnectRow
<1>5. body \in Seq(Int) /\ Len(body) \in Nat /\ Len(body) <= 10 + 5 * 65538
  <2>1. x \in Seq(Filter) /\ Len(x) \in 0 .. 5
    <3>1. /\ One(HasWill(c)) \in 0 .. 1 /\ One(HasUser(c)) \in 0 .. 1 /\ One(HasPassword(c)) \in 0 .. 1
      BY DEF One
    <3>2. x \in Seq(Filter) /\ Len(x) = 1 + 2 * One(HasWill(c)) + One(HasUser(c)) + One(HasPassword(c))
      BY StringsAre
    <3> HIDE DEF x
    <3> QED BY <3>1, <3>2
  <2> HIDE DEF h, x
  <2>2. RowIs(body, h, x, 0)
    BY <1>2, <2>1, RowRead
  <2> HIDE DEF body
  <2>3. body \in Seq(Int) /\ Len(body) <= Len(h) + Len(x) * 65538 /\ Len(body) \in Nat
    BY <2>2 DEF RowIs
  <2> DEFINE n == Len(x)
             m == Len(body)
  <2>4. n \in 0 .. 5 /\ m <= 10 + n * 65538 /\ m \in Nat
    BY <1>2, <2>1, <2>3
  <2> HIDE DEF n, m
  <2>5. m <= 10 + 5 * 65538
    BY <2>4
  <2> QED BY <2>3, <2>5 DEF m
<1> HIDE DEF rem, whole, body
<1>6. ReadsBody(c, 0, body)
  <2>1. ReadsConnect(c, body)
    BY ConnectRead DEF body
  <2> QED BY <1>1, <2>1 DEF ReadsBody
<1>7. Follows(c) = 0 /\ c.type \in DOMAIN Code
  BY <1>1 DEF Follows, Code
<1>8. Len(body) + Follows(c) = Len(body)
  BY <1>5, <1>7
<1>9. ~(Len(body) >= VarnumLimit)
  BY <1>5, SMT DEF VarnumLimit
<1>10. Packs(c, 0, body)
  BY <1>3, <1>4, <1>6, <1>8, <1>9, Zenon DEF Packs
<1>11. 0 \in 0 .. 15 /\ Follows(c) \in Nat
  BY <1>7
<1> HIDE DEF h, x
<1> QED BY <1>5, <1>7, <1>10, <1>11, PackedRight

\* Every call that lwmqtt takes is encoded so that the broker reads it as it was
\* made, whatever the strings and the size of the write buffer.
THEOREM CallsAreRead ==
  ASSUME NEW c \in Calls, NEW room \in Nat
  PROVE  Right(c, EncodeCall(c, room), room)
<1>1. CASE c \in ConnectCalls
  <2>1. /\ c.type = "CONNECT" /\ c.client_id \in ByteString /\ c.clean_session \in BOOLEAN
        /\ c.keep_alive \in UInt16 /\ c.will \in Wills /\ c.username \in ByteString /\ c.password \in ByteString
    BY <1>1 DEF ConnectCalls
  <2>2. c.will \in Seq(Will) /\ Len(c.will) <= 1
    BY <2>1, Zenon DEF Wills
  <2>3. IsConnect(c)
    BY <2>1, <2>2, Zenon DEF IsConnect
  <2> QED BY <2>3, ConnectRight
<1>2. CASE c \in PublishCalls
  BY <1>2, PublishRight DEF PublishCalls
<1>3. CASE c \in FilterCalls
  <2>1. c.type \in {"SUBSCRIBE", "UNSUBSCRIBE"} /\ c.id \in UInt16 /\ c.filters \in Seq(Filter)
    BY <1>3 DEF FilterCalls
  <2> QED BY <2>1, SubscribeRight, UnsubscribeRight
<1>4. CASE c \in Replies
  <2>1. c.type \in {"PUBACK", "PUBREC", "PUBREL", "PUBCOMP"} /\ c.id \in UInt16
    BY <1>4 DEF Replies
  <2> QED BY <2>1, AckRight
<1>5. CASE c \in [type : {"PINGREQ"}]
  <2>1. c.type = "PINGREQ"
    BY <1>5
  <2> QED BY <2>1, PingreqRight
<1> QED BY <1>1, <1>2, <1>3, <1>4, <1>5 DEF Calls

-----------------------------------------------------------------------------
(***************************************************************************)
(* What a client writes is such a call: a request, a ping, or the reply to *)
(* a packet whose id was read from two bytes.                              *)
(***************************************************************************)
LEMMA TwoBytes ==
  ASSUME NEW a \in 0 .. 255, NEW b \in 0 .. 255
  PROVE  256 * a + b \in UInt16
<1> DEFINE n == 256 * a + b
           m == 65535
<1>1. n \in Nat /\ n <= m /\ m \in Nat
  BY SMTT(30)
<1>2. UInt16 = 0 .. m
  BY DEF UInt16
<1> HIDE DEF n, m
<1>3. n \in UInt16
  BY <1>1, <1>2
<1> QED BY <1>3 DEF n

LEMMA NumIsRead ==
  ASSUME NEW buf \in Seq(Byte), NEW at \in Nat \ {0}, at + 1 <= Len(buf)
  PROVE  ReadNum(buf, at) \in UInt16
<1> DEFINE a == buf[at]
           b == buf[at + 1]
<1>1. a \in Byte /\ b \in Byte
  BY SMTT(30)
<1> HIDE DEF a, b
<1>2. 256 * a + b \in UInt16
  BY <1>1, TwoBytes DEF Byte
<1> QED BY <1>2, Zenon DEF ReadNum, a, b

LEMMA ByteSeq ==
  ASSUME NEW buf \in Seq(Byte)
  PROVE  buf \in Seq(Nat)
<1>1. Byte \subseteq Nat
  BY DEF Byte
<1> QED BY <1>1, WiderSeq

LEMMA AckId ==
  ASSUME NEW buf \in Seq(Byte), NEW type, DecodeAck(buf, type).err = "SUCCESS"
  PROVE  DecodeAck(buf, type).id \in UInt16
<1> DEFINE begins == Begins(buf, type, {IF type = "PUBREL" THEN 2 ELSE 0}, {2})
           r == ReadVarnum(buf, 2)
<1>1. DecodeAck(buf, type) = IF begins # "SUCCESS" THEN Error(begins)
                             ELSE IF Len(buf) < r.next + 1 THEN Error("BUFFER_TOO_SHORT")
                             ELSE [err |-> "SUCCESS", id |-> ReadNum(buf, r.next)]
  BY Zenon DEF DecodeAck
<1>2. begins = "SUCCESS" => r.err = "SUCCESS"
  BY Zenon DEF Begins
<1>3. r.err = "SUCCESS" => r.next \in Nat \ 0 .. 2
  BY ByteSeq, VarnumRead
<1> HIDE DEF begins, r
<1>4. begins = "SUCCESS"
  BY <1>1 DEF Error
<1>5. ~(Len(buf) < r.next + 1) /\ DecodeAck(buf, type).id = ReadNum(buf, r.next)
  BY <1>1, <1>4 DEF Error
<1>6. r.next \in Nat \ {0} /\ r.next + 1 <= Len(buf)
  BY <1>2, <1>3, <1>4, <1>5
<1> QED BY <1>5, <1>6, NumIsRead

LEMMA PublishId ==
  ASSUME NEW buf \in Seq(Byte), DecodePublish(buf).err = "SUCCESS", DecodePublish(buf).qos \in 1 .. 2
  PROVE  DecodePublish(buf).id \in UInt16
<1> DEFINE r == ReadVarnum(buf, 2)
           last == r.next + r.num - 1
           qos == ReadBits(buf[1], 2, 8)
           topic == r.next + 2
           rest == topic + ReadNum(buf, r.next)
           payload == IF qos > 0 THEN rest + 2 ELSE rest
           id == IF qos > 0 THEN ReadNum(buf, rest) ELSE 0
           flags == {f \in 0 .. 15 : ReadBits(f, 2, 8) # 3}
           begins == Begins(buf, "PUBLISH", flags, Nat \ 0 .. 1)
           d == [err |-> "SUCCESS", qos |-> qos, id |-> id, dup |-> ReadBits(buf[1], 8, 16) = 1,
                 retained |-> ReadBits(buf[1], 1, 2) = 1,
                 topic |-> SubSeq(buf, topic, rest - 1), payload |-> SubSeq(buf, payload, last)]
<1> HIDE DEF r, last, qos, topic, rest, payload, id, flags, begins
<1>1. DecodePublish(buf) =
        IF begins # "SUCCESS" THEN Error(begins)
        ELSE IF Len(buf) < last \/ payload > last + 1 THEN Error("BUFFER_TOO_SHORT")
        ELSE IF qos > 0 /\ id = 0 THEN Error("MISSING_OR_WRONG_PACKET")
        ELSE d
  BY Zenon DEF DecodePublish, r, last, qos, topic, rest, payload, id, flags, begins, PublishEnd
<1>2. begins = "SUCCESS"
  BY <1>1 DEF Error
<1>3. ~(Len(buf) < last) /\ ~(payload > last + 1) /\ DecodePublish(buf) = d
  BY <1>1, <1>2 DEF Error
<1>4. qos \in 1 .. 2 /\ DecodePublish(buf).id = id
  BY <1>3
<1>5. r.err = "SUCCESS" /\ r.num \in Nat \ 0 .. 1
  BY <1>2, Zenon DEF begins, Begins, r
<1>6. r.num \in Nat /\ r.next \in Nat /\ r.next > 2
  <2>1. 2 \in Nat \ {0} /\ buf \in Seq(Nat)
    BY ByteSeq
  <2>2. r.num \in Nat /\ r.next \in Nat \ 0 .. 2
    BY <1>5, <2>1, VarnumRead, Zenon DEF r
  <2> QED BY <2>2
<1> DEFINE next == r.next
           num == r.num
           n == ReadNum(buf, next)
<1>7. next \in Nat /\ next > 2 /\ num \in Nat /\ num >= 2 /\ last = next + num - 1 /\ Len(buf) \in Nat
  <2>1. num >= 2
    <3>1. r.num \notin 0 .. 1 /\ r.num \in Nat
      BY <1>5, <1>6, Zenon
    <3> QED BY <3>1
  <2>2. last = next + num - 1
    BY DEF last
  <2> QED BY <1>6, <2>1, <2>2
<1> HIDE DEF next, num
<1>8. n \in UInt16
  <2>1. next \in Nat \ {0} /\ next + 1 <= Len(buf)
    BY <1>3, <1>7
  <2> QED BY <2>1, NumIsRead
<1>9. n \in Nat
  BY <1>8, SmallNat, Zenon
<1>10. rest = next + 2 + n /\ payload = rest + 2 /\ id = ReadNum(buf, rest)
  <2>1. rest = next + 2 + n
    BY DEF rest, topic, next
  <2> QED BY <1>4, <2>1 DEF payload, id
<1> HIDE DEF n
<1>11. rest \in Nat \ {0} /\ rest + 1 <= Len(buf)
  BY <1>3, <1>7, <1>9, <1>10
<1> QED BY <1>4, <1>10, <1>11, NumIsRead

LEMMA ReplyIsCall ==
  ASSUME NEW buf \in Seq(Byte), NEW type, Decoded(type, buf).err = "SUCCESS",
         Reply(type, Decoded(type, buf)).type # "none"
  PROVE  Reply(type, Decoded(type, buf)) \in Calls
<1> DEFINE d == Decoded(type, buf)
           reply == Reply(type, d)
<1>1. CASE type = "PUBLISH"
  <2>1. d = DecodePublish(buf)
    BY <1>1, Zenon DEF Decoded
  <2>2. CASE d.qos = 1
    <3>1. d.id \in UInt16
      <4>1. d.qos \in 1 .. 2
        BY <2>2
      <4> HIDE DEF d
      <4>2. DecodePublish(buf).err = "SUCCESS"
        BY <2>1 DEF d
      <4> QED BY <2>1, <4>1, <4>2, PublishId
    <3> HIDE DEF d
    <3>2. reply = [type |-> "PUBACK", id |-> d.id]
      BY <1>1, <2>2 DEF Reply
    <3>3. reply \in Replies
      BY <3>1, <3>2 DEF Replies
    <3> QED BY <3>3 DEF Calls, d
  <2>3. CASE d.qos = 2
    <3>1. d.id \in UInt16
      <4>1. d.qos \in 1 .. 2
        BY <2>3
      <4> HIDE DEF d
      <4>2. DecodePublish(buf).err = "SUCCESS"
        BY <2>1 DEF d
      <4> QED BY <2>1, <4>1, <4>2, PublishId
    <3> HIDE DEF d
    <3>2. reply = [type |-> "PUBREC", id |-> d.id]
      BY <1>1, <2>3 DEF Reply
    <3>3. reply \in Replies
      BY <3>1, <3>2 DEF Replies
    <3> QED BY <3>3 DEF Calls, d
  <2>4. CASE d.qos # 1 /\ d.qos # 2
    <3> HIDE DEF d
    <3>1. reply = NoCall
      BY <1>1, <2>4 DEF Reply
    <3>2. reply.type # "none"
      BY DEF d
    <3> QED BY <3>1, <3>2 DEF NoCall
  <2> QED BY <2>2, <2>3, <2>4
<1>2. CASE type \in {"PUBREC", "PUBREL"}
  <2>1. d = DecodeAck(buf, type)
    BY <1>2 DEF Decoded
  <2>2. d.id \in UInt16
    BY <2>1, AckId
  <2> HIDE DEF d
  <2>3. reply = [type |-> IF type = "PUBREC" THEN "PUBREL" ELSE "PUBCOMP", id |-> d.id]
    BY <1>2 DEF Reply
  <2>4. reply \in Replies
    BY <2>2, <2>3 DEF Replies
  <2> QED BY <2>4 DEF Calls, d
<1>3. CASE type \notin {"PUBLISH", "PUBREC", "PUBREL"}
  <2> HIDE DEF d
  <2>1. reply = NoCall
    BY <1>3 DEF Reply
  <2>2. reply.type # "none"
    BY DEF d
  <2> QED BY <2>1, <2>2 DEF NoCall
<1> QED BY <1>1, <1>2, <1>3

Writes == UNCHANGED written \/ \E c \in Calls : Write(c)

LEMMA CompleteWrites ==
  ASSUME NEW buf \in Seq(Byte), NEW type, NEW length, Complete(type, length, buf)
  PROVE  Writes
<1> DEFINE d == Decoded(type, buf)
           reply == Reply(type, d)
<1>1. CASE call.type # "yield" /\ type = NeedleOf(call.of)
  BY <1>1, Zenon DEF Complete, TakeAnswer, Writes
<1>2. CASE ~(call.type # "yield" /\ type = NeedleOf(call.of))
  <2>1. Handle(type, length, buf)
    BY <1>2, Zenon DEF Complete
  <2>2. UNCHANGED written \/ (d.err = "SUCCESS" /\ reply.type # "none" /\ Write(reply))
    <3> HIDE DEF d
    <3>1. CASE d.err # "SUCCESS"
      BY <2>1, <3>1 DEF Handle, d
    <3>2. CASE d.err = "SUCCESS" /\ reply.type = "none"
      BY <2>1, <3>2, Zenon DEF Handle, d
    <3>3. CASE d.err = "SUCCESS" /\ reply.type # "none"
      BY <2>1, <3>3, Zenon DEF Handle, d
    <3> QED BY <3>1, <3>2, <3>3
  <2>3. d.err = "SUCCESS" /\ reply.type # "none" => reply \in Calls
    BY ReplyIsCall
  <2> HIDE DEF reply
  <2> QED BY <2>2, <2>3, Zenon DEF Writes
<1> QED BY <1>1, <1>2

LEMMA ReadWrites ==
  ASSUME Read, read_buf' \in [1 .. ReadSize -> Byte], call.type # "none" => Field(call)
  PROVE  Writes
<1> DEFINE drain == call.field = "drain"
           wanted == IF drain THEN Min({call.missing, ReadSize}) ELSE call.missing
           n == Min({wanted, Readable - taken})
           at == IF drain THEN 0 ELSE call.got
           b == SubSeq(read_buf, 1, at) \o SubSeq(wire, taken + 1, taken + n)
                  \o SubSeq(read_buf, at + n + 1, ReadSize)
<1>1. /\ call.type # "none" /\ read_buf' = b
      /\ IF n < call.missing
         THEN /\ call' = [call EXCEPT !.got = IF drain THEN @ ELSE @ + n, !.missing = @ - n]
              /\ UNCHANGED loop /\ Keeps
         ELSE CASE call.field = "header" -> HeaderRead(b)
                [] call.field = "length" -> LengthRead(call.got + 1, b)
                [] call.field = "rest"   -> Complete(call.packet, call.got + n, b)
                [] call.field = "drain"  -> Dropped
  BY Zenon DEF Read
<1> HIDE DEF n, at, b
<1>2. b \in Seq(Byte)
  <2>1. ReadSize \in Nat
    BY SizeAssumption
  <2>2. b \in [1 .. ReadSize -> Byte]
    BY <1>1
  <2> QED BY <2>1, <2>2
<1>3. Keeps \/ Malformed => Writes
  BY Zenon DEF Keeps, Malformed, Writes
<1>4. ASSUME NEW field, NEW type, NEW length, NEW missing, Ask(field, type, length, missing)
      PROVE  Writes
  BY <1>3, <1>4, Zenon DEF Ask
<1>5. CASE n < call.missing
  BY <1>1, <1>3, <1>5, Zenon
<1>6. CASE ~(n < call.missing)
  <2>1. CASE call.field = "header"
    <3>1. HeaderRead(b)
      BY <1>1, <1>6, <2>1
    <3> QED BY <1>3, <1>4, <3>1, Zenon DEF HeaderRead
  <2>2. CASE call.field = "length"
    <3> DEFINE m == call.got + 1
               e == DetectRemainingLength(SubSeq(b, 1, m), 2)
    <3>1. LengthRead(m, b)
      BY <1>1, <1>6, <2>2
    <3> HIDE DEF m
    <3>2. \/ Ask("length", call.packet, m, 1) \/ Malformed \/ Drain(e.num)
          \/ Ask("rest", call.packet, m, e.num) \/ Complete(call.packet, m, b)
      BY <3>1, Zenon DEF LengthRead
    <3>3. Drain(e.num) => Writes
      BY <1>3, Zenon DEF Drain
    <3>4. Complete(call.packet, m, b) => Writes
      BY <1>2, CompleteWrites
    <3> HIDE DEF e
    <3> QED BY <1>3, <1>4, <3>2, <3>3, <3>4, Zenon
  <2>3. CASE call.field = "rest"
    <3>1. Complete(call.packet, call.got + n, b)
      BY <1>1, <1>6, <2>3
    <3> QED BY <1>2, <3>1, CompleteWrites
  <2>4. CASE call.field = "drain"
    <3>1. Dropped
      BY <1>1, <1>6, <2>4
    <3> QED BY <3>1, Zenon DEF Dropped, Writes
  <2> QED BY <1>1, <2>1, <2>2, <2>3, <2>4 DEF Field
<1> QED BY <1>5, <1>6

LEMMA NextWrites ==
  ASSUME IInv, IInv', [Next]_vars
  PROVE  Writes /\ setting' = setting
<1>1. ASSUME Request PROVE Writes
  <2>1. request.type # "none" /\ Write(request)
    BY <1>1, Zenon DEF Request
  <2>2. request = setting.request /\ setting \in Scenarios
    BY <2>1 DEF IInv, Calling, Streaming, NoCall
  <2>3. request \in Calls
    BY <2>1, <2>2, ScenarioAssumption, Zenon
  <2> QED BY <2>1, <2>3, Zenon DEF Writes
<1>2. ASSUME Ping PROVE Writes
  <2>1. UNCHANGED written \/ Write([type |-> "PINGREQ"])
    BY <1>2, Zenon DEF Ping
  <2>2. [type |-> "PINGREQ"] \in Calls
    <3>1. [type |-> "PINGREQ"] \in [type : {"PINGREQ"}]
      OBVIOUS
    <3> QED BY <3>1, Zenon DEF Calls
  <2> QED BY <2>1, <2>2, Zenon DEF Writes
<1>3. ASSUME Read PROVE Writes
  <2>1. read_buf' \in [1 .. ReadSize -> Byte] /\ (call.type # "none" => Field(call))
    BY Zenon DEF IInv, Storing, Calling
  <2> QED BY <1>3, <2>1, ReadWrites
<1>4. ASSUME Arrive \/ BrokerCloses \/ TimeOut \/ ReadEnd \/ Select \/ Peek \/ NothingAvailable
             \/ NoPingDue \/ PublishFails \/ Close \/ UNCHANGED vars
      PROVE  UNCHANGED written
  BY <1>4, Zenon DEF Arrive, BrokerCloses, TimeOut, ReadEnd, NoMore, Select, Peek, NothingAvailable,
                     NoPingDue, PublishFails, Close, vars
<1>5. Writes
  BY <1>1, <1>2, <1>3, <1>4, Zenon DEF Next, Reading, Loop, Writes
<1>6. setting' = setting
  BY Zenon DEF Next, Reading, Loop, Arrive, BrokerCloses, Request, Read, TimeOut, ReadEnd, NoMore, Select,
               Peek, NothingAvailable, NoPingDue, Ping, PublishFails, Close, vars
<1> QED BY <1>5, <1>6

\* The last packet written is the encoding of a call for the client's write buffer.
WrittenEncoded ==
  written.call.type # "none" =>
    written.call \in Calls /\ written.out = EncodeCall(written.call, setting.room)

\* Everything a client writes, whoever asks for it and whatever packet it answers,
\* is what the broker reads as the call that was made, or is refused for its size
\* (packet.c's encoders, called from client.c).
THEOREM PacketsEncoded == Spec => []Encoded
<1>1. Init => WrittenEncoded
  BY DEF Init, WrittenEncoded, NoCall
<1>2. IInv /\ IInv' /\ WrittenEncoded /\ [Next]_vars => WrittenEncoded'
  <2> SUFFICES ASSUME IInv, IInv', WrittenEncoded, [Next]_vars PROVE WrittenEncoded'
    OBVIOUS
  <2>1. setting' = setting
    BY NextWrites
  <2>2. CASE UNCHANGED written
    BY <2>1, <2>2 DEF WrittenEncoded
  <2>3. ASSUME NEW c \in Calls, Write(c) PROVE WrittenEncoded'
    <3> DEFINE out == EncodeCall(c, setting.room)
    <3>1. written' = [call |-> c, out |-> out]
      BY <2>3, Zenon DEF Write
    <3> HIDE DEF out
    <3>2. written'.call = c /\ written'.out = out
      BY <3>1
    <3> QED BY <2>1, <3>2, Zenon DEF WrittenEncoded, out
  <2> QED BY <2>2, <2>3, NextWrites DEF Writes
<1>3. IInv /\ WrittenEncoded => Encoded
  <2> SUFFICES ASSUME IInv, WrittenEncoded, written.call.type # "none"
               PROVE  Right(written.call, written.out, setting.room)
    BY Zenon DEF Encoded, Right
  <2>1. setting.room \in Nat
    BY ScenarioAssumption, Zenon DEF IInv, Streaming
  <2>2. written.call \in Calls /\ written.out = EncodeCall(written.call, setting.room)
    BY Zenon DEF WrittenEncoded
  <2> QED BY <2>1, <2>2, CallsAreRead, Zenon
<1> QED BY <1>1, <1>2, <1>3, IInvHolds, PTL DEF Spec

-----------------------------------------------------------------------------
(***************************************************************************)
(* Packets that come back: what the decoders make of them in a buffer.     *)
(***************************************************************************)
LEMMA LiesOn ==
  ASSUME NEW a \in Seq(Int), NEW b \in Seq(Int), NEW x \in Seq(Int), NEW at \in Nat \ {0}, LiesAt(x, a, at)
  PROVE  LiesAt(x, a \o b, at)
<1> DEFINE s == a \o b
           m == Len(a)
<1>1. s \in Seq(Int) /\ Joined(s, a, b)
  BY Join, Zenon
<1>2. m \in Nat /\ Len(b) \in Nat /\ Len(x) \in Nat
  OBVIOUS
<1>3. Len(s) = m + Len(b) /\ \A i \in 1 .. m : s[i] = a[i]
  BY <1>1 DEF Joined
<1>4. at + Len(x) - 1 <= m /\ \A i \in 1 .. Len(x) : a[at + i - 1] = x[i]
  BY DEF LiesAt
<1> HIDE DEF s, m
<1>5. LiesAt(x, s, at)
  <2>1. at + Len(x) - 1 <= Len(s)
    BY <1>2, <1>3, <1>4
  <2>2. ASSUME NEW i \in 1 .. Len(x) PROVE s[at + i - 1] = x[i]
    <3>1. at + i - 1 \in 1 .. m
      <4> DEFINE l == Len(x)
      <4>1. l \in Nat /\ at + l - 1 <= m /\ i \in 1 .. l
        BY <1>2, <1>4
      <4> HIDE DEF l
      <4> QED BY <1>2, <4>1
    <3> QED BY <1>3, <1>4, <3>1
  <2> QED BY <2>1, <2>2 DEF LiesAt
<1> QED BY <1>5 DEF s

\* The second of two sequences lies behind the first.
LEMMA LiesSecond ==
  ASSUME NEW a \in Seq(Int), NEW b \in Seq(Int)
  PROVE  LiesAt(b, a \o b, Len(a) + 1)
<1>1. LiesAt(b, b, 1)
  BY DEF LiesAt
<1> QED BY <1>1, LiesBehind

\* What lies in a sequence is cut out of it.
LEMMA CutOut ==
  ASSUME NEW x \in Seq(Int), NEW s \in Seq(Int), NEW at \in Nat \ {0}, LiesAt(x, s, at)
  PROVE  SubSeq(s, at, at + Len(x) - 1) = x
<1> DEFINE n == Len(x)
<1>1. n \in Nat /\ x = [i \in 1 .. n |-> x[i]]
  OBVIOUS
<1>2. \A i \in 1 .. n : s[at + i - 1] = x[i]
  BY DEF LiesAt
<1> HIDE DEF n
<1>3. SubSeq(s, at, at + n - 1) = [i \in 1 .. n |-> s[at + i - 1]]
  <2> DEFINE p == at + n - 1
  <2>1. p \in Int /\ p - at + 1 = n
    BY <1>1
  <2> HIDE DEF p
  <2>2. SubSeq(s, at, p) = [i \in 1 .. p - at + 1 |-> s[at + i - 1]]
    BY <2>1
  <2> QED BY <2>1, <2>2 DEF p
<1>4. SubSeq(s, at, at + n - 1) = x
  BY <1>1, <1>2, <1>3
<1> QED BY <1>4 DEF n

LEMMA VarnumSize ==
  ASSUME NEW n \in Nat, n < VarnumLimit
  PROVE  WriteVarnum(n) \in Seq(Int) /\ Len(WriteVarnum(n)) \in 1 .. 4
<1>1. WriteVarnum(n) \in Seq(Int) /\ Len(WriteVarnum(n)) = VarnumLen(n)
  BY WrittenLen
<1>2. VarnumLen(n) \in 1 .. 4
  BY SMT DEF VarnumLen
<1> QED BY <1>1, <1>2

\* What an encoder returns unless it fails.
LEMMA EncodedPacket ==
  ASSUME NEW h, NEW rem \in Nat, NEW body, NEW room, Encode(h, rem, body, room).err = "SUCCESS"
  PROVE  rem < VarnumLimit /\ Encode(h, rem, body, room).packet = <<h>> \o WriteVarnum(rem) \o body
<1> DEFINE packet == <<h>> \o WriteVarnum(rem) \o body
           e == Encode(h, rem, body, room)
           long == rem >= VarnumLimit
           short == Len(packet) > room
<1>1. e = IF long THEN Error("REMAINING_LENGTH_OVERFLOW")
          ELSE IF short THEN Error("BUFFER_TOO_SHORT") ELSE [err |-> "SUCCESS", packet |-> packet]
  BY Zenon DEF Encode
<1>2. ~long => rem < VarnumLimit
  BY SMT DEF VarnumLimit
<1> HIDE DEF packet, e, long, short
<1>3. e.err = "SUCCESS" => ~long /\ e.packet = packet
  BY <1>1 DEF Error
<1> QED BY <1>2, <1>3, Zenon DEF e, packet

\* A packet as its bytes lie in the read buffer, "front" being the places before
\* its body.
InBuffer(buf, h, rem, body) ==
  /\ buf \in Seq(Int) /\ buf[1] = h
  /\ ReadVarnum(buf, 2) = [err |-> "SUCCESS", num |-> rem, next |-> 2 + Len(WriteVarnum(rem))]
  /\ LiesAt(body, buf, 2 + Len(WriteVarnum(rem)))

LEMMA PacketLies ==
  ASSUME NEW h \in Int, NEW rem \in Nat, rem < VarnumLimit, NEW body \in Seq(Int), NEW old \in Seq(Int)
  PROVE  InBuffer(<<h>> \o WriteVarnum(rem) \o body \o old, h, rem, body)
<1> DEFINE one == <<h>>
           v == WriteVarnum(rem)
           front == one \o v
           packet == front \o body
           buf == packet \o old
<1>1. v \in Seq(Int) /\ Len(v) \in Nat
  BY WrittenLen
<1>2. one \in Seq(Int) /\ Len(one) = 1 /\ one[1] = h
  OBVIOUS
<1> HIDE DEF one, v
<1>3. front \in Seq(Int) /\ Len(front) = 1 + Len(v) /\ LiesAt(one, front, 1) /\ LiesAt(v, front, 1 + 1)
  <2>1. front \in Seq(Int) /\ Len(front) = 1 + Len(v)
    <3>1. front \in Seq(Int) /\ Joined(front, one, v)
      BY <1>1, <1>2, Join, Zenon
    <3> HIDE DEF front
    <3> QED BY <1>2, <3>1 DEF Joined
  <2>2. LiesAt(one, front, 1)
    BY <1>1, <1>2, LiesFirst, Zenon
  <2>3. LiesAt(v, front, Len(one) + 1)
    BY <1>1, <1>2, LiesSecond, Zenon
  <2> QED BY <1>2, <2>1, <2>2, <2>3, Zenon
<1> HIDE DEF front
<1>4. 1 \in Nat \ {0} /\ 1 + 1 \in Nat \ {0} /\ Len(front) + 1 \in Nat \ {0}
  BY <1>1, <1>3
<1>5. /\ packet \in Seq(Int) /\ LiesAt(one, packet, 1) /\ LiesAt(v, packet, 1 + 1)
      /\ LiesAt(body, packet, Len(front) + 1)
  <2>1. packet \in Seq(Int)
    BY <1>3
  <2>2. LiesAt(body, packet, Len(front) + 1)
    BY <1>3, LiesSecond, Zenon
  <2>3. LiesAt(one, packet, 1)
    BY <1>2, <1>3, <1>4, LiesOn, Zenon
  <2>4. LiesAt(v, packet, 1 + 1)
    BY <1>1, <1>3, <1>4, LiesOn, Zenon
  <2> QED BY <2>1, <2>2, <2>3, <2>4
<1> HIDE DEF packet
<1>6. /\ buf \in Seq(Int) /\ LiesAt(one, buf, 1) /\ LiesAt(v, buf, 1 + 1)
      /\ LiesAt(body, buf, Len(front) + 1)
  <2>1. buf \in Seq(Int)
    BY <1>5
  <2>2. LiesAt(body, buf, Len(front) + 1)
    BY <1>4, <1>5, LiesOn, Zenon
  <2>3. LiesAt(one, buf, 1)
    BY <1>2, <1>4, <1>5, LiesOn, Zenon
  <2>4. LiesAt(v, buf, 1 + 1)
    BY <1>1, <1>4, <1>5, LiesOn, Zenon
  <2> QED BY <2>1, <2>2, <2>3, <2>4
<1> HIDE DEF buf
<1>7. buf[1] = h
  <2>1. buf[1 + 1 - 1] = one[1]
    BY <1>2, <1>6 DEF LiesAt
  <2>2. 1 + 1 - 1 = 1
    OBVIOUS
  <2> QED BY <1>2, <2>1, <2>2, Zenon
<1>8. Len(front) + 1 = 2 + Len(v) /\ 1 + 1 = 2 /\ 2 \in Nat \ {0}
  BY <1>1, <1>3
<1>9. ReadVarnum(buf, 2) = [err |-> "SUCCESS", num |-> rem, next |-> 2 + Len(v)]
  <2>1. LiesAt(WriteVarnum(rem), buf, 2)
    BY <1>6, <1>8, Zenon DEF v
  <2>2. ReadVarnum(buf, 2) = [err |-> "SUCCESS", num |-> rem, next |-> 2 + Len(WriteVarnum(rem))]
    BY <1>6, <1>8, <2>1, VarnumRoundTrip, Zenon
  <2> QED BY <2>2 DEF v
<1>10. LiesAt(body, buf, 2 + Len(v))
  BY <1>6, <1>8, Zenon
<1>11. InBuffer(buf, h, rem, body)
  BY <1>6, <1>7, <1>9, <1>10, Zenon DEF InBuffer, v
<1> QED BY <1>11, Zenon DEF buf, packet, front, one, v

LEMMA LiesWithin ==
  ASSUME NEW x \in Seq(Int), NEW b \in Seq(Int), NEW s \in Seq(Int), NEW at \in Nat \ {0},
         NEW k \in Nat \ {0}, LiesAt(x, b, k), LiesAt(b, s, at)
  PROVE  LiesAt(x, s, at + k - 1) /\ at + k - 1 \in Nat \ {0}
<1> DEFINE l == Len(x)
           m == Len(b)
           n == Len(s)
<1>1. l \in Nat /\ m \in Nat /\ n \in Nat
  OBVIOUS
<1>2. k + l - 1 <= m /\ \A i \in 1 .. l : b[k + i - 1] = x[i]
  BY DEF LiesAt
<1>3. at + m - 1 <= n /\ \A i \in 1 .. m : s[at + i - 1] = b[i]
  BY DEF LiesAt
<1> HIDE DEF l, m, n
<1>4. (at + k - 1) + l - 1 <= n
  BY <1>1, <1>2, <1>3
<1>5. ASSUME NEW i \in 1 .. l PROVE s[(at + k - 1) + i - 1] = x[i]
  <2>1. k + i - 1 \in 1 .. m /\ at + (k + i - 1) - 1 = (at + k - 1) + i - 1
    BY <1>1, <1>2
  <2> QED BY <1>2, <1>3, <2>1
<1>6. LiesAt(x, s, at + k - 1)
  BY <1>4, <1>5 DEF LiesAt, l, n
<1> QED BY <1>6

LEMMA BitOf ==
  ASSUME NEW p \in BOOLEAN
  PROVE  /\ \A w \in Nat : Flag(p, w) = w * One(p)
         /\ Flag(p, 1) = One(p) /\ One(p) \in 0 .. 1 /\ (One(p) = 1) = p
<1>1. CASE p = TRUE
  <2>1. One(p) = 1 /\ \A w \in Nat : Flag(p, w) = w
    BY <1>1 DEF Flag, One
  <2>2. (One(p) = 1) = p
    BY <1>1, <2>1, Zenon
  <2> QED BY <2>1, <2>2
<1>2. CASE p = FALSE
  <2>1. One(p) = 0 /\ \A w \in Nat : Flag(p, w) = 0
    BY <1>2 DEF Flag, One
  <2>2. (One(p) = 1) = p
    <3>1. One(p) # 1
      BY <2>1
    <3> QED BY <1>2, <3>1, Zenon
  <2> QED BY <2>1, <2>2
<1> QED BY <1>1, <1>2

\* The flags of a PUBLISH, as the decoder takes them out of the header.
PublishFlagsOf(c) == Flag(c.dup, 8) + 2 * c.qos + Flag(c.retained, 1)

LEMMA PublishHeader ==
  ASSUME NEW c, c.qos \in 0 .. 2, c.dup \in BOOLEAN, c.retained \in BOOLEAN,
         NEW header, header = Header("PUBLISH", PublishFlagsOf(c))
  PROVE  /\ PublishFlagsOf(c) \in 0 .. 15 /\ ReadBits(PublishFlagsOf(c), 2, 8) # 3 /\ header \in Int
         /\ ReadBits(header, 16, 256) = Code["PUBLISH"] /\ ReadBits(header, 1, 16) = PublishFlagsOf(c)
         /\ ReadBits(header, 2, 8) = c.qos
         /\ (ReadBits(header, 8, 16) = 1) = c.dup /\ (ReadBits(header, 1, 2) = 1) = c.retained
<1> DEFINE d == c.dup
           q == c.qos
           r == c.retained
<1>0. q \in 0 .. 2 /\ d \in BOOLEAN /\ r \in BOOLEAN
  OBVIOUS
<1> HIDE DEF d, q, r
<1> DEFINE flags == Flag(d, 8) + 2 * q + Flag(r, 1)
           h == Header("PUBLISH", flags)
<1> DEFINE x == One(d)
           y == One(r)
<1>1. Flag(d, 8) = 8 * x /\ x \in 0 .. 1 /\ (x = 1) = d
  BY <1>0, BitOf
<1>2. Flag(r, 1) = y /\ y \in 0 .. 1 /\ (y = 1) = r
  BY <1>0, BitOf
<1> HIDE DEF x, y
<1>3. flags = 8 * x + 2 * q + y /\ flags \in 0 .. 15
  BY <1>0, <1>1, <1>2
<1>4. "PUBLISH" \in DOMAIN Code /\ Code["PUBLISH"] = 3
  BY DEF Code
<1>5. h = 48 + 8 * x + 2 * q + y
  BY <1>0, <1>1, <1>2, <1>3, <1>4 DEF Header
<1> HIDE DEF flags
<1>6. h \in Int /\ ReadBits(h, 16, 256) = Code["PUBLISH"] /\ ReadBits(h, 1, 16) = flags
  BY <1>3, <1>4, HeaderBits, SMT
<1> HIDE DEF h
<1>7. /\ ReadBits(flags, 2, 8) = q /\ ReadBits(h, 2, 8) = q
      /\ ReadBits(h, 8, 16) = x /\ ReadBits(h, 1, 2) = y
  BY <1>0, <1>1, <1>2, <1>3, <1>5, SMTT(30) DEF ReadBits
<1>8. ReadBits(flags, 2, 8) # 3
  BY <1>0, <1>7
<1>9. (ReadBits(h, 8, 16) = 1) = d /\ (ReadBits(h, 1, 2) = 1) = r
  BY <1>1, <1>2, <1>7, Zenon
<1>10. PublishFlagsOf(c) = flags
  BY DEF PublishFlagsOf, flags, d, q, r
<1>11. header = h
  BY <1>10, Zenon DEF h
<1> QED BY <1>3, <1>6, <1>7, <1>8, <1>9, <1>10, <1>11, Zenon DEF d, q, r

\* What a PUBLISH with this payload is to a subscriber.
Message(c, payload) ==
  [err |-> "SUCCESS", qos |-> c.qos, id |-> IF c.qos > 0 THEN c.id ELSE 0, dup |-> c.dup,
   retained |-> c.retained, topic |-> c.topic, payload |-> payload]

PublishIdBytes(c) == IF c.qos > 0 THEN WriteNum(c.id) ELSE <<>>
PublishBody(c, payload) == WriteString(c.topic) \o PublishIdBytes(c) \o payload

\* The parts of the body of a PUBLISH at "at": topic, packet id and payload.
BodyLies(c, payload, buf, at) ==
  LET n == Len(c.topic)
      k == IF c.qos > 0 THEN 2 ELSE 0
  IN /\ at + 1 + n + k + Len(payload) <= Len(buf)
     /\ 256 * buf[at] + buf[at + 1] = n
     /\ SubSeq(buf, at + 2, at + 1 + n) = c.topic
     /\ c.qos > 0 => 256 * buf[at + 2 + n] + buf[at + 3 + n] = c.id
     /\ SubSeq(buf, at + 2 + n + k, at + 1 + n + k + Len(payload)) = payload

LEMMA PublishLies ==
  ASSUME NEW c \in PublishCalls, NEW payload \in Seq(Int), NEW buf \in Seq(Int), NEW at \in Nat \ {0},
         LiesAt(PublishBody(c, payload), buf, at)
  PROVE  BodyLies(c, payload, buf, at)
<1> DEFINE n == Len(c.topic)
           k == IF c.qos > 0 THEN 2 ELSE 0
           w == WriteString(c.topic)
           id == PublishIdBytes(c)
           head == w \o id
           body == head \o payload
           l == Len(payload)
<1>1. c.topic \in ByteString /\ c.qos \in 0 .. 2 /\ c.id \in UInt16
  BY DEF PublishCalls
<1>2. /\ w \in Seq(Int) /\ Len(w) = n + 2 /\ n \in Nat /\ 256 * w[1] + w[2] = n
      /\ c.topic \in Seq(Int)
  BY <1>1, StringWritten, TextIs
<1>3. id \in Seq(Int) /\ Len(id) = k /\ (c.qos > 0 => 256 * id[1] + id[2] = c.id)
  <2>1. CASE c.qos > 0
    BY <1>1, <2>1, IdRead DEF PublishIdBytes
  <2>2. CASE ~(c.qos > 0)
    BY <2>2 DEF PublishIdBytes
  <2> QED BY <2>1, <2>2
<1>4. k \in Nat /\ l \in Nat /\ (c.qos > 0 => k = 2)
  OBVIOUS
<1>5. \A i \in 1 .. n : w[2 + i] = c.topic[i]
  BY <1>1, StringWritten
<1>a. LiesAt(body, buf, at)
  BY DEF PublishBody
<1> HIDE DEF w, id, n, k, l
<1>6. /\ head \in Seq(Int) /\ Len(head) = n + 2 + k /\ LiesAt(w, head, 1) /\ LiesAt(id, head, n + 3)
  <2>1. head \in Seq(Int) /\ Joined(head, w, id)
    BY <1>2, <1>3, Join, Zenon
  <2>2. Len(head) = n + 2 + k
    BY <1>2, <1>3, <2>1 DEF Joined
  <2>3. LiesAt(w, head, 1) /\ LiesAt(id, head, Len(w) + 1)
    BY <1>2, <1>3, LiesFirst, LiesSecond, Zenon
  <2>4. Len(w) + 1 = n + 3
    BY <1>2
  <2> QED BY <2>1, <2>2, <2>3, <2>4, Zenon
<1> HIDE DEF head
<1>7. body \in Seq(Int) /\ Len(body) = n + 2 + k + l /\ LiesAt(head, body, 1) /\ LiesAt(payload, body, n + 3 + k)
  <2>1. body \in Seq(Int) /\ Joined(body, head, payload)
    BY <1>6, Join, Zenon
  <2>2. Len(body) = n + 2 + k + l
    BY <1>4, <1>6, <2>1 DEF Joined, l
  <2>3. LiesAt(head, body, 1) /\ LiesAt(payload, body, Len(head) + 1)
    BY <1>6, LiesFirst, LiesSecond, Zenon
  <2>4. Len(head) + 1 = n + 3 + k
    BY <1>2, <1>4, <1>6
  <2> QED BY <2>1, <2>2, <2>3, <2>4, Zenon
<1> HIDE DEF body
<1>8. LiesAt(head, buf, at)
  BY <1>6, <1>7, <1>a, LiesInside, Zenon
<1>9. LiesAt(w, buf, at)
  BY <1>2, <1>6, <1>8, LiesInside, Zenon
<1>10. StringAt(buf, at) = c.topic /\ Length(buf, at) = n
  BY <1>1, <1>9, StringRead, Zenon DEF w, n
<1>11. LiesAt(id, buf, at + (n + 3) - 1)
  <2>1. n + 3 \in Nat \ {0}
    BY <1>2
  <2> QED BY <1>3, <1>6, <1>8, <2>1, LiesWithin, Zenon
<1>12. LiesAt(payload, buf, at + (n + 3 + k) - 1) /\ at + (n + 3 + k) - 1 \in Nat \ {0}
  <2>1. n + 3 + k \in Nat \ {0}
    BY <1>2, <1>4
  <2> QED BY <1>7, <1>a, <2>1, LiesWithin, Zenon
<1>13. SubSeq(buf, at + 2 + n + k, at + 1 + n + k + l) = payload
  <2>1. at + (n + 3 + k) - 1 = at + 2 + n + k /\ (at + (n + 3 + k) - 1) + l - 1 = at + 1 + n + k + l
    BY <1>2, <1>4
  <2>2. SubSeq(buf, at + (n + 3 + k) - 1, (at + (n + 3 + k) - 1) + l - 1) = payload
    BY <1>12, CutOut, Zenon DEF l
  <2> QED BY <2>1, <2>2, Zenon
<1>14. c.qos > 0 => 256 * buf[at + 2 + n] + buf[at + 3 + n] = c.id
  <2> SUFFICES ASSUME c.qos > 0 PROVE 256 * buf[at + 2 + n] + buf[at + 3 + n] = c.id
    OBVIOUS
  <2>1. \A i \in 1 .. Len(id) : buf[(at + (n + 3) - 1) + i - 1] = id[i]
    BY <1>11, Zenon DEF LiesAt
  <2>2. 1 \in 1 .. Len(id) /\ 2 \in 1 .. Len(id)
    BY <1>3, <1>4
  <2>3. buf[(at + (n + 3) - 1) + 1 - 1] = id[1] /\ buf[(at + (n + 3) - 1) + 2 - 1] = id[2]
    BY <2>1, <2>2
  <2>4. (at + (n + 3) - 1) + 1 - 1 = at + 2 + n /\ (at + (n + 3) - 1) + 2 - 1 = at + 3 + n
    BY <1>2
  <2> QED BY <1>3, <2>3, <2>4, ZenonT(30)
<1>15. at + 1 + n + k + l <= Len(buf)
  <2>1. at + Len(body) - 1 <= Len(buf)
    BY <1>a, Zenon DEF LiesAt
  <2> QED BY <1>2, <1>4, <1>7, <2>1
<1> QED BY <1>10, <1>13, <1>14, <1>15, Zenon DEF BodyLies, StringAt, Length, n, k, l

LEMMA RecordRead ==
  ASSUME NEW buf, NEW h, NEW rem, NEW body, InBuffer(buf, h, rem, body)
  PROVE  LET r == ReadVarnum(buf, 2)
         IN r.err = "SUCCESS" /\ r.num = rem /\ r.next = 2 + Len(WriteVarnum(rem)) /\ buf \in Seq(Int)
<1> DEFINE r == ReadVarnum(buf, 2)
           next == 2 + Len(WriteVarnum(rem))
<1>1. r = [err |-> "SUCCESS", num |-> rem, next |-> next] /\ buf \in Seq(Int)
  BY Zenon DEF InBuffer
<1> HIDE DEF r, next
<1>2. r.err = "SUCCESS" /\ r.num = rem /\ r.next = next
  BY <1>1
<1> QED BY <1>1, <1>2, Zenon DEF r, next

LEMMA PublishRead ==
  ASSUME NEW c \in PublishCalls, c.qos > 0 => c.id > 0, NEW payload \in Seq(Int), NEW rem \in Nat, rem < VarnumLimit,
         rem = 2 + Len(c.topic) + (IF c.qos > 0 THEN 2 ELSE 0) + Len(payload), NEW buf,
         InBuffer(buf, Header("PUBLISH", PublishFlagsOf(c)), rem, PublishBody(c, payload))
  PROVE  DecodePublish(buf) = Message(c, payload)
<1> DEFINE n == Len(c.topic)
           k == IF c.qos > 0 THEN 2 ELSE 0
           l == Len(payload)
           at == 2 + Len(WriteVarnum(rem))
           flags == PublishFlagsOf(c)
           r == ReadVarnum(buf, 2)
           last == PublishEnd(buf, r)
           qos == ReadBits(buf[1], 2, 8)
           topic == r.next + 2
           rest == topic + ReadNum(buf, r.next)
           from == IF qos > 0 THEN rest + 2 ELSE rest
           id == IF qos > 0 THEN ReadNum(buf, rest) ELSE 0
           begins == Begins(buf, "PUBLISH", {f \in 0 .. 15 : ReadBits(f, 2, 8) # 3}, Nat \ 0 .. 1)
<1>1. /\ c.topic \in ByteString /\ c.qos \in 0 .. 2 /\ c.id \in UInt16
      /\ c.dup \in BOOLEAN /\ c.retained \in BOOLEAN
  BY DEF PublishCalls
<1>2. n \in Nat /\ k \in Nat /\ l \in Nat /\ rem = 2 + n + k + l
  BY <1>1, TextIs
<1>3. at \in Nat \ {0}
  <2> DEFINE m == Len(WriteVarnum(rem))
  <2>1. m \in 1 .. 4
    BY VarnumSize, Zenon
  <2> HIDE DEF m
  <2>2. 2 + m \in Nat \ {0}
    BY <2>1
  <2> QED BY <2>2 DEF m
<1>4. r.err = "SUCCESS" /\ r.num = rem /\ r.next = at /\ buf \in Seq(Int)
  BY RecordRead, Zenon
<1>5. BodyLies(c, payload, buf, at)
  <2>1. LiesAt(PublishBody(c, payload), buf, at)
    BY DEF InBuffer
  <2> QED BY <1>3, <1>4, <2>1, PublishLies, Zenon
<1>6. /\ flags \in 0 .. 15 /\ ReadBits(flags, 2, 8) # 3
      /\ ReadBits(buf[1], 16, 256) = Code["PUBLISH"] /\ ReadBits(buf[1], 1, 16) = flags
      /\ qos = c.qos /\ (ReadBits(buf[1], 8, 16) = 1) = c.dup /\ (ReadBits(buf[1], 1, 2) = 1) = c.retained
  <2>1. buf[1] = Header("PUBLISH", flags)
    BY DEF InBuffer
  <2> HIDE DEF flags
  <2> DEFINE header == buf[1]
  <2>2. header = Header("PUBLISH", PublishFlagsOf(c))
    BY <2>1 DEF flags
  <2> HIDE DEF header
  <2>3. /\ PublishFlagsOf(c) \in 0 .. 15 /\ ReadBits(PublishFlagsOf(c), 2, 8) # 3
        /\ ReadBits(header, 16, 256) = Code["PUBLISH"] /\ ReadBits(header, 1, 16) = PublishFlagsOf(c)
        /\ ReadBits(header, 2, 8) = c.qos
        /\ (ReadBits(header, 8, 16) = 1) = c.dup /\ (ReadBits(header, 1, 2) = 1) = c.retained
    BY <1>1, <2>2, PublishHeader
  <2> QED BY <2>3, Zenon DEF flags, header
<1>a. k = (IF c.qos > 0 THEN 2 ELSE 0)
  OBVIOUS
<1> HIDE DEF n, k, l, at, flags, r, qos
<1>7. begins = "SUCCESS"
  <2>1. flags \in {f \in 0 .. 15 : ReadBits(f, 2, 8) # 3}
    BY <1>6, Zenon
  <2>2. rem \in Nat \ 0 .. 1
    <3>1. \A a \in Nat, b \in Nat, d \in Nat : 2 + a + b + d \in Nat \ 0 .. 1
      OBVIOUS
    <3>2. n \in Nat /\ k \in Nat /\ l \in Nat
      BY <1>2
    <3>3. 2 + n + k + l \in Nat \ 0 .. 1
      BY <3>1, <3>2, Zenon
    <3>4. rem = 2 + n + k + l
      BY <1>2
    <3> HIDE <1>2
    <3> QED BY <3>3, <3>4, Zenon
  <2> QED BY <1>4, <1>6, <2>1, <2>2, Zenon DEF Begins, r
<1>8. /\ 256 * buf[at] + buf[at + 1] = n /\ at + 1 + n + k + l <= Len(buf)
      /\ SubSeq(buf, at + 2, at + 1 + n) = c.topic
      /\ c.qos > 0 => 256 * buf[at + 2 + n] + buf[at + 3 + n] = c.id
      /\ SubSeq(buf, at + 2 + n + k, at + 1 + n + k + l) = payload
  BY <1>5 DEF BodyLies, n, k, l
<1>9. topic = at + 2 /\ rest = at + 2 + n /\ last = at + 1 + n + k + l
  <2>1. ReadNum(buf, r.next) = n
    BY <1>4, <1>8 DEF ReadNum
  <2>2. topic = at + 2 /\ rest = at + 2 + n
    BY <1>4, <2>1
  <2>3. last = at + rem - 1
    BY <1>4 DEF PublishEnd
  <2> QED BY <1>2, <1>3, <2>2, <2>3
<1>10. from = at + 2 + n + k /\ id = (IF c.qos > 0 THEN c.id ELSE 0)
  <2>1. c.qos > 0 => ReadNum(buf, rest) = c.id
    <3>1. (at + 2 + n) + 1 = at + 3 + n
      BY <1>2, <1>3
    <3> QED BY <1>8, <1>9, <3>1 DEF ReadNum
  <2> HIDE DEF rest
  <2>2. id = (IF c.qos > 0 THEN c.id ELSE 0)
    BY <1>6, <2>1
  <2>3. from = at + 2 + n + k
    BY <1>2, <1>3, <1>6, <1>9, <1>a
  <2> QED BY <2>2, <2>3
<1> HIDE DEF topic, rest, last, from, id, begins
<1>11. ~(Len(buf) < last) /\ ~(from > last + 1) /\ ~(qos > 0 /\ id = 0)
  <2>1. Len(buf) \in Nat
    BY <1>4
  <2>2. ~(Len(buf) < last) /\ ~(from > last + 1)
    BY <1>2, <1>3, <1>8, <1>9, <1>10, <2>1
  <2>3. ~(qos > 0 /\ id = 0)
    <3>1. c.qos > 0 => id = c.id /\ c.id > 0
      BY <1>10
    <3> QED BY <1>6, <3>1
  <2> QED BY <2>2, <2>3
<1>12. SubSeq(buf, topic, rest - 1) = c.topic /\ SubSeq(buf, from, last) = payload
  <2>1. rest - 1 = at + 1 + n
    BY <1>2, <1>3, <1>9
  <2> QED BY <1>8, <1>9, <1>10, <2>1, ZenonT(40)
<1>13. DecodePublish(buf) =
         [err |-> "SUCCESS", qos |-> qos, id |-> id, dup |-> ReadBits(buf[1], 8, 16) = 1,
          retained |-> ReadBits(buf[1], 1, 2) = 1,
          topic |-> SubSeq(buf, topic, rest - 1), payload |-> SubSeq(buf, from, last)]
  BY <1>7, <1>11, Zenon DEF DecodePublish, begins, r, last, qos, topic, rest, from, id
<1> QED BY <1>6, <1>10, <1>12, <1>13, Zenon DEF Message

\* A message that one client publishes is what another one reads: its topic, its
\* payload, its flags and its packet id, in every QoS, whatever older bytes follow
\* in the read buffer (lwmqtt_encode_publish and lwmqtt_decode_publish,
\* packet.c:476 and packet.c:386).
THEOREM PublishRoundTrip ==
  ASSUME NEW c \in PublishCalls, c.qos > 0 => c.id > 0, NEW payload \in Seq(Int),
         c.payload_len = Len(payload), NEW room \in Nat, NEW old \in Seq(Int),
         EncodeCall(c, room).err = "SUCCESS"
  PROVE  DecodePublish(EncodeCall(c, room).packet \o payload \o old) = Message(c, payload)
<1> DEFINE h == Header("PUBLISH", PublishFlagsOf(c))
           rem == 2 + Len(c.topic) + c.payload_len + (IF c.qos > 0 THEN 2 ELSE 0)
           v == WriteVarnum(rem)
           one == <<h>>
           head == WriteString(c.topic) \o PublishIdBytes(c)
           front == one \o v
           packet == front \o head
           buf == front \o (head \o payload) \o old
<1>1. /\ c.topic \in ByteString /\ c.qos \in 0 .. 2 /\ c.id \in UInt16 /\ c.type = "PUBLISH"
      /\ c.dup \in BOOLEAN /\ c.retained \in BOOLEAN
  BY DEF PublishCalls
<1>2. EncodeCall(c, room) = Encode(h, rem, head, room)
  BY <1>1, Zenon DEF EncodeCall, EncodePublish, PublishFlagsOf, PublishIdBytes
<1>3. Len(c.topic) \in Nat /\ Len(payload) \in Nat
  BY <1>1, TextIs
<1>4. rem \in Nat /\ rem = 2 + Len(c.topic) + (IF c.qos > 0 THEN 2 ELSE 0) + Len(payload)
  <2> DEFINE n == Len(c.topic)
             l == Len(payload)
             k == IF c.qos > 0 THEN 2 ELSE 0
  <2>1. rem = 2 + n + l + k /\ n \in Nat /\ l \in Nat /\ k \in Nat
    BY <1>3
  <2> HIDE DEF n, l, k, rem
  <2>2. rem \in Nat /\ rem = 2 + n + k + l
    BY <2>1
  <2> QED BY <2>2 DEF n, l, k
<1> HIDE DEF rem
<1>5. rem < VarnumLimit /\ EncodeCall(c, room).packet = packet
  <2>1. Encode(h, rem, head, room).err = "SUCCESS"
    BY <1>2, Zenon
  <2> HIDE DEF h, head
  <2>2. rem \in Nat
    BY <1>4
  <2>3. rem < VarnumLimit /\ Encode(h, rem, head, room).packet = packet
    BY <2>1, <2>2, EncodedPacket
  <2> QED BY <1>2, <2>3, Zenon
<1>7. h \in Int
  BY <1>1, PublishHeader, Zenon
<1>8. v \in Seq(Int) /\ one \in Seq(Int)
  <2> HIDE DEF h
  <2>1. one \in Seq(Int)
    BY <1>7
  <2> QED BY <1>4, <1>5, <2>1, VarnumSize, Zenon
<1>9. head \in Seq(Int)
  <2>1. PublishIdBytes(c) \in Seq(Int)
    BY <1>1, IdRead DEF PublishIdBytes
  <2>2. WriteString(c.topic) \in Seq(Int)
    BY <1>1, StringWritten
  <2> QED BY <2>1, <2>2, Join, Zenon
<1> HIDE DEF h, v, one, head
<1>10. front \in Seq(Int) /\ head \o payload \in Seq(Int)
  BY <1>8, <1>9, Join, Zenon
<1> HIDE DEF front
<1>11. packet \o payload = front \o (head \o payload)
  BY <1>9, <1>10, Associative, ZenonT(40)
<1>12. InBuffer(buf, h, rem, head \o payload)
  BY <1>4, <1>5, <1>7, <1>10, PacketLies, Zenon DEF front, one, v
<1>13. DecodePublish(buf) = Message(c, payload)
  <2>1. InBuffer(buf, Header("PUBLISH", PublishFlagsOf(c)), rem, PublishBody(c, payload))
    BY <1>12, Zenon DEF h, head, PublishBody
  <2> HIDE DEF buf
  <2> QED BY <1>4, <1>5, <2>1, PublishRead, Zenon
<1>14. EncodeCall(c, room).packet \o payload \o old = buf
  BY <1>5, <1>11, Zenon
<1> QED BY <1>13, <1>14, Zenon

\* What the broker writes into a SUBACK, and what the client makes of a code.
SubackBody(id, codes) == WriteNum(id) \o codes
Granted(code) == IF code <= 2 THEN code ELSE QosFailure

LEMMA SubackLies ==
  ASSUME NEW id \in UInt16, NEW codes \in Seq(Int), NEW buf \in Seq(Int), NEW at \in Nat \ {0},
         LiesAt(SubackBody(id, codes), buf, at)
  PROVE  /\ at + 1 + Len(codes) <= Len(buf) /\ 256 * buf[at] + buf[at + 1] = id
         /\ SubSeq(buf, at + 2, at + 1 + Len(codes)) = codes
<1> DEFINE w == WriteNum(id)
           body == w \o codes
           n == Len(codes)
<1>1. w \in Seq(Int) /\ Len(w) = 2 /\ 256 * w[1] + w[2] = id
  BY IdRead
<1>2. n \in Nat
  OBVIOUS
<1>3. LiesAt(body, buf, at)
  BY DEF SubackBody
<1> HIDE DEF w, n
<1>4. body \in Seq(Int) /\ Len(body) = 2 + n /\ LiesAt(w, body, 1) /\ LiesAt(codes, body, 3)
  <2>1. body \in Seq(Int) /\ Joined(body, w, codes)
    BY <1>1, Join, Zenon
  <2>2. Len(body) = 2 + n
    BY <1>1, <2>1 DEF Joined, n
  <2>3. LiesAt(w, body, 1) /\ LiesAt(codes, body, Len(w) + 1)
    BY <1>1, LiesFirst, LiesSecond, Zenon
  <2>4. Len(w) + 1 = 3
    BY <1>1
  <2> QED BY <2>1, <2>2, <2>3, <2>4, Zenon
<1> HIDE DEF body
<1>5. LiesAt(w, buf, at)
  BY <1>1, <1>3, <1>4, LiesInside, Zenon
<1>6. buf[at] = w[1] /\ buf[at + 1] = w[2]
  <2>1. \A i \in 1 .. 2 : buf[at + i - 1] = w[i]
    BY <1>1, <1>5 DEF LiesAt
  <2>2. buf[at + 1 - 1] = w[1] /\ buf[at + 2 - 1] = w[2]
    BY <2>1
  <2>3. at + 1 - 1 = at /\ at + 2 - 1 = at + 1
    OBVIOUS
  <2> QED BY <2>2, <2>3, Zenon
<1>7. LiesAt(codes, buf, at + 2) /\ at + 2 \in Nat \ {0}
  <2>1. 3 \in Nat \ {0} /\ at + 3 - 1 = at + 2
    OBVIOUS
  <2>2. LiesAt(codes, buf, at + 3 - 1) /\ at + 3 - 1 \in Nat \ {0}
    BY <1>3, <1>4, <2>1, LiesWithin, Zenon
  <2> QED BY <2>1, <2>2, Zenon
<1>8. SubSeq(buf, at + 2, (at + 2) + n - 1) = codes /\ (at + 2) + n - 1 = at + 1 + n
  <2>1. SubSeq(buf, at + 2, (at + 2) + n - 1) = codes
    BY <1>7, CutOut, Zenon DEF n
  <2> QED BY <1>2, <2>1
<1>9. at + 1 + n <= Len(buf)
  <2>1. at + Len(body) - 1 <= Len(buf)
    BY <1>3, Zenon DEF LiesAt
  <2> QED BY <1>2, <1>4, <2>1
<1>10. SubSeq(buf, at + 2, at + 1 + n) = codes
  BY <1>8, Zenon
<1> QED BY <1>1, <1>6, <1>9, <1>10, Zenon DEF n

\* The codes of a SUBACK come one by one to the filters they answer, a level as it
\* is and anything else as a refusal, whatever older bytes follow in the buffer
\* (lwmqtt_decode_suback, packet.c:609).
THEOREM SubackRead ==
  ASSUME NEW id \in UInt16, NEW codes \in Seq(Int), Len(codes) > 0, 2 + Len(codes) < VarnumLimit,
         NEW max_count \in Nat, Len(codes) <= max_count, NEW old \in Seq(Int)
  PROVE  DecodeSuback(<<Header("SUBACK", 0)>> \o WriteVarnum(2 + Len(codes)) \o SubackBody(id, codes) \o old,
                      max_count)
         = [err |-> "SUCCESS", id |-> id, granted |-> [i \in 1 .. Len(codes) |-> Granted(codes[i])]]
<1> DEFINE n == Len(codes)
           rem == 2 + n
           h == Header("SUBACK", 0)
           body == SubackBody(id, codes)
           buf == <<h>> \o WriteVarnum(rem) \o body \o old
           at == 2 + Len(WriteVarnum(rem))
           r == ReadVarnum(buf, 2)
           part == SubSeq(buf, r.next + 2, r.next + 1 + (r.num - 2))
           begins == Begins(buf, "SUBACK", 0 .. 15, Nat \ 0 .. 2)
<1>1. n \in Nat /\ n > 0 /\ n <= max_count /\ rem \in Nat /\ rem < VarnumLimit
  OBVIOUS
<1>2. "SUBACK" \in DOMAIN Code /\ 0 \in 0 .. 15
  BY DEF Code
<1>3. h \in Int
  BY <1>2, HeaderBits, Zenon
<1>4. body \in Seq(Int)
  <2>1. WriteNum(id) \in Seq(Int)
    BY IdRead
  <2> QED BY <2>1, Join, Zenon DEF SubackBody
<1>5. at \in Nat \ {0}
  <2> DEFINE m == Len(WriteVarnum(rem))
  <2>1. m \in 1 .. 4
    BY <1>1, VarnumSize, Zenon
  <2> HIDE DEF m
  <2>2. 2 + m \in Nat \ {0}
    BY <2>1
  <2> QED BY <2>2 DEF m
<1> HIDE DEF h, body, n
<1>6. InBuffer(buf, h, rem, body)
  <2> HIDE DEF rem
  <2> QED BY <1>1, <1>3, <1>4, PacketLies, Zenon
<1> HIDE DEF buf
<1>7. r.err = "SUCCESS" /\ r.num = rem /\ r.next = at /\ buf \in Seq(Int)
  BY <1>6, RecordRead, Zenon
<1>8. HeaderIs(buf, "SUBACK", 0)
  <2>1. buf[1] = Header("SUBACK", 0)
    BY <1>6 DEF InBuffer, h
  <2> QED BY <1>2, <2>1, HeaderReadAt, Zenon
<1>9. /\ at + 1 + n <= Len(buf) /\ 256 * buf[at] + buf[at + 1] = id
      /\ SubSeq(buf, at + 2, at + 1 + n) = codes
  <2>1. LiesAt(SubackBody(id, codes), buf, at)
    BY <1>6, Zenon DEF InBuffer, body
  <2>2. buf \in Seq(Int)
    BY <1>7
  <2> HIDE DEF at
  <2>3. /\ at + 1 + Len(codes) <= Len(buf) /\ 256 * buf[at] + buf[at + 1] = id
        /\ SubSeq(buf, at + 2, at + 1 + Len(codes)) = codes
    BY <1>5, <2>1, <2>2, SubackLies, SMT
  <2> QED BY <2>3, Zenon DEF n
<1>10. rem \in Nat \ 0 .. 2 /\ rem - 2 = n /\ Len(buf) \in Nat
  BY <1>1, <1>7
<1> HIDE DEF rem, at, r
<1>11. begins = "SUCCESS"
  BY <1>2, <1>7, <1>8, <1>10, Zenon DEF Begins, HeaderIs, r
<1>12. part = codes /\ ReadNum(buf, r.next) = id
  <2>1. r.next + 2 = at + 2 /\ r.next + 1 + (r.num - 2) = at + 1 + n
    BY <1>7, <1>10
  <2> QED BY <1>7, <1>9, <2>1, Zenon DEF ReadNum
<1>13. ~(r.num - 2 > max_count) /\ ~(Len(buf) < r.next + 1 + (r.num - 2))
  BY <1>1, <1>5, <1>7, <1>9, <1>10
<1> HIDE DEF begins, part
<1>14. DecodeSuback(buf, max_count) =
         [err |-> "SUCCESS", id |-> ReadNum(buf, r.next), granted |-> [i \in 1 .. Len(part) |-> Granted(part[i])]]
  BY <1>11, <1>13, Zenon DEF DecodeSuback, begins, r, part, Each, Granted
<1> QED BY <1>12, <1>14, Zenon DEF buf, h, rem, body, n

==============================================================================
