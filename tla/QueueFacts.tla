------------------------------ MODULE QueueFacts ------------------------------
(***************************************************************************)
(* What receiving from a FreeRTOS queue and sending to one does to the     *)
(* sequence that models it.                                                *)
(***************************************************************************)
EXTENDS Integers, Sequences, SequencesExt, TLAPS

\* A sequence over S only holds elements of S.
LEMMA SeqRange ==
  ASSUME NEW S, NEW q \in Seq(S)
  PROVE  ToSet(q) \subseteq S
<1>1. \A i \in DOMAIN q : q[i] \in S
  OBVIOUS
<1> QED BY <1>1 DEF ToSet

\* What receiving from a queue does to its contents.
LEMMA TailFacts ==
  ASSUME NEW S, NEW q \in Seq(S), q # <<>>
  PROVE  /\ Head(q) \in S /\ Head(q) = q[1] /\ Tail(q) \in Seq(S)
         /\ Len(q) \in Nat /\ Len(q) > 0
         /\ Len(Tail(q)) = Len(q) - 1
         /\ \A i \in 1 .. Len(q) - 1 : Tail(q)[i] = q[i + 1]
         /\ ToSet(q) = {Head(q)} \cup ToSet(Tail(q))
<1>1. Len(q) \in Nat /\ Len(q) > 0
  OBVIOUS
<1>2. Head(q) \in S /\ Head(q) = q[1] /\ Tail(q) \in Seq(S) /\ Len(Tail(q)) = Len(q) - 1
  BY <1>1
<1>3. \A i \in 1 .. Len(q) - 1 : Tail(q)[i] = q[i + 1]
  BY <1>1
<1>4. DOMAIN q = 1 .. Len(q) /\ DOMAIN Tail(q) = 1 .. Len(q) - 1
  BY <1>1, <1>2
<1>5. ASSUME NEW x \in ToSet(q) PROVE x \in {Head(q)} \cup ToSet(Tail(q))
  <2>1. PICK i \in 1 .. Len(q) : x = q[i]
    BY <1>4, <1>5 DEF ToSet
  <2>2. CASE i = 1
    BY <2>1, <2>2, <1>2
  <2>3. CASE i # 1
    <3>1. i - 1 \in 1 .. Len(q) - 1 /\ Tail(q)[i - 1] = x
      BY <2>1, <2>3, <1>1, <1>3
    <3> QED BY <3>1, <1>4 DEF ToSet
  <2> QED BY <2>2, <2>3
<1>6. ASSUME NEW x \in {Head(q)} \cup ToSet(Tail(q)) PROVE x \in ToSet(q)
  <2>1. CASE x = Head(q)
    BY <2>1, <1>1, <1>2, <1>4 DEF ToSet
  <2>2. CASE x \in ToSet(Tail(q))
    <3>1. PICK i \in 1 .. Len(q) - 1 : x = Tail(q)[i]
      BY <1>4, <2>2 DEF ToSet
    <3>2. i + 1 \in 1 .. Len(q) /\ q[i + 1] = x
      BY <3>1, <1>1, <1>3
    <3> QED BY <3>2, <1>4 DEF ToSet
  <2> QED BY <2>1, <2>2, <1>6
<1> QED BY <1>1, <1>2, <1>3, <1>5, <1>6

\* What sending to a queue does to its contents.
LEMMA AppendFacts ==
  ASSUME NEW S, NEW q \in Seq(S), NEW x \in S
  PROVE  /\ Append(q, x) \in Seq(S)
         /\ Len(Append(q, x)) = Len(q) + 1 /\ Len(q) \in Nat
         /\ Append(q, x)[Len(q) + 1] = x
         /\ \A i \in 1 .. Len(q) : Append(q, x)[i] = q[i]
         /\ ToSet(Append(q, x)) = ToSet(q) \cup {x}
<1>1. /\ Append(q, x) \in Seq(S) /\ Len(Append(q, x)) = Len(q) + 1 /\ Len(q) \in Nat
      /\ Append(q, x)[Len(q) + 1] = x
      /\ \A i \in 1 .. Len(q) : Append(q, x)[i] = q[i]
  OBVIOUS
<1>2. DOMAIN q = 1 .. Len(q) /\ DOMAIN Append(q, x) = 1 .. Len(q) + 1
  BY <1>1
<1>3. ASSUME NEW n \in Nat PROVE 1 .. n + 1 = (1 .. n) \cup {n + 1}
  OBVIOUS
<1>4. \A i \in 1 .. Len(q) + 1 : Append(q, x)[i] = IF i = Len(q) + 1 THEN x ELSE q[i]
  BY <1>1
<1> QED BY <1>1, <1>2, <1>3, <1>4 DEF ToSet

\* A queue seen through a field of its items.
Mapped(q, f) == [i \in DOMAIN q |-> f[q[i]]]

LEMMA MappedType ==
  ASSUME NEW S, NEW R, NEW f \in [S -> R], NEW q \in Seq(S)
  PROVE  Mapped(q, f) \in Seq(R)
<1>1. Len(q) \in Nat /\ DOMAIN q = 1 .. Len(q) /\ \A i \in 1 .. Len(q) : q[i] \in S
  OBVIOUS
<1>2. \A i \in 1 .. Len(q) : f[q[i]] \in R
  BY <1>1
<1>3. Mapped(q, f) = [i \in 1 .. Len(q) |-> f[q[i]]]
  BY <1>1 DEF Mapped
<1> QED BY <1>1, <1>2, <1>3

LEMMA MappedTail ==
  ASSUME NEW S, NEW R, NEW f \in [S -> R], NEW q \in Seq(S), q # <<>>
  PROVE  /\ Mapped(q, f) # <<>> /\ Head(Mapped(q, f)) = f[Head(q)]
         /\ Mapped(Tail(q), f) = Tail(Mapped(q, f))
<1>1. Len(q) \in Nat /\ DOMAIN q = 1 .. Len(q) /\ \A i \in 1 .. Len(q) : q[i] \in S
  OBVIOUS
<1>2. Mapped(q, f) = [i \in 1 .. Len(q) |-> f[q[i]]]
  BY <1>1 DEF Mapped
<1>3. Mapped(q, f) \in Seq(R) /\ Len(Mapped(q, f)) = Len(q)
  <2>1. \A i \in 1 .. Len(q) : f[q[i]] \in R
    BY <1>1
  <2> QED BY <2>1, <1>1, <1>2
<1>4. Mapped(q, f) # <<>> /\ Len(q) > 0
  BY <1>1, <1>3
<1>5. Head(Mapped(q, f)) = f[Head(q)]
  BY <1>1, <1>2, <1>3, <1>4
<1>6. /\ Tail(q) \in Seq(S) /\ Len(Tail(q)) = Len(q) - 1
      /\ \A i \in 1 .. Len(q) - 1 : Tail(q)[i] = q[i + 1]
  BY TailFacts
<1>7. /\ Tail(Mapped(q, f)) \in Seq(R) /\ Len(Tail(Mapped(q, f))) = Len(q) - 1
      /\ \A i \in 1 .. Len(q) - 1 : Tail(Mapped(q, f))[i] = f[q[i + 1]]
  <2>1. /\ Tail(Mapped(q, f)) \in Seq(R)
        /\ Len(Tail(Mapped(q, f))) = Len(Mapped(q, f)) - 1
        /\ \A i \in 1 .. Len(Mapped(q, f)) - 1 : Tail(Mapped(q, f))[i] = Mapped(q, f)[i + 1]
    BY <1>3, <1>4, TailFacts
  <2> QED BY <2>1, <1>1, <1>2, <1>3
<1>8. Mapped(Tail(q), f) = [i \in 1 .. Len(q) - 1 |-> f[q[i + 1]]]
  BY <1>6, <1>1 DEF Mapped
<1>9. Tail(Mapped(q, f)) = [i \in 1 .. Len(q) - 1 |-> f[q[i + 1]]]
  <2>1. ASSUME NEW t \in Seq(R), Len(t) = Len(q) - 1
        PROVE  t = [i \in 1 .. Len(q) - 1 |-> t[i]]
    BY <2>1
  <2>2. Tail(Mapped(q, f)) = [i \in 1 .. Len(q) - 1 |-> Tail(Mapped(q, f))[i]]
    BY <2>1, <1>7
  <2> QED BY <2>2, <1>7, Zenon
<1> QED BY <1>4, <1>5, <1>8, <1>9

LEMMA MappedAppend ==
  ASSUME NEW S, NEW R, NEW f \in [S -> R], NEW q \in Seq(S), NEW c \in S
  PROVE  Mapped(Append(q, c), f) = Append(Mapped(q, f), f[c])
<1>1. Len(q) \in Nat /\ DOMAIN q = 1 .. Len(q) /\ \A i \in 1 .. Len(q) : q[i] \in S
  OBVIOUS
<1>2. Mapped(q, f) \in Seq(R) /\ Len(Mapped(q, f)) = Len(q)
  <2>1. Mapped(q, f) = [i \in 1 .. Len(q) |-> f[q[i]]]
    BY <1>1 DEF Mapped
  <2>2. \A i \in 1 .. Len(q) : f[q[i]] \in R
    BY <1>1
  <2> QED BY <2>1, <2>2, <1>1
<1>3. f[c] \in R
  OBVIOUS
<1>4. /\ DOMAIN Append(q, c) = 1 .. Len(q) + 1
      /\ Append(q, c)[Len(q) + 1] = c
      /\ \A i \in 1 .. Len(q) : Append(q, c)[i] = q[i]
  BY <1>1
<1>5. /\ Append(Mapped(q, f), f[c]) \in Seq(R)
      /\ Len(Append(Mapped(q, f), f[c])) = Len(q) + 1
      /\ Append(Mapped(q, f), f[c])[Len(q) + 1] = f[c]
      /\ \A i \in 1 .. Len(q) : Append(Mapped(q, f), f[c])[i] = f[q[i]]
  <2>1. \A i \in 1 .. Len(q) : Mapped(q, f)[i] = f[q[i]]
    BY <1>1 DEF Mapped
  <2> QED BY <1>1, <1>2, <1>3, <2>1, AppendFacts
<1>6. Mapped(Append(q, c), f) = [i \in 1 .. Len(q) + 1 |-> f[Append(q, c)[i]]]
  BY <1>4 DEF Mapped
<1>7. Append(Mapped(q, f), f[c])
        = [i \in 1 .. Len(q) + 1 |-> Append(Mapped(q, f), f[c])[i]]
  BY <1>5
<1>8. \A i \in 1 .. Len(q) + 1 :
        f[Append(q, c)[i]] = Append(Mapped(q, f), f[c])[i]
  BY <1>1, <1>4, <1>5
<1> QED BY <1>6, <1>7, <1>8

===============================================================================
