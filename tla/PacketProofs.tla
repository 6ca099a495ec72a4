---------------------------- MODULE PacketProofs -----------------------------
(***************************************************************************)
(* Theorems about packets: of their bytes, for every number, packet id and *)
(* buffer, that what one side writes the other reads back, wherever it     *)
(* lies; of the stream, for every sequence of packets, that each is read   *)
(* as it was sent, however the network cuts the stream and whoever reads.  *)
(***************************************************************************)
EXTENDS PacketStream, TLAPS, FiniteSetTheorems, WellFoundedInduction, NaturalsInduction

-----------------------------------------------------------------------------
(***************************************************************************)
(* Induction up to n, and the recursive functions behind Concat and Total. *)
(***************************************************************************)
LEMMA LeastExists ==
  ASSUME NEW S, S \subseteq Nat, S # {}
  PROVE  \E i \in S : \A j \in S : i <= j
<1> DEFINE R == OpToRel(<, Nat)
<1>1. IsWellFoundedOn(R, Nat)
  BY NatLessThanWellFounded
<1>2. \A i, j \in Nat : <<i, j>> \in R <=> i < j
  BY Zenon DEF OpToRel
<1> HIDE DEF R
<1>3. PICK i \in S : \A j \in S : <<j, i>> \notin R
  BY <1>1, WFMin, Zenon
<1>4. \A j \in S : ~(j < i)
  BY <1>2, <1>3
<1>5. i \in Nat /\ \A j \in S : i <= j
  BY <1>4
<1> QED BY <1>5

LEMMA Induction ==
  ASSUME NEW n \in Nat, NEW S, S \subseteq 0 .. n, 0 \in S,
         \A i \in S : i < n => i + 1 \in S
  PROVE  S = 0 .. n
<1> SUFFICES ASSUME S # 0 .. n PROVE FALSE
  OBVIOUS
<1> DEFINE T == (0 .. n) \ S
<1>1. T \subseteq Nat /\ T # {}
  <2>1. T \subseteq Nat
    OBVIOUS
  <2>2. T # {}
    BY Zenon
  <2> QED BY <2>1, <2>2
<1>2. PICK i \in T : \A j \in T : i <= j
  <2> HIDE DEF T
  <2> QED BY <1>1, LeastExists, Zenon
<1>3. i \in 1 .. n /\ i - 1 \in S
  BY <1>2
<1>4. (i - 1) + 1 \in S
  BY <1>3
<1> QED BY <1>3, <1>4

\* f starts with b and goes on as F says, with the members of p.
FoldsUp(f, m, b, F, p) == f[0] = b /\ \A i \in 1 .. m : f[i] = F[f[i - 1], p[i]]

\* Such a function exists.
LEMMA Recursion ==
  ASSUME NEW n \in Nat, NEW X, NEW b \in X, NEW F \in [X \X X -> X],
         NEW p \in [1 .. n -> X]
  PROVE  \E f \in [0 .. n -> X] : FoldsUp(f, n, b, F, p)
<1> USE DEF FoldsUp
<1> DEFINE Step(f, m) == FoldsUp(f, m, b, F, p)
           Exists(m) == \E f \in [0 .. m -> X] : Step(f, m)
           S == {m \in 0 .. n : Exists(m)}
<1>1. 0 \in S
  <2> DEFINE f == [i \in 0 .. 0 |-> b]
  <2>1. f \in [0 .. 0 -> X] /\ Step(f, 0)
    OBVIOUS
  <2> HIDE DEF f, Step
  <2>2. Exists(0) /\ 0 \in 0 .. n
    BY <2>1
  <2> QED BY <2>2, Zenon
<1>2. ASSUME NEW m \in S, m < n PROVE m + 1 \in S
  <2>1. m \in 0 .. n /\ Exists(m)
    BY Zenon
  <2> HIDE DEF S
  <2>a. m \in 0 .. n
    BY <2>1, Zenon
  <2>2. m \in Nat /\ m + 1 \in 1 .. n
    BY <1>2, <2>a
  <2>3. PICK f \in [0 .. m -> X] : Step(f, m)
    BY <2>1
  <2> DEFINE new == F[f[m], p[m + 1]]
             g == [i \in 0 .. m + 1 |-> IF i <= m THEN f[i] ELSE new]
  <2>4. new \in X
    <3>1. p[m + 1] \in X /\ f[m] \in X
      BY <2>2
    <3>2. <<f[m], p[m + 1]>> \in X \X X
      BY <3>1
    <3> QED BY <3>2
  <2>5. new = F[f[m], p[m + 1]]
    OBVIOUS
  <2> HIDE DEF new
  <2>6. g \in [0 .. m + 1 -> X]
    BY <2>2, <2>4
  <2>7. g[0] = b /\ g[m + 1] = new /\ \A i \in 0 .. m : g[i] = f[i]
    <3>1. 0 \in 0 .. m + 1 /\ m + 1 \in 0 .. m + 1 /\ 0 <= m /\ ~(m + 1 <= m)
      BY <2>2
    <3>2. g[0] = b /\ g[m + 1] = new
      BY <2>3, <3>1
    <3>3. \A i \in 0 .. m : g[i] = f[i]
      BY <2>2
    <3> QED BY <3>2, <3>3
  <2> HIDE DEF g
  <2>8. ASSUME NEW i \in 1 .. m + 1 PROVE g[i] = F[g[i - 1], p[i]]
    <3>1. CASE i = m + 1
      <4>1. i - 1 = m /\ m \in 0 .. m
        BY <2>2, <3>1
      <4> QED BY <2>5, <2>7, <3>1, <4>1
    <3>2. CASE i # m + 1
      <4>1. i \in 1 .. m /\ i \in 0 .. m /\ i - 1 \in 0 .. m
        BY <2>2, <3>2
      <4>2. f[i] = F[f[i - 1], p[i]]
        BY <2>3, <4>1
      <4> QED BY <2>7, <4>1, <4>2
    <3> QED BY <3>1, <3>2
  <2>9. Step(g, m + 1)
    BY <2>7, <2>8, Zenon
  <2>10. m + 1 \in 0 .. n
    BY <2>2
  <2> HIDE DEF Step
  <2>11. Exists(m + 1)
    BY <2>6, <2>9
  <2> QED BY <2>10, <2>11, Zenon DEF S
<1>3. n \in S
  <2>1. S \subseteq 0 .. n
    OBVIOUS
  <2> HIDE DEF S
  <2>2. S = 0 .. n
    BY <1>1, <1>2, <2>1, Induction, Zenon
  <2> QED BY <2>2
<1> HIDE DEF Step
<1>4. Exists(n)
  BY <1>3, Zenon
<1> HIDE DEF FoldsUp
<1> QED BY <1>4, Zenon DEF Step

GoOnAlike(f, g, n) == f[0] = g[0] /\ \A i \in 1 .. n : f[i - 1] = g[i - 1] => f[i] = g[i]

\* Two functions that start alike and go on alike are the same at n.
LEMMA Alike ==
  ASSUME NEW n \in Nat, NEW f, NEW g, GoOnAlike(f, g, n)
  PROVE  f[n] = g[n]
<1> DEFINE S == {i \in 0 .. n : f[i] = g[i]}
<1>1. 0 \in S
  BY DEF GoOnAlike
<1>2. ASSUME NEW i \in S, i < n PROVE i + 1 \in S
  <2>1. i \in 0 .. n /\ f[i] = g[i]
    OBVIOUS
  <2>2. i + 1 \in 1 .. n /\ i + 1 \in 0 .. n /\ (i + 1) - 1 = i
    BY <1>2, <2>1
  <2>3. f[i + 1] = g[i + 1]
    BY <2>1, <2>2 DEF GoOnAlike
  <2> QED BY <2>2, <2>3
<1>3. S = 0 .. n
  <2>1. S \subseteq 0 .. n
    OBVIOUS
  <2> HIDE DEF S
  <2> QED BY <1>1, <1>2, <2>1, Induction, Zenon
<1> QED BY <1>3

\* The recursive function behind an operator is the one its definition describes.
LEMMA ConcatIs ==
  ASSUME NEW B, NEW p \in Seq(Seq(B))
  PROVE  \E f \in [0 .. Len(p) -> Seq(B)] :
           /\ f[0] = <<>> /\ \A i \in 1 .. Len(p) : f[i] = f[i - 1] \o p[i]
           /\ Concat(p) = f[Len(p)]
<1> DEFINE n == Len(p)
           F == [x \in Seq(B) \X Seq(B) |-> x[1] \o x[2]]
<1>1. n \in Nat /\ p \in [1 .. n -> Seq(B)]
  OBVIOUS
<1>2. F \in [Seq(B) \X Seq(B) -> Seq(B)] /\ <<>> \in Seq(B)
  <2>1. \A x \in Seq(B), y \in Seq(B) : x \o y \in Seq(B)
    OBVIOUS
  <2> QED BY <2>1
<1>3. \A x \in Seq(B), y \in Seq(B) : F[x, y] = x \o y
  OBVIOUS
<1> HIDE DEF n, F
<1>4. PICK f \in [0 .. n -> Seq(B)] : f[0] = <<>> /\ \A i \in 1 .. n : f[i] = F[f[i - 1], p[i]]
  <2>1. \E f \in [0 .. n -> Seq(B)] : FoldsUp(f, n, <<>>, F, p)
    BY <1>1, <1>2, Recursion, Zenon
  <2> QED BY <2>1, Zenon DEF FoldsUp
<1>5. ASSUME NEW i \in 1 .. n PROVE f[i] = f[i - 1] \o p[i]
  <2>1. i - 1 \in 0 .. n
    BY <1>1
  <2>2. f[i - 1] \in Seq(B) /\ p[i] \in Seq(B)
    BY <1>1, <2>1
  <2> QED BY <1>3, <1>4, <2>2
<1> DEFINE Eqn(g) == g = [i \in 0 .. n |-> IF i = 0 THEN <<>> ELSE g[i - 1] \o p[i]]
           u == CHOOSE g : Eqn(g)
<1>6. Eqn(f)
  <2> DEFINE g == [i \in 0 .. n |-> IF i = 0 THEN <<>> ELSE f[i - 1] \o p[i]]
  <2>1. ASSUME NEW i \in 0 .. n PROVE f[i] = g[i]
    <3>1. CASE i = 0
      BY <1>4, <3>1
    <3>2. CASE i # 0
      <4>1. i \in 1 .. n
        BY <1>1, <3>2
      <4> QED BY <1>5, <3>2, <4>1
    <3> QED BY <3>1, <3>2
  <2>2. g = [i \in 0 .. n |-> g[i]]
    OBVIOUS
  <2> HIDE DEF g
  <2>3. f = g
    BY <2>1, <2>2
  <2> QED BY <2>3, Zenon DEF g
<1>7. Eqn(u)
  BY <1>6, Zenon
<1>8. Concat(p) = u[n]
  BY DEF Concat, n
<1> HIDE DEF u
<1>9. u[0] = f[0]
  <2>1. 0 \in 0 .. n
    BY <1>1
  <2> QED BY <1>4, <1>7, <2>1
<1>10. ASSUME NEW i \in 1 .. n, u[i - 1] = f[i - 1] PROVE u[i] = f[i]
  <2>1. i \in 0 .. n /\ i # 0
    BY <1>1
  <2>2. u[i] = u[i - 1] \o p[i]
    BY <1>7, <2>1
  <2> QED BY <1>5, <1>10, <2>2
<1>11. u[n] = f[n]
  <2>1. GoOnAlike(u, f, n)
    BY <1>9, <1>10 DEF GoOnAlike
  <2> QED BY <1>1, <2>1, Alike, Zenon
<1>12. Concat(p) = f[n]
  BY <1>8, <1>11
<1> QED BY <1>4, <1>5, <1>12 DEF n

LEMMA TotalIs ==
  ASSUME NEW p \in Seq(Nat)
  PROVE  \E f \in [0 .. Len(p) -> Nat] :
           /\ f[0] = 0 /\ \A i \in 1 .. Len(p) : f[i] = f[i - 1] + p[i]
           /\ Total(p) = f[Len(p)]
<1> DEFINE n == Len(p)
           F == [x \in Nat \X Nat |-> x[1] + x[2]]
<1>1. n \in Nat /\ p \in [1 .. n -> Nat]
  OBVIOUS
<1>2. F \in [Nat \X Nat -> Nat] /\ 0 \in Nat
  <2>1. \A x \in Nat, y \in Nat : x + y \in Nat
    OBVIOUS
  <2> QED BY <2>1
<1>3. \A x \in Nat, y \in Nat : F[x, y] = x + y
  OBVIOUS
<1> HIDE DEF n, F
<1>4. PICK f \in [0 .. n -> Nat] : f[0] = 0 /\ \A i \in 1 .. n : f[i] = F[f[i - 1], p[i]]
  <2>1. \E f \in [0 .. n -> Nat] : FoldsUp(f, n, 0, F, p)
    BY <1>1, <1>2, Recursion, Zenon
  <2> QED BY <2>1, Zenon DEF FoldsUp
<1>5. ASSUME NEW i \in 1 .. n PROVE f[i] = f[i - 1] + p[i]
  <2>1. i - 1 \in 0 .. n
    BY <1>1
  <2>2. f[i - 1] \in Nat /\ p[i] \in Nat
    BY <1>1, <2>1
  <2> QED BY <1>3, <1>4, <2>2
<1> DEFINE Eqn(g) == g = [i \in 0 .. n |-> IF i = 0 THEN 0 ELSE g[i - 1] + p[i]]
           u == CHOOSE g : Eqn(g)
<1>6. Eqn(f)
  <2> DEFINE g == [i \in 0 .. n |-> IF i = 0 THEN 0 ELSE f[i - 1] + p[i]]
  <2>1. ASSUME NEW i \in 0 .. n PROVE f[i] = g[i]
    <3>1. CASE i = 0
      BY <1>4, <3>1
    <3>2. CASE i # 0
      <4>1. i \in 1 .. n
        BY <1>1, <3>2
      <4> QED BY <1>5, <3>2, <4>1
    <3> QED BY <3>1, <3>2
  <2>2. g = [i \in 0 .. n |-> g[i]]
    OBVIOUS
  <2> HIDE DEF g
  <2>3. f = g
    BY <2>1, <2>2
  <2> QED BY <2>3, Zenon DEF g
<1>7. Eqn(u)
  BY <1>6, Zenon
<1>8. Total(p) = u[n]
  BY DEF Total, n
<1> HIDE DEF u
<1>9. u[0] = f[0]
  <2>1. 0 \in 0 .. n
    BY <1>1
  <2> QED BY <1>4, <1>7, <2>1
<1>10. ASSUME NEW i \in 1 .. n, u[i - 1] = f[i - 1] PROVE u[i] = f[i]
  <2>1. i \in 0 .. n /\ i # 0
    BY <1>1
  <2>2. u[i] = u[i - 1] + p[i]
    BY <1>7, <2>1
  <2> QED BY <1>5, <1>10, <2>2
<1>11. u[n] = f[n]
  <2>1. GoOnAlike(u, f, n)
    BY <1>9, <1>10 DEF GoOnAlike
  <2> QED BY <1>1, <2>1, Alike, Zenon
<1>12. Total(p) = f[n]
  BY <1>8, <1>11
<1> QED BY <1>4, <1>5, <1>12 DEF n

\* One more piece, one more number.
LEMMA ConcatPrefix ==
  ASSUME NEW B, NEW p \in Seq(Seq(B)), NEW q \in Seq(Seq(B)), Len(q) = Len(p) + 1,
         \A i \in 1 .. Len(p) : q[i] = p[i]
  PROVE  Concat(p) \in Seq(B) /\ Concat(q) = Concat(p) \o q[Len(q)]
<1> DEFINE n == Len(p)
<1>1. n \in Nat /\ Len(q) = n + 1
  OBVIOUS
<1>2. PICK f \in [0 .. n -> Seq(B)] :
        /\ f[0] = <<>> /\ \A i \in 1 .. n : f[i] = f[i - 1] \o p[i]
        /\ Concat(p) = f[n]
  BY ConcatIs, Zenon
<1>3. PICK g \in [0 .. Len(q) -> Seq(B)] :
        /\ g[0] = <<>> /\ \A i \in 1 .. Len(q) : g[i] = g[i - 1] \o q[i]
        /\ Concat(q) = g[Len(q)]
  BY ConcatIs, Zenon
<1> HIDE DEF n
<1>4. ASSUME NEW i \in 1 .. n, f[i - 1] = g[i - 1] PROVE f[i] = g[i]
  <2>1. i \in 1 .. Len(q)
    BY <1>1
  <2>2. q[i] = p[i]
    BY DEF n
  <2>3. f[i] = f[i - 1] \o p[i] /\ g[i] = g[i - 1] \o q[i]
    BY <1>2, <1>3, <2>1
  <2> QED BY <1>4, <2>2, <2>3
<1>5. f[n] = g[n]
  <2>1. GoOnAlike(f, g, n)
    BY <1>2, <1>3, <1>4 DEF GoOnAlike
  <2> QED BY <1>1, <2>1, Alike, Zenon
<1>6. f[n] \in Seq(B)
  BY <1>1
<1>7. n + 1 \in 1 .. Len(q) /\ (n + 1) - 1 = n
  BY <1>1
<1>8. g[n + 1] = g[n] \o q[n + 1]
  BY <1>3, <1>7
<1> QED BY <1>1, <1>2, <1>3, <1>5, <1>6, <1>8

LEMMA TotalPrefix ==
  ASSUME NEW p \in Seq(Nat), NEW q \in Seq(Nat), Len(q) = Len(p) + 1,
         \A i \in 1 .. Len(p) : q[i] = p[i]
  PROVE  Total(p) \in Nat /\ Total(q) = Total(p) + q[Len(q)]
<1> DEFINE n == Len(p)
<1>1. n \in Nat /\ Len(q) = n + 1
  OBVIOUS
<1>2. PICK f \in [0 .. n -> Nat] :
        /\ f[0] = 0 /\ \A i \in 1 .. n : f[i] = f[i - 1] + p[i]
        /\ Total(p) = f[n]
  BY TotalIs, Zenon
<1>3. PICK g \in [0 .. Len(q) -> Nat] :
        /\ g[0] = 0 /\ \A i \in 1 .. Len(q) : g[i] = g[i - 1] + q[i]
        /\ Total(q) = g[Len(q)]
  BY TotalIs, Zenon
<1> HIDE DEF n
<1>4. ASSUME NEW i \in 1 .. n, f[i - 1] = g[i - 1] PROVE f[i] = g[i]
  <2>1. i \in 1 .. Len(q)
    BY <1>1
  <2>2. q[i] = p[i]
    BY DEF n
  <2>3. f[i] = f[i - 1] + p[i] /\ g[i] = g[i - 1] + q[i]
    BY <1>2, <1>3, <2>1
  <2> QED BY <1>4, <2>2, <2>3
<1>5. f[n] = g[n]
  <2>1. GoOnAlike(f, g, n)
    BY <1>2, <1>3, <1>4 DEF GoOnAlike
  <2> QED BY <1>1, <2>1, Alike, Zenon
<1>6. f[n] \in Nat
  BY <1>1
<1>7. n + 1 \in 1 .. Len(q) /\ (n + 1) - 1 = n
  BY <1>1
<1>8. g[n + 1] = g[n] + q[n + 1]
  BY <1>3, <1>7
<1> QED BY <1>1, <1>2, <1>3, <1>5, <1>6, <1>8

-----------------------------------------------------------------------------
(***************************************************************************)
(* The encodings.                                                          *)
(***************************************************************************)
\* The number of bytes that a remaining length takes.
VarnumLen(n) == IF n < 128 THEN 1 ELSE IF n < 16384 THEN 2 ELSE IF n < 2097152 THEN 3 ELSE 4

LEMMA LeastIs ==
  ASSUME NEW S \in SUBSET Int, NEW i \in S, \A j \in S : i <= j
  PROVE  Least(S) = i
<1>1. \E k \in S : \A j \in S : k <= j
  OBVIOUS
<1>2. Least(S) \in S /\ \A j \in S : Least(S) <= j
  BY <1>1, Zenon DEF Least
<1>3. Least(S) \in Int
  BY <1>2
<1> HIDE DEF Least
<1> QED BY <1>2, <1>3

LEMMA Sizes ==
  ASSUME NEW n \in Nat, n < VarnumLimit
  PROVE  Least({i \in 1 .. 4 : n < 128 * Weight[i]}) = VarnumLen(n)
<1> DEFINE S == {i \in 1 .. 4 : n < 128 * Weight[i]}
<1>1. VarnumLen(n) \in S /\ \A j \in S : VarnumLen(n) <= j
  BY SMT DEF VarnumLen, VarnumLimit, Weight
<1>2. S \in SUBSET Int
  OBVIOUS
<1> QED BY <1>1, <1>2, LeastIs

\* Byte i of a number written.
Digit(n, i) == ((n \div Weight[i]) % 128) + Flag(i < VarnumLen(n), 128)

LEMMA Written ==
  ASSUME NEW n \in Nat, n < VarnumLimit
  PROVE  WriteVarnum(n) = [i \in 1 .. VarnumLen(n) |-> Digit(n, i)]
BY Sizes DEF WriteVarnum, Digit

LEMMA WrittenLen ==
  ASSUME NEW n \in Nat, n < VarnumLimit
  PROVE  /\ WriteVarnum(n) \in Seq(Int) /\ Len(WriteVarnum(n)) = VarnumLen(n)
         /\ \A i \in 1 .. VarnumLen(n) : WriteVarnum(n)[i] = Digit(n, i)
<1>1. VarnumLen(n) \in 1 .. 4
  BY SMT DEF VarnumLen
<1>2. \A i \in 1 .. VarnumLen(n) : Digit(n, i) \in Int
  BY <1>1, SMT DEF Digit, Flag, Weight
<1> HIDE DEF VarnumLen, Digit
<1> QED BY <1>1, <1>2, Written

\* Every byte but the last has its high bit set, and the last has not.
LEMMA Continued ==
  ASSUME NEW n \in Nat, n < VarnumLimit, NEW i \in 1 .. VarnumLen(n)
  PROVE  /\ i < VarnumLen(n) => Digit(n, i) >= 128
         /\ i = VarnumLen(n) => Digit(n, i) < 128
         /\ Digit(n, i) % 128 = (n \div Weight[i]) % 128
<1>1. i \in 1 .. 4
  BY SMT DEF VarnumLen
<1>2. /\ Weight[i] \in Nat \ {0}
  BY <1>1, SMT DEF Weight
<1>3. (n \div Weight[i]) % 128 \in 0 .. 127
  BY <1>2, SMT DEF VarnumLimit
<1> HIDE DEF VarnumLen, Weight
<1> DEFINE d == (n \div Weight[i]) % 128
<1>4. Digit(n, i) = d + (IF i < VarnumLen(n) THEN 128 ELSE 0)
  BY DEF Digit, Flag
<1>5. d \in 0 .. 127 BY <1>3
<1> HIDE DEF d
<1>6. VarnumLen(n) \in Nat BY SMT DEF VarnumLen
<1>7. /\ i < VarnumLen(n) => Digit(n, i) >= 128
      /\ i = VarnumLen(n) => Digit(n, i) < 128
      /\ Digit(n, i) % 128 = d
  BY <1>1, <1>4, <1>5, <1>6
<1> QED BY <1>7 DEF d

\* The quotients up to the last byte make up the number.
LEMMA Digits ==
  ASSUME NEW n \in Nat, n < VarnumLimit, NEW d,
         \A i \in 1 .. 4 :
           d[i] = IF i <= VarnumLen(n) THEN ((n \div Weight[i]) % 128) * Weight[i] ELSE 0
  PROVE  d[1] + d[2] + d[3] + d[4] = n
<1>1. CASE n < 128
  BY <1>1, SMT DEF VarnumLen, Weight
<1>2. CASE n >= 128 /\ n < 16384
  BY <1>2, SMT DEF VarnumLen, Weight
<1>3. CASE n >= 16384 /\ n < 2097152
  BY <1>3, SMT DEF VarnumLen, Weight
<1>4. CASE n >= 2097152
  BY <1>4, SMT DEF VarnumLen, Weight, VarnumLimit
<1> QED BY <1>1, <1>2, <1>3, <1>4, SMT DEF VarnumLimit

\* Bytes "bytes" lie in the buffer from place "at" on.
LiesAt(bytes, buf, at) ==
  /\ at + Len(bytes) - 1 <= Len(buf)
  /\ \A i \in 1 .. Len(bytes) : buf[at + i - 1] = bytes[i]

\* A remaining length is read back, from any place of any buffer, as the number
\* that was written there, and reading goes on behind its last byte
\* (lwmqtt_write_varnum and lwmqtt_read_varnum, helpers.c:172).
THEOREM VarnumRoundTrip ==
  ASSUME NEW n \in Nat, n < VarnumLimit, NEW buf \in Seq(Int), NEW at \in Nat \ {0},
         LiesAt(WriteVarnum(n), buf, at)
  PROVE  ReadVarnum(buf, at) = [err |-> "SUCCESS", num |-> n, next |-> at + Len(WriteVarnum(n))]
<1> DEFINE L == VarnumLen(n)
           ends == {i \in 1 .. 4 : at + i - 1 <= Len(buf) /\ buf[at + i - 1] < 128}
           digit == [i \in 1 .. 4 |->
                      IF i <= Least(ends) THEN (buf[at + i - 1] % 128) * Weight[i] ELSE 0]
<1>1. L \in 1 .. 4 /\ Len(WriteVarnum(n)) = L
  BY WrittenLen, SMT DEF VarnumLen
<1>2. at + L - 1 <= Len(buf) /\ \A i \in 1 .. L : buf[at + i - 1] = Digit(n, i)
  BY <1>1, WrittenLen DEF LiesAt
<1>3. Least(ends) = L
  <2>1. L \in ends
    <3>1. Digit(n, L) < 128 BY <1>1, Continued
    <3> HIDE DEF L
    <3> QED BY <1>1, <1>2, <3>1, SMTT(30)
  <2>2. \A j \in ends : L <= j
    <3> SUFFICES ASSUME NEW j \in 1 .. 4, j < L, buf[at + j - 1] < 128 PROVE FALSE
      <4> HIDE DEF L
      <4> QED BY <1>1, SMTT(60)
    <3>1. j \in 1 .. L BY <1>1
    <3>2. Digit(n, j) >= 128 BY <3>1, Continued
    <3>3. buf[at + j - 1] = Digit(n, j) BY <3>1, <1>2
    <3>4. Digit(n, j) \in Int BY <3>1, WrittenLen, <1>1
    <3> QED BY <3>2, <3>3, <3>4
  <2> HIDE DEF L, ends
  <2>3. ends \in SUBSET Int BY DEF ends
  <2> QED BY <2>1, <2>2, <2>3, LeastIs
<1>4. ends # {}
  <2>1. Digit(n, L) < 128 BY <1>1, Continued
  <2> HIDE DEF L
  <2>2. L \in ends BY <1>1, <1>2, <2>1, SMTT(30)
  <2> HIDE DEF ends
  <2> QED BY <2>2
<1>5. \A i \in 1 .. 4 : digit[i] = IF i <= L THEN ((n \div Weight[i]) % 128) * Weight[i] ELSE 0
  <2> TAKE i \in 1 .. 4
  <2>1. CASE i <= L
    <3>1. i \in 1 .. L BY <1>1, <2>1
    <3>2. buf[at + i - 1] % 128 = (n \div Weight[i]) % 128 BY <1>2, <3>1, Continued
    <3> HIDE DEF L, ends
    <3> QED BY <1>3, <2>1, <3>2
  <2>2. CASE ~(i <= L)
    <3> HIDE DEF L, ends
    <3> QED BY <1>3, <2>2
  <2> QED BY <2>1, <2>2
<1>6. digit[1] + digit[2] + digit[3] + digit[4] = n
  <2> HIDE DEF digit
  <2> QED BY <1>5, Digits
<1>7. ReadVarnum(buf, at) = [err |-> "SUCCESS", num |-> digit[1] + digit[2] + digit[3] + digit[4],
                             next |-> at + Least(ends)]
  BY <1>4, SMT DEF ReadVarnum
<1> HIDE DEF L, digit, ends
<1> QED BY <1>1, <1>3, <1>6, <1>7

-----------------------------------------------------------------------------
\* The header and the bytes behind the remaining length.
LEMMA Codes ==
  ASSUME NEW type \in DOMAIN Code
  PROVE  Code[type] \in 1 .. 14
BY DEF Code

LEMMA HeaderBits ==
  ASSUME NEW type \in DOMAIN Code, NEW flags \in 0 .. 15
  PROVE  /\ Header(type, flags) \in Int
         /\ ReadBits(Header(type, flags), 16, 256) = Code[type]
         /\ ReadBits(Header(type, flags), 1, 16) = flags
<1>1. Code[type] \in 1 .. 14
  BY Codes
<1> DEFINE code == Code[type]
<1> HIDE DEF code
<1>2. /\ 16 * code + flags \in Int
      /\ ((16 * code + flags) % 256) \div 16 = code
      /\ ((16 * code + flags) % 16) \div 1 = flags
  BY <1>1, SMTT(30) DEF code
<1> QED BY <1>2 DEF Header, ReadBits, code

\* Sequence c is a followed by b.
Joined(c, a, b) ==
  /\ c \in Seq(Int) /\ Len(c) = Len(a) + Len(b)
  /\ \A i \in 1 .. Len(a) : c[i] = a[i]
  /\ \A i \in 1 .. Len(b) : c[Len(a) + i] = b[i]

LEMMA Join ==
  ASSUME NEW a \in Seq(Int), NEW b \in Seq(Int)
  PROVE  a \o b \in Seq(Int) /\ Joined(a \o b, a, b)
<1> DEFINE c == a \o b
<1>1. c \in Seq(Int)
  OBVIOUS
<1>2. Len(c) = Len(a) + Len(b)
  OBVIOUS
<1>3. \A i \in 1 .. Len(a) : c[i] = a[i]
  OBVIOUS
<1>4. \A i \in 1 .. Len(b) : c[Len(a) + i] = b[i]
  OBVIOUS
<1> HIDE DEF c
<1>5. c \in Seq(Int) /\ Joined(c, a, b)
  BY <1>1, <1>2, <1>3, <1>4, Zenon DEF Joined
<1> QED BY <1>5 DEF c

\* One more than the largest number in two bytes.
NumLimit == 65536

LEMMA NumRead ==
  ASSUME NEW n \in Nat, n < NumLimit
  PROVE  /\ WriteNum(n) \in Seq(Int) /\ Len(WriteNum(n)) = 2
         /\ WriteNum(n)[1] \in Int /\ WriteNum(n)[2] \in Int
         /\ 256 * WriteNum(n)[1] + WriteNum(n)[2] = n
<1>1. n \div 256 \in Int /\ n % 256 \in Int /\ 256 * (n \div 256) + (n % 256) = n
  BY SMT DEF NumLimit
<1> QED BY <1>1 DEF WriteNum

\* The header of a packet, as every decoder takes it apart.
HeaderIs(buf, type, flags) ==
  ReadBits(buf[1], 16, 256) = Code[type] /\ ReadBits(buf[1], 1, 16) = flags

LEMMA HeaderReadAt ==
  ASSUME NEW type \in DOMAIN Code, NEW flags \in 0 .. 15, NEW buf, buf[1] = Header(type, flags)
  PROVE  HeaderIs(buf, type, flags)
<1> DEFINE h == Header(type, flags)
<1>1. ReadBits(h, 16, 256) = Code[type] /\ ReadBits(h, 1, 16) = flags
  BY HeaderBits
<1>2. buf[1] = h
  OBVIOUS
<1> HIDE DEF h
<1> QED BY <1>1, <1>2 DEF HeaderIs

\* Whatever announces two bytes and has them is decoded as an acknowledgement.
LEMMA AckRead ==
  ASSUME NEW type \in DOMAIN Code, NEW flags,
         flags = (IF type = "PUBREL" THEN 2 ELSE 0),
         NEW buf \in Seq(Int), Len(buf) >= 4, HeaderIs(buf, type, flags),
         ReadVarnum(buf, 2) = [err |-> "SUCCESS", num |-> 2, next |-> 3]
  PROVE  DecodeAck(buf, type) = [err |-> "SUCCESS", id |-> ReadNum(buf, 3)]
<1> DEFINE r == ReadVarnum(buf, 2)
<1>1. r.err = "SUCCESS" /\ r.num = 2 /\ r.next = 3
  OBVIOUS
<1> HIDE DEF r
<1>2. ~(Len(buf) < r.next + 1)
  BY <1>1
<1>3. /\ ~(ReadBits(buf[1], 16, 256) # Code[type])
      /\ ~(ReadBits(buf[1], 1, 16) \notin {IF type = "PUBREL" THEN 2 ELSE 0})
  BY DEF HeaderIs
<1>4. ~(r.num \notin {2})
  BY <1>1
<1> HIDE DEF HeaderIs
<1> QED BY <1>1, <1>2, <1>3, <1>4, Zenon DEF DecodeAck, Begins, r

\* Whatever id an acknowledgement has, it is read back, also from a buffer in
\* which older bytes follow (lwmqtt_encode_ack and lwmqtt_decode_ack, packet.c:347 and packet.c:303).
THEOREM AckRoundTrip ==
  ASSUME NEW type \in {"PUBACK", "PUBREC", "PUBREL", "PUBCOMP"}, NEW id \in Nat, id < NumLimit,
         NEW room \in Nat, room >= 4, NEW old \in Seq(Int)
  PROVE  /\ EncodeAck(type, id, room).err = "SUCCESS"
         /\ DecodeAck(EncodeAck(type, id, room).packet \o old, type) = [err |-> "SUCCESS", id |-> id]
<1> DEFINE flags == IF type = "PUBREL" THEN 2 ELSE 0
           one == <<Header(type, flags)>>
           v == WriteVarnum(2)
           w == WriteNum(id)
           front == one \o v
           packet == front \o w
           buf == packet \o old
<1>1. type \in DOMAIN Code /\ flags \in 0 .. 15
  BY DEF Code
<1>2. 2 \in Nat /\ 2 < VarnumLimit /\ VarnumLen(2) = 1
  BY SMT DEF VarnumLimit, VarnumLen
<1>3. v \in Seq(Int) /\ Len(v) = 1
  BY <1>2, WrittenLen, Zenon
<1>4. w \in Seq(Int) /\ Len(w) = 2
  BY NumRead
<1>5. one \in Seq(Int) /\ Len(one) = 1 /\ one[1] = Header(type, flags)
  <2>1. Header(type, flags) \in Int
    BY <1>1, HeaderBits, ZenonT(60)
  <2> QED BY <2>1
<1> HIDE DEF flags, one, v, w
<1>6. front \in Seq(Int) /\ Joined(front, one, v)
  BY <1>3, <1>5, Join, Zenon
<1> HIDE DEF front
<1>7. packet \in Seq(Int) /\ Joined(packet, front, w)
  BY <1>4, <1>6, Join, Zenon
<1> HIDE DEF packet
<1>8. buf \in Seq(Int) /\ Joined(buf, packet, old)
  BY <1>7, Join, Zenon
<1> HIDE DEF buf
<1>9. /\ Len(packet) = 4 /\ Len(buf) >= 4 /\ buf[1] = Header(type, flags)
      /\ LiesAt(v, buf, 2) /\ buf[3] = w[1] /\ buf[4] = w[2]
  <2>1. Len(front) = 2 /\ front[1] = one[1] /\ front[2] = v[1]
    BY <1>3, <1>5, <1>6 DEF Joined
  <2>2. Len(packet) = 4 /\ packet[1] = front[1] /\ packet[2] = front[2]
    BY <1>4, <1>7, <2>1 DEF Joined
  <2>3. packet[2 + 1] = w[1] /\ packet[2 + 2] = w[2]
    BY <1>4, <1>7, <2>1 DEF Joined
  <2>4. /\ Len(buf) = 4 + Len(old) /\ Len(old) \in Nat
        /\ \A i \in 1 .. 4 : buf[i] = packet[i]
    BY <1>8, <2>2 DEF Joined
  <2>5. /\ Len(buf) >= 4 /\ buf[1] = one[1] /\ buf[2] = v[1]
        /\ buf[3] = w[1] /\ buf[4] = w[2]
    BY <2>1, <2>2, <2>3, <2>4
  <2>6. LiesAt(v, buf, 2)
    BY <1>3, <2>5 DEF LiesAt
  <2> QED BY <1>5, <2>2, <2>5, <2>6
<1>10. EncodeAck(type, id, room) = [err |-> "SUCCESS", packet |-> packet]
  <2>1. ~(2 >= VarnumLimit) /\ ~(Len(packet) > room)
    BY <1>9, SMT DEF VarnumLimit
  <2>2. packet = <<Header(type, Flag(type = "PUBREL", 2))>> \o WriteVarnum(2) \o WriteNum(id)
    BY DEF packet, front, one, v, w, flags, Flag
  <2> QED BY <2>1, <2>2, Zenon DEF EncodeAck, Encode
<1>11. DecodeAck(buf, type) = [err |-> "SUCCESS", id |-> id]
  <2>1. HeaderIs(buf, type, flags)
    BY <1>1, <1>9, HeaderReadAt, Zenon
  <2>2. ReadVarnum(buf, 2) = [err |-> "SUCCESS", num |-> 2, next |-> 3]
    <3>1. 2 \in Nat \ {0}
      OBVIOUS
    <3>2. ReadVarnum(buf, 2) = [err |-> "SUCCESS", num |-> 2, next |-> 2 + Len(v)]
      BY <1>2, <1>8, <1>9, <3>1, VarnumRoundTrip, Zenon DEF v
    <3> QED BY <1>3, <3>2
  <2>3. ReadNum(buf, 3) = id
    <3>1. 256 * w[1] + w[2] = id
      BY NumRead DEF w
    <3> QED BY <1>9, <3>1 DEF ReadNum
  <2>4. DecodeAck(buf, type) = [err |-> "SUCCESS", id |-> ReadNum(buf, 3)]
    BY <1>1, <1>8, <1>9, <2>1, <2>2, AckRead, Zenon DEF flags
  <2> QED BY <2>3, <2>4, Zenon
<1> DEFINE out == EncodeAck(type, id, room)
<1>12. out.err = "SUCCESS" /\ out.packet = packet
  BY <1>10
<1> HIDE DEF out
<1>13. DecodeAck(out.packet \o old, type) = [err |-> "SUCCESS", id |-> id]
  BY <1>11, <1>12, Zenon DEF buf
<1> QED BY <1>12, <1>13, Zenon DEF out

-----------------------------------------------------------------------------
LEMMA SumOfFour ==
  ASSUME NEW a \in Nat, NEW b \in Nat, NEW c \in Nat, NEW d \in Nat
  PROVE  a + b + c + d \in Nat
OBVIOUS

LEMMA LengthOf ==
  ASSUME NEW s \in Seq(Nat), NEW m \in Nat, NEW n \in Nat, 1 <= m, m <= n, n <= Len(s) + 1
  PROVE  Len(SubSeq(s, m, n - 1)) = n - m
OBVIOUS

\* The parts of a message make up what the packet announces.
LEMMA PartsOf ==
  ASSUME NEW next \in Nat, NEW num \in Nat, NEW rest \in Nat, NEW more \in Nat
  PROVE  LET last == next + num - 1
         IN 2 + (rest - (next + 2)) + more + (last + 1 - (rest + more)) = num
OBVIOUS

LEMMA LeastIn ==
  ASSUME NEW S \in SUBSET (1 .. 4), S # {}
  PROVE  Least(S) \in S
<1>1. PICK i \in S : \A j \in S : i <= j
  <2>1. CASE 1 \in S
    BY <2>1
  <2>2. CASE 1 \notin S /\ 2 \in S
    BY <2>2
  <2>3. CASE 1 \notin S /\ 2 \notin S /\ 3 \in S
    BY <2>3
  <2>4. CASE 1 \notin S /\ 2 \notin S /\ 3 \notin S
    <3>1. \A j \in S : j = 4
      BY <2>4
    <3>2. PICK i \in S : TRUE
      BY S # {}, Zenon
    <3>3. \A j \in S : i <= j
      BY <3>1, <3>2
    <3> QED BY <3>2, <3>3
  <2> QED BY <2>1, <2>2, <2>3, <2>4
<1>2. S \in SUBSET Int
  OBVIOUS
<1> QED BY <1>1, <1>2, LeastIs

\* What a remaining length is read as, and where the rest begins.
LEMMA VarnumRead ==
  ASSUME NEW buf \in Seq(Nat), NEW at \in Nat \ {0}, ReadVarnum(buf, at).err = "SUCCESS"
  PROVE  ReadVarnum(buf, at).num \in Nat /\ ReadVarnum(buf, at).next \in Nat \ 0 .. at
<1> DEFINE ends == {i \in 1 .. 4 : at + i - 1 <= Len(buf) /\ buf[at + i - 1] < 128}
           len == Least(ends)
           digit == [i \in 1 .. 4 |-> IF i <= len THEN (buf[at + i - 1] % 128) * Weight[i] ELSE 0]
<1>1. ends # {}
  <2> SUFFICES ASSUME ends = {} PROVE FALSE
    OBVIOUS
  <2>1. ReadVarnum(buf, at).err # "SUCCESS"
    BY SMT DEF ReadVarnum, Error
  <2> QED BY <2>1
<1>2. ReadVarnum(buf, at) = [err |-> "SUCCESS", num |-> digit[1] + digit[2] + digit[3] + digit[4],
                             next |-> at + len]
  BY <1>1, SMT DEF ReadVarnum
<1>3. len \in 1 .. 4 /\ at + len - 1 <= Len(buf)
  <2>1. ends \in SUBSET (1 .. 4)
    OBVIOUS
  <2> HIDE DEF ends
  <2>2. len \in ends
    BY <1>1, <2>1, LeastIn
  <2> HIDE DEF len
  <2> QED BY <2>2 DEF ends
<1>4. \A i \in 1 .. 4 : digit[i] \in Nat
  <2> TAKE i \in 1 .. 4
  <2> HIDE DEF ends
  <2>1. CASE i <= len
    <3>1. at + i - 1 \in 1 .. Len(buf)
      BY <1>3, <2>1
    <3>2. buf[at + i - 1] \in Nat
      BY <3>1
    <3>3. Weight[i] \in Nat
      BY SMT DEF Weight
    <3> DEFINE b == buf[at + i - 1]
               w == Weight[i]
    <3> HIDE DEF b, w
    <3>4. (b % 128) * w \in Nat
      BY <3>2, <3>3 DEF b, w
    <3> HIDE DEF len
    <3> QED BY <2>1, <3>4 DEF b, w
  <2>2. CASE ~(i <= len)
    <3> HIDE DEF len
    <3> QED BY <2>2
  <2> QED BY <2>1, <2>2
<1> HIDE DEF digit, len, ends
<1>5. digit[1] + digit[2] + digit[3] + digit[4] \in Nat
  <2>1. digit[1] \in Nat /\ digit[2] \in Nat /\ digit[3] \in Nat /\ digit[4] \in Nat
    BY <1>4
  <2> QED BY <2>1, SumOfFour, Zenon
<1>6. at + len \in Nat \ 0 .. at
  BY <1>3
<1> QED BY <1>2, <1>5, <1>6

\* A message that a decoder accepts lies within the packet: topic, id and payload
\* are just as long as the packet announces, and reach no further than the buffer,
\* whatever lengths the bytes claim (lwmqtt_decode_publish, packet.c:386).
THEOREM PublishWithin ==
  ASSUME NEW buf \in Seq(Nat), DecodePublish(buf).err = "SUCCESS"
  PROVE  LET d == DecodePublish(buf)
             r == ReadVarnum(buf, 2)
         IN /\ r.next + r.num - 1 <= Len(buf)
            /\ 2 + Len(d.topic) + (IF d.qos > 0 THEN 2 ELSE 0) + Len(d.payload) = r.num
<1> DEFINE r == ReadVarnum(buf, 2)
           last == r.next + r.num - 1
           qos == ReadBits(buf[1], 2, 8)
           topic == r.next + 2
           rest == topic + ReadNum(buf, r.next)
           payload == IF qos > 0 THEN rest + 2 ELSE rest
           id == IF qos > 0 THEN ReadNum(buf, rest) ELSE 0
           d == [err |-> "SUCCESS", qos |-> qos, id |-> id, dup |-> ReadBits(buf[1], 8, 16) = 1,
                 retained |-> ReadBits(buf[1], 1, 2) = 1,
                 topic |-> SubSeq(buf, topic, rest - 1), payload |-> SubSeq(buf, payload, last)]
<1> DEFINE flags == {f \in 0 .. 15 : ReadBits(f, 2, 8) # 3}
<1> HIDE DEF r, last, qos, topic, rest, payload, id, flags
<1> DEFINE begins == Begins(buf, "PUBLISH", flags, Nat \ 0 .. 1)
<1>1. DecodePublish(buf) =
        IF begins # "SUCCESS" THEN Error(begins)
        ELSE IF Len(buf) < last \/ payload > last + 1 THEN Error("BUFFER_TOO_SHORT")
        ELSE IF qos > 0 /\ id = 0 THEN Error("MISSING_OR_WRONG_PACKET")
        ELSE d
  BY Zenon DEF DecodePublish, r, last, qos, topic, rest, payload, id, flags, PublishEnd
<1> HIDE DEF begins
<1>2. /\ r.err = "SUCCESS" /\ r.num \in Nat \ 0 .. 1 /\ ~(Len(buf) < last) /\ ~(payload > last + 1)
      /\ DecodePublish(buf) = d
  <2>1. begins = "SUCCESS"
    BY <1>1 DEF Error
  <2>2. /\ ~(Len(buf) < last) /\ ~(payload > last + 1)
        /\ DecodePublish(buf) = d
    BY <1>1, <2>1 DEF Error
  <2>3. r.err = "SUCCESS" /\ r.num \in Nat \ 0 .. 1
    BY <2>1, Zenon DEF begins, Begins, r
  <2> QED BY <2>2, <2>3
<1>3. r.num \in Nat /\ r.num >= 2 /\ r.next \in Nat /\ r.next > 2
  <2>1. 2 \in Nat \ {0}
    OBVIOUS
  <2>2. r.num \in Nat /\ r.next \in Nat \ 0 .. 2
    BY <1>2, <2>1, VarnumRead, Zenon DEF r
  <2>3. r.num \notin 0 .. 1
    BY <1>2, Zenon
  <2> QED BY <2>2, <2>3, SMTT(60)
<1> DEFINE next == r.next
           num == r.num
<1> HIDE DEF next, num
<1>4. /\ last = next + num - 1 /\ next \in Nat /\ next > 2 /\ num \in Nat /\ num >= 2
      /\ last <= Len(buf)
  <2>1. next \in Nat /\ next > 2 /\ num \in Nat /\ num >= 2
    BY <1>3 DEF next, num
  <2>2. last = next + num - 1
    BY DEF last, next, num
  <2> QED BY <1>2, <2>1, <2>2
<1>5. ReadNum(buf, next) \in Nat
  <2>1. next \in 1 .. Len(buf) /\ next + 1 \in 1 .. Len(buf)
    BY <1>4
  <2>2. buf[next] \in Nat /\ buf[next + 1] \in Nat
    BY <2>1
  <2> QED BY <2>2 DEF ReadNum
<1> DEFINE more == IF qos > 0 THEN 2 ELSE 0
<1>6. /\ topic = next + 2 /\ topic \in Nat /\ rest \in Nat /\ rest >= topic
      /\ more \in Nat /\ payload = rest + more /\ payload \in Nat
  <2>1. topic = next + 2 /\ topic \in Nat
    BY <1>4 DEF topic, next
  <2>2. rest = topic + ReadNum(buf, next)
    BY DEF rest, next
  <2>3. rest \in Nat /\ rest >= topic
    BY <1>5, <2>1, <2>2
  <2>4. more \in Nat /\ payload = rest + more
    BY <2>3 DEF payload
  <2> HIDE DEF more
  <2> QED BY <2>1, <2>3, <2>4
<1> HIDE DEF more
<1>7. payload <= last + 1
  BY <1>2, <1>4, <1>6
<1>8. Len(SubSeq(buf, topic, rest - 1)) = rest - topic
  <2>1. 1 <= topic /\ topic <= rest /\ rest <= Len(buf) + 1
    BY <1>4, <1>6, <1>7
  <2> QED BY <1>6, <2>1, LengthOf, SMTT(30)
<1>9. Len(SubSeq(buf, payload, last)) = last + 1 - payload
  <2>1. 1 <= payload /\ payload <= last + 1 /\ last + 1 <= Len(buf) + 1 /\ last + 1 \in Nat
    BY <1>4, <1>6, <1>7
  <2>2. (last + 1) - 1 = last
    BY <1>4
  <2> QED BY <1>6, <2>1, <2>2, LengthOf, SMTT(30)
<1>10. /\ d.qos = qos /\ d.topic = SubSeq(buf, topic, rest - 1)
       /\ d.payload = SubSeq(buf, payload, last)
  OBVIOUS
<1> HIDE DEF d
<1>11. 2 + (rest - topic) + more + (last + 1 - payload) = num
  <2>1. 2 + (rest - (next + 2)) + more + (next + num - 1 + 1 - (rest + more)) = num
    BY <1>4, <1>6, PartsOf
  <2> QED BY <1>4, <1>6, <2>1, Zenon
<1>12. 2 + Len(d.topic) + (IF d.qos > 0 THEN 2 ELSE 0) + Len(d.payload) = r.num
  BY <1>8, <1>9, <1>10, <1>11, Zenon DEF more, num
<1>13. r.next + r.num - 1 <= Len(buf)
  BY <1>4, Zenon DEF next, num
<1> QED BY <1>2, <1>12, <1>13, Zenon DEF r

-----------------------------------------------------------------------------
(***************************************************************************)
(* Where the packets lie in the stream.                                    *)
(***************************************************************************)
Byte == 0 .. 255

\* Where the packet after the first k ends and the next one begins.
Off(s, k) == Total([i \in 1 .. k |-> Len(s[i].bytes)])

\* The packets lie in the stream one behind another.
Laid(s, w) ==
  /\ Off(s, Len(s)) = Len(w)
  /\ \A k \in 1 .. Len(s) : \A j \in 1 .. Len(s[k].bytes) : w[Off(s, k - 1) + j] = s[k].bytes[j]

\* The packets have bytes.
Sized(s) == \A i \in 1 .. Len(s) : s[i].bytes \in Seq(Byte)

LEMMA OffZero == ASSUME NEW s PROVE Off(s, 0) = 0
<1> DEFINE q == [i \in 1 .. 0 |-> Len(s[i].bytes)]
<1>1. q \in Seq(Nat) /\ Len(q) = 0
  OBVIOUS
<1> HIDE DEF q
<1>2. Total(q) = 0
  BY <1>1, TotalIs
<1> QED BY <1>2 DEF Off, q

LEMMA OffStep ==
  ASSUME NEW P, NEW s \in Seq(P), Sized(s), NEW k \in 1 .. Len(s)
  PROVE  /\ Off(s, k - 1) \in Nat /\ Off(s, k) \in Nat
         /\ Off(s, k) = Off(s, k - 1) + Len(s[k].bytes) /\ Len(s[k].bytes) \in Nat
<1> DEFINE p == [i \in 1 .. k - 1 |-> Len(s[i].bytes)]
           q == [i \in 1 .. k |-> Len(s[i].bytes)]
<1>1. \A i \in 1 .. k : Len(s[i].bytes) \in Nat
  BY DEF Sized
<1>2. p \in Seq(Nat) /\ Len(p) = k - 1
  BY <1>1
<1>3. q \in Seq(Nat) /\ Len(q) = k /\ q[k] = Len(s[k].bytes)
  BY <1>1
<1>4. \A i \in 1 .. k - 1 : q[i] = p[i]
  OBVIOUS
<1> HIDE DEF p, q
<1>5. Total(p) \in Nat /\ Total(q) = Total(p) + q[Len(q)]
  <2>1. Len(q) = Len(p) + 1 /\ \A i \in 1 .. Len(p) : q[i] = p[i]
    BY <1>2, <1>3, <1>4
  <2> QED BY <1>2, <1>3, <2>1, TotalPrefix, Zenon
<1>6. Total(p) = Off(s, k - 1) /\ Total(q) = Off(s, k)
  BY DEF p, q, Off
<1> QED BY <1>1, <1>3, <1>5, <1>6

LEMMA OffGrows ==
  ASSUME NEW P, NEW s \in Seq(P), Sized(s), NEW k \in 0 .. Len(s)
  PROVE  Off(s, k) \in Nat /\ Off(s, Len(s)) \in Nat /\ Off(s, k) <= Off(s, Len(s))
<1> DEFINE n == Len(s) - k
           S == {i \in 0 .. n : Off(s, k + i) \in Nat /\ Off(s, k) <= Off(s, k + i)}
<1>1. n \in Nat /\ k \in Nat /\ k + n = Len(s)
  OBVIOUS
<1>2. Off(s, k) \in Nat
  <2>1. CASE k = 0
    BY <2>1, OffZero
  <2>2. CASE k # 0
    BY <2>2, OffStep
  <2> QED BY <2>1, <2>2
<1> HIDE DEF n
<1>3. 0 \in S
  BY <1>1, <1>2
<1>4. ASSUME NEW i \in S, i < n PROVE i + 1 \in S
  <2>1. i \in 0 .. n /\ Off(s, k + i) \in Nat /\ Off(s, k) <= Off(s, k + i)
    OBVIOUS
  <2>2. k + i + 1 \in 1 .. Len(s) /\ (k + i + 1) - 1 = k + i /\ k + i + 1 = k + (i + 1) /\ i + 1 \in 0 .. n
    BY <1>1, <1>4, <2>1
  <2>3. Off(s, k + (i + 1)) = Off(s, k + i) + Len(s[k + (i + 1)].bytes) /\ Len(s[k + (i + 1)].bytes) \in Nat
    BY <2>2, OffStep
  <2>4. Off(s, k + (i + 1)) \in Nat /\ Off(s, k) <= Off(s, k + (i + 1))
    <3> DEFINE x == Off(s, k)
               y == Off(s, k + i)
               z == Off(s, k + (i + 1))
               l == Len(s[k + (i + 1)].bytes)
    <3>1. x \in Nat /\ y \in Nat /\ x <= y /\ z = y + l /\ l \in Nat
      BY <1>2, <2>1, <2>3, Zenon
    <3> HIDE DEF x, y, z, l
    <3>2. z \in Nat /\ x <= z
      BY <3>1
    <3> QED BY <3>2, Zenon DEF x, z
  <2> QED BY <2>2, <2>4, Zenon
<1>5. n \in S
  <2>1. S \subseteq 0 .. n
    OBVIOUS
  <2> HIDE DEF S
  <2>2. S = 0 .. n
    BY <1>1, <1>3, <1>4, <2>1, Induction, Zenon
  <2> QED BY <1>1, <2>2
<1>6. Off(s, k + n) \in Nat /\ Off(s, k) <= Off(s, k + n)
  BY <1>5, Zenon
<1> QED BY <1>1, <1>2, <1>6, Zenon

LEMMA LaidAppend ==
  ASSUME NEW P, NEW s \in Seq(P), Sized(s), NEW w \in Seq(Byte), Laid(s, w),
         NEW x \in P, x.bytes \in Seq(Byte)
  PROVE  Sized(Append(s, x)) /\ Laid(Append(s, x), w \o x.bytes) /\ w \o x.bytes \in Seq(Byte)
<1> DEFINE t == Append(s, x)
           n == Len(s)
           b == x.bytes
           v == w \o b
<1>1. t \in Seq(P) /\ Len(t) = n + 1 /\ n \in Nat /\ t[n + 1] = x
  OBVIOUS
<1>2. \A i \in 1 .. n : t[i] = s[i]
  OBVIOUS
<1>3. Len(w) \in Nat /\ Len(b) \in Nat /\ v \in Seq(Byte) /\ Len(v) = Len(w) + Len(b)
  BY DEF Byte
<1>4. \A i \in 1 .. Len(w) : v[i] = w[i]
  OBVIOUS
<1>5. \A i \in 1 .. Len(b) : v[Len(w) + i] = b[i]
  OBVIOUS
<1>6. Sized(t)
  <2>1. ASSUME NEW i \in 1 .. n + 1 PROVE t[i].bytes \in Seq(Byte)
    <3>1. CASE i = n + 1
      BY <1>1, <3>1
    <3>2. CASE i # n + 1
      <4>1. i \in 1 .. n
        BY <1>1, <3>2
      <4> QED BY <1>2, <4>1 DEF Sized
    <3> QED BY <3>1, <3>2
  <2> HIDE DEF t
  <2> QED BY <1>1, <2>1 DEF Sized
<1>7. ASSUME NEW k \in 0 .. n PROVE Off(t, k) = Off(s, k)
  <2> DEFINE f == [i \in 1 .. k |-> Len(t[i].bytes)]
             g == [i \in 1 .. k |-> Len(s[i].bytes)]
  <2>1. \A i \in 1 .. k : t[i] = s[i]
    BY <1>1, <1>2
  <2> HIDE DEF t
  <2>2. f = g
    BY <2>1
  <2> QED BY <2>2, Zenon DEF Off
<1> HIDE DEF t, v, b, n
<1>8. n + 1 \in 1 .. Len(t) /\ (n + 1) - 1 = n /\ n \in 0 .. n
  BY <1>1
<1>9. Off(t, n) = Len(w)
  BY <1>7, <1>8 DEF Laid, n
<1>10. Off(t, Len(t)) = Len(v)
  <2>1. Off(t, n + 1) = Off(t, n) + Len(t[n + 1].bytes)
    BY <1>1, <1>6, <1>8, OffStep
  <2> QED BY <1>1, <1>3, <1>9, <2>1 DEF b
<1>11. ASSUME NEW k \in 1 .. Len(t), NEW j \in 1 .. Len(t[k].bytes)
       PROVE  v[Off(t, k - 1) + j] = t[k].bytes[j]
  <2>1. CASE k = n + 1
    BY <1>1, <1>5, <1>8, <1>9, <2>1 DEF b
  <2>2. CASE k # n + 1
    <3>1. k \in 1 .. n /\ k \in 0 .. n /\ k - 1 \in 0 .. n
      BY <1>1, <2>2
    <3>2. t[k] = s[k] /\ Off(t, k - 1) = Off(s, k - 1)
      BY <1>2, <1>7, <3>1
    <3>3. /\ Off(s, k - 1) \in Nat /\ Off(s, k) = Off(s, k - 1) + Len(s[k].bytes)
          /\ Len(s[k].bytes) \in Nat
      BY <3>1, OffStep DEF n
    <3>4. Off(s, k) <= Off(s, n) /\ Off(s, n) = Len(w)
      BY <3>1, OffGrows DEF n, Laid
    <3>5. j \in 1 .. Len(s[k].bytes)
      BY <3>2
    <3>6. Off(s, k - 1) + j \in 1 .. Len(w)
      <4> DEFINE a == Off(s, k - 1)
                 c == Off(s, k)
                 l == Len(s[k].bytes)
                 m == Len(w)
      <4>1. a \in Nat /\ c = a + l /\ l \in Nat /\ c <= m /\ m \in Nat /\ j \in 1 .. l
        BY <1>3, <3>3, <3>4, <3>5
      <4> HIDE DEF a, c, l, m
      <4>2. a + j \in 1 .. m
        BY <4>1
      <4> QED BY <4>2 DEF a, m
    <3>7. w[Off(s, k - 1) + j] = s[k].bytes[j]
      BY <3>1, <3>5 DEF Laid, n
    <3> QED BY <1>4, <3>2, <3>6, <3>7
  <2> QED BY <2>1, <2>2
<1>12. Laid(t, v)
  BY <1>10, <1>11 DEF Laid
<1> QED BY <1>3, <1>6, <1>12 DEF t, v, b

LEMMA LaidInit ==
  ASSUME NEW P, NEW s \in Seq(P), Sized(s)
  PROVE  LET w == Concat([i \in 1 .. Len(s) |-> s[i].bytes])
         IN w \in Seq(Byte) /\ Laid(s, w)
<1> DEFINE n == Len(s)
           Start(k) == SubSeq(s, 1, k)
           Bytes(k) == [i \in 1 .. k |-> s[i].bytes]
           W(k) == Concat(Bytes(k))
           Good(k) == Sized(Start(k)) /\ W(k) \in Seq(Byte) /\ Laid(Start(k), W(k))
           S == {k \in 0 .. n : Good(k)}
<1>1. n \in Nat /\ \A i \in 1 .. n : s[i] \in P /\ s[i].bytes \in Seq(Byte)
  BY DEF Sized
<1>2. \A k \in 0 .. n : Bytes(k) \in Seq(Seq(Byte)) /\ Len(Bytes(k)) = k
  BY <1>1
<1> HIDE DEF n
<1>3. 0 \in S
  <2>1. 0 \in 0 .. n
    BY <1>1
  <2>2. Start(0) = <<>> /\ Len(Start(0)) = 0
    OBVIOUS
  <2>3. Bytes(0) \in Seq(Seq(Byte)) /\ Len(Bytes(0)) = 0
    BY <1>2, <2>1
  <2>4. W(0) = <<>>
    <3> DEFINE p == Bytes(0)
    <3>1. p \in Seq(Seq(Byte)) /\ Len(p) = 0
      BY <2>3
    <3> HIDE DEF p
    <3>2. \E f \in [0 .. Len(p) -> Seq(Byte)] :
            /\ f[0] = <<>> /\ \A i \in 1 .. Len(p) : f[i] = f[i - 1] \o p[i]
            /\ Concat(p) = f[Len(p)]
      BY <3>1, ConcatIs, Zenon
    <3>3. Concat(p) = <<>>
      BY <3>1, <3>2
    <3> QED BY <3>3 DEF p
  <2> HIDE DEF Start, W
  <2>5. Sized(Start(0)) /\ W(0) \in Seq(Byte)
    <3>1. \A i \in 1 .. 0 : Start(0)[i].bytes \in Seq(Byte)
      OBVIOUS
    <3>2. Sized(Start(0))
      BY <2>2, <3>1, Zenon DEF Sized
    <3>3. W(0) \in Seq(Byte)
      <4>1. <<>> \in Seq(Byte)
        OBVIOUS
      <4> QED BY <2>4, <4>1, Zenon
    <3> QED BY <3>2, <3>3
  <2>6. Laid(Start(0), W(0))
    BY <2>2, <2>4, OffZero DEF Laid
  <2> QED BY <2>1, <2>5, <2>6
<1>4. ASSUME NEW k \in S, k < n PROVE k + 1 \in S
  <2>1. k \in 0 .. n /\ Good(k)
    BY Zenon
  <2> HIDE DEF S
  <2>a. k \in 0 .. n
    BY <2>1, Zenon
  <2>2. k \in Nat /\ k + 1 \in 0 .. n /\ k + 1 \in 1 .. n
    BY <1>1, <1>4, <2>a
  <2>3. Start(k) \in Seq(P) /\ Start(k + 1) = Append(Start(k), s[k + 1]) /\ s[k + 1] \in P
    <3>1. s[k + 1] \in P
      BY <1>1, <2>2
    <3>2. Start(k) \in Seq(P)
      BY <2>2 DEF n
    <3>3. Start(k + 1) = Append(Start(k), s[k + 1])
      BY <1>1, <2>2 DEF n
    <3> QED BY <3>1, <3>2, <3>3
  <2>4. W(k + 1) = W(k) \o s[k + 1].bytes
    <3>1. /\ Bytes(k) \in Seq(Seq(Byte)) /\ Bytes(k + 1) \in Seq(Seq(Byte))
          /\ Len(Bytes(k)) = k /\ Len(Bytes(k + 1)) = k + 1
      BY <1>2, <2>a, <2>2
    <3>2. \A i \in 1 .. k : Bytes(k + 1)[i] = Bytes(k)[i]
      BY <2>2
    <3>3. Bytes(k + 1)[k + 1] = s[k + 1].bytes
      BY <2>2
    <3> HIDE DEF Bytes
    <3>4. Len(Bytes(k + 1)) = Len(Bytes(k)) + 1 /\ \A i \in 1 .. Len(Bytes(k)) : Bytes(k + 1)[i] = Bytes(k)[i]
      BY <3>1, <3>2
    <3>5. Concat(Bytes(k + 1)) = Concat(Bytes(k)) \o Bytes(k + 1)[Len(Bytes(k + 1))]
      BY <3>1, <3>4, ConcatPrefix, Zenon
    <3> QED BY <3>1, <3>3, <3>5
  <2> HIDE DEF Start, W
  <2>5. s[k + 1].bytes \in Seq(Byte)
    BY <1>1, <2>2
  <2>6. Sized(Start(k)) /\ W(k) \in Seq(Byte) /\ Laid(Start(k), W(k))
    BY <2>1, Zenon
  <2>7. Good(k + 1)
    BY <2>3, <2>4, <2>5, <2>6, LaidAppend, Zenon
  <2> QED BY <2>2, <2>7, Zenon DEF S
<1>5. Good(n)
  <2>1. S \subseteq 0 .. n
    OBVIOUS
  <2> HIDE DEF Good
  <2>2. \A k \in S : Good(k)
    OBVIOUS
  <2> HIDE DEF S
  <2>3. S = 0 .. n
    BY <1>1, <1>3, <1>4, <2>1, Induction, Zenon
  <2>4. n \in 0 .. n
    BY <1>1
  <2> QED BY <2>2, <2>3, <2>4, Zenon
<1>6. Start(n) = s
  BY DEF n
<1> QED BY <1>5, <1>6 DEF n

-----------------------------------------------------------------------------
(***************************************************************************)
(* A remaining length that is read byte by byte.                           *)
(***************************************************************************)
\* The first m bytes of a and b are the same.
SameFront(a, b, m) ==
  /\ a \in Seq(Nat) /\ b \in Seq(Nat) /\ m \in Nat /\ m <= Len(a) /\ m <= Len(b)
  /\ \A i \in 1 .. m : a[i] = b[i]

\* The places of the bytes at which a number may end.
Ends(buf) == {i \in 1 .. 4 : 2 + i - 1 <= Len(buf) /\ buf[2 + i - 1] < 128}

LEMMA LeastFacts ==
  ASSUME NEW S \in SUBSET (1 .. 4), S # {}
  PROVE  Least(S) \in S /\ \A j \in S : Least(S) <= j
<1>1. S \subseteq Nat
  OBVIOUS
<1>2. PICK i \in S : \A j \in S : i <= j
  BY <1>1, LeastExists, Zenon
<1>3. S \in SUBSET Int
  OBVIOUS
<1>4. Least(S) = i
  BY <1>2, <1>3, LeastIs, Zenon
<1> QED BY <1>2, <1>4, Zenon

LEMMA VarnumEnds ==
  ASSUME NEW buf
  PROVE  /\ ReadVarnum(buf, 2).err = "SUCCESS" <=> Ends(buf) # {}
         /\ Ends(buf) # {} => ReadVarnum(buf, 2).next = 2 + Least(Ends(buf))
         /\ Ends(buf) = {} =>
              ReadVarnum(buf, 2).err = IF Len(buf) < 2 + 4 THEN "BUFFER_TOO_SHORT" ELSE "VARNUM_OVERFLOW"
BY SMT DEF ReadVarnum, Ends, Error

\* A number that ends within what two buffers have in common is the same in both.
LEMMA VarnumSame ==
  ASSUME NEW a, NEW b, NEW m, SameFront(a, b, m),
         ReadVarnum(a, 2).err = "SUCCESS", ReadVarnum(a, 2).next <= m + 1
  PROVE  ReadVarnum(b, 2) = ReadVarnum(a, 2)
<1> DEFINE L == Least(Ends(a))
           M == Least(Ends(b))
<1>1. Ends(a) # {} /\ ReadVarnum(a, 2).next = 2 + L
  BY VarnumEnds
<1>2. Ends(a) \in SUBSET (1 .. 4) /\ Ends(b) \in SUBSET (1 .. 4)
  BY DEF Ends
<1>3. L \in Ends(a) /\ \A j \in Ends(a) : L <= j
  BY <1>1, <1>2, LeastFacts, Zenon
<1> HIDE DEF L
<1>4. L \in 1 .. 4 /\ 2 + L - 1 <= m /\ m \in Nat
  BY <1>1, <1>2, <1>3 DEF SameFront
<1>5. \A i \in 1 .. 4 : i <= L => 2 + i - 1 <= Len(b) /\ 2 + i - 1 <= Len(a) /\ a[2 + i - 1] = b[2 + i - 1]
  <2>1. /\ \A i \in 1 .. m : a[i] = b[i]
        /\ Len(a) \in Nat /\ Len(b) \in Nat /\ m <= Len(a) /\ m <= Len(b)
    BY DEF SameFront
  <2> SUFFICES ASSUME NEW i \in 1 .. 4, i <= L
               PROVE  2 + i - 1 <= Len(b) /\ 2 + i - 1 <= Len(a) /\ a[2 + i - 1] = b[2 + i - 1]
    OBVIOUS
  <2>2. 2 + i - 1 \in 1 .. m
    BY <1>4
  <2> QED BY <1>4, <2>1, <2>2
<1>6. L \in Ends(b)
  <2>1. a[2 + L - 1] < 128
    BY <1>3 DEF Ends
  <2> QED BY <1>4, <1>5, <2>1 DEF Ends
<1>7. ASSUME NEW j \in Ends(b) PROVE L <= j
  <2> SUFFICES ASSUME j < L PROVE FALSE
    BY <1>2, <1>4
  <2>1. j \in 1 .. 4 /\ b[2 + j - 1] < 128
    BY DEF Ends
  <2>2. j \in Ends(a)
    BY <1>4, <1>5, <2>1 DEF Ends
  <2> QED BY <1>3, <1>4, <2>1, <2>2
<1>8. M = L
  <2>1. Ends(b) \in SUBSET Int
    BY <1>2
  <2> QED BY <1>6, <1>7, <2>1, LeastIs, Zenon
<1>9. Ends(b) # {}
  BY <1>6
<1> DEFINE da == [i \in 1 .. 4 |-> IF i <= L THEN (a[2 + i - 1] % 128) * Weight[i] ELSE 0]
           db == [i \in 1 .. 4 |-> IF i <= M THEN (b[2 + i - 1] % 128) * Weight[i] ELSE 0]
<1>10. da = db
  <2>1. \A i \in 1 .. 4 : da[i] = db[i]
    BY <1>5, <1>8
  <2> QED BY <2>1
<1>11. ReadVarnum(a, 2) = [err |-> "SUCCESS", num |-> da[1] + da[2] + da[3] + da[4], next |-> 2 + L]
  BY <1>1, SMT DEF ReadVarnum, Ends, L
<1>12. ReadVarnum(b, 2) = [err |-> "SUCCESS", num |-> db[1] + db[2] + db[3] + db[4], next |-> 2 + M]
  BY <1>9, SMT DEF ReadVarnum, Ends
<1> HIDE DEF da, db, M
<1> QED BY <1>8, <1>10, <1>11, <1>12, Zenon

\* The length of a packet, of which m bytes have been read, the last of them of
\* the length and all before not its last: it is known, or is too long, or the packet
\* has another byte, this one too not being the last.
LEMMA LengthSoFar ==
  ASSUME NEW a, NEW p, NEW m, SameFront(a, p, m), Len(a) = m, m >= 2,
         \A i \in 2 .. m - 1 : p[i] >= 128
  PROVE  /\ ReadVarnum(a, 2).err = "SUCCESS" =>
              ReadVarnum(p, 2) = ReadVarnum(a, 2) /\ ReadVarnum(a, 2).next = m + 1
                /\ ReadVarnum(a, 2).num \in Nat
         /\ ReadVarnum(a, 2).err = "BUFFER_TOO_SHORT" =>
              /\ \A i \in 2 .. m : p[i] >= 128
              /\ ReadVarnum(p, 2).err # "BUFFER_TOO_SHORT" => m < Len(p)
         /\ ReadVarnum(a, 2).err \in {"SUCCESS", "BUFFER_TOO_SHORT", "VARNUM_OVERFLOW"}
<1>1. /\ a \in Seq(Nat) /\ p \in Seq(Nat) /\ m \in Nat /\ m <= Len(p)
      /\ \A i \in 1 .. m : a[i] = p[i]
  BY DEF SameFront
<1>2. ASSUME ReadVarnum(a, 2).err = "SUCCESS"
      PROVE  /\ ReadVarnum(p, 2) = ReadVarnum(a, 2) /\ ReadVarnum(a, 2).next = m + 1
             /\ ReadVarnum(a, 2).num \in Nat
  <2> DEFINE L == Least(Ends(a))
  <2>1. Ends(a) # {} /\ ReadVarnum(a, 2).next = 2 + L
    BY <1>2, VarnumEnds
  <2>2. Ends(a) \in SUBSET (1 .. 4)
    BY DEF Ends
  <2>3. L \in Ends(a)
    BY <2>1, <2>2, LeastFacts, Zenon
  <2> HIDE DEF L
  <2>4. L \in 1 .. 4 /\ 2 + L - 1 <= m /\ a[2 + L - 1] < 128
    BY <2>3 DEF Ends
  <2>5. 2 + L - 1 = m
    <3> SUFFICES ASSUME 2 + L - 1 < m PROVE FALSE
      BY <1>1, <2>4
    <3>1. 2 + L - 1 \in 2 .. m - 1 /\ 2 + L - 1 \in 1 .. m
      BY <1>1, <2>4
    <3>2. p[2 + L - 1] >= 128 /\ a[2 + L - 1] = p[2 + L - 1] /\ p[2 + L - 1] \in Nat
      BY <1>1, <3>1, SMTT(30)
    <3> DEFINE x == a[2 + L - 1]
               y == p[2 + L - 1]
    <3>3. y >= 128 /\ x = y /\ y \in Nat /\ x < 128
      BY <2>4, <3>2, Zenon
    <3> HIDE DEF x, y
    <3> QED BY <3>3
  <2>6. ReadVarnum(a, 2).next = m + 1
    BY <1>1, <2>1, <2>4, <2>5
  <2>7. ReadVarnum(p, 2) = ReadVarnum(a, 2)
    <3>1. ReadVarnum(a, 2).next <= m + 1
      BY <1>1, <2>6
    <3> QED BY <1>2, <3>1, VarnumSame, Zenon
  <2>8. ReadVarnum(a, 2).num \in Nat
    <3>1. 2 \in Nat \ {0}
      OBVIOUS
    <3> QED BY <1>1, <1>2, <3>1, VarnumRead, Zenon
  <2> QED BY <2>6, <2>7, <2>8
<1>3. ASSUME ReadVarnum(a, 2).err = "BUFFER_TOO_SHORT"
      PROVE  /\ \A i \in 2 .. m : p[i] >= 128
             /\ ReadVarnum(p, 2).err # "BUFFER_TOO_SHORT" => m < Len(p)
  <2>1. Ends(a) = {} /\ m < 2 + 4
    BY <1>3, VarnumEnds
  <2>2. m - 1 \in 1 .. 4 /\ 2 + (m - 1) - 1 = m
    BY <1>1, <2>1
  <2>3. ~(a[m] < 128)
    <3> DEFINE j == m - 1
    <3>1. j \in 1 .. 4 /\ 2 + j - 1 = m
      BY <2>2
    <3> HIDE DEF j
    <3>2. 2 + j - 1 <= Len(a)
      BY <1>1, <3>1
    <3>3. ~(2 + j - 1 <= Len(a) /\ a[2 + j - 1] < 128)
      BY <2>1, <3>1, Zenon DEF Ends
    <3> QED BY <3>1, <3>2, <3>3, Zenon
  <2>4. p[m] >= 128
    <3>1. m \in 1 .. m /\ m \in 1 .. Len(p)
      BY <1>1
    <3>2. a[m] = p[m] /\ p[m] \in Nat
      BY <1>1, <3>1
    <3> QED BY <2>3, <3>2
  <2>5. \A i \in 2 .. m : p[i] >= 128
    <3> TAKE i \in 2 .. m
    <3>1. CASE i = m
      BY <2>4, <3>1
    <3>2. CASE i # m
      <4>1. i \in 2 .. m - 1
        BY <1>1, <3>2
      <4> QED BY <4>1
    <3> QED BY <3>1, <3>2
  <2>6. ASSUME ReadVarnum(p, 2).err # "BUFFER_TOO_SHORT" PROVE m < Len(p)
    <3> SUFFICES ASSUME m = Len(p) PROVE FALSE
      BY <1>1
    <3>1. a = p
      <4>1. a = [i \in 1 .. m |-> a[i]]
        BY <1>1
      <4>2. p = [i \in 1 .. m |-> p[i]]
        BY <1>1
      <4>3. [i \in 1 .. m |-> a[i]] = [i \in 1 .. m |-> p[i]]
        BY <1>1, Zenon
      <4> QED BY <4>1, <4>2, <4>3, Zenon
    <3> QED BY <1>3, <2>6, <3>1
  <2> QED BY <2>5, <2>6
<1>4. ReadVarnum(a, 2).err \in {"SUCCESS", "BUFFER_TOO_SHORT", "VARNUM_OVERFLOW"}
  BY VarnumEnds
<1> QED BY <1>2, <1>3, <1>4

-----------------------------------------------------------------------------
(***************************************************************************)
(* What a decoder makes of a packet depends on the packet alone, not on    *)
(* what an earlier one left in the buffer behind it.                       *)
(***************************************************************************)
\* Packet p lies at the start of the buffer b and ends where it says.
Whole(p, b) ==
  /\ SameFront(p, b, Len(p)) /\ ReadVarnum(p, 2).err = "SUCCESS"
  /\ Len(p) = ReadVarnum(p, 2).next + ReadVarnum(p, 2).num - 1

LEMMA WholeRead ==
  ASSUME NEW p, NEW b, Whole(p, b)
  PROVE  LET r == ReadVarnum(p, 2)
         IN /\ ReadVarnum(b, 2) = r /\ r.err = "SUCCESS" /\ p[1] = b[1]
            /\ r.num \in Nat /\ r.next \in Nat /\ r.next > 2 /\ Len(p) = r.next + r.num - 1
            /\ Len(b) \in Nat /\ Len(p) <= Len(b)
            /\ \A i \in 1 .. r.next + r.num - 1 : p[i] = b[i]
<1> DEFINE r == ReadVarnum(p, 2)
<1>1. /\ p \in Seq(Nat) /\ b \in Seq(Nat) /\ Len(p) <= Len(b) /\ \A i \in 1 .. Len(p) : p[i] = b[i]
      /\ r.err = "SUCCESS" /\ Len(p) = r.next + r.num - 1
  BY DEF Whole, SameFront
<1>2. r.num \in Nat /\ r.next \in Nat \ 0 .. 2
  <2>1. 2 \in Nat \ {0}
    OBVIOUS
  <2> QED BY <1>1, <2>1, VarnumRead, Zenon
<1>3. ReadVarnum(b, 2) = r
  <2>1. r.next <= Len(p) + 1
    BY <1>1, <1>2
  <2>2. SameFront(p, b, Len(p))
    BY DEF Whole
  <2> QED BY <1>1, <2>1, <2>2, VarnumSame, Zenon
<1> HIDE DEF r
<1>4. r.next > 2 /\ r.next \in Nat
  BY <1>2
<1>5. 1 \in 1 .. Len(p)
  BY <1>1, <1>2, <1>4
<1>6. p[1] = b[1]
  BY <1>1, <1>5
<1>7. \A i \in 1 .. r.next + r.num - 1 : p[i] = b[i]
  BY <1>1
<1>8. Len(b) \in Nat
  BY <1>1
<1> QED BY <1>1, <1>2, <1>3, <1>4, <1>6, <1>7, <1>8 DEF r

LEMMA BeginsSame ==
  ASSUME NEW p, NEW b, Whole(p, b), NEW type, NEW flags, NEW lengths
  PROVE  /\ Begins(b, type, flags, lengths) = Begins(p, type, flags, lengths)
         /\ Begins(p, type, flags, lengths) = "SUCCESS" => ReadVarnum(p, 2).num \in lengths
<1>1. ReadVarnum(b, 2) = ReadVarnum(p, 2) /\ p[1] = b[1] /\ ReadVarnum(p, 2).err = "SUCCESS"
  BY WholeRead
<1> DEFINE r == ReadVarnum(p, 2)
<1>2. Begins(b, type, flags, lengths) = Begins(p, type, flags, lengths)
  BY <1>1, Zenon DEF Begins
<1>3. ASSUME Begins(p, type, flags, lengths) = "SUCCESS" PROVE r.num \in lengths
  <2> HIDE DEF r
  <2>1. r.err = "SUCCESS"
    BY <1>1 DEF r
  <2> QED BY <1>3, <2>1 DEF Begins, r
<1> QED BY <1>2, <1>3

LEMMA AckSame ==
  ASSUME NEW p, NEW b, Whole(p, b), NEW type
  PROVE  DecodeAck(b, type) = DecodeAck(p, type)
<1> DEFINE r == ReadVarnum(p, 2)
           flags == {IF type = "PUBREL" THEN 2 ELSE 0}
           begins == Begins(p, type, flags, {2})
           Decode(buf) ==
             IF Len(buf) < r.next + 1 THEN Error("BUFFER_TOO_SHORT")
             ELSE [err |-> "SUCCESS", id |-> ReadNum(buf, r.next)]
<1>1. ReadVarnum(b, 2) = r /\ Begins(b, type, flags, {2}) = begins
  BY WholeRead, BeginsSame
<1>2. /\ DecodeAck(p, type) = IF begins # "SUCCESS" THEN Error(begins) ELSE Decode(p)
      /\ DecodeAck(b, type) = IF begins # "SUCCESS" THEN Error(begins) ELSE Decode(b)
  BY <1>1, Zenon DEF DecodeAck
<1>3. ASSUME begins = "SUCCESS" PROVE Decode(b) = Decode(p)
  <2>1. r.num = 2
    BY <1>3, BeginsSame
  <2>2. /\ r.next \in Nat /\ r.next > 2 /\ Len(p) = r.next + 1 /\ Len(b) \in Nat /\ Len(p) <= Len(b)
        /\ \A i \in 1 .. r.next + 1 : p[i] = b[i]
    BY <2>1, WholeRead
  <2> HIDE DEF r
  <2>3. p[r.next] = b[r.next] /\ p[r.next + 1] = b[r.next + 1]
    BY <2>2
  <2>4. ~(Len(p) < r.next + 1) /\ ~(Len(b) < r.next + 1)
    <3> DEFINE i == r.next
               m == Len(p)
               n == Len(b)
    <3>1. i \in Nat /\ m = i + 1 /\ n \in Nat /\ m <= n
      BY <2>2, Zenon
    <3> HIDE DEF i, m, n
    <3>2. ~(m < i + 1) /\ ~(n < i + 1)
      BY <3>1
    <3> QED BY <3>2, Zenon DEF i, m, n
  <2> QED BY <2>3, <2>4, Zenon DEF ReadNum
<1> HIDE DEF begins, Decode
<1> QED BY <1>2, <1>3

LEMMA ConnackSame ==
  ASSUME NEW p, NEW b, Whole(p, b)
  PROVE  DecodeConnack(b) = DecodeConnack(p)
<1> DEFINE r == ReadVarnum(p, 2)
           begins == Begins(p, "CONNACK", 0 .. 15, {2})
           Decode(buf) ==
             IF Len(buf) < r.next + 1 THEN Error("BUFFER_TOO_SHORT")
             ELSE [err |-> "SUCCESS", session_present |-> ReadBits(buf[r.next], 1, 2) = 1,
                   return_code |-> IF buf[r.next + 1] <= 5 THEN buf[r.next + 1] ELSE UnknownReturnCode]
<1>1. ReadVarnum(b, 2) = r /\ Begins(b, "CONNACK", 0 .. 15, {2}) = begins
  BY WholeRead, BeginsSame
<1>2. /\ DecodeConnack(p) = IF begins # "SUCCESS" THEN Error(begins) ELSE Decode(p)
      /\ DecodeConnack(b) = IF begins # "SUCCESS" THEN Error(begins) ELSE Decode(b)
  BY <1>1, Zenon DEF DecodeConnack
<1>3. ASSUME begins = "SUCCESS" PROVE Decode(b) = Decode(p)
  <2>1. r.num = 2
    BY <1>3, BeginsSame
  <2>2. /\ r.next \in Nat /\ r.next > 2 /\ Len(p) = r.next + 1 /\ Len(b) \in Nat /\ Len(p) <= Len(b)
        /\ \A i \in 1 .. r.next + 1 : p[i] = b[i]
    BY <2>1, WholeRead
  <2> HIDE DEF r
  <2>3. p[r.next] = b[r.next] /\ p[r.next + 1] = b[r.next + 1]
    BY <2>2
  <2>4. ~(Len(p) < r.next + 1) /\ ~(Len(b) < r.next + 1)
    <3> DEFINE i == r.next
               m == Len(p)
               n == Len(b)
    <3>1. i \in Nat /\ m = i + 1 /\ n \in Nat /\ m <= n
      BY <2>2, Zenon
    <3> HIDE DEF i, m, n
    <3>2. ~(m < i + 1) /\ ~(n < i + 1)
      BY <3>1
    <3> QED BY <3>2, Zenon DEF i, m, n
  <2> QED BY <2>3, <2>4, Zenon
<1> HIDE DEF begins, Decode
<1> QED BY <1>2, <1>3

LEMMA PartSame ==
  ASSUME NEW a, NEW b, NEW m, SameFront(a, b, m), NEW i \in Nat \ {0}, NEW j \in Nat, j <= m
  PROVE  SubSeq(a, i, j) = SubSeq(b, i, j)
<1>1. /\ a \in Seq(Nat) /\ b \in Seq(Nat) /\ m \in Nat /\ m <= Len(a) /\ m <= Len(b)
      /\ \A k \in 1 .. m : a[k] = b[k]
  BY DEF SameFront
<1> DEFINE c == SubSeq(a, i, j)
           d == SubSeq(b, i, j)
<1>2. CASE i > j
  BY <1>1, <1>2
<1>3. CASE i <= j
  <2>1. c \in Seq(Nat) /\ d \in Seq(Nat) /\ Len(c) = j - i + 1 /\ Len(d) = j - i + 1
    BY <1>1, <1>3
  <2>2. ASSUME NEW k \in 1 .. j - i + 1 PROVE c[k] = d[k]
    <3>1. i + k - 1 \in 1 .. m
      BY <1>1
    <3>2. c[k] = a[i + k - 1] /\ d[k] = b[i + k - 1]
      BY <1>1, <1>3
    <3> QED BY <1>1, <3>1, <3>2
  <2> HIDE DEF c, d
  <2>3. c = d
    BY <2>1, <2>2
  <2> QED BY <2>3 DEF c, d
<1>4. i > j \/ i <= j
  OBVIOUS
<1> QED BY <1>2, <1>3, <1>4, Zenon

LEMMA SubackSame ==
  ASSUME NEW p, NEW b, Whole(p, b), NEW max
  PROVE  DecodeSuback(b, max) = DecodeSuback(p, max)
<1> DEFINE r == ReadVarnum(p, 2)
           begins == Begins(p, "SUBACK", 0 .. 15, Nat \ 0 .. 2)
           granted(code) == IF code <= 2 THEN code ELSE QosFailure
           Decode(buf) ==
             IF r.num - 2 > max THEN Error("SUBACK_ARRAY_OVERFLOW")
             ELSE IF Len(buf) < r.next + 1 + (r.num - 2) THEN Error("BUFFER_TOO_SHORT")
             ELSE [err |-> "SUCCESS", id |-> ReadNum(buf, r.next),
                   granted |-> Each(SubSeq(buf, r.next + 2, r.next + 1 + (r.num - 2)), granted)]
<1>1. ReadVarnum(b, 2) = r /\ Begins(b, "SUBACK", 0 .. 15, Nat \ 0 .. 2) = begins
  BY WholeRead, BeginsSame
<1>2. /\ DecodeSuback(p, max) = IF begins # "SUCCESS" THEN Error(begins) ELSE Decode(p)
      /\ DecodeSuback(b, max) = IF begins # "SUCCESS" THEN Error(begins) ELSE Decode(b)
  BY <1>1, Zenon DEF DecodeSuback, Each
<1>3. ASSUME begins = "SUCCESS" PROVE Decode(b) = Decode(p)
  <2>1. r.num \in Nat \ 0 .. 2
    BY <1>3, BeginsSame
  <2>2. /\ r.num \in Nat /\ r.next \in Nat /\ r.next > 2 /\ Len(p) = r.next + r.num - 1
        /\ Len(b) \in Nat /\ Len(p) <= Len(b) /\ \A i \in 1 .. r.next + r.num - 1 : p[i] = b[i]
    BY WholeRead
  <2>3. SameFront(p, b, Len(p))
    BY DEF Whole
  <2> DEFINE next == r.next
             num == r.num
  <2>4. /\ num \in Nat /\ num > 2 /\ next \in Nat /\ next > 2 /\ Len(p) = next + num - 1
        /\ Len(b) \in Nat /\ Len(p) <= Len(b) /\ \A i \in 1 .. next + num - 1 : p[i] = b[i]
    BY <2>1, <2>2
  <2> HIDE DEF next, num
  <2>5. p[next] = b[next] /\ p[next + 1] = b[next + 1]
    BY <2>4
  <2>6. ~(Len(p) < next + 1 + (num - 2)) /\ ~(Len(b) < next + 1 + (num - 2))
    BY <2>4
  <2>7. SubSeq(p, next + 2, next + 1 + (num - 2)) = SubSeq(b, next + 2, next + 1 + (num - 2))
    <3>1. next + 2 \in Nat \ {0} /\ next + 1 + (num - 2) \in Nat /\ next + 1 + (num - 2) <= Len(p)
      BY <2>4
    <3> QED BY <2>3, <3>1, PartSame, Zenon
  <2> QED BY <2>5, <2>6, <2>7, Zenon DEF ReadNum, next, num, Each
<1> HIDE DEF begins, Decode
<1> QED BY <1>2, <1>3

LEMMA PublishSame ==
  ASSUME NEW p, NEW b, Whole(p, b)
  PROVE  DecodePublish(b) = DecodePublish(p)
<1> DEFINE r == ReadVarnum(p, 2)
           begins == Begins(p, "PUBLISH", {f \in 0 .. 15 : ReadBits(f, 2, 8) # 3}, Nat \ 0 .. 1)
           last == r.next + r.num - 1
           qos == ReadBits(p[1], 2, 8)
           topic == r.next + 2
           Rest(buf) == topic + ReadNum(buf, r.next)
           Payload(buf) == IF qos > 0 THEN Rest(buf) + 2 ELSE Rest(buf)
           Id(buf) == IF qos > 0 THEN ReadNum(buf, Rest(buf)) ELSE 0
           Decode(buf) ==
             IF Len(buf) < last \/ Payload(buf) > last + 1 THEN Error("BUFFER_TOO_SHORT")
             ELSE IF qos > 0 /\ Id(buf) = 0 THEN Error("MISSING_OR_WRONG_PACKET")
             ELSE [err |-> "SUCCESS", qos |-> qos, id |-> Id(buf), dup |-> ReadBits(p[1], 8, 16) = 1,
                   retained |-> ReadBits(p[1], 1, 2) = 1,
                   topic |-> SubSeq(buf, topic, Rest(buf) - 1), payload |-> SubSeq(buf, Payload(buf), last)]
<1>1. /\ ReadVarnum(b, 2) = r /\ b[1] = p[1]
      /\ Begins(b, "PUBLISH", {f \in 0 .. 15 : ReadBits(f, 2, 8) # 3}, Nat \ 0 .. 1) = begins
  BY WholeRead, BeginsSame
<1>2. DecodePublish(p) = IF begins # "SUCCESS" THEN Error(begins) ELSE Decode(p)
  BY Zenon DEF DecodePublish, PublishEnd
<1>3. DecodePublish(b) = IF begins # "SUCCESS" THEN Error(begins) ELSE Decode(b)
  BY <1>1, Zenon DEF DecodePublish, PublishEnd
<1>4. ASSUME begins = "SUCCESS" PROVE Decode(b) = Decode(p)
  <2> DEFINE next == r.next
             num == r.num
  <2>1. /\ num \in Nat /\ num > 1 /\ next \in Nat /\ next > 2 /\ Len(p) = next + num - 1
        /\ Len(b) \in Nat /\ Len(p) <= Len(b) /\ \A i \in 1 .. next + num - 1 : p[i] = b[i]
    <3>1. num \in Nat \ 0 .. 1
      BY <1>4, BeginsSame
    <3> QED BY <3>1, WholeRead
  <2>2. SameFront(p, b, Len(p)) /\ p \in Seq(Nat)
    BY DEF Whole, SameFront
  <2>3. last = next + num - 1 /\ topic = next + 2
    OBVIOUS
  <2> HIDE DEF next, num, last, topic
  <2>4. last = Len(p) /\ last \in Nat /\ ~(Len(p) < last) /\ ~(Len(b) < last)
    BY <2>1, <2>3
  <2>5. ReadNum(p, next) = ReadNum(b, next) /\ ReadNum(p, next) \in Nat
    <3>1. p[next] = b[next] /\ p[next + 1] = b[next + 1]
      BY <2>1
    <3>2. next \in 1 .. Len(p) /\ next + 1 \in 1 .. Len(p)
      BY <2>1
    <3>3. p[next] \in Nat /\ p[next + 1] \in Nat
      BY <2>2, <3>2
    <3> QED BY <3>1, <3>3 DEF ReadNum
  <2>6. Rest(b) = Rest(p) /\ Payload(b) = Payload(p)
    BY <2>5, Zenon DEF next
  <2>7. Rest(p) \in Nat /\ Rest(p) >= topic /\ topic \in Nat /\ topic > 4
    <3>1. Rest(p) = topic + ReadNum(p, next)
      BY DEF next
    <3> HIDE DEF Rest
    <3> QED BY <2>1, <2>3, <2>5, <3>1
  <2> DEFINE rest == Rest(p)
             payload == Payload(p)
  <2>8. payload = IF qos > 0 THEN rest + 2 ELSE rest
    OBVIOUS
  <2>9. rest \in Nat /\ rest >= topic /\ topic \in Nat /\ topic > 4
    BY <2>7
  <2> HIDE DEF qos, rest, payload
  <2>10. CASE payload > last + 1
    BY <2>4, <2>6, <2>10, Zenon DEF rest, payload
  <2>11. CASE ~(payload > last + 1)
    <3>1. payload \in Nat /\ payload >= rest /\ payload <= last + 1
      BY <2>4, <2>8, <2>9, <2>11
    <3>2. qos > 0 => ReadNum(p, rest) = ReadNum(b, rest)
      <4> SUFFICES ASSUME qos > 0 PROVE ReadNum(p, rest) = ReadNum(b, rest)
        OBVIOUS
      <4>1. rest \in 1 .. next + num - 1 /\ rest + 1 \in 1 .. next + num - 1
        BY <2>1, <2>3, <2>8, <2>9, <3>1
      <4>2. p[rest] = b[rest] /\ p[rest + 1] = b[rest + 1]
        BY <2>1, <4>1
      <4> QED BY <4>2, Zenon DEF ReadNum
    <3>3. SubSeq(p, topic, rest - 1) = SubSeq(b, topic, rest - 1)
      <4>1. topic \in Nat \ {0} /\ rest - 1 \in Nat /\ rest - 1 <= Len(p)
        BY <2>4, <2>9, <3>1
      <4> QED BY <2>2, <4>1, PartSame, Zenon
    <3>4. SubSeq(p, payload, last) = SubSeq(b, payload, last)
      <4>1. payload \in Nat \ {0} /\ last <= Len(p)
        BY <2>4, <2>9, <3>1
      <4> QED BY <2>2, <2>4, <4>1, PartSame, Zenon
    <3>5. Id(b) = Id(p)
      BY <2>6, <3>2, Zenon DEF rest
    <3> HIDE DEF Id, Rest, Payload
    <3>6. /\ SubSeq(b, topic, Rest(b) - 1) = SubSeq(p, topic, Rest(p) - 1)
          /\ SubSeq(b, Payload(b), last) = SubSeq(p, Payload(p), last)
      BY <2>6, <3>3, <3>4, Zenon DEF rest, payload
    <3> QED BY <2>4, <2>6, <3>5, <3>6, Zenon
  <2> QED BY <2>10, <2>11
<1> HIDE DEF begins, Decode
<1> QED BY <1>2, <1>3, <1>4

-----------------------------------------------------------------------------
(***************************************************************************)
(* The read buffer, the history and the answer to a ping.                  *)
(***************************************************************************)
LEMMA MinIs ==
  ASSUME NEW S, S \subseteq Nat, S # {}
  PROVE  Min(S) \in S /\ Min(S) \in Nat /\ \A i \in S : Min(S) <= i
<1>1. \E i \in S : \A j \in S : i <= j
  BY LeastExists, Zenon
<1>2. Min(S) \in S /\ \A i \in S : Min(S) <= i
  BY <1>1, Zenon DEF Min
<1> QED BY <1>2

LEMMA MinOfTwo ==
  ASSUME NEW i \in Nat, NEW j \in Nat
  PROVE  Min({i, j}) \in Nat /\ Min({i, j}) <= i /\ Min({i, j}) <= j /\ (Min({i, j}) = i \/ Min({i, j}) = j)
<1>1. {i, j} \subseteq Nat /\ {i, j} # {}
  OBVIOUS
<1>2. Min({i, j}) \in {i, j} /\ \A k \in {i, j} : Min({i, j}) <= k
  BY <1>1, MinIs, Zenon
<1> QED BY <1>2

LEMMA WiderSeq ==
  ASSUME NEW S, NEW T, S \subseteq T, NEW s \in Seq(S)
  PROVE  s \in Seq(T)
<1>1. \A i \in 1 .. Len(s) : s[i] \in T
  OBVIOUS
<1> QED BY <1>1

\* n bytes of the stream, put into the buffer behind the first "at".
Splice(b, r, w, t, n, at, R) ==
  b = SubSeq(r, 1, at) \o SubSeq(w, t + 1, t + n) \o SubSeq(r, at + n + 1, R)

SplicedIn(b, B, r, w, t, n, at, R) ==
  /\ b \in [1 .. R -> B] /\ b \in Seq(B) /\ Len(b) = R
  /\ \A i \in 1 .. at : b[i] = r[i]
  /\ \A i \in 1 .. n : b[at + i] = w[t + i]

JoinedTo(u, B, x, y, m, n) ==
  /\ u \in Seq(B) /\ Len(u) = m + n
  /\ \A i \in 1 .. m : u[i] = x[i]
  /\ \A i \in 1 .. n : u[m + i] = y[i]

LEMMA JoinTwo ==
  ASSUME NEW B, NEW x \in Seq(B), NEW y \in Seq(B), NEW m, NEW n, Len(x) = m, Len(y) = n
  PROVE  JoinedTo(x \o y, B, x, y, m, n)
BY DEF JoinedTo

LEMMA Spliced ==
  ASSUME NEW B, NEW R \in Nat, NEW r \in [1 .. R -> B], NEW w \in Seq(B),
         NEW t \in Nat, NEW n \in Nat, NEW at \in Nat, at + n <= R, t + n <= Len(w),
         NEW b, Splice(b, r, w, t, n, at, R)
  PROVE  SplicedIn(b, B, r, w, t, n, at, R)
<1> DEFINE x == SubSeq(r, 1, at)
           y == SubSeq(w, t + 1, t + n)
           z == SubSeq(r, at + n + 1, R)
           m == R - (at + n)
<1>0. b = (x \o y) \o z
  BY DEF Splice
<1>1. r \in Seq(B) /\ Len(r) = R
  OBVIOUS
<1>2. x \in Seq(B) /\ Len(x) = at /\ \A i \in 1 .. at : x[i] = r[i]
  BY <1>1
<1>3. y \in Seq(B) /\ Len(y) = n /\ \A i \in 1 .. n : y[i] = w[t + i]
  OBVIOUS
<1>4. z \in Seq(B) /\ Len(z) = m
  BY <1>1
<1> HIDE DEF x, y, z
<1> DEFINE u == x \o y
<1>5. /\ u \in Seq(B) /\ Len(u) = at + n
      /\ \A i \in 1 .. at : u[i] = x[i]
      /\ \A i \in 1 .. n : u[at + i] = y[i]
  <2>1. JoinedTo(u, B, x, y, at, n)
    BY <1>2, <1>3, JoinTwo, Zenon
  <2> QED BY <2>1, Zenon DEF JoinedTo
<1>6. b = u \o z
  BY <1>0
<1> HIDE DEF u
<1>7. /\ b \in Seq(B) /\ Len(b) = (at + n) + m
      /\ \A i \in 1 .. at + n : b[i] = u[i]
  <2> HIDE DEF m
  <2> DEFINE k == at + n
  <2>1. Len(u) = k /\ u \in Seq(B)
    BY <1>5
  <2> HIDE DEF k
  <2>2. JoinedTo(b, B, u, z, k, m)
    BY <1>4, <1>6, <2>1, JoinTwo, Zenon
  <2> QED BY <2>2, Zenon DEF JoinedTo, k
<1>8. Len(b) = R
  BY <1>7
<1>9. b \in [1 .. R -> B]
  BY <1>7, <1>8
<1>10. \A i \in 1 .. at : b[i] = r[i]
  <2> TAKE i \in 1 .. at
  <2>1. i \in 1 .. at + n
    OBVIOUS
  <2> QED BY <1>2, <1>5, <1>7, <2>1, Zenon
<1>11. \A i \in 1 .. n : b[at + i] = w[t + i]
  <2> TAKE i \in 1 .. n
  <2>1. at + i \in 1 .. at + n
    OBVIOUS
  <2> QED BY <1>3, <1>5, <1>7, <2>1, Zenon
<1> QED BY <1>7, <1>8, <1>9, <1>10, <1>11, Zenon DEF SplicedIn

\* A sequence is one of its own members.
LEMMA OwnSeq ==
  ASSUME NEW S, NEW s \in Seq(S)
  PROVE  s \in Seq(ToSet(s))
<1>1. \A i \in 1 .. Len(s) : s[i] \in ToSet(s)
  BY DEF ToSet
<1> QED BY <1>1

LEMMA OwnAppend ==
  ASSUME NEW s, s \in Seq(ToSet(s)), NEW x
  PROVE  /\ Append(s, x) \in Seq(ToSet(Append(s, x))) /\ Len(s) \in Nat
         /\ Len(Append(s, x)) = Len(s) + 1 /\ Append(s, x)[Len(s) + 1] = x
         /\ \A i \in 1 .. Len(s) : Append(s, x)[i] = s[i]
<1> DEFINE S == ToSet(s) \cup {x}
<1>1. s \in Seq(S) /\ x \in S
  <2>1. ToSet(s) \subseteq S
    OBVIOUS
  <2> HIDE DEF S
  <2>2. s \in Seq(S)
    BY <2>1
  <2> QED BY <2>2 DEF S
<1> HIDE DEF S
<1>2. /\ Append(s, x) \in Seq(S) /\ Len(s) \in Nat
      /\ Len(Append(s, x)) = Len(s) + 1 /\ Append(s, x)[Len(s) + 1] = x
      /\ \A i \in 1 .. Len(s) : Append(s, x)[i] = s[i]
  BY <1>1
<1>3. Append(s, x) \in Seq(ToSet(Append(s, x)))
  BY <1>2, OwnSeq, Zenon
<1> QED BY <1>2, <1>3

LEMMA DecodedSame ==
  ASSUME NEW p, NEW b, Whole(p, b), NEW type, NEW c
  PROVE  Decoded(type, b) = Decoded(type, p) /\ Answer(c, type, b) = Answer(c, type, p)
<1>1. Decoded(type, b) = Decoded(type, p)
  <2>1. DecodePublish(b) = DecodePublish(p) /\ DecodeAck(b, type) = DecodeAck(p, type)
    BY PublishSame, AckSame, Zenon
  <2> QED BY <2>1, Zenon DEF Decoded
<1>2. Answer(c, type, b) = Answer(c, type, p)
  <2> DEFINE max == Len(c.filters)
  <2>1. DecodeConnack(b) = DecodeConnack(p) /\ DecodeAck(b, type) = DecodeAck(p, type)
    BY ConnackSame, AckSame, Zenon
  <2> HIDE DEF max
  <2>2. DecodeSuback(b, max) = DecodeSuback(p, max)
    BY SubackSame, Zenon
  <2> QED BY <2>1, <2>2, Zenon DEF Answer, max
<1> QED BY <1>1, <1>2

\* The answer to a ping is what it is.
LEMMA PongWellFormed ==
  ASSUME NEW c, c.type \in DOMAIN Needle \cup {"none", "PUBLISH"}
  PROVE  WellFormed(Pong, c) /\ Pong.bytes \in Seq(Byte)
<1> DEFINE b == <<208, 0>>
           h == [type |-> "PINGRESP", data |-> [err |-> "SUCCESS"]]
<1>1. b \in Seq(Byte) /\ b \in Seq(0 .. 255) /\ b # <<>> /\ b[1] = 208 /\ Len(b) = 2
  BY DEF Byte
<1>2. ReadVarnum(b, 2) = [err |-> "SUCCESS", num |-> 0, next |-> 3]
  <2>1. Ends(b) = {1}
    BY DEF Ends
  <2>2. Least({1}) = 1
    <3>1. {1} \in SUBSET Int /\ 1 \in {1} /\ \A j \in {1} : 1 <= j
      OBVIOUS
    <3> QED BY <3>1, LeastIs, Zenon
  <2> DEFINE L == Least(Ends(b))
             d == [i \in 1 .. 4 |-> IF i <= L THEN (b[2 + i - 1] % 128) * Weight[i] ELSE 0]
  <2>3. ReadVarnum(b, 2) = [err |-> "SUCCESS", num |-> d[1] + d[2] + d[3] + d[4], next |-> 2 + L]
    <3> HIDE DEF b
    <3> QED BY <2>1, SMT DEF ReadVarnum, Ends
  <2>4. L = 1
    BY <2>1, <2>2
  <2> HIDE DEF L
  <2>5. d[1] = 0 /\ d[2] = 0 /\ d[3] = 0 /\ d[4] = 0
    BY <2>4 DEF Weight
  <2> HIDE DEF d, b
  <2> QED BY <2>3, <2>4, <2>5
<1>3. DetectRemainingLength(b, 2) = [err |-> "SUCCESS", num |-> 0, next |-> 3]
  BY <1>2 DEF DetectRemainingLength
<1>4. DetectType(208) = [err |-> "SUCCESS", type |-> "PINGRESP"]
  <2>1. {t \in Received : Code[t] = ReadBits(208, 16, 256)} = {"PINGRESP"}
    <3>1. ReadBits(208, 16, 256) = 13
      BY DEF ReadBits
    <3>2. \A t \in Received : Code[t] = 13 <=> t = "PINGRESP"
      BY DEF Received, Code
    <3>3. "PINGRESP" \in Received
      BY DEF Received
    <3> QED BY <3>1, <3>2, <3>3
  <2> QED BY <2>1 DEF DetectType
<1>5. Pong.bytes = b /\ Pong.type = "PINGRESP"
  BY DEF Pong
<1>6. Decoded("PINGRESP", b) = [err |-> "SUCCESS"]
  BY DEF Decoded
<1>7. Agrees(h, Pong, c)
  <2>1. h.type = "PINGRESP" /\ h.data = [err |-> "SUCCESS"] /\ h.data.err = "SUCCESS"
    OBVIOUS
  <2>2. DOMAIN h.data = {"err"}
    BY <2>1
  <2> HIDE DEF h
  <2> QED BY <1>5, <2>1, <2>2 DEF Agrees
<1>8. ~(c.type # "none" /\ Answered(c) /\ NeedleOf(c) = "PINGRESP")
  BY DEF Answered, NeedleOf, Needle
<1> HIDE DEF b
<1>9. WellFormed(Pong, c)
  BY <1>1, <1>3, <1>4, <1>5, <1>6, <1>7, <1>8, SMT DEF WellFormed
<1> QED BY <1>1, <1>5, <1>9

-----------------------------------------------------------------------------
(***************************************************************************)
(* The invariant.  The client is in step with the stream unless a read has *)
(* stopped in the middle of a packet; then it reads on once at most, and the*)
(* connection is on its way to be closed.                                  *)
(***************************************************************************)
Packets == ToSet(setting.sent) \cup {Pong}

Streaming ==
  /\ setting \in Scenarios
  /\ sent \in Seq(Packets) /\ Sized(sent) /\ \A i \in 1 .. Len(sent) : WellFormed(sent[i], setting.request)
  /\ wire \in Seq(Byte) /\ Laid(sent, wire)

Positions ==
  /\ pieces \subseteq Nat /\ Len(wire) \in pieces /\ \A e \in pieces : e <= Len(wire)
  /\ taken \in Nat /\ opened \in Nat /\ arrived \in Nat
  /\ taken <= opened /\ opened <= arrived /\ (arrived = 0 \/ arrived \in pieces)

Looping ==
  /\ pc \in {"connect", "select", "lock", "work", "closed"}
  /\ available \in BOOLEAN /\ again \in BOOLEAN /\ failed \in BOOLEAN
  /\ pings \in 0 .. MaxPings

Storing ==
  /\ read_buf \in [1 .. ReadSize -> Byte]
  /\ ended \in BOOLEAN /\ pong_pending \in BOOLEAN /\ torn \in BOOLEAN
  /\ overflow_counter \in Nat /\ handled \in Seq(ToSet(handled))

IsCall(c) ==
  c = [type |-> c.type, of |-> c.of, field |-> c.field, got |-> c.got, missing |-> c.missing,
       packet |-> c.packet, read |-> c.read, budget |-> c.budget]

Field(c) ==
  /\ IsCall(c) /\ c.field \in {"header", "length", "rest", "drain"}
  /\ c.got \in 0 .. ReadSize /\ c.missing \in Nat \ {0}
  /\ c.field # "drain" => c.got + c.missing <= ReadSize
  /\ c.field = "header" => c.got = 0 /\ c.missing = 1

Calling ==
  /\ request \in {NoCall, setting.request}
  /\ call.type # "none" => Field(call) /\ call.type = call.of.type
  /\ call.type # "none" => pc \in {"connect", "select", "lock"}
  /\ call.type = "yield" => pc = "lock"
  /\ call.type = "CONNECT" => pc = "connect"
  /\ call.type \notin {"none", "yield"} =>
       call.of = setting.request /\ Answered(setting.request) /\ request.type = "none"

Within(k, p) ==
  /\ DetectType(p.bytes[1]).err = "SUCCESS" /\ call.packet = p.type
  /\ taken = Off(sent, k) + call.got
  /\ \A i \in 1 .. call.got : read_buf[i] = p.bytes[i]

AtField(k, p) ==
  /\ call.field = "header" => taken = Off(sent, k)
  /\ call.field # "header" => k < Len(sent)
  /\ call.field = "length" =>
       /\ Within(k, p) /\ call.got >= 1 /\ call.got < Len(p.bytes) /\ call.missing = 1
       /\ \A i \in 2 .. call.got : p.bytes[i] >= 128
  /\ call.field = "rest" =>
       /\ Within(k, p) /\ call.got + call.missing = Len(p.bytes)
       /\ DetectRemainingLength(p.bytes, 2).err = "SUCCESS"
  /\ call.field = "drain" => taken + call.missing = Off(sent, k + 1) /\ Len(p.bytes) > ReadSize

\* The places of the packets that were dropped.
Drops(h) == {i \in 1 .. Len(h) : h[i].type = "dropped"}

InStep ==
  /\ Len(handled) <= Len(sent) /\ overflow_counter <= Len(handled)
  /\ \A i \in 1 .. Len(handled) : Agrees(handled[i], sent[i], setting.request)
  /\ overflow_counter = Cardinality(Drops(handled))
  /\ IF call.type = "none" THEN taken = Off(sent, Len(handled))
     ELSE AtField(Len(handled), sent[Len(handled) + 1])

Framing == ~torn => InStep

Torn ==
  torn =>
    /\ overflow_counter <= Len(sent) /\ (pc \notin {"closed", "work"} => overflow_counter < Len(sent))
    /\ pc = "closed" \/ (failed /\ request.type = "none" /\ call.type \in {"none", "yield"})

IInv == Streaming /\ Positions /\ Looping /\ Storing /\ Calling /\ Framing /\ Torn

-----------------------------------------------------------------------------
LEMMA Setting ==
  ASSUME Streaming
  PROVE  /\ setting.tls \in BOOLEAN /\ setting.drop_overflow \in BOOLEAN
         /\ setting.request.type \in DOMAIN Needle \cup {"none", "PUBLISH"}
         /\ setting.request.type # "yield"
BY ScenarioAssumption DEF Streaming, Needle

LEMMA InitIInv == Init => IInv
<1> SUFFICES ASSUME Init PROVE IInv
  OBVIOUS
<1> DEFINE S == ToSet(setting.sent)
<1>1. /\ setting \in Scenarios /\ sent = setting.sent /\ sent \in Seq(S)
      /\ \A i \in DOMAIN sent : WellFormed(sent[i], setting.request)
      /\ setting.cuts \subseteq 0 .. Total(Each(sent, LAMBDA p : Len(p.bytes)))
  BY ScenarioAssumption, Zenon DEF Init
<1>2. S \subseteq Packets
  BY DEF Packets
<1> HIDE DEF S
<1>3. sent \in Seq(Packets) /\ DOMAIN sent = 1 .. Len(sent) /\ Len(sent) \in Nat
  <2>1. sent \in Seq(S) /\ S \subseteq Packets
    BY <1>1, <1>2, Zenon
  <2> QED BY <2>1
<1>4. Sized(sent)
  BY <1>1, <1>3 DEF Sized, WellFormed, Byte
<1>5. wire \in Seq(Byte) /\ Laid(sent, wire)
  <2>1. wire = Concat([i \in 1 .. Len(sent) |-> sent[i].bytes])
    BY Zenon DEF Init, Each
  <2> QED BY <1>3, <1>4, <2>1, LaidInit, Zenon
<1>6. Streaming
  BY <1>1, <1>3, <1>4, <1>5 DEF Streaming
<1>7. Positions
  <2> DEFINE n == Len(wire)
  <2>1. Total(Each(sent, LAMBDA p : Len(p.bytes))) = n
    BY <1>5, Zenon DEF Laid, Off, Each
  <2>2. setting.cuts \subseteq 0 .. n /\ n \in Nat
    <3>1. setting.cuts \subseteq 0 .. n
      BY <1>1, <2>1, Zenon
    <3>2. n \in Nat
      BY <1>5
    <3> QED BY <3>1, <3>2, Zenon
  <2>3. pieces = setting.cuts \cup {Len(wire)} /\ arrived = 0 /\ opened = 0 /\ taken = 0
    BY DEF Init
  <2> QED BY <2>2, <2>3 DEF Positions
<1>8. Looping
  <2>1. pings \in 0 .. MaxPings
    BY SizeAssumption DEF Init
  <2>2. pc \in {"connect", "select"} /\ available = FALSE /\ again = FALSE /\ failed = FALSE
    BY DEF Init
  <2> QED BY <2>1, <2>2 DEF Looping
<1>9. Storing
  <2>1. read_buf \in [1 .. ReadSize -> Byte]
    BY DEF Init, Byte
  <2>2. handled = <<>> /\ <<>> \in Seq(ToSet(<<>>))
    BY DEF Init
  <2> QED BY <2>1, <2>2 DEF Init, Storing
<1>10. Calling
  BY DEF Init, Calling, NoCall
<1>11. Framing
  <2>1. Len(handled) = 0 /\ call.type = "none" /\ taken = 0 /\ overflow_counter = 0
    BY DEF Init, NoCall
  <2>2. Drops(handled) = {}
    BY <2>1 DEF Drops
  <2>3. Cardinality({}) = 0
    BY FS_EmptySet
  <2>4. Off(sent, 0) = 0
    BY OffZero
  <2> QED BY <1>3, <2>1, <2>2, <2>3, <2>4 DEF Framing, InStep
<1>12. Torn
  BY DEF Init, Torn
<1> QED BY <1>6, <1>7, <1>8, <1>9, <1>10, <1>11, <1>12 DEF IInv

-----------------------------------------------------------------------------
\* Framing depends on this much of the state.
LEMMA FramingKept ==
  ASSUME Framing, UNCHANGED <<torn, handled, sent, overflow_counter, setting, call, taken, read_buf>>
  PROVE  Framing'
BY Zenon DEF Framing, InStep, AtField, Within, Drops

LEMMA StreamingKept ==
  ASSUME Streaming, UNCHANGED <<setting, sent, wire>>
  PROVE  Streaming'
BY Zenon DEF Streaming, Packets

LEMMA PositionsKept ==
  ASSUME Positions, UNCHANGED <<wire, pieces, arrived, opened, taken>>
  PROVE  Positions'
BY Zenon DEF Positions

LEMMA LoopingKept ==
  ASSUME Looping, UNCHANGED <<pc, available, again, failed, pings>>
  PROVE  Looping'
BY Zenon DEF Looping

LEMMA StoringKept ==
  ASSUME Storing, UNCHANGED <<read_buf, pong_pending, overflow_counter, torn, handled, ended>>
  PROVE  Storing'
BY Zenon DEF Storing

LEMMA CallingKept ==
  ASSUME Calling, UNCHANGED <<setting, request, call, pc>>
  PROVE  Calling'
BY Zenon DEF Calling, Field, IsCall

LEMMA TornKept ==
  ASSUME Torn, UNCHANGED <<torn, overflow_counter, sent, pc, failed, request, call>>
  PROVE  Torn'
BY Zenon DEF Torn

LEMMA ReadableIs ==
  ASSUME Streaming, Positions
  PROVE  Readable \in Nat /\ opened <= Readable /\ taken <= Readable /\ Readable <= arrived
<1>1. setting.tls \in BOOLEAN
  BY Setting
<1>2. /\ taken \in Nat /\ opened \in Nat /\ arrived \in Nat /\ taken <= opened /\ opened <= arrived
  BY DEF Positions
<1>3. CASE ~setting.tls
  BY <1>2, <1>3 DEF Readable
<1>4. CASE setting.tls /\ (opened > taken \/ ~InSocket)
  BY <1>2, <1>4 DEF Readable
<1>5. CASE setting.tls /\ ~(opened > taken) /\ InSocket
  <2> DEFINE S == {e \in pieces : e > opened}
  <2>1. S \subseteq Nat /\ arrived \in S
    <3>1. arrived > opened
      BY <1>5 DEF InSocket
    <3>2. arrived # 0
      BY <1>2, <3>1
    <3>3. pieces \subseteq Nat /\ arrived \in pieces
      BY <3>2, Zenon DEF Positions
    <3> QED BY <3>1, <3>3, Zenon
  <2>2. Readable = Min(S)
    BY <1>5, Zenon DEF Readable
  <2>3. Min(S) \in S /\ Min(S) \in Nat /\ Min(S) <= arrived
    <3> HIDE DEF S
    <3>1. S # {}
      BY <2>1
    <3>2. Min(S) \in S /\ Min(S) \in Nat /\ \A i \in S : Min(S) <= i
      BY <2>1, <3>1, MinIs, Zenon
    <3> QED BY <2>1, <3>2
  <2> DEFINE m == Min(S)
  <2>4. m \in Nat /\ m <= arrived /\ m > opened
    BY <2>3
  <2> HIDE DEF m
  <2> QED BY <1>2, <2>2, <2>4 DEF m
<1> QED BY <1>1, <1>3, <1>4, <1>5

-----------------------------------------------------------------------------
LEMMA ArriveStep ==
  ASSUME IInv, Arrive
  PROVE  IInv'
<1>0. Streaming /\ Positions /\ Looping /\ Storing /\ Calling /\ Framing /\ Torn
  BY Zenon DEF IInv
<1>1. /\ arrived < Len(wire) /\ arrived' = Min({e \in pieces : e > arrived})
      /\ UNCHANGED <<setting, sent, wire, pieces, opened, taken, ended, request, call, written>>
      /\ UNCHANGED <<read_buf, pong_pending, overflow_counter, torn, handled>>
      /\ UNCHANGED <<pc, available, again, failed, pings>>
  BY Zenon DEF Arrive, stream, reader, loop
<1>2. Streaming' /\ Framing'
  BY <1>0, <1>1, StreamingKept, FramingKept, Zenon
<1>3. Looping' /\ Storing' /\ Calling' /\ Torn'
  BY <1>0, <1>1, LoopingKept, StoringKept, CallingKept, TornKept, Zenon
<1>4. Positions'
  <2> DEFINE S == {e \in pieces : e > arrived}
  <2>1. S \subseteq Nat /\ Len(wire) \in S
    <3>1. pieces \subseteq Nat /\ Len(wire) \in pieces
      BY <1>0, Zenon DEF Positions
    <3> QED BY <1>1, <3>1, Zenon
  <2>2. S # {}
    BY <2>1
  <2>3. Min(S) \in S
    <3> HIDE DEF S
    <3> QED BY <2>1, <2>2, MinIs, Zenon
  <2>4. arrived' \in pieces /\ arrived' > arrived
    BY <1>1, <2>3, Zenon
  <2>5. arrived \in Nat /\ arrived' \in Nat /\ opened \in Nat /\ opened <= arrived
    BY <1>0, <2>4, Zenon DEF Positions
  <2>6. opened <= arrived'
    BY <2>4, <2>5
  <2> QED BY <1>0, <1>1, <2>4, <2>5, <2>6, Zenon DEF Positions
<1> QED BY <1>2, <1>3, <1>4, Zenon DEF IInv

LEMMA BrokerClosesStep ==
  ASSUME IInv, BrokerCloses
  PROVE  IInv'
<1>0. Streaming /\ Positions /\ Looping /\ Storing /\ Calling /\ Framing /\ Torn
  BY Zenon DEF IInv
<1>1. /\ ended' = TRUE
      /\ UNCHANGED <<setting, sent, wire, pieces, arrived, opened, taken, request, call, written>>
      /\ UNCHANGED <<read_buf, pong_pending, overflow_counter, torn, handled>>
      /\ UNCHANGED <<pc, available, again, failed, pings>>
  BY Zenon DEF BrokerCloses, stream, reader, loop
<1>2. Streaming' /\ Framing'
  BY <1>0, <1>1, StreamingKept, FramingKept, Zenon
<1>3. Looping' /\ Calling' /\ Torn' /\ Positions'
  BY <1>0, <1>1, LoopingKept, CallingKept, TornKept, PositionsKept, Zenon
<1>4. Storing'
  BY <1>0, <1>1 DEF Storing
<1> QED BY <1>2, <1>3, <1>4, Zenon DEF IInv

-----------------------------------------------------------------------------
(***************************************************************************)
(* The end of a call.                                                      *)
(***************************************************************************)
Unmoved == UNCHANGED <<pc, available, again, failed, pings>>

\* A call has ended, or its next packet begins.
Over == Fails \/ Succeeds
Begun(d, c, budget, r) == d = [Call(c, budget) EXCEPT !.read = r]
Anew == Unmoved /\ \E r : Begun(call', call.of, call.budget, r)

-----------------------------------------------------------------------------
LEMMA ClosedMoves ==
  ASSUME Looping, Closed
  PROVE  Looping' /\ pc' = "closed" /\ failed' = failed
BY DEF Looping, Closed

LEMMA NewCall ==
  ASSUME NEW c, NEW budget, NEW r, NEW d, Begun(d, c, budget, r)
  PROVE  Field(d) /\ d.type = c.type /\ d.of = c /\ d.field = "header" /\ d.got = 0
<1>1. d = [type |-> c.type, of |-> c, field |-> "header", got |-> 0, missing |-> 1,
           packet |-> "none", read |-> r, budget |-> budget]
  BY DEF Call, Begun
<1>2. /\ d.type = c.type /\ d.of = c /\ d.field = "header" /\ d.got = 0 /\ d.missing = 1
      /\ d.packet = "none" /\ d.read = r /\ d.budget = budget
  BY <1>1
<1>3. IsCall(d)
  BY <1>1, <1>2, Zenon DEF IsCall
<1>4. 0 \in 0 .. ReadSize /\ 1 \in Nat \ {0} /\ 0 + 1 <= ReadSize
  BY SizeAssumption
<1>5. Field(d)
  BY <1>2, <1>3, <1>4 DEF Field
<1> QED BY <1>2, <1>5

LEMMA FirstCall ==
  ASSUME NEW c, NEW budget
  PROVE  LET d == Call(c, budget)
         IN Field(d) /\ d.type = c.type /\ d.of = c /\ d.field = "header" /\ d.got = 0
<1> DEFINE d == Call(c, budget)
<1>1. Begun(d, c, budget, 0)
  BY DEF Call, Begun
<1> QED BY <1>1, NewCall

\* Where a call that holds the mutex has got, and how the loop goes on.
LEMMA CallOver ==
  ASSUME Looping, Calling, call.type # "none", Over
  PROVE  /\ Looping' /\ call' = NoCall
         /\ \/ call.type \in {"yield", "CONNECT"} /\ pc' = "closed" /\ failed' = failed
            \/ call.type \notin {"yield", "CONNECT"} /\ pc' = pc /\ failed' = TRUE
            \/ call.type = "yield" /\ pc' = "work" /\ failed' = failed
            \/ call.type # "yield" /\ failed' = failed
<1>1. CASE Fails
  <2>1. CASE call.type \in {"yield", "CONNECT"}
    BY <1>1, <2>1, ClosedMoves DEF Fails
  <2>2. CASE call.type \notin {"yield", "CONNECT"}
    BY <1>1, <2>2 DEF Fails, Looping
  <2> QED BY <2>1, <2>2
<1>2. CASE Succeeds
  <2>1. UNCHANGED <<available, again, failed, pings>> /\ call' = NoCall
    BY <1>2 DEF Succeeds
  <2>2. /\ pc' \in {"connect", "select", "lock", "work", "closed"}
        /\ call.type = "yield" => pc' = "work"
    BY <1>2 DEF Succeeds, Looping
  <2>3. Looping'
    BY <2>1, <2>2, Zenon DEF Looping
  <2> QED BY <2>1, <2>2, <2>3
<1> QED BY <1>1, <1>2 DEF Over

LEMMA CallAnew ==
  ASSUME Calling, call.type # "none", Anew
  PROVE  /\ Field(call') /\ call'.type = call.type /\ call'.of = call.of
         /\ call'.field = "header" /\ call'.got = 0
<1>1. PICK r : Begun(call', call.of, call.budget, r)
  BY Zenon DEF Anew
<1>2. call.type = call.of.type
  BY Zenon DEF Calling
<1> QED BY <1>1, <1>2, NewCall

LEMMA MovedOn ==
  ASSUME Looping, Calling, call.type # "none", Over \/ Anew, UNCHANGED <<setting, request>>
  PROVE  Looping' /\ Calling' /\ (call'.type = "none" \/ call'.field = "header")
<1>1. CASE Over
  <2>1. Looping' /\ call' = NoCall
    BY <1>1, CallOver, Zenon
  <2>2. call'.type = "none"
    BY <2>1 DEF NoCall
  <2>3. Calling'
    BY <2>2, Zenon DEF Calling
  <2> QED BY <2>1, <2>2, <2>3
<1>2. CASE Anew
  <2>1. Looping'
    BY <1>2, LoopingKept, Zenon DEF Anew, Unmoved
  <2>2. /\ Field(call') /\ call'.type = call.type /\ call'.of = call.of /\ call'.field = "header"
    BY <1>2, CallAnew, Zenon
  <2>3. pc' = pc
    BY <1>2, Zenon DEF Anew, Unmoved
  <2>4. Calling'
    BY <2>2, <2>3, Zenon DEF Calling
  <2> QED BY <2>1, <2>2, <2>4
<1> QED BY <1>1, <1>2

\* After a read that stopped in the middle of a packet only the background task still
\* reads, at most once, and then notices.
LEMMA StillTorn ==
  ASSUME Torn, Calling, Looping, Streaming, Storing, torn, call.type # "none",
         UNCHANGED <<setting, request, sent>>,
         \/ call'.type = call.type /\ Unmoved /\ overflow_counter' = overflow_counter
         \/ Over /\ overflow_counter' \in {overflow_counter, overflow_counter + 1}
  PROVE  Torn'
<1>1. pc \in {"connect", "select", "lock"} /\ (call.type = "yield" => pc = "lock")
  BY Zenon DEF Calling
<1>2. /\ overflow_counter < Len(sent) /\ failed /\ request.type = "none"
      /\ call.type = "yield" /\ pc = "lock"
  BY <1>1 DEF Torn
<1>3. overflow_counter \in Nat /\ Len(sent) \in Nat
  BY DEF Storing, Streaming
<1>4. CASE call'.type = call.type /\ Unmoved /\ overflow_counter' = overflow_counter
  <2>1. /\ call'.type = "yield" /\ pc' = "lock" /\ failed' = failed
        /\ overflow_counter' < Len(sent') /\ overflow_counter' <= Len(sent')
        /\ request'.type = "none"
    BY <1>2, <1>3, <1>4 DEF Unmoved
  <2> QED BY <1>2, <2>1, Zenon DEF Torn
<1>5. CASE Over /\ overflow_counter' \in {overflow_counter, overflow_counter + 1}
  <2>1. overflow_counter' <= Len(sent')
    BY <1>2, <1>3, <1>5
  <2>2. pc' = "closed" \/ (pc' = "work" /\ failed')
    BY <1>2, <1>5, CallOver
  <2>3. call'.type = "none"
    BY <1>5, CallOver DEF NoCall
  <2>4. request'.type = "none"
    BY <1>2
  <2> QED BY <2>1, <2>2, <2>3, <2>4, Zenon DEF Torn
<1> QED BY <1>4, <1>5

LEMMA GoesTorn ==
  ASSUME InStep, Len(handled) < Len(sent), Calling, Looping, Streaming, Storing, call.type # "none",
         Fails, UNCHANGED <<setting, request, sent, overflow_counter>>
  PROVE  Torn'
<1>1. overflow_counter \in Nat /\ Len(sent) \in Nat /\ Len(handled) \in Nat
  BY DEF Storing, Streaming
<1>2. overflow_counter' < Len(sent') /\ overflow_counter' <= Len(sent')
  BY <1>1 DEF InStep
<1>3. call' = NoCall /\ call'.type = "none"
  BY DEF Fails, NoCall
<1>4. CASE call.type \in {"yield", "CONNECT"}
  <2>1. pc' = "closed"
    BY <1>4 DEF Fails, Closed
  <2> QED BY <1>2, <2>1, Zenon DEF Torn
<1>5. CASE call.type \notin {"yield", "CONNECT"}
  <2>1. failed' = TRUE
    BY <1>5 DEF Fails
  <2>2. request.type = "none"
    BY <1>5 DEF Calling
  <2> QED BY <1>2, <1>3, <2>1, <2>2, Zenon DEF Torn
<1> QED BY <1>4, <1>5

\* Nothing read: the state of the connection stays in step.
LEMMA NoMoreStep ==
  ASSUME IInv, NoMore, call.type # "none"
  PROVE  IInv'
<1>0. Streaming /\ Positions /\ Looping /\ Storing /\ Calling /\ Framing /\ Torn
  BY Zenon DEF IInv
<1>1. /\ Fails /\ Over
      /\ IF call.field = "header" THEN UNCHANGED torn ELSE torn' = TRUE
      /\ UNCHANGED <<setting, sent, wire, pieces, arrived, opened, taken, ended>>
      /\ UNCHANGED <<read_buf, pong_pending, overflow_counter, handled, request, written>>
  BY Zenon DEF NoMore, FailsBetween, FailsWithin, network, Over
<1>2. Streaming' /\ Positions'
  BY <1>0, <1>1, StreamingKept, PositionsKept, Zenon
<1>3. Looping' /\ Calling'
  BY <1>0, <1>1, MovedOn, Zenon
<1>4. Storing'
  BY <1>0, <1>1 DEF Storing
<1>5. call'.type = "none"
  BY <1>1 DEF Fails, NoCall
<1>6. Framing'
  <2>1. CASE torn'
    BY <2>1, Zenon DEF Framing
  <2>2. CASE ~torn'
    <3>1. call.field = "header" /\ ~torn
      BY <1>1, <2>2, Zenon
    <3>2. InStep
      BY <1>0, <3>1, Zenon DEF Framing
    <3>3. taken = Off(sent, Len(handled))
      BY <3>1, <3>2, Zenon DEF InStep, AtField
    <3>4. InStep'
      BY <1>1, <1>5, <3>2, <3>3, Zenon DEF InStep, Drops
    <3> QED BY <3>4, Zenon DEF Framing
  <2> QED BY <2>1, <2>2
<1>7. Torn'
  <2>1. CASE torn
    BY <1>0, <1>1, <2>1, StillTorn, Zenon
  <2>2. CASE ~torn /\ call.field = "header"
    BY <1>1, <2>2, Zenon DEF Torn
  <2>3. CASE ~torn /\ call.field # "header"
    <3>1. InStep
      BY <1>0, <2>3, Zenon DEF Framing
    <3>2. Len(handled) < Len(sent)
      BY <2>3, <3>1, Zenon DEF InStep, AtField
    <3> QED BY <1>0, <1>1, <3>1, <3>2, GoesTorn, Zenon
  <2> QED BY <2>1, <2>2, <2>3
<1> QED BY <1>2, <1>3, <1>4, <1>6, <1>7, Zenon DEF IInv

-----------------------------------------------------------------------------
(***************************************************************************)
(* The loop, and a task's request.                                         *)
(***************************************************************************)
LEMMA FramingStarts ==
  ASSUME Framing, call.type = "none", call'.type = "none" \/ call'.field = "header",
         UNCHANGED <<torn, handled, sent, overflow_counter, setting, taken>>
  PROVE  Framing'
<1> SUFFICES ASSUME ~torn' PROVE InStep'
  BY Zenon DEF Framing
<1>1. InStep
  BY Zenon DEF Framing
<1>2. taken = Off(sent, Len(handled))
  BY <1>1, Zenon DEF InStep
<1>3. CASE call'.type = "none"
  BY <1>1, <1>2, <1>3, Zenon DEF InStep, Drops
<1>4. CASE call'.type # "none"
  <2>1. call'.field = "header"
    BY <1>4
  <2>2. "header" # "length" /\ "header" # "rest" /\ "header" # "drain"
    OBVIOUS
  <2>3. AtField(Len(handled), sent[Len(handled) + 1])'
    BY <1>2, <2>1, <2>2, Zenon DEF AtField
  <2> QED BY <1>1, <1>4, <2>3, Zenon DEF InStep, Drops
<1> QED BY <1>3, <1>4

LEMMA RequestStep ==
  ASSUME IInv, Request
  PROVE  IInv'
<1>0. Streaming /\ Positions /\ Looping /\ Storing /\ Calling /\ Framing /\ Torn
  BY Zenon DEF IInv
<1>1. /\ call.type = "none" /\ request.type # "none" /\ request' = NoCall
      /\ pc \in (IF request.type = "CONNECT" THEN {"connect"} ELSE {"select", "lock"})
      /\ UNCHANGED <<setting, sent, wire, pieces, arrived, opened, taken, ended>>
      /\ UNCHANGED <<read_buf, pong_pending, overflow_counter, torn, handled>>
  BY Zenon DEF Request, network, stream, reader
<1>2. \/ call' = call /\ Closed
      \/ call' = call /\ failed' = TRUE /\ UNCHANGED <<pc, available, again, pings>>
      \/ call' = Call(request, 0) /\ Answered(request) /\ Unmoved
      \/ call' = call /\ Unmoved
  BY Zenon DEF Request, Unmoved, loop
<1>3. request = setting.request
  BY <1>0, <1>1 DEF Calling, NoCall
<1>4. Streaming' /\ Positions' /\ Storing'
  BY <1>0, <1>1, StreamingKept, PositionsKept, StoringKept, Zenon
<1>5. request'.type = "none" /\ request' \in {NoCall, setting'.request}
  BY <1>1 DEF NoCall
<1>6. Looping'
  <2>1. CASE Closed
    BY <1>0, <2>1, ClosedMoves
  <2>2. CASE failed' = TRUE /\ UNCHANGED <<pc, available, again, pings>>
    BY <1>0, <2>2 DEF Looping
  <2>3. CASE Unmoved
    BY <1>0, <2>3, LoopingKept DEF Unmoved
  <2> QED BY <1>2, <2>1, <2>2, <2>3
<1>7. Calling' /\ (call'.type = "none" \/ call'.field = "header")
  <2>1. CASE call' = call
    BY <1>1, <1>5, <2>1, Zenon DEF Calling
  <2>2. CASE call' = Call(request, 0) /\ Answered(request) /\ Unmoved
    <3>1. /\ Field(call') /\ call'.type = request.type /\ call'.of = request
          /\ call'.field = "header"
      BY <2>2, FirstCall
    <3>2. request.type # "yield"
      BY <1>0, <1>3, Setting
    <3>3. pc' \in {"connect", "select", "lock"} /\ (request.type = "CONNECT" => pc' = "connect")
      BY <1>1, <2>2 DEF Unmoved
    <3>4. setting'.request = request /\ call'.type = call'.of.type
          /\ call'.of = setting'.request /\ Answered(setting'.request) /\ call'.type # "yield"
      BY <1>1, <1>3, <2>2, <3>1, <3>2, Zenon
    <3> QED BY <1>5, <3>1, <3>3, <3>4, Zenon DEF Calling
  <2> QED BY <1>2, <2>1, <2>2
<1>8. Framing'
  BY <1>0, <1>1, <1>7, FramingStarts, Zenon
<1>9. Torn'
  <2>1. ~torn
    BY <1>0, <1>1 DEF Torn
  <2> QED BY <1>1, <2>1, Zenon DEF Torn
<1> QED BY <1>4, <1>6, <1>7, <1>8, <1>9, Zenon DEF IInv

-----------------------------------------------------------------------------
LEMMA SelectStep ==
  ASSUME IInv, Select
  PROVE  IInv'
<1>0. Streaming /\ Positions /\ Looping /\ Storing /\ Calling /\ Framing /\ Torn
  BY Zenon DEF IInv
<1>1. /\ pc = "select" /\ pc' = "lock" /\ available' = (InSocket \/ ended)
      /\ UNCHANGED <<again, failed, pings>>
      /\ UNCHANGED <<setting, sent, wire, pieces, arrived, opened, taken, ended>>
      /\ UNCHANGED <<read_buf, pong_pending, overflow_counter, torn, handled, request, call>>
  BY Zenon DEF Select, network, stream, reader
<1>2. Streaming' /\ Positions' /\ Storing' /\ Framing'
  BY <1>0, <1>1, StreamingKept, PositionsKept, StoringKept, FramingKept, Zenon
<1>3. Looping'
  <2>1. (InSocket \/ ended) \in BOOLEAN
    BY <1>0 DEF Storing, InSocket
  <2> QED BY <1>0, <1>1, <2>1 DEF Looping
<1>4. Calling'
  <2>1. call.type # "CONNECT" /\ call.type # "yield"
    BY <1>0, <1>1 DEF Calling
  <2> QED BY <1>0, <1>1, <2>1, Zenon DEF Calling, Field, IsCall
<1>5. Torn'
  <2>1. "select" \notin {"closed", "work"} /\ "select" # "closed" /\ "lock" # "closed"
    OBVIOUS
  <2> QED BY <1>0, <1>1, <2>1, Zenon DEF Torn
<1> QED BY <1>2, <1>3, <1>4, <1>5, Zenon DEF IInv

\* The loop goes on, no call in progress.
LEMMA LoopGoesOn ==
  ASSUME IInv, call.type = "none", pc # "closed", Looping', Positions',
         pc' \in {"closed", "work"} \/ (pc = "work" /\ pc' = (IF failed THEN "closed" ELSE "select")),
         failed' = failed, UNCHANGED <<setting, sent, wire, request, call, taken>>,
         UNCHANGED <<read_buf, pong_pending, overflow_counter, torn, handled, ended>>
  PROVE  IInv'
<1>0. Streaming /\ Positions /\ Looping /\ Storing /\ Calling /\ Framing /\ Torn
  BY Zenon DEF IInv
<1>1. Streaming' /\ Storing' /\ Framing'
  BY <1>0, StreamingKept, StoringKept, FramingKept, Zenon
<1>2. Calling'
  BY <1>0, Zenon DEF Calling
<1>3. Torn'
  <2>1. CASE torn
    <3>1. /\ overflow_counter <= Len(sent)
          /\ pc = "closed" \/ (failed /\ request.type = "none" /\ call.type \in {"none", "yield"})
      BY <1>0, <2>1, Zenon DEF Torn
    <3>2. failed /\ request.type = "none"
      BY <3>1
    <3>3. pc' \in {"closed", "work"}
      BY <3>2
    <3> QED BY <1>0, <3>1, <3>2, <3>3, Zenon DEF Torn
  <2>2. CASE ~torn
    BY <2>2, Zenon DEF Torn
  <2> QED BY <2>1, <2>2
<1> QED BY <1>1, <1>2, <1>3, Zenon DEF IInv

LEMMA PeekStep ==
  ASSUME IInv, Peek
  PROVE  IInv'
<1>0. Streaming /\ Positions /\ Looping /\ Storing /\ Calling /\ Framing /\ Torn
  BY Zenon DEF IInv
<1> DEFINE bytes == Readable - taken
<1>1. /\ pc = "lock" /\ call.type = "none"
      /\ UNCHANGED <<setting, sent, wire, pieces, arrived, taken, ended, request>>
      /\ UNCHANGED <<read_buf, pong_pending, overflow_counter, torn, handled>>
      /\ opened' \in {opened, Readable}
      /\ \/ call' = Call([type |-> "yield"], bytes) /\ Unmoved
         \/ /\ call' = call /\ pc' = "work" /\ again' = (again \/ (~AtEnd /\ ~setting.tls))
            /\ UNCHANGED <<available, failed, pings>>
         \/ call' = call /\ Closed
  BY DEF Peek, stream, reader, loop, Unmoved
<1> HIDE DEF bytes
<1>2. Positions'
  <2>1. opened' \in Nat /\ taken <= opened' /\ opened' <= arrived
    BY <1>0, <1>1, ReadableIs DEF Positions
  <2> QED BY <1>0, <1>1, <2>1, Zenon DEF Positions
<1>3. CASE call' = Call([type |-> "yield"], bytes) /\ Unmoved
  <2> DEFINE c == [type |-> "yield"]
  <2>1. Field(call') /\ call'.type = c.type /\ call'.of = c /\ call'.field = "header"
    BY <1>3, FirstCall
  <2>2. c.type = "yield"
    OBVIOUS
  <2>3. Streaming' /\ Storing' /\ Looping' /\ Framing'
    BY <1>0, <1>1, <1>3, <2>1, StreamingKept, StoringKept, LoopingKept, FramingStarts, Zenon DEF Unmoved
  <2>4. Calling'
    BY <1>0, <1>1, <1>3, <2>1, <2>2, Zenon DEF Calling, Unmoved
  <2>5. Torn'
    BY <1>0, <1>1, <1>3, <2>1, <2>2, Zenon DEF Torn, Unmoved
  <2> QED BY <1>2, <2>3, <2>4, <2>5, Zenon DEF IInv
<1>4. CASE /\ call' = call /\ pc' = "work" /\ again' = (again \/ (~AtEnd /\ ~setting.tls))
           /\ UNCHANGED <<available, failed, pings>>
  <2>1. Looping'
    <3>1. (again \/ (~AtEnd /\ ~setting.tls)) \in BOOLEAN
      BY <1>0 DEF Looping, AtEnd
    <3> QED BY <1>0, <1>4, <3>1 DEF Looping
  <2>2. pc # "closed" /\ pc' \in {"closed", "work"} /\ failed' = failed
    BY <1>1, <1>4
  <2> QED BY <1>1, <1>2, <1>4, <2>1, <2>2, LoopGoesOn
<1>5. CASE call' = call /\ Closed
  <2>1. Looping' /\ pc' = "closed" /\ failed' = failed
    BY <1>0, <1>5, ClosedMoves, Zenon
  <2>2. pc # "closed" /\ pc' \in {"closed", "work"}
    BY <1>1, <2>1
  <2> QED BY <1>1, <1>2, <1>5, <2>1, <2>2, LoopGoesOn
<1> QED BY <1>1, <1>3, <1>4, <1>5

LEMMA NothingAvailableStep ==
  ASSUME IInv, NothingAvailable
  PROVE  IInv'
<1>0. Positions /\ Looping
  BY Zenon DEF IInv
<1>1. /\ pc = "lock" /\ call.type = "none" /\ pc' = "work"
      /\ UNCHANGED <<available, again, failed, pings>>
      /\ UNCHANGED <<setting, sent, wire, pieces, arrived, opened, taken, ended, request, call>>
      /\ UNCHANGED <<read_buf, pong_pending, overflow_counter, torn, handled>>
  BY Zenon DEF NothingAvailable, network, stream, reader
<1>2. Looping'
  BY <1>0, <1>1 DEF Looping
<1>3. Positions'
  BY <1>0, <1>1, PositionsKept, Zenon
<1> QED BY <1>1, <1>2, <1>3, LoopGoesOn

LEMMA NoCallAtWork ==
  ASSUME Calling, pc = "work" \/ pc = "closed"
  PROVE  call.type = "none"
BY DEF Calling

LEMMA NoPingDueStep ==
  ASSUME IInv, NoPingDue
  PROVE  IInv'
<1>0. Positions /\ Looping /\ Calling
  BY Zenon DEF IInv
<1>1. /\ pc = "work" /\ pc' = (IF failed THEN "closed" ELSE "select")
      /\ UNCHANGED <<available, again, failed, pings>>
      /\ UNCHANGED <<setting, sent, wire, pieces, arrived, opened, taken, ended, request, call>>
      /\ UNCHANGED <<read_buf, pong_pending, overflow_counter, torn, handled>>
  BY Zenon DEF NoPingDue, NextRound, network, stream, reader
<1>2. Looping'
  BY <1>0, <1>1 DEF Looping
<1>3. Positions' /\ call.type = "none"
  BY <1>0, <1>1, PositionsKept, NoCallAtWork, Zenon
<1> QED BY <1>1, <1>2, <1>3, LoopGoesOn

LEMMA CloseStep ==
  ASSUME IInv, Close
  PROVE  IInv'
<1>0. Positions /\ Looping
  BY Zenon DEF IInv
<1>1. /\ pc = "select" /\ call.type = "none" /\ Closed
      /\ UNCHANGED <<setting, sent, wire, pieces, arrived, opened, taken, ended, request, call>>
      /\ UNCHANGED <<read_buf, pong_pending, overflow_counter, torn, handled>>
  BY Zenon DEF Close, network, stream, reader
<1>2. Looping' /\ pc' = "closed" /\ failed' = failed
  BY <1>0, <1>1, ClosedMoves, Zenon
<1>3. Positions'
  BY <1>0, <1>1, PositionsKept, Zenon
<1> QED BY <1>1, <1>2, <1>3, LoopGoesOn

\* Another task's write fails, which sets esp_mqtt_error and nothing else.
LEMMA PublishFailsStep ==
  ASSUME IInv, PublishFails
  PROVE  IInv'
<1>0. Streaming /\ Positions /\ Looping /\ Storing /\ Calling /\ Framing /\ Torn
  BY Zenon DEF IInv
<1>1. /\ pc \in {"select", "lock"} /\ ~failed /\ failed' = TRUE
      /\ UNCHANGED <<setting, sent, wire, pieces, arrived, opened, taken, ended>>
      /\ UNCHANGED <<read_buf, pong_pending, overflow_counter, torn, handled, request, call>>
      /\ UNCHANGED <<pc, available, again, pings>>
  BY Zenon DEF PublishFails, network, stream, reader
<1>2. Streaming' /\ Positions' /\ Storing' /\ Calling' /\ Framing'
  BY <1>0, <1>1, StreamingKept, PositionsKept, StoringKept, CallingKept, FramingKept, Zenon
<1>3. Looping'
  BY <1>0, <1>1 DEF Looping
<1>4. Torn'
  <2>1. ~torn
    BY <1>0, <1>1 DEF Torn
  <2> QED BY <1>1, <2>1 DEF Torn
<1> QED BY <1>2, <1>3, <1>4, Zenon DEF IInv

-----------------------------------------------------------------------------
\* A packet is added to the stream.
LEMMA Sends ==
  ASSUME Streaming, Positions, Send(Pong), UNCHANGED <<setting, arrived, opened, taken>>
  PROVE  /\ Streaming' /\ Positions' /\ Len(sent') = Len(sent) + 1 /\ Len(sent) \in Nat
         /\ \A i \in 1 .. Len(sent) : sent'[i] = sent[i]
         /\ \A k \in 0 .. Len(sent) : Off(sent', k) = Off(sent, k)
<1> DEFINE b == Pong.bytes
<1>1. /\ sent \in Seq(Packets) /\ Sized(sent) /\ wire \in Seq(Byte) /\ Laid(sent, wire)
      /\ setting \in Scenarios /\ \A i \in 1 .. Len(sent) : WellFormed(sent[i], setting.request)
  BY Zenon DEF Streaming
<1>2. sent' = Append(sent, Pong) /\ wire' = wire \o b /\ pieces' = pieces \cup {Len(wire')}
  BY Zenon DEF Send
<1>3. Pong \in Packets
  BY DEF Packets
<1>4. setting.request.type \in DOMAIN Needle \cup {"none", "PUBLISH"}
  BY Setting
<1>5. WellFormed(Pong, setting.request) /\ b \in Seq(Byte)
  BY <1>4, PongWellFormed, Zenon
<1> HIDE DEF b
<1>6. Sized(sent') /\ Laid(sent', wire') /\ wire' \in Seq(Byte)
  <2>1. /\ Sized(Append(sent, Pong)) /\ Laid(Append(sent, Pong), wire \o Pong.bytes)
        /\ wire \o Pong.bytes \in Seq(Byte)
    BY <1>1, <1>3, <1>5, LaidAppend, Zenon DEF b
  <2> QED BY <1>2, <2>1, Zenon DEF b
<1>7. /\ sent' \in Seq(Packets) /\ Len(sent') = Len(sent) + 1 /\ Len(sent) \in Nat
      /\ \A i \in 1 .. Len(sent) : sent'[i] = sent[i]
      /\ sent'[Len(sent) + 1] = Pong
  BY <1>1, <1>2, <1>3
<1>8. \A i \in 1 .. Len(sent') : WellFormed(sent'[i], setting'.request)
  <2> TAKE i \in 1 .. Len(sent')
  <2>1. CASE i \in 1 .. Len(sent)
    BY <1>1, <1>7, <2>1, Zenon
  <2>2. CASE i = Len(sent) + 1
    BY <1>5, <1>7, <2>2, Zenon
  <2>3. i \in 1 .. Len(sent) \/ i = Len(sent) + 1
    BY <1>7
  <2> QED BY <2>1, <2>2, <2>3
<1>9. Streaming'
  <2>1. sent' \in Seq(Packets')
    BY <1>7, Zenon DEF Packets
  <2> QED BY <1>1, <1>6, <1>8, <2>1, Zenon DEF Streaming
<1>10. Positions'
  <2> DEFINE m == Len(wire)
             n == Len(wire')
  <2>1. m \in Nat /\ n \in Nat /\ m <= n
    BY <1>1, <1>2, <1>5
  <2> HIDE DEF m, n
  <2>2. pieces \subseteq Nat /\ m \in pieces /\ \A e \in pieces : e <= m
    BY Zenon DEF Positions, m
  <2>3. pieces' = pieces \cup {n}
    BY <1>2, Zenon DEF n
  <2>4. pieces' \subseteq Nat /\ n \in pieces'
    BY <2>1, <2>2, <2>3
  <2>5. \A e \in pieces' : e <= n
    BY <2>1, <2>2, <2>3
  <2>6. arrived = 0 \/ arrived \in pieces'
    BY <2>3 DEF Positions
  <2> QED BY <2>4, <2>5, <2>6, Zenon DEF Positions, n
<1>11. \A k \in 0 .. Len(sent) : Off(sent', k) = Off(sent, k)
  <2> TAKE k \in 0 .. Len(sent)
  <2>1. \A i \in 1 .. k : i \in 1 .. Len(sent)
    BY <1>7
  <2>2. [i \in 1 .. k |-> Len(sent'[i].bytes)] = [i \in 1 .. k |-> Len(sent[i].bytes)]
    BY <1>7, <2>1, Zenon
  <2> QED BY <2>2, Zenon DEF Off
<1> QED BY <1>7, <1>9, <1>10, <1>11

LEMMA PingStep ==
  ASSUME IInv, Ping
  PROVE  IInv'
<1>0. Streaming /\ Positions /\ Looping /\ Storing /\ Calling /\ Framing /\ Torn
  BY Zenon DEF IInv
<1>1. /\ pc = "work" /\ (pings < MaxPings \/ pong_pending \/ ended)
      /\ UNCHANGED <<setting, arrived, opened, taken, ended, read_buf, overflow_counter>>
      /\ UNCHANGED <<torn, handled, request, call>>
      /\ \/ /\ ~pong_pending /\ pong_pending' = TRUE
            /\ pings' = (IF ended THEN pings ELSE pings + 1)
            /\ IF ended THEN UNCHANGED stream ELSE Send(Pong)
            /\ NextRound
         \/ Closed /\ UNCHANGED <<pong_pending, stream>>
  BY Zenon DEF Ping
<1>2. call.type = "none"
  BY <1>0, <1>1, NoCallAtWork, Zenon
<1>3. CASE Closed /\ UNCHANGED <<pong_pending, stream>>
  <2>1. Looping' /\ pc' = "closed" /\ failed' = failed
    BY <1>0, <1>3, ClosedMoves, Zenon
  <2>2. Positions' /\ UNCHANGED <<sent, wire>>
    BY <1>0, <1>1, <1>3, PositionsKept, Zenon DEF stream
  <2> QED BY <1>1, <1>2, <1>3, <2>1, <2>2, LoopGoesOn
<1>4. CASE /\ ~pong_pending /\ pong_pending' = TRUE
           /\ pings' = (IF ended THEN pings ELSE pings + 1)
           /\ IF ended THEN UNCHANGED stream ELSE Send(Pong)
           /\ NextRound
  <2>1. pc' = (IF failed THEN "closed" ELSE "select") /\ UNCHANGED <<available, again, failed>>
    BY <1>4, Zenon DEF NextRound
  <2>2. pings' \in 0 .. MaxPings
    BY <1>0, <1>1, <1>4, SizeAssumption DEF Looping
  <2>3. Looping'
    BY <1>0, <2>1, <2>2 DEF Looping
  <2>4. Storing'
    BY <1>0, <1>1, <1>4 DEF Storing
  <2>5. Calling'
    BY <1>0, <1>1, <1>2, Zenon DEF Calling
  <2>6. /\ Streaming' /\ Positions' /\ Len(sent) \in Nat /\ Len(sent') \in Nat /\ Len(sent) <= Len(sent')
        /\ \A i \in 1 .. Len(sent) : sent'[i] = sent[i]
        /\ \A k \in 0 .. Len(sent) : Off(sent', k) = Off(sent, k)
    <3>1. CASE ended
      <4>1. UNCHANGED <<sent, wire, pieces>>
        BY <1>4, <3>1, Zenon DEF stream
      <4>2. Len(sent) \in Nat /\ Len(sent) <= Len(sent)
        BY <1>0 DEF Streaming
      <4> QED BY <1>0, <1>1, <4>1, <4>2, StreamingKept, PositionsKept, Zenon
    <3>2. CASE ~ended
      <4>1. Send(Pong)
        BY <1>4, <3>2
      <4>2. /\ Streaming' /\ Positions' /\ Len(sent') = Len(sent) + 1 /\ Len(sent) \in Nat
            /\ \A i \in 1 .. Len(sent) : sent'[i] = sent[i]
            /\ \A k \in 0 .. Len(sent) : Off(sent', k) = Off(sent, k)
        BY <1>0, <1>1, <4>1, Sends, Zenon
      <4>3. Len(sent') \in Nat /\ Len(sent) <= Len(sent')
        BY <4>2
      <4> QED BY <4>2, <4>3, Zenon
    <3> QED BY <3>1, <3>2
  <2>7. Framing'
    <3> SUFFICES ASSUME ~torn PROVE InStep'
      BY <1>1, Zenon DEF Framing
    <3> DEFINE k == Len(handled)
    <3>1. InStep /\ call'.type = "none"
      BY <1>0, <1>1, <1>2, Zenon DEF Framing
    <3>2. k \in Nat /\ k <= Len(sent) /\ taken = Off(sent, k)
      BY <1>0, <1>2, <3>1 DEF InStep, Storing
    <3>3. k <= Len(sent') /\ k \in 0 .. Len(sent) /\ \A i \in 1 .. k : i \in 1 .. Len(sent)
      BY <2>6, <3>2
    <3>4. \A i \in 1 .. k : Agrees(handled'[i], sent'[i], setting'.request)
      BY <1>1, <2>6, <3>1, <3>3, Zenon DEF InStep
    <3>5. taken' = Off(sent', k)
      BY <1>1, <2>6, <3>2, <3>3, Zenon
    <3> QED BY <1>1, <3>1, <3>3, <3>4, <3>5, Zenon DEF InStep, Drops
  <2>8. Torn'
    <3>1. CASE torn
      <4>1. overflow_counter <= Len(sent) /\ failed /\ request.type = "none"
        BY <1>0, <1>1, <3>1 DEF Torn
      <4>2. overflow_counter' <= Len(sent')
        <5>1. overflow_counter \in Nat /\ overflow_counter' = overflow_counter
          BY <1>0, <1>1 DEF Storing
        <5> QED BY <2>6, <4>1, <5>1
      <4>3. pc' = "closed"
        BY <2>1, <4>1
      <4> QED BY <4>2, <4>3, Zenon DEF Torn
    <3>2. CASE ~torn
      BY <1>1, <3>2, Zenon DEF Torn
    <3> QED BY <3>1, <3>2
  <2> QED BY <2>3, <2>4, <2>5, <2>6, <2>7, <2>8, Zenon DEF IInv
<1> QED BY <1>1, <1>3, <1>4

LEMMA LoopStep ==
  ASSUME IInv, Loop
  PROVE  IInv'
BY SelectStep, PeekStep, NothingAvailableStep, NoPingDueStep, PingStep, CloseStep, Zenon DEF Loop

-----------------------------------------------------------------------------
(***************************************************************************)
(* A packet that is complete.                                              *)
(***************************************************************************)
\* What is noted of a packet.
Entry(type, b) ==
  [type |-> type,
   data |-> IF call.type # "yield" /\ type = NeedleOf(call.of) THEN Answer(call.of, type, b)
            ELSE Decoded(type, b)]

\* The packet was handled: the call is over or goes on.
HandledAs(h) ==
  /\ handled' = Append(handled, h) /\ (Over \/ Anew) /\ UNCHANGED torn
  /\ pong_pending' \in {pong_pending, FALSE}

LEMMA NextPacketIs ==
  ASSUME NEW length, NextPacket(length), call.type # "none"
  PROVE  (Over \/ Anew) /\ UNCHANGED torn
<1>1. CASE /\ call' = [Call(call.of, call.budget) EXCEPT !.read = call.read + length]
           /\ UNCHANGED <<loop, torn>>
  <2> DEFINE r == call.read + length
  <2>1. Begun(call', call.of, call.budget, r)
    BY <1>1, Zenon DEF Begun
  <2> QED BY <1>1, <2>1, Zenon DEF Anew, Unmoved, loop
<1>2. CASE Succeeds /\ UNCHANGED torn
  BY <1>2, Zenon DEF Over
<1>3. CASE FailsBetween
  BY <1>3, Zenon DEF Over, FailsBetween
<1> QED BY <1>1, <1>2, <1>3, Zenon DEF NextPacket

LEMMA CompleteIs ==
  ASSUME NEW type, NEW length, NEW b, Complete(type, length, b), call.type # "none", Storing
  PROVE  HandledAs(Entry(type, b)) /\ UNCHANGED overflow_counter
<1>1. overflow_counter' = overflow_counter
  BY Zenon DEF Complete
<1>2. CASE call.type # "yield" /\ type = NeedleOf(call.of)
  <2> DEFINE d == Answer(call.of, type, b)
  <2>1. TakeAnswer(type, b)
    BY <1>2, Zenon DEF Complete
  <2>2. handled' = Append(handled, Entry(type, b))
    BY <1>2, <2>1, Zenon DEF TakeAnswer, Note, Entry
  <2>3. (Over \/ Anew) /\ UNCHANGED torn /\ pong_pending' = pong_pending
    BY <2>1, Zenon DEF TakeAnswer, Over, FailsBetween
  <2> QED BY <1>1, <2>2, <2>3, Zenon DEF HandledAs
<1>3. CASE ~(call.type # "yield" /\ type = NeedleOf(call.of))
  <2> DEFINE d == Decoded(type, b)
             reply == Reply(type, d)
  <2>1. Handle(type, length, b)
    BY <1>3, Zenon DEF Complete
  <2>2. handled' = Append(handled, Entry(type, b))
    BY <1>3, <2>1, Zenon DEF Handle, Note, Entry
  <2>3. FailsBetween \/ NextPacket(length)
    <3> HIDE DEF d
    <3>1. \/ d.err # "SUCCESS" /\ FailsBetween
          \/ reply.type = "none" /\ NextPacket(length)
          \/ IF Fits(reply) THEN NextPacket(length) ELSE FailsBetween
      BY <2>1 DEF Handle, d
    <3> QED BY <3>1
  <2>4. (Over \/ Anew) /\ UNCHANGED torn
    BY <2>3, NextPacketIs, Zenon DEF Over, FailsBetween
  <2>5. pong_pending' = (pong_pending /\ type # "PINGRESP")
    BY <2>1, Zenon DEF Handle
  <2>6. pong_pending' \in {pong_pending, FALSE}
    BY <2>5 DEF Storing
  <2> QED BY <1>1, <2>2, <2>4, <2>6, Zenon DEF HandledAs
<1> QED BY <1>2, <1>3

LEMMA DroppedIs ==
  ASSUME Dropped, call.type # "none"
  PROVE  /\ HandledAs([type |-> "dropped", data |-> [err |-> "SUCCESS"]])
         /\ overflow_counter' = overflow_counter + 1
         /\ call.type = "yield" => Over
<1>1. /\ overflow_counter' = overflow_counter + 1 /\ pong_pending' = pong_pending
      /\ handled' = Append(handled, [type |-> "dropped", data |-> [err |-> "SUCCESS"]])
  BY Zenon DEF Dropped, Note
<1>2. CASE call.type = "yield"
  BY <1>1, <1>2, Zenon DEF Dropped, HandledAs, Over
<1>3. CASE call.type # "yield"
  <2>1. NextPacket(0 - call.read)
    BY <1>3, Zenon DEF Dropped
  <2>2. (Over \/ Anew) /\ UNCHANGED torn
    BY <2>1, NextPacketIs, Zenon
  <2> QED BY <1>1, <1>3, <2>2, Zenon DEF HandledAs
<1> QED BY <1>2, <1>3

\* One more packet of the stream is handled.
LEMMA StaysInStep ==
  ASSUME InStep, Streaming, Storing, Len(handled) < Len(sent), NEW h,
         handled' = Append(handled, h), Agrees(h, sent[Len(handled) + 1], setting.request),
         overflow_counter' = (IF h.type = "dropped" THEN overflow_counter + 1 ELSE overflow_counter),
         UNCHANGED <<sent, setting>>, taken' = Off(sent, Len(handled) + 1),
         call'.type = "none" \/ call'.field = "header"
  PROVE  InStep'
<1> DEFINE k == Len(handled)
<1>1. handled \in Seq(ToSet(handled)) /\ Len(sent) \in Nat /\ overflow_counter \in Nat
  BY DEF Streaming, Storing
<1>2. /\ k \in Nat /\ Len(handled') = k + 1 /\ handled'[k + 1] = h
      /\ \A i \in 1 .. k : handled'[i] = handled[i]
  <2>1. /\ Len(handled) \in Nat /\ Len(Append(handled, h)) = Len(handled) + 1
        /\ Append(handled, h)[Len(handled) + 1] = h
        /\ \A i \in 1 .. Len(handled) : Append(handled, h)[i] = handled[i]
    BY <1>1, OwnAppend
  <2> QED BY <2>1, Zenon
<1>3. /\ k <= Len(sent) /\ overflow_counter <= k
      /\ \A i \in 1 .. k : Agrees(handled[i], sent[i], setting.request)
      /\ overflow_counter = Cardinality(Drops(handled))
  BY Zenon DEF InStep
<1> HIDE DEF k
<1>4. Len(handled') <= Len(sent') /\ overflow_counter' <= Len(handled')
  BY <1>1, <1>2, <1>3 DEF k
<1>5. \A i \in 1 .. Len(handled') : Agrees(handled'[i], sent'[i], setting'.request)
  <2> TAKE i \in 1 .. Len(handled')
  <2>1. i \in 1 .. k \/ i = k + 1
    BY <1>2
  <2>2. CASE i \in 1 .. k
    BY <1>2, <1>3, <2>2, Zenon
  <2>3. CASE i = k + 1
    BY <1>2, <2>3, Zenon DEF k
  <2> QED BY <2>1, <2>2, <2>3
<1>6. overflow_counter' = Cardinality(Drops(handled'))
  <2> DEFINE D == Drops(handled)
             E == Drops(handled')
  <2>1. D \subseteq 1 .. k /\ k + 1 \notin D
    BY <1>2 DEF Drops, k
  <2>2. IsFiniteSet(D)
    <3>1. IsFiniteSet(1 .. k)
      BY <1>2, FS_Interval
    <3> QED BY <2>1, <3>1, FS_Subset, Zenon
  <2>3. CASE h.type = "dropped"
    <3>1. E = D \cup {k + 1}
      <4>1. E = {i \in 1 .. k + 1 : handled'[i].type = "dropped"}
        BY <1>2, Zenon DEF Drops
      <4>2. \A i : i \in 1 .. k + 1 <=> (i \in 1 .. k \/ i = k + 1)
        BY <1>2
      <4>3. D = {i \in 1 .. k : handled[i].type = "dropped"}
        BY Zenon DEF Drops, k
      <4> HIDE DEF D, E
      <4> QED BY <1>2, <2>3, <4>1, <4>2, <4>3, Zenon
    <3> HIDE DEF D, E
    <3>2. Cardinality(D \cup {k + 1}) = Cardinality(D) + 1
      <4>1. Cardinality(D \cup {k + 1}) = IF k + 1 \in D THEN Cardinality(D) ELSE Cardinality(D) + 1
        BY <2>2, FS_AddElement, Zenon
      <4> QED BY <2>1, <4>1, Zenon
    <3>3. Cardinality(D) = overflow_counter
      BY <1>3, Zenon DEF D
    <3> QED BY <2>3, <3>1, <3>2, <3>3 DEF E
  <2>4. CASE h.type # "dropped"
    <3>1. E = D
      <4>1. E = {i \in 1 .. k + 1 : handled'[i].type = "dropped"}
        BY <1>2, Zenon DEF Drops
      <4>2. \A i : i \in 1 .. k + 1 <=> (i \in 1 .. k \/ i = k + 1)
        BY <1>2
      <4>3. D = {i \in 1 .. k : handled[i].type = "dropped"}
        BY Zenon DEF Drops, k
      <4> HIDE DEF D, E
      <4> QED BY <1>2, <2>4, <4>1, <4>2, <4>3, Zenon
    <3> QED BY <1>3, <2>4, <3>1, Zenon
  <2> QED BY <2>3, <2>4
<1>7. taken' = Off(sent', Len(handled'))
  BY <1>2, Zenon DEF k
<1>8. IF call'.type = "none" THEN taken' = Off(sent', Len(handled'))
      ELSE AtField(Len(handled), sent[Len(handled) + 1])'
  <2>1. "header" # "length" /\ "header" # "rest" /\ "header" # "drain"
    OBVIOUS
  <2>2. CASE call'.field = "header"
    <3>1. AtField(Len(handled), sent[Len(handled) + 1])'
      BY <1>7, <2>1, <2>2, Zenon DEF AtField
    <3> QED BY <1>7, <3>1, Zenon
  <2> QED BY <1>7, <2>2, Zenon
<1> QED BY <1>4, <1>5, <1>6, <1>8, Zenon DEF InStep

\* A packet that lies whole in the buffer is taken for what it is.
LEMMA EntryAgrees ==
  ASSUME Calling, call.type # "none", NEW p, NEW b, Whole(p.bytes, b), WellFormed(p, setting.request),
         DetectType(p.bytes[1]).err = "SUCCESS", p.type \in Received
  PROVE  Agrees(Entry(p.type, b), p, setting.request) /\ Entry(p.type, b).type # "dropped"
<1> DEFINE c == setting.request
           h == Entry(p.type, b)
           answers == c.type # "none" /\ Answered(c) /\ NeedleOf(c) = p.type
<1>1. DetectRemainingLength(p.bytes, 2).err = "SUCCESS"
  BY DEF Whole, DetectRemainingLength
<1>2. /\ Agrees([type |-> p.type, data |-> Decoded(p.type, p.bytes)], p, c)
      /\ answers => Agrees([type |-> p.type, data |-> Answer(c, p.type, p.bytes)], p, c)
  BY <1>1, Zenon DEF WellFormed
<1>3. /\ Decoded(p.type, b) = Decoded(p.type, p.bytes)
      /\ Answer(c, p.type, b) = Answer(c, p.type, p.bytes)
  BY DecodedSame
<1>4. h.type # "dropped"
  BY DEF Entry, Received
<1>5. CASE call.type # "yield" /\ p.type = NeedleOf(call.of)
  <2>1. call.of = c /\ Answered(c) /\ c.type # "none"
    BY <1>5, Zenon DEF Calling
  <2>2. h = [type |-> p.type, data |-> Answer(c, p.type, p.bytes)]
    BY <1>3, <1>5, <2>1, Zenon DEF Entry
  <2>3. Agrees(h, p, c)
    BY <1>2, <1>5, <2>1, <2>2, Zenon
  <2> QED BY <1>4, <2>3, Zenon
<1>6. CASE ~(call.type # "yield" /\ p.type = NeedleOf(call.of))
  <2>1. h = [type |-> p.type, data |-> Decoded(p.type, p.bytes)]
    BY <1>3, <1>6, Zenon DEF Entry
  <2>2. Agrees(h, p, c)
    BY <1>2, <2>1, Zenon
  <2> QED BY <1>4, <2>2, Zenon
<1> QED BY <1>5, <1>6

-----------------------------------------------------------------------------
(***************************************************************************)
(* What a read does: it fills the buffer and asks for more, fails, or handles*)
(* a packet.                                                               *)
(***************************************************************************)
Asked(d, c, field, packet, got, missing) ==
  d = [c EXCEPT !.field = field, !.packet = packet, !.got = got, !.missing = missing]

\* The next piece of a packet is waited for.
Asks(field, packet, got, missing) ==
  /\ Asked(call', call, field, packet, got, missing) /\ Unmoved
  /\ UNCHANGED <<torn, handled, pong_pending, overflow_counter>>

Breaks == Fails /\ torn' = TRUE /\ UNCHANGED <<handled, pong_pending, overflow_counter>>

AfterLength(m, b) ==
  LET r == ReadVarnum(SubSeq(b, 1, m), 2)
  IN \/ Breaks
     \/ r.err = "BUFFER_TOO_SHORT" /\ m + 1 <= ReadSize /\ Asks("length", call.packet, m, 1)
     \/ /\ r.err = "SUCCESS" /\ r.num \in Nat
        /\ \/ m + r.num > ReadSize /\ Asks("drain", call.packet, call.got, r.num)
           \/ r.num > 0 /\ m + r.num <= ReadSize /\ Asks("rest", call.packet, m, r.num)
           \/ r.num = 0 /\ HandledAs(Entry(call.packet, b)) /\ UNCHANGED overflow_counter

AfterHeader(b) ==
  LET d == DetectType(b[1])
  IN Breaks \/ (d.err = "SUCCESS" /\ Asks("length", d.type, 1, 1))

AfterDrop ==
  /\ HandledAs([type |-> "dropped", data |-> [err |-> "SUCCESS"]])
  /\ overflow_counter' = overflow_counter + 1 /\ (call.type = "yield" => Over)

\* n bytes have been read into the buffer, which is now b.
Fills(n, b) ==
  /\ n \in Nat \ {0} /\ n <= call.missing /\ taken + n <= Len(wire)
  /\ b \in [1 .. ReadSize -> Byte] /\ b \in Seq(Byte) /\ Len(b) = ReadSize
  /\ call.field # "drain" =>
       /\ \A i \in 1 .. call.got : b[i] = read_buf[i]
       /\ \A i \in 1 .. n : b[call.got + i] = wire[taken + i]
  /\ read_buf' = b /\ taken' = taken + n
  /\ opened' \in Nat /\ taken' <= opened' /\ opened' <= arrived
  /\ UNCHANGED <<setting, sent, wire, pieces, arrived, ended, request>>

GoesOn(n, b) ==
  \/ /\ n < call.missing
     /\ Asks(call.field, call.packet,
             IF call.field = "drain" THEN call.got ELSE call.got + n, call.missing - n)
  \/ /\ n = call.missing
     /\ \/ call.field = "header" /\ AfterHeader(b)
        \/ call.field = "length" /\ AfterLength(call.got + 1, b)
        \/ call.field = "rest" /\ HandledAs(Entry(call.packet, b)) /\ UNCHANGED overflow_counter
        \/ call.field = "drain" /\ AfterDrop

-----------------------------------------------------------------------------
LEMMA AskIs ==
  ASSUME NEW c, Field(c), NEW d, NEW field \in {"length", "rest", "drain"}, NEW packet,
         NEW got \in 0 .. ReadSize, NEW missing \in Nat \ {0},
         field # "drain" => got + missing <= ReadSize, Asked(d, c, field, packet, got, missing)
  PROVE  /\ Field(d) /\ d.type = c.type /\ d.of = c.of
         /\ d.field = field /\ d.packet = packet /\ d.got = got /\ d.missing = missing
<1>1. c = [type |-> c.type, of |-> c.of, field |-> c.field, got |-> c.got, missing |-> c.missing,
           packet |-> c.packet, read |-> c.read, budget |-> c.budget]
  BY Zenon DEF Field, IsCall
<1> DEFINE type == c.type
           of == c.of
           read == c.read
           budget == c.budget
<1>2. d = [type |-> type, of |-> of, field |-> field, got |-> got, missing |-> missing,
           packet |-> packet, read |-> read, budget |-> budget]
  BY <1>1 DEF Asked
<1> HIDE DEF type, of, read, budget
<1>3. /\ d.type = type /\ d.of = of /\ d.field = field /\ d.got = got /\ d.missing = missing
      /\ d.packet = packet /\ d.read = read /\ d.budget = budget
  BY <1>2
<1>4. IsCall(d)
  BY <1>2, <1>3, Zenon DEF IsCall
<1>5. Field(d)
  BY <1>3, <1>4 DEF Field
<1> QED BY <1>3, <1>5 DEF type, of

LEMMA ArrivedIs ==
  ASSUME Streaming, Positions
  PROVE  arrived <= Len(wire) /\ Len(wire) \in Nat
<1>1. Len(wire) \in Nat
  BY DEF Streaming
<1>2. arrived = 0 \/ arrived <= Len(wire)
  BY Zenon DEF Positions
<1> QED BY <1>1, <1>2

LEMMA LengthReadIs ==
  ASSUME NEW b \in Seq(Byte), Len(b) = ReadSize, call.type # "none", Storing, Field(call),
         LengthRead(call.got + 1, b), call.field = "length"
  PROVE  AfterLength(call.got + 1, b)
<1> DEFINE m == call.got + 1
           a == SubSeq(b, 1, m)
           r == ReadVarnum(a, 2)
           d == DetectRemainingLength(a, 2)
<1>1. /\ Field(call) /\ m \in Nat /\ m <= ReadSize
  BY SizeAssumption DEF Field
<1>2. a \in Seq(Nat) /\ 2 \in Nat \ {0}
  <2> HIDE DEF m
  <2>1. a \in Seq(Byte)
    BY <1>1
  <2> HIDE DEF a
  <2>2. Byte \subseteq Nat /\ 2 \in Nat \ {0}
    BY DEF Byte
  <2> QED BY <2>1, <2>2, WiderSeq
<1>3. r.err = "SUCCESS" => r.num \in Nat
  <2> HIDE DEF a
  <2> QED BY <1>2, VarnumRead, Zenon
<1>4. /\ d.err = "BUFFER_TOO_SHORT" => r.err = "BUFFER_TOO_SHORT"
      /\ d.err = "SUCCESS" => r.err = "SUCCESS" /\ d.num = r.num
  <2> HIDE DEF a
  <2> QED BY DEF DetectRemainingLength, Error
<1>5. Malformed => Breaks
  BY Zenon DEF Malformed, Breaks, FailsWithin
<1>6. ASSUME NEW field, NEW l, NEW missing, Ask(field, call.packet, l, missing)
      PROVE  Breaks \/ (~(l + missing > ReadSize) /\ Asks(field, call.packet, l, missing))
  BY <1>5, <1>6, Zenon DEF Ask, Asks, Asked, Keeps, Unmoved, loop
<1>7. ASSUME NEW missing, Drain(missing)
      PROVE  Asks("drain", call.packet, call.got, missing)
  <2>1. [call EXCEPT !.field = "drain", !.missing = missing] =
          [call EXCEPT !.field = "drain", !.packet = call.packet, !.got = call.got, !.missing = missing]
    BY <1>1 DEF Field, IsCall
  <2> QED BY <1>7, <2>1, Zenon DEF Drain, Asks, Asked, Keeps, Unmoved, loop
<1> HIDE DEF d, r
<1>8. \/ d.err = "BUFFER_TOO_SHORT" /\ Ask("length", call.packet, m, 1)
      \/ Malformed
      \/ /\ d.err = "SUCCESS"
         /\ \/ m + d.num > ReadSize /\ Drain(d.num)
            \/ d.num > 0 /\ Ask("rest", call.packet, m, d.num)
            \/ ~(d.num > 0) /\ Complete(call.packet, m, b)
  <2> HIDE DEF m
  <2> QED BY Zenon DEF LengthRead, d, a, m
<1>9. AfterLength(m, b)
  <2>1. CASE d.err = "BUFFER_TOO_SHORT" /\ Ask("length", call.packet, m, 1)
    <3>1. Breaks \/ (m + 1 <= ReadSize /\ Asks("length", call.packet, m, 1))
      BY <1>1, <1>6, <2>1
    <3> QED BY <1>4, <2>1, <3>1, Zenon DEF AfterLength, r, a
  <2>2. CASE Malformed
    BY <1>5, <2>2, Zenon DEF AfterLength
  <2>3. CASE d.err = "SUCCESS" /\ m + d.num > ReadSize /\ Drain(d.num)
    BY <1>3, <1>4, <1>7, <2>3, Zenon DEF AfterLength, r, a
  <2>4. CASE d.err = "SUCCESS" /\ d.num > 0 /\ Ask("rest", call.packet, m, d.num)
    <3>1. r.num \in Nat /\ r.num = d.num /\ r.err = "SUCCESS"
      BY <1>3, <1>4, <2>4, Zenon
    <3>2. Breaks \/ (~(m + r.num > ReadSize) /\ Asks("rest", call.packet, m, r.num))
      BY <1>6, <2>4, <3>1, Zenon
    <3>3. m + r.num > ReadSize \/ m + r.num <= ReadSize
      BY <1>1, <3>1
    <3> QED BY <2>4, <3>1, <3>2, <3>3, Zenon DEF AfterLength, r, a
  <2>5. CASE d.err = "SUCCESS" /\ ~(d.num > 0) /\ Complete(call.packet, m, b)
    <3>1. r.num \in Nat /\ r.num = d.num /\ r.err = "SUCCESS"
      BY <1>3, <1>4, <2>5, Zenon
    <3>2. r.num = 0
      BY <2>5, <3>1
    <3>3. HandledAs(Entry(call.packet, b)) /\ UNCHANGED overflow_counter
      BY <2>5, CompleteIs, Zenon
    <3> QED BY <3>1, <3>2, <3>3, Zenon DEF AfterLength, r, a
  <2> QED BY <1>8, <2>1, <2>2, <2>3, <2>4, <2>5, Zenon
<1> QED BY <1>9

LEMMA ReadIs ==
  ASSUME Streaming, Positions, Storing, Calling, Read
  PROVE  call.type # "none" /\ \E n, b : Fills(n, b) /\ GoesOn(n, b)
<1> DEFINE drain == call.field = "drain"
           wanted == IF drain THEN Min({call.missing, ReadSize}) ELSE call.missing
           R == Readable
           n == Min({wanted, R - taken})
           at == IF drain THEN 0 ELSE call.got
           b == SubSeq(read_buf, 1, at) \o SubSeq(wire, taken + 1, taken + n)
                  \o SubSeq(read_buf, at + n + 1, ReadSize)
<1>1. /\ call.type # "none" /\ n > 0 /\ read_buf' = b /\ taken' = taken + n
      /\ opened' = IF setting.tls THEN R ELSE taken'
      /\ UNCHANGED <<setting, sent, wire, pieces, arrived, ended, request>>
  BY Zenon DEF Read, stream
<1>2. IF n < call.missing
      THEN /\ call' = [call EXCEPT !.got = IF drain THEN @ ELSE @ + n, !.missing = @ - n]
           /\ UNCHANGED loop /\ Keeps
      ELSE CASE call.field = "header" -> HeaderRead(b)
             [] call.field = "length" -> LengthRead(call.got + 1, b)
             [] call.field = "rest"   -> Complete(call.packet, call.got + n, b)
             [] call.field = "drain"  -> Dropped
  BY Zenon DEF Read
<1>3. Field(call)
  BY <1>1, Zenon DEF Calling
<1>4. /\ call.field \in {"header", "length", "rest", "drain"} /\ call.missing \in Nat \ {0}
      /\ call.got \in 0 .. ReadSize /\ ReadSize \in Nat /\ ReadSize > 1
      /\ ~drain => call.got + call.missing <= ReadSize
  BY <1>3, SizeAssumption DEF Field
<1>5. /\ R \in Nat /\ taken \in Nat /\ taken <= R /\ R <= arrived /\ arrived \in Nat
      /\ arrived <= Len(wire) /\ Len(wire) \in Nat
  BY ReadableIs, ArrivedIs DEF Positions
<1>6. wanted \in Nat /\ wanted <= call.missing /\ at + wanted <= ReadSize /\ at \in Nat
  <2>1. CASE drain
    <3>1. Min({call.missing, ReadSize}) \in Nat /\ Min({call.missing, ReadSize}) <= call.missing
          /\ Min({call.missing, ReadSize}) <= ReadSize
      BY <1>4, MinOfTwo
    <3> QED BY <2>1, <3>1
  <2>2. CASE ~drain
    BY <1>4, <2>2
  <2> QED BY <2>1, <2>2
<1>7. n \in Nat /\ n <= wanted /\ n <= R - taken
  <2> HIDE DEF wanted, R
  <2>1. R - taken \in Nat
    BY <1>5
  <2> QED BY <1>6, <2>1, MinOfTwo
<1> HIDE DEF n, wanted, R
<1>8. n \in Nat \ {0} /\ n <= call.missing /\ at + n <= ReadSize /\ taken + n <= R /\ taken + n <= Len(wire)
  BY <1>1, <1>4, <1>5, <1>6, <1>7
<1>9. read_buf \in [1 .. ReadSize -> Byte] /\ wire \in Seq(Byte)
  BY DEF Storing, Streaming
<1>10. /\ b \in [1 .. ReadSize -> Byte] /\ b \in Seq(Byte) /\ Len(b) = ReadSize
       /\ \A i \in 1 .. at : b[i] = read_buf[i]
       /\ \A i \in 1 .. n : b[at + i] = wire[taken + i]
  <2>0. Splice(b, read_buf, wire, taken, n, at, ReadSize)
    BY Zenon DEF Splice
  <2> HIDE DEF at, b
  <2>1. ReadSize \in Nat /\ taken \in Nat /\ n \in Nat /\ at \in Nat
    BY <1>4, <1>5, <1>6, <1>8
  <2>2. SplicedIn(b, Byte, read_buf, wire, taken, n, at, ReadSize)
    BY <1>8, <1>9, <2>0, <2>1, Spliced, Zenon
  <2> QED BY <2>2, Zenon DEF SplicedIn
<1> HIDE DEF b
<1>11. opened' \in Nat /\ taken' <= opened' /\ opened' <= arrived
  <2>1. taken' \in Nat /\ taken' <= R
    BY <1>1, <1>5, <1>8
  <2> QED BY <1>1, <1>5, <2>1
<1>12. Fills(n, b)
  BY <1>1, <1>8, <1>10, <1>11, Zenon DEF Fills
<1>13. GoesOn(n, b)
  <2>1. CASE n < call.missing
    <3> DEFINE got == IF drain THEN call.got ELSE call.got + n
               missing == call.missing - n
    <3>1. call' = [call EXCEPT !.got = got, !.missing = missing]
      BY <1>2, <2>1, Zenon
    <3> HIDE DEF got, missing
    <3>2. call' = [call EXCEPT !.field = call.field, !.packet = call.packet,
                               !.got = got, !.missing = missing]
      BY <1>3, <3>1 DEF Field, IsCall
    <3>3. Unmoved /\ UNCHANGED <<torn, handled, pong_pending, overflow_counter>>
      BY <1>2, <2>1, Zenon DEF Keeps, Unmoved, loop
    <3>4. Asks(call.field, call.packet, got, missing)
      BY <3>2, <3>3, Zenon DEF Asks, Asked
    <3> QED BY <2>1, <3>4, Zenon DEF GoesOn, got, missing
  <2>2. CASE ~(n < call.missing)
    <3>1. n = call.missing
      BY <1>4, <1>8, <2>2
    <3>2. CASE call.field = "header"
      <4>1. HeaderRead(b) /\ call.got = 0 /\ call.missing = 1
        BY <1>2, <1>3, <2>2, <3>2, Zenon DEF Field
      <4> DEFINE d == DetectType(b[1])
      <4>2. CASE d.err = "SUCCESS"
        <5>1. Ask("length", d.type, 1, 1)
          BY <4>1, <4>2, Zenon DEF HeaderRead
        <5>2. ~(1 + 1 > ReadSize)
          BY <1>4
        <5> HIDE DEF d
        <5>3. Asks("length", d.type, 1, 1)
          BY <5>1, <5>2, Zenon DEF Ask, Asks, Asked, Keeps, Unmoved, loop
        <5> QED BY <3>1, <3>2, <4>2, <5>3, Zenon DEF GoesOn, AfterHeader, d
      <4>3. CASE d.err # "SUCCESS"
        <5>1. Breaks
          BY <4>1, <4>3, Zenon DEF HeaderRead, Malformed, Breaks, FailsWithin
        <5> QED BY <3>1, <3>2, <5>1, Zenon DEF GoesOn, AfterHeader
      <4> QED BY <4>2, <4>3
    <3>3. CASE call.field = "length"
      <4>1. LengthRead(call.got + 1, b)
        BY <1>2, <2>2, <3>3
      <4>2. AfterLength(call.got + 1, b)
        BY <1>1, <1>3, <1>10, <3>3, <4>1, LengthReadIs, Zenon
      <4> QED BY <3>1, <3>3, <4>2, Zenon DEF GoesOn
    <3>4. CASE call.field = "rest"
      <4>1. Complete(call.packet, call.got + n, b)
        BY <1>2, <2>2, <3>4
      <4>2. HandledAs(Entry(call.packet, b)) /\ UNCHANGED overflow_counter
        BY <1>1, <4>1, CompleteIs, Zenon
      <4> QED BY <3>1, <3>4, <4>2, Zenon DEF GoesOn
    <3>5. CASE call.field = "drain"
      <4>1. Dropped
        BY <1>2, <2>2, <3>5
      <4>2. AfterDrop
        BY <1>1, <4>1, DroppedIs, Zenon DEF AfterDrop
      <4> QED BY <3>1, <3>5, <4>2, Zenon DEF GoesOn
    <3> QED BY <1>4, <3>2, <3>3, <3>4, <3>5
  <2> QED BY <2>1, <2>2
<1> QED BY <1>1, <1>12, <1>13, Zenon

-----------------------------------------------------------------------------
(***************************************************************************)
(* What each outcome keeps, in step or not.                                *)
(***************************************************************************)
Waits ==
  /\ Field(call') /\ call'.type = call.type /\ call'.of = call.of /\ Unmoved
  /\ UNCHANGED <<torn, handled, pong_pending, overflow_counter>>

Handles ==
  /\ \E h : HandledAs(h)
  /\ \/ overflow_counter' = overflow_counter
     \/ overflow_counter' = overflow_counter + 1 /\ (call.type = "yield" => Over)

\* What a read may come to.
Outcome == Waits \/ Breaks \/ Handles

LEMMA AskWaits ==
  ASSUME Field(call), NEW field \in {"length", "rest", "drain"}, NEW packet,
         NEW got \in 0 .. ReadSize, NEW missing \in Nat \ {0},
         field # "drain" => got + missing <= ReadSize, Asks(field, packet, got, missing)
  PROVE  /\ Waits /\ call'.field = field /\ call'.packet = packet /\ call'.got = got
         /\ call'.missing = missing
<1>1. Asked(call', call, field, packet, got, missing)
  BY Zenon DEF Asks
<1>2. /\ Field(call') /\ call'.type = call.type /\ call'.of = call.of
      /\ call'.field = field /\ call'.packet = packet /\ call'.got = got /\ call'.missing = missing
  BY <1>1, AskIs
<1> QED BY <1>2, Zenon DEF Waits, Asks

\* Part of a field: the rest is waited for.
LEMMA PartWaits ==
  ASSUME Field(call), NEW n \in Nat \ {0}, n < call.missing,
         Asks(call.field, call.packet,
              IF call.field = "drain" THEN call.got ELSE call.got + n, call.missing - n)
  PROVE  /\ Waits /\ call.field \in {"length", "rest", "drain"} /\ call'.field = call.field
         /\ call'.packet = call.packet
         /\ call'.got = (IF call.field = "drain" THEN call.got ELSE call.got + n)
         /\ call'.missing = call.missing - n
<1> DEFINE got == IF call.field = "drain" THEN call.got ELSE call.got + n
           missing == call.missing - n
<1>1. /\ call.field \in {"header", "length", "rest", "drain"}
      /\ call.got \in 0 .. ReadSize /\ call.missing \in Nat \ {0} /\ ReadSize \in Nat
      /\ call.field # "drain" => call.got + call.missing <= ReadSize
      /\ call.field = "header" => call.got = 0 /\ call.missing = 1
  BY SizeAssumption DEF Field
<1>2. call.field \in {"length", "rest", "drain"}
  BY <1>1
<1>3. missing \in Nat \ {0}
  BY <1>1
<1>4. got \in 0 .. ReadSize /\ (call.field # "drain" => got + missing <= ReadSize)
  <2>1. CASE call.field = "drain"
    BY <1>1, <2>1
  <2>2. CASE call.field # "drain"
    BY <1>1, <2>2
  <2> QED BY <2>1, <2>2
<1> HIDE DEF got, missing
<1>5. Asks(call.field, call.packet, got, missing)
  BY Zenon DEF got, missing
<1>6. /\ Waits /\ call'.field = call.field /\ call'.packet = call.packet /\ call'.got = got
      /\ call'.missing = missing
  BY <1>2, <1>3, <1>4, <1>5, AskWaits
<1> QED BY <1>2, <1>6, Zenon DEF got, missing

LEMMA OutcomeIs ==
  ASSUME Field(call), NEW n, NEW b, Fills(n, b), GoesOn(n, b)
  PROVE  Outcome
<1>1. /\ call.field \in {"header", "length", "rest", "drain"}
      /\ call.got \in 0 .. ReadSize /\ call.missing \in Nat \ {0} /\ ReadSize \in Nat /\ ReadSize > 1
      /\ call.field # "drain" => call.got + call.missing <= ReadSize
  BY SizeAssumption DEF Field
<1>2. n \in Nat \ {0} /\ n <= call.missing
  BY Zenon DEF Fills
<1>3. ASSUME NEW h, HandledAs(h), UNCHANGED overflow_counter
      PROVE  Handles
  BY <1>3, Zenon DEF Handles
<1>4. CASE n < call.missing
  <2>1. Asks(call.field, call.packet,
             IF call.field = "drain" THEN call.got ELSE call.got + n, call.missing - n)
    BY <1>2, <1>4 DEF GoesOn
  <2> QED BY <1>2, <1>4, <2>1, PartWaits DEF Outcome
<1>5. CASE call.field = "header" /\ AfterHeader(b)
  <2>1. CASE Breaks
    BY <2>1 DEF Outcome
  <2>2. CASE ~Breaks
    <3> DEFINE type == DetectType(b[1]).type
    <3>1. Asks("length", type, 1, 1)
      BY <1>5, <2>2, Zenon DEF AfterHeader
    <3>2. 1 \in 0 .. ReadSize /\ 1 \in Nat \ {0} /\ 1 + 1 <= ReadSize
      BY <1>1
    <3> HIDE DEF type
    <3>3. Waits
      BY <3>1, <3>2, AskWaits
    <3> QED BY <3>3 DEF Outcome
  <2> QED BY <2>1, <2>2
<1>6. CASE call.field = "length" /\ n = call.missing /\ AfterLength(call.got + 1, b)
  <2> DEFINE m == call.got + 1
             r == ReadVarnum(SubSeq(b, 1, m), 2)
  <2>1. m \in 0 .. ReadSize
    BY <1>1, <1>6
  <2> HIDE DEF m, r
  <2>2. \/ Breaks
        \/ m + 1 <= ReadSize /\ Asks("length", call.packet, m, 1)
        \/ r.num \in Nat /\ m + r.num > ReadSize /\ Asks("drain", call.packet, call.got, r.num)
        \/ r.num \in Nat /\ r.num > 0 /\ m + r.num <= ReadSize /\ Asks("rest", call.packet, m, r.num)
        \/ HandledAs(Entry(call.packet, b)) /\ UNCHANGED overflow_counter
    BY <1>6, Zenon DEF AfterLength, m, r
  <2>3. CASE Breaks
    BY <2>3 DEF Outcome
  <2>4. CASE m + 1 <= ReadSize /\ Asks("length", call.packet, m, 1)
    <3>1. 1 \in Nat \ {0}
      OBVIOUS
    <3>2. Waits
      BY <2>1, <2>4, <3>1, AskWaits
    <3> QED BY <3>2 DEF Outcome
  <2>5. CASE r.num \in Nat /\ m + r.num > ReadSize /\ Asks("drain", call.packet, call.got, r.num)
    <3>1. r.num \in Nat \ {0}
      BY <1>1, <2>1, <2>5
    <3>2. Waits
      BY <1>1, <2>5, <3>1, AskWaits
    <3> QED BY <3>2 DEF Outcome
  <2>6. CASE r.num \in Nat /\ r.num > 0 /\ m + r.num <= ReadSize /\ Asks("rest", call.packet, m, r.num)
    <3>1. r.num \in Nat \ {0}
      BY <2>6
    <3>2. Waits
      BY <2>1, <2>6, <3>1, AskWaits
    <3> QED BY <3>2 DEF Outcome
  <2>7. CASE HandledAs(Entry(call.packet, b)) /\ UNCHANGED overflow_counter
    BY <1>3, <2>7, Zenon DEF Outcome
  <2> QED BY <2>2, <2>3, <2>4, <2>5, <2>6, <2>7, Zenon
<1>7. CASE call.field = "rest" /\ HandledAs(Entry(call.packet, b)) /\ UNCHANGED overflow_counter
  BY <1>3, <1>7, Zenon DEF Outcome
<1>8. CASE call.field = "drain" /\ AfterDrop
  BY <1>8, Zenon DEF Outcome, Handles, AfterDrop
<1> QED BY <1>4, <1>5, <1>6, <1>7, <1>8, Zenon DEF GoesOn

LEMMA ReadKeeps ==
  ASSUME Streaming, Positions, Looping, Storing, Calling, call.type # "none",
         NEW n, NEW b, Fills(n, b), Outcome
  PROVE  /\ Streaming' /\ Positions' /\ Looping' /\ Storing' /\ Calling'
         /\ Handles => call'.type = "none" \/ call'.field = "header"
<1>1. /\ n \in Nat \ {0} /\ taken' = taken + n /\ read_buf' = b /\ b \in [1 .. ReadSize -> Byte]
      /\ opened' \in Nat /\ taken' <= opened' /\ opened' <= arrived
      /\ UNCHANGED <<setting, sent, wire, pieces, arrived, ended, request>>
  BY Zenon DEF Fills
<1>2. Streaming'
  BY <1>1, StreamingKept, Zenon
<1>3. Positions'
  <2>1. taken' \in Nat
    BY <1>1 DEF Positions
  <2> QED BY <1>1, <2>1, Zenon DEF Positions
<1>4. CASE Waits
  <2>1. Looping'
    BY <1>4, LoopingKept, Zenon DEF Waits, Unmoved
  <2>2. Storing'
    BY <1>1, <1>4, Zenon DEF Storing, Waits
  <2>3. Calling'
    <3>1. /\ Field(call') /\ call'.type = call.type /\ call'.of = call.of /\ pc' = pc
          /\ setting' = setting /\ request' = request
      BY <1>1, <1>4, Zenon DEF Waits, Unmoved
    <3> QED BY <3>1, Zenon DEF Calling
  <2>4. Handles => call'.type = "none" \/ call'.field = "header"
    <3> SUFFICES ASSUME Handles PROVE call'.type = "none" \/ call'.field = "header"
      OBVIOUS
    <3> QED BY <1>1, MovedOn, Zenon DEF Handles, HandledAs
  <2> QED BY <1>2, <1>3, <2>1, <2>2, <2>3, <2>4, Zenon
<1>5. CASE Breaks
  <2>1. Looping' /\ Calling' /\ (call'.type = "none" \/ call'.field = "header")
    BY <1>1, <1>5, MovedOn, Zenon DEF Breaks, Over
  <2>2. Storing'
    BY <1>1, <1>5 DEF Storing, Breaks
  <2> QED BY <1>2, <1>3, <2>1, <2>2, Zenon
<1>6. CASE Handles
  <2>1. PICK h : HandledAs(h)
    BY <1>6, Zenon DEF Handles
  <2>2. Looping' /\ Calling' /\ (call'.type = "none" \/ call'.field = "header")
    BY <1>1, <2>1, MovedOn, Zenon DEF HandledAs
  <2>3. Storing'
    <3>1. handled \in Seq(ToSet(handled))
      BY Zenon DEF Storing
    <3>2. Append(handled, h) \in Seq(ToSet(Append(handled, h)))
      BY <3>1, OwnAppend
    <3>3. handled' = Append(handled, h) /\ torn' = torn /\ pong_pending' \in {pong_pending, FALSE}
      BY <2>1, Zenon DEF HandledAs
    <3>4. handled' \in Seq(ToSet(handled'))
      BY <3>2, <3>3, Zenon
    <3>5. overflow_counter' \in Nat
      BY <1>6 DEF Handles, Storing
    <3>6. ended' \in BOOLEAN /\ pong_pending' \in BOOLEAN /\ torn' \in BOOLEAN
      BY <1>1, <3>3 DEF Storing
    <3>7. read_buf' \in [1 .. ReadSize -> Byte]
      BY <1>1, Zenon
    <3> QED BY <3>4, <3>5, <3>6, <3>7, Zenon DEF Storing
  <2> QED BY <1>2, <1>3, <2>2, <2>3, Zenon
<1> QED BY <1>4, <1>5, <1>6, Zenon DEF Outcome

LEMMA TornReads ==
  ASSUME Streaming, Looping, Storing, Calling, Torn, call.type # "none", torn,
         UNCHANGED <<setting, sent, request>>, Outcome
  PROVE  Torn'
<1>1. call.type = "yield"
  <2>1. pc \in {"connect", "select", "lock"}
    BY Zenon DEF Calling
  <2>2. call.type \in {"none", "yield"}
    BY <2>1 DEF Torn
  <2> QED BY <2>2
<1>2. CASE Waits
  <2>1. call'.type = call.type /\ Unmoved /\ overflow_counter' = overflow_counter
    BY <1>2, Zenon DEF Waits
  <2> QED BY <2>1, StillTorn, Zenon
<1>3. CASE Breaks
  <2>1. Over /\ overflow_counter' \in {overflow_counter, overflow_counter + 1}
    BY <1>3, Zenon DEF Breaks, Over
  <2> QED BY <2>1, StillTorn, Zenon
<1>4. CASE Handles
  <2>1. /\ Over \/ Anew
        /\ overflow_counter' = overflow_counter \/ (overflow_counter' = overflow_counter + 1 /\ Over)
    BY <1>1, <1>4, Zenon DEF Handles, HandledAs
  <2>2. CASE Over
    BY <2>1, <2>2, StillTorn
  <2>3. CASE ~Over
    <3>1. Anew /\ overflow_counter' = overflow_counter
      BY <2>1, <2>3
    <3>2. call'.type = call.type /\ Unmoved
      BY <3>1, CallAnew, Zenon DEF Anew
    <3> QED BY <3>1, <3>2, StillTorn, Zenon
  <2> QED BY <2>2, <2>3
<1> QED BY <1>2, <1>3, <1>4 DEF Outcome

-----------------------------------------------------------------------------
(***************************************************************************)
(* In step, the packet that is being read is the one behind those handled. *)
(***************************************************************************)
\* The packet that is being read is one the broker has sent, and lies in the stream.
Ahead(k, p) ==
  /\ k = Len(handled) /\ k \in Nat /\ k < Len(sent) /\ p = sent[k + 1]
  /\ WellFormed(p, setting.request) /\ p.bytes \in Seq(Byte) /\ Len(p.bytes) \in Nat
  /\ Off(sent, k) \in Nat /\ Off(sent, k + 1) = Off(sent, k) + Len(p.bytes)
  /\ \A j \in 1 .. Len(p.bytes) : wire[Off(sent, k) + j] = p.bytes[j]

LEMMA IsAhead ==
  ASSUME InStep, Streaming, Positions, Storing, call.type # "none", NEW n, NEW b, Fills(n, b)
  PROVE  Ahead(Len(handled), sent[Len(handled) + 1])
<1> DEFINE k == Len(handled)
           p == sent[k + 1]
<1>1. /\ k \in Nat /\ Len(sent) \in Nat /\ k <= Len(sent)
      /\ sent \in Seq(Packets) /\ Sized(sent) /\ Laid(sent, wire)
  BY DEF Storing, Streaming, InStep
<1>2. AtField(k, p)
  BY Zenon DEF InStep
<1>3. k < Len(sent)
  <2>1. CASE call.field = "header"
    <3>1. taken = Off(sent, k)
      BY <1>2, <2>1, Zenon DEF AtField
    <3>2. n \in Nat \ {0} /\ taken + n <= Len(wire) /\ taken \in Nat /\ Len(wire) \in Nat
      BY DEF Fills, Positions, Streaming
    <3>3. Off(sent, Len(sent)) = Len(wire)
      BY <1>1, Zenon DEF Laid
    <3>4. k # Len(sent)
      <4> SUFFICES ASSUME k = Len(sent) PROVE FALSE
        OBVIOUS
      <4>1. taken = Len(wire)
        BY <3>1, <3>3, Zenon
      <4> QED BY <3>2, <4>1
    <3> QED BY <1>1, <3>4
  <2>2. CASE call.field # "header"
    BY <1>2, <2>2, Zenon DEF AtField
  <2> QED BY <2>1, <2>2
<1>4. k + 1 \in 1 .. Len(sent) /\ (k + 1) - 1 = k
  BY <1>1, <1>3
<1>5. /\ Off(sent, k) \in Nat /\ Off(sent, k + 1) = Off(sent, k) + Len(p.bytes)
      /\ Len(p.bytes) \in Nat
  BY <1>1, <1>4, OffStep
<1>6. p.bytes \in Seq(Byte) /\ WellFormed(p, setting.request)
  BY <1>4, Zenon DEF Streaming, Sized
<1>7. \A j \in 1 .. Len(p.bytes) : wire[Off(sent, k) + j] = p.bytes[j]
  <2> TAKE j \in 1 .. Len(p.bytes)
  <2>1. wire[Off(sent, (k + 1) - 1) + j] = p.bytes[j]
    BY <1>1, <1>4, Zenon DEF Laid
  <2> QED BY <1>4, <2>1, Zenon
<1> QED BY <1>1, <1>3, <1>5, <1>6, <1>7, Zenon DEF Ahead

LEMMA WaitsInStep ==
  ASSUME InStep, Waits, UNCHANGED <<sent, setting>>, call.type # "none",
         AtField(Len(handled), sent[Len(handled) + 1])'
  PROVE  InStep'
BY Zenon DEF InStep, Waits, Drops

\* A packet of the type p has in its header.
LEMMA TypeIs ==
  ASSUME NEW p, NEW c, WellFormed(p, c), DetectType(p.bytes[1]).err = "SUCCESS"
  PROVE  /\ p.type = DetectType(p.bytes[1]).type /\ p.type \in Received
         /\ ReadVarnum(p.bytes, 2).err # "BUFFER_TOO_SHORT"
         /\ ReadVarnum(p.bytes, 2).err = "SUCCESS" =>
              Len(p.bytes) = ReadVarnum(p.bytes, 2).next + ReadVarnum(p.bytes, 2).num - 1
<1> DEFINE d == DetectType(p.bytes[1])
           r == ReadVarnum(p.bytes, 2)
           e == DetectRemainingLength(p.bytes, 2)
           types == {t \in Received : Code[t] = ReadBits(p.bytes[1], 16, 256)}
<1>1. /\ d.type = p.type /\ e.err # "BUFFER_TOO_SHORT"
      /\ e.err = "SUCCESS" => Len(p.bytes) = e.next + e.num - 1
  BY Zenon DEF WellFormed
<1>2. d.type \in Received
  <2>1. types # {}
    BY DEF DetectType, Error
  <2>2. d = [err |-> "SUCCESS", type |-> CHOOSE t \in types : TRUE]
    BY <2>1 DEF DetectType
  <2>3. (CHOOSE t \in types : TRUE) \in types
    BY <2>1, Zenon
  <2> HIDE DEF types
  <2>4. d.type \in types
    BY <2>2, <2>3
  <2> QED BY <2>4 DEF types
<1>3. e = IF r.err = "VARNUM_OVERFLOW" THEN Error("REMAINING_LENGTH_OVERFLOW") ELSE r
  BY Zenon DEF DetectRemainingLength
<1>4. r.err # "BUFFER_TOO_SHORT" /\ (r.err = "SUCCESS" => e = r)
  <2> HIDE DEF e, r
  <2> QED BY <1>1, <1>3
<1> QED BY <1>1, <1>2, <1>4, Zenon

LEMMA WholeIs ==
  ASSUME NEW p, NEW c, WellFormed(p, c), DetectType(p.bytes[1]).err = "SUCCESS",
         ReadVarnum(p.bytes, 2).err = "SUCCESS", p.bytes \in Seq(Byte),
         NEW b \in Seq(Byte), Len(p.bytes) <= Len(b),
         \A i \in 1 .. Len(p.bytes) : b[i] = p.bytes[i]
  PROVE  Whole(p.bytes, b)
<1>1. Byte \subseteq Nat
  BY DEF Byte
<1>2. p.bytes \in Seq(Nat) /\ b \in Seq(Nat)
  BY <1>1, WiderSeq, Zenon
<1>3. Len(p.bytes) \in Nat
  BY <1>2
<1>4. SameFront(p.bytes, b, Len(p.bytes))
  <2>1. Len(p.bytes) <= Len(p.bytes)
    BY <1>3
  <2> QED BY <1>2, <1>3, <2>1, Zenon DEF SameFront
<1>5. Len(p.bytes) = ReadVarnum(p.bytes, 2).next + ReadVarnum(p.bytes, 2).num - 1
  BY TypeIs, Zenon
<1> QED BY <1>4, <1>5, Zenon DEF Whole

\* The whole packet is in the buffer and is handled.
LEMMA CompleteInStep ==
  ASSUME InStep, Streaming, Storing, Looping, Calling, call.type # "none",
         NEW p, NEW b, Ahead(Len(handled), p),
         DetectType(p.bytes[1]).err = "SUCCESS", ReadVarnum(p.bytes, 2).err = "SUCCESS",
         b \in Seq(Byte), Len(p.bytes) <= Len(b), \A i \in 1 .. Len(p.bytes) : b[i] = p.bytes[i],
         call.packet = p.type, HandledAs(Entry(call.packet, b)), UNCHANGED overflow_counter,
         UNCHANGED <<setting, sent, request>>, taken' = Off(sent, Len(handled) + 1)
  PROVE  InStep'
<1> DEFINE h == Entry(call.packet, b)
<1>1. /\ WellFormed(p, setting.request) /\ p.bytes \in Seq(Byte) /\ p = sent[Len(handled) + 1]
      /\ Len(handled) < Len(sent)
  BY Zenon DEF Ahead
<1>2. Whole(p.bytes, b)
  BY <1>1, WholeIs, Zenon
<1>3. p.type \in Received
  BY <1>1, TypeIs, Zenon
<1>4. Agrees(h, p, setting.request) /\ h.type # "dropped"
  BY <1>1, <1>2, <1>3, EntryAgrees
<1>5. handled' = Append(handled, h) /\ (Over \/ Anew)
  BY Zenon DEF HandledAs
<1>6. call'.type = "none" \/ call'.field = "header"
  BY <1>5, MovedOn, Zenon
<1> HIDE DEF h
<1> QED BY <1>1, <1>4, <1>5, <1>6, StaysInStep, Zenon

-----------------------------------------------------------------------------
LEMMA FieldIs ==
  ASSUME Calling, call.type # "none"
  PROVE  /\ Field(call) /\ call.field \in {"header", "length", "rest", "drain"}
         /\ call.got \in 0 .. ReadSize /\ call.missing \in Nat \ {0}
         /\ ReadSize \in Nat /\ ReadSize > 1
         /\ call.field # "drain" => call.got + call.missing <= ReadSize
         /\ call.field = "header" => call.got = 0 /\ call.missing = 1
<1>1. Field(call)
  BY Zenon DEF Calling
<1> QED BY <1>1, SizeAssumption DEF Field

LEMMA FillsFront ==
  ASSUME NEW n, NEW b, Fills(n, b), call.field # "drain"
  PROVE  /\ n \in Nat \ {0} /\ \A i \in 1 .. call.got : b[i] = read_buf[i]
         /\ \A i \in 1 .. n : b[call.got + i] = wire[taken + i]
         /\ b[call.got + 1] = wire[taken + 1]
<1>1. /\ n \in Nat \ {0} /\ \A i \in 1 .. call.got : b[i] = read_buf[i]
      /\ \A i \in 1 .. n : b[call.got + i] = wire[taken + i]
  BY Zenon DEF Fills
<1>2. 1 \in 1 .. n
  BY <1>1
<1> QED BY <1>1, <1>2, Zenon

LEMMA HeaderInStep ==
  ASSUME InStep, Streaming, Positions, Storing, Looping, Calling, call.type # "none", ~torn,
         call.field = "header", NEW n, NEW b, Fills(n, b), GoesOn(n, b)
  PROVE  Framing'
<1> DEFINE k == Len(handled)
           p == sent[k + 1]
           d == DetectType(b[1])
<1> SUFFICES ASSUME ~torn' PROVE InStep'
  BY Zenon DEF Framing
<1>1. Field(call) /\ call.got = 0 /\ call.missing = 1 /\ ReadSize \in Nat /\ ReadSize > 1
  BY FieldIs, Zenon
<1>2. Ahead(k, p) /\ AtField(k, p)
  BY IsAhead, Zenon DEF InStep
<1>3. n = 1 /\ taken' = taken + 1 /\ read_buf' = b /\ UNCHANGED <<setting, sent, wire>>
  BY <1>1 DEF Fills
<1>4. taken = Off(sent, k)
  BY <1>2, Zenon DEF AtField
<1> HIDE DEF p
<1>5. /\ p.bytes \in Seq(Byte) /\ Len(p.bytes) \in Nat /\ WellFormed(p, setting.request)
      /\ k < Len(sent) /\ \A j \in 1 .. Len(p.bytes) : wire[Off(sent, k) + j] = p.bytes[j]
      /\ Off(sent, k) \in Nat
  BY <1>2, Zenon DEF Ahead
<1>6. 1 \in 1 .. Len(p.bytes)
  <2>1. p.bytes # <<>>
    BY <1>5, Zenon DEF WellFormed
  <2> QED BY <1>5, <2>1
<1>7. b[1] = p.bytes[1]
  <2>1. b[call.got + 1] = wire[taken + 1]
    BY FillsFront
  <2>2. wire[Off(sent, k) + 1] = p.bytes[1]
    BY <1>5, <1>6, Zenon
  <2> QED BY <1>1, <1>4, <2>1, <2>2
<1>8. d.err = "SUCCESS" /\ Asks("length", d.type, 1, 1)
  <2>1. AfterHeader(b)
    BY <1>1, <1>3 DEF GoesOn
  <2>2. ~Breaks
    BY Zenon DEF Breaks
  <2> QED BY <2>1, <2>2, Zenon DEF AfterHeader
<1>9. p.type = d.type /\ ReadVarnum(p.bytes, 2).err # "BUFFER_TOO_SHORT"
  BY <1>5, <1>7, <1>8, TypeIs, Zenon
<1>10. Len(p.bytes) # 1
  <2> SUFFICES ASSUME Len(p.bytes) = 1 PROVE FALSE
    OBVIOUS
  <2>1. Ends(p.bytes) = {}
    BY DEF Ends
  <2>2. ReadVarnum(p.bytes, 2).err = IF Len(p.bytes) < 2 + 4 THEN "BUFFER_TOO_SHORT" ELSE "VARNUM_OVERFLOW"
    BY <2>1, VarnumEnds, Zenon
  <2> QED BY <1>9, <2>2
<1> HIDE DEF d
<1>11. /\ Waits /\ call'.field = "length" /\ call'.packet = d.type /\ call'.got = 1 /\ call'.missing = 1
  <2>1. 1 \in 0 .. ReadSize /\ 1 \in Nat \ {0} /\ 1 + 1 <= ReadSize
    BY <1>1
  <2> QED BY <1>1, <1>8, <2>1, AskWaits
<1>12. AtField(k, p)'
  <2>1. sent'[k + 1] = p /\ handled' = handled /\ k' = k /\ p' = p
    BY <1>3, <1>11, Zenon DEF p, Waits
  <2>2. taken' = Off(sent', k) + call'.got
    BY <1>3, <1>4, <1>11
  <2>3. \A i \in 1 .. call'.got : read_buf'[i] = p.bytes[i]
    <3>1. \A i \in 1 .. 1 : i = 1
      OBVIOUS
    <3> QED BY <1>3, <1>7, <1>11, <3>1, Zenon
  <2>4. call'.got >= 1 /\ call'.got < Len(p.bytes) /\ call'.missing = 1
    <3>1. 1 >= 1 /\ 1 < Len(p.bytes)
      <4> DEFINE m == Len(p.bytes)
      <4>1. m \in Nat /\ 1 \in 1 .. m /\ m # 1
        BY <1>5, <1>6, <1>10, Zenon
      <4> HIDE DEF m
      <4>2. 1 >= 1
        OBVIOUS
      <4>3. 1 < m
        BY <4>1
      <4> QED BY <4>2, <4>3, Zenon DEF m
    <3> QED BY <1>11, <3>1, Zenon
  <2>5. \A i \in 2 .. call'.got : p.bytes[i] >= 128
    BY <1>11
  <2>6. DetectType(p.bytes[1]).err = "SUCCESS" /\ call'.packet = p.type
    BY <1>7, <1>8, <1>9, <1>11, Zenon DEF d
  <2>7. Within(k, p)'
    BY <2>1, <2>2, <2>3, <2>6, Zenon DEF Within
  <2>8. k < Len(sent')
    BY <1>3, <1>5
  <2> QED BY <1>11, <2>1, <2>4, <2>5, <2>7, <2>8 DEF AtField
<1> QED BY <1>3, <1>11, <1>12, WaitsInStep, Zenon DEF p

LEMMA LengthInStep ==
  ASSUME InStep, Streaming, Positions, Storing, Looping, Calling, call.type # "none", ~torn,
         call.field = "length", NEW n, NEW b, Fills(n, b), GoesOn(n, b)
  PROVE  Framing'
<1> DEFINE k == Len(handled)
           p == sent[k + 1]
           m == call.got + 1
           a == SubSeq(b, 1, m)
           r == ReadVarnum(a, 2)
           last == Len(p.bytes)
           start == Off(sent, k)
<1> SUFFICES ASSUME ~torn' PROVE InStep'
  BY Zenon DEF Framing
<1>1. Ahead(k, p) /\ AtField(k, p)
  BY IsAhead, Zenon DEF InStep
<1> HIDE DEF p
<1>2. /\ p.bytes \in Seq(Byte) /\ last \in Nat /\ WellFormed(p, setting.request)
      /\ k < Len(sent) /\ \A j \in 1 .. last : wire[start + j] = p.bytes[j]
      /\ start \in Nat /\ p = sent[k + 1] /\ Off(sent, k + 1) = start + last /\ k \in Nat
  BY <1>1, Zenon DEF Ahead
<1>3. /\ DetectType(p.bytes[1]).err = "SUCCESS" /\ call.packet = p.type
      /\ taken = start + call.got
      /\ \A i \in 1 .. call.got : read_buf[i] = p.bytes[i]
      /\ call.got >= 1 /\ call.got < last /\ call.missing = 1
      /\ \A i \in 2 .. call.got : p.bytes[i] >= 128
  BY <1>1, Zenon DEF AtField, Within
<1>4. Field(call) /\ call.got \in Nat /\ ReadSize \in Nat /\ m <= ReadSize
  BY <1>3, FieldIs
<1>5. n = 1 /\ taken' = taken + 1 /\ read_buf' = b /\ UNCHANGED <<setting, sent, wire, request>>
      /\ b \in Seq(Byte) /\ Len(b) = ReadSize
  BY <1>3 DEF Fills
<1> HIDE DEF start, last
<1>6. m \in Nat /\ m >= 2 /\ m <= last /\ m \in 1 .. last /\ taken' = start + m /\ m - 1 = call.got
  <2> DEFINE got == call.got
  <2>1. /\ got \in Nat /\ start \in Nat /\ last \in Nat /\ got >= 1 /\ got < last
        /\ taken' = taken + 1 /\ taken = start + got
    BY <1>2, <1>3, <1>4, <1>5, Zenon
  <2> HIDE DEF got
  <2>2. /\ got + 1 \in Nat /\ got + 1 >= 2 /\ got + 1 <= last /\ got + 1 \in 1 .. last
        /\ taken' = start + (got + 1) /\ (got + 1) - 1 = got
    BY <2>1
  <2> QED BY <2>2, Zenon DEF got
<1>7. \A i \in 1 .. m : b[i] = p.bytes[i]
  <2> TAKE i \in 1 .. m
  <2>1. CASE i \in 1 .. call.got
    <3>1. b[i] = read_buf[i]
      BY <2>1, FillsFront
    <3> QED BY <1>3, <2>1, <3>1, Zenon
  <2>2. CASE i = m
    <3>1. b[call.got + 1] = wire[taken + 1]
      BY FillsFront
    <3>2. taken + 1 = start + m
      BY <1>5, <1>6, Zenon
    <3>3. wire[start + m] = p.bytes[m]
      BY <1>2, <1>6, Zenon
    <3> QED BY <2>2, <3>1, <3>2, <3>3, Zenon
  <2>3. i \in 1 .. call.got \/ i = m
    BY <1>4
  <2> QED BY <2>1, <2>2, <2>3
<1>8. AfterLength(m, b)
  BY <1>3, <1>5 DEF GoesOn
<1> HIDE DEF m
<1>9. a \in Seq(Byte) /\ Len(a) = m /\ \A i \in 1 .. m : a[i] = b[i]
  BY <1>4, <1>5, <1>6
<1> HIDE DEF a
<1>10. SameFront(a, p.bytes, m)
  <2>1. Byte \subseteq Nat
    BY DEF Byte
  <2>2. a \in Seq(Nat) /\ p.bytes \in Seq(Nat)
    BY <1>2, <1>9, <2>1, WiderSeq, Zenon
  <2>3. m <= Len(a) /\ m <= Len(p.bytes)
    BY <1>6, <1>9 DEF last
  <2> QED BY <1>6, <1>7, <1>9, <2>2, <2>3, Zenon DEF SameFront
<1>11. /\ r.err = "SUCCESS" => ReadVarnum(p.bytes, 2) = r /\ r.next = m + 1 /\ r.num \in Nat
       /\ r.err = "BUFFER_TOO_SHORT" =>
            /\ \A i \in 2 .. m : p.bytes[i] >= 128
            /\ ReadVarnum(p.bytes, 2).err # "BUFFER_TOO_SHORT" => m < Len(p.bytes)
  <2>1. \A i \in 2 .. m - 1 : p.bytes[i] >= 128
    BY <1>3, <1>6, Zenon
  <2> QED BY <1>6, <1>9, <1>10, <2>1, LengthSoFar
<1> HIDE DEF r
<1>12. /\ ReadVarnum(p.bytes, 2).err # "BUFFER_TOO_SHORT"
       /\ ReadVarnum(p.bytes, 2).err = "SUCCESS" =>
            last = ReadVarnum(p.bytes, 2).next + ReadVarnum(p.bytes, 2).num - 1
  BY <1>2, <1>3, TypeIs, Zenon DEF last
<1>13. r.err = "SUCCESS" => last = m + r.num /\ r.num \in Nat
  <2> SUFFICES ASSUME r.err = "SUCCESS" PROVE last = m + r.num /\ r.num \in Nat
    OBVIOUS
  <2>1. r.num \in Nat /\ r.next = m + 1 /\ last = r.next + r.num - 1
    BY <1>11, <1>12, Zenon
  <2> QED BY <1>6, <2>1
<1>14. \/ r.err = "BUFFER_TOO_SHORT" /\ m + 1 <= ReadSize /\ Asks("length", call.packet, m, 1)
       \/ r.err = "SUCCESS" /\ m + r.num > ReadSize /\ Asks("drain", call.packet, call.got, r.num)
       \/ /\ r.err = "SUCCESS" /\ r.num > 0 /\ m + r.num <= ReadSize
          /\ Asks("rest", call.packet, m, r.num)
       \/ /\ r.err = "SUCCESS" /\ r.num = 0
          /\ HandledAs(Entry(call.packet, b)) /\ UNCHANGED overflow_counter
  BY <1>8, Zenon DEF AfterLength, Breaks, r, a
<1>15. m \in 0 .. ReadSize
  BY <1>4, <1>6
<1>16. ASSUME Waits
       PROVE  sent'[k + 1] = p /\ k' = k /\ p' = p /\ k < Len(sent')
  BY <1>2, <1>5, <1>16, Zenon DEF Waits, p
<1>17. ASSUME Waits, call'.got = m, call'.packet = call.packet
       PROVE  Within(k, p)'
  <2>1. taken' = Off(sent', k) + call'.got
    BY <1>5, <1>6, <1>17, Zenon DEF start
  <2>2. \A i \in 1 .. call'.got : read_buf'[i] = p.bytes[i]
    BY <1>5, <1>7, <1>17, Zenon
  <2>3. p' = p /\ k' = k
    BY <1>16, <1>17
  <2> QED BY <1>3, <1>17, <2>1, <2>2, <2>3, Zenon DEF Within
<1>18. ASSUME Waits, AtField(k, p)'
       PROVE  InStep'
  BY <1>5, <1>18, WaitsInStep, Zenon DEF p
<1>19. CASE r.err = "BUFFER_TOO_SHORT" /\ m + 1 <= ReadSize /\ Asks("length", call.packet, m, 1)
  <2>1. /\ Waits /\ call'.field = "length" /\ call'.packet = call.packet /\ call'.got = m
        /\ call'.missing = 1
    <3>1. 1 \in Nat \ {0} /\ "length" \in {"length", "rest", "drain"}
      OBVIOUS
    <3> QED BY <1>4, <1>15, <1>19, <3>1, AskWaits
  <2>2. \A i \in 2 .. m : p.bytes[i] >= 128
    BY <1>11, <1>19, Zenon
  <2>3. m >= 1 /\ m < last
    <3>1. m < last
      BY <1>11, <1>12, <1>19, Zenon DEF last
    <3> QED BY <1>6, <3>1
  <2>4. AtField(k, p)'
    <3>1. "length" # "header" /\ "length" # "rest" /\ "length" # "drain"
      OBVIOUS
    <3>2. p' = p /\ k < Len(sent') /\ k' = k
      BY <1>16, <2>1
    <3>3. Within(k, p)'
      BY <1>17, <2>1
    <3> QED BY <2>1, <2>2, <2>3, <3>1, <3>2, <3>3, Zenon DEF AtField, last
  <2> QED BY <1>18, <2>1, <2>4
<1>20. CASE r.err = "SUCCESS" /\ m + r.num > ReadSize /\ Asks("drain", call.packet, call.got, r.num)
  <2>1. r.num \in Nat \ {0} /\ last = m + r.num /\ call.got \in 0 .. ReadSize
    BY <1>4, <1>6, <1>13, <1>15, <1>20
  <2>2. Waits /\ call'.field = "drain" /\ call'.missing = r.num
    BY <1>4, <1>20, <2>1, AskWaits
  <2>3. taken' + call'.missing = Off(sent', k + 1)
    <3>1. Off(sent', k + 1) = start + last
      BY <1>2, <1>5, Zenon
    <3>2. start + m + r.num = start + last
      BY <1>2, <1>6, <2>1
    <3> QED BY <1>6, <2>2, <3>1, <3>2, Zenon
  <2>4. last > ReadSize
    BY <1>20, <2>1, Zenon
  <2>5. AtField(k, p)'
    <3>1. "drain" # "header" /\ "drain" # "rest" /\ "drain" # "length"
      OBVIOUS
    <3>2. p' = p /\ k < Len(sent') /\ k' = k
      BY <1>16, <2>2
    <3> QED BY <2>2, <2>3, <2>4, <3>1, <3>2, Zenon DEF AtField, last
  <2> QED BY <1>18, <2>2, <2>5
<1>21. CASE /\ r.err = "SUCCESS" /\ r.num > 0 /\ m + r.num <= ReadSize
            /\ Asks("rest", call.packet, m, r.num)
  <2>1. r.num \in Nat \ {0} /\ last = m + r.num
    BY <1>13, <1>21
  <2>2. /\ Waits /\ call'.field = "rest" /\ call'.packet = call.packet /\ call'.got = m
        /\ call'.missing = r.num
    BY <1>4, <1>15, <1>21, <2>1, AskWaits
  <2>3. call'.got + call'.missing = last /\ DetectRemainingLength(p.bytes, 2).err = "SUCCESS"
    <3>1. ReadVarnum(p.bytes, 2).err = "SUCCESS"
      BY <1>11, <1>21, Zenon
    <3>2. DetectRemainingLength(p.bytes, 2).err = "SUCCESS"
      BY <3>1 DEF DetectRemainingLength
    <3> QED BY <2>1, <2>2, <3>2, Zenon
  <2>4. AtField(k, p)'
    <3>1. "rest" # "header" /\ "rest" # "length" /\ "rest" # "drain"
      OBVIOUS
    <3>2. p' = p /\ k < Len(sent') /\ k' = k
      BY <1>16, <2>2
    <3>3. Within(k, p)'
      BY <1>17, <2>2
    <3> QED BY <2>2, <2>3, <3>1, <3>2, <3>3, Zenon DEF AtField, last
  <2> QED BY <1>18, <2>2, <2>4
<1>22. CASE /\ r.err = "SUCCESS" /\ r.num = 0
            /\ HandledAs(Entry(call.packet, b)) /\ UNCHANGED overflow_counter
  <2>1. last = m
    BY <1>6, <1>13, <1>22
  <2>2. ReadVarnum(p.bytes, 2).err = "SUCCESS"
    BY <1>11, <1>22, Zenon
  <2>3. Len(p.bytes) <= Len(b) /\ \A i \in 1 .. Len(p.bytes) : b[i] = p.bytes[i]
    BY <1>4, <1>5, <1>6, <1>7, <2>1 DEF last
  <2>4. taken' = Off(sent, k + 1)
    BY <1>2, <1>6, <2>1, Zenon
  <2> QED BY <1>1, <1>3, <1>5, <1>22, <2>2, <2>3, <2>4, CompleteInStep, Zenon
<1> QED BY <1>14, <1>19, <1>20, <1>21, <1>22, Zenon

LEMMA RestInStep ==
  ASSUME InStep, Streaming, Positions, Storing, Looping, Calling, call.type # "none", ~torn,
         call.field = "rest", NEW n, NEW b, Fills(n, b), GoesOn(n, b)
  PROVE  Framing'
<1> DEFINE k == Len(handled)
           p == sent[k + 1]
           got == call.got + n
           last == Len(p.bytes)
           start == Off(sent, k)
<1> SUFFICES InStep'
  BY Zenon DEF Framing
<1>1. Ahead(k, p) /\ AtField(k, p)
  BY IsAhead, Zenon DEF InStep
<1> HIDE DEF p
<1>2. /\ p.bytes \in Seq(Byte) /\ last \in Nat /\ WellFormed(p, setting.request)
      /\ k < Len(sent) /\ \A j \in 1 .. last : wire[start + j] = p.bytes[j]
      /\ start \in Nat /\ p = sent[k + 1] /\ Off(sent, k + 1) = start + last /\ k \in Nat
  BY <1>1, Zenon DEF Ahead
<1>3. /\ DetectType(p.bytes[1]).err = "SUCCESS" /\ call.packet = p.type
      /\ taken = start + call.got
      /\ \A i \in 1 .. call.got : read_buf[i] = p.bytes[i]
      /\ call.got + call.missing = last
      /\ DetectRemainingLength(p.bytes, 2).err = "SUCCESS"
  BY <1>1, Zenon DEF AtField, Within
<1>4. /\ Field(call) /\ call.got \in Nat /\ call.missing \in Nat /\ ReadSize \in Nat
      /\ call.got + call.missing <= ReadSize
  BY FieldIs
<1>5. /\ n \in Nat \ {0} /\ n <= call.missing /\ taken' = taken + n /\ read_buf' = b
      /\ UNCHANGED <<setting, sent, wire, request>> /\ b \in Seq(Byte) /\ Len(b) = ReadSize
  BY Zenon DEF Fills
<1> HIDE DEF start, last
<1>6. got \in Nat /\ got <= last /\ taken' = start + got
  <2> DEFINE old == call.got
             missing == call.missing
  <2>1. /\ old \in Nat /\ start \in Nat /\ last \in Nat /\ missing \in Nat /\ n \in Nat \ {0}
        /\ n <= missing /\ old + missing = last /\ taken' = taken + n /\ taken = start + old
    BY <1>2, <1>3, <1>4, <1>5, Zenon
  <2> HIDE DEF old, missing
  <2>2. old + n \in Nat /\ old + n <= last /\ taken' = start + (old + n)
    BY <2>1
  <2> QED BY <2>2, Zenon DEF old
<1>7. \A i \in 1 .. got : b[i] = p.bytes[i]
  <2> TAKE i \in 1 .. got
  <2>0. i \in 1 .. last
    <3>1. got \in Nat /\ last \in Nat /\ got <= last
      BY <1>2, <1>6, Zenon
    <3> HIDE DEF got
    <3> QED BY <3>1
  <2>1. CASE i \in 1 .. call.got
    <3>1. b[i] = read_buf[i]
      BY <2>1, FillsFront
    <3> QED BY <1>3, <2>1, <3>1, Zenon
  <2>2. CASE i \notin 1 .. call.got
    <3> DEFINE j == i - call.got
    <3>1. j \in 1 .. n /\ call.got + j = i /\ taken + j = start + i
      <4> DEFINE old == call.got
      <4>1. /\ old \in Nat /\ n \in Nat /\ start \in Nat /\ taken = start + old
            /\ i \in 1 .. old + n /\ i \notin 1 .. old
        BY <1>2, <1>3, <1>4, <1>5, <2>2, Zenon
      <4> HIDE DEF old
      <4>2. i - old \in 1 .. n /\ old + (i - old) = i /\ taken + (i - old) = start + i
        BY <4>1
      <4> QED BY <4>2, Zenon DEF old
    <3> HIDE DEF j
    <3>2. b[call.got + j] = wire[taken + j]
      BY <3>1, FillsFront
    <3>3. wire[start + i] = p.bytes[i]
      BY <1>2, <2>0, Zenon
    <3> QED BY <3>1, <3>2, <3>3, Zenon
  <2> QED BY <2>1, <2>2
<1>8. CASE n < call.missing
  <2>1. Asks(call.field, call.packet,
             IF call.field = "drain" THEN call.got ELSE call.got + n, call.missing - n)
    BY <1>5, <1>8 DEF GoesOn
  <2>2. /\ Waits /\ call'.field = "rest" /\ call'.packet = call.packet
        /\ call'.got = got /\ call'.missing = call.missing - n
    BY <1>4, <1>5, <1>8, <2>1, PartWaits
  <2>3. call'.got + call'.missing = last
    <3>1. got + (call.missing - n) = last
      BY <1>3, <1>4, <1>5
    <3> QED BY <2>2, <3>1, Zenon
  <2>4. sent'[k + 1] = p /\ k' = k /\ p' = p /\ k < Len(sent')
    BY <1>2, <1>5, <2>2, Zenon DEF Waits, p
  <2>5. Within(k, p)'
    <3>1. taken' = Off(sent', k) + call'.got
      BY <1>5, <1>6, <2>2, Zenon DEF start
    <3>2. \A i \in 1 .. call'.got : read_buf'[i] = p.bytes[i]
      BY <1>5, <1>7, <2>2, Zenon
    <3> QED BY <1>3, <2>2, <2>4, <3>1, <3>2, Zenon DEF Within
  <2>6. AtField(k, p)'
    <3>1. "rest" # "header" /\ "rest" # "length" /\ "rest" # "drain"
      OBVIOUS
    <3> QED BY <1>3, <2>2, <2>3, <2>4, <2>5, <3>1, Zenon DEF AtField, last
  <2> QED BY <1>5, <2>2, <2>6, WaitsInStep, Zenon DEF p
<1>9. CASE ~(n < call.missing)
  <2>1. n = call.missing /\ got = last
    BY <1>3, <1>4, <1>5, <1>9
  <2>2. HandledAs(Entry(call.packet, b)) /\ UNCHANGED overflow_counter
    BY <1>9, <2>1 DEF GoesOn
  <2>3. ReadVarnum(p.bytes, 2).err = "SUCCESS"
    BY <1>3 DEF DetectRemainingLength, Error
  <2>4. Len(p.bytes) <= Len(b) /\ \A i \in 1 .. Len(p.bytes) : b[i] = p.bytes[i]
    <3>1. last <= Len(b)
      BY <1>3, <1>4, <1>5
    <3> QED BY <1>7, <2>1, <3>1, Zenon DEF last
  <2>5. taken' = Off(sent, k + 1)
    BY <1>2, <1>6, <2>1, Zenon
  <2> QED BY <1>1, <1>3, <1>5, <2>2, <2>3, <2>4, <2>5, CompleteInStep, Zenon
<1> QED BY <1>8, <1>9

LEMMA DrainInStep ==
  ASSUME InStep, Streaming, Positions, Storing, Looping, Calling, call.type # "none", ~torn,
         call.field = "drain", NEW n, NEW b, Fills(n, b), GoesOn(n, b)
  PROVE  Framing'
<1> DEFINE k == Len(handled)
           p == sent[k + 1]
           next == Off(sent, k + 1)
<1> SUFFICES InStep'
  BY Zenon DEF Framing
<1>1. Ahead(k, p) /\ AtField(k, p)
  BY IsAhead, Zenon DEF InStep
<1> HIDE DEF p
<1>2. k < Len(sent) /\ p = sent[k + 1]
  BY <1>1, Zenon DEF Ahead
<1>3. taken + call.missing = next /\ Len(p.bytes) > ReadSize
  BY <1>1, Zenon DEF AtField
<1>4. Field(call) /\ call.missing \in Nat
  BY FieldIs
<1>5. /\ n \in Nat \ {0} /\ n <= call.missing /\ taken' = taken + n
      /\ UNCHANGED <<setting, sent, wire, request>>
  BY Zenon DEF Fills
<1>6. taken \in Nat
  BY DEF Positions
<1>7. CASE n < call.missing
  <2>1. Asks(call.field, call.packet,
             IF call.field = "drain" THEN call.got ELSE call.got + n, call.missing - n)
    BY <1>5, <1>7 DEF GoesOn
  <2>2. Waits /\ call'.field = "drain" /\ call'.missing = call.missing - n
    BY <1>4, <1>5, <1>7, <2>1, PartWaits
  <2>3. taken' + call'.missing = Off(sent', k + 1)
    <3> HIDE DEF next
    <3>1. (taken + n) + (call.missing - n) = next
      BY <1>3, <1>4, <1>5, <1>6
    <3> QED BY <1>5, <2>2, <3>1, Zenon DEF next
  <2>4. sent'[k + 1] = p /\ k' = k /\ p' = p /\ k < Len(sent')
    BY <1>2, <1>5, <2>2, Zenon DEF Waits, p
  <2>5. AtField(k, p)'
    <3>1. "drain" # "header" /\ "drain" # "rest" /\ "drain" # "length"
      OBVIOUS
    <3> QED BY <1>3, <2>2, <2>3, <2>4, <3>1, Zenon DEF AtField
  <2> QED BY <1>5, <2>2, <2>5, WaitsInStep, Zenon DEF p
<1>8. CASE ~(n < call.missing)
  <2> DEFINE h == [type |-> "dropped", data |-> [err |-> "SUCCESS"]]
  <2>1. n = call.missing
    BY <1>4, <1>5, <1>8
  <2>2. AfterDrop
    BY <1>8, <2>1 DEF GoesOn
  <2>3. handled' = Append(handled, h) /\ (Over \/ Anew) /\ overflow_counter' = overflow_counter + 1
    BY <2>2, Zenon DEF AfterDrop, HandledAs
  <2>4. h.type = "dropped"
    OBVIOUS
  <2> HIDE DEF h
  <2>5. Agrees(h, p, setting.request)
    BY <1>3, <2>4, Zenon DEF Agrees
  <2>6. overflow_counter' = (IF h.type = "dropped" THEN overflow_counter + 1 ELSE overflow_counter)
    BY <2>3, <2>4
  <2>7. taken' = Off(sent, Len(handled) + 1)
    BY <1>3, <1>5, <2>1, Zenon
  <2>8. call'.type = "none" \/ call'.field = "header"
    BY <1>5, <2>3, MovedOn, Zenon
  <2> QED BY <1>2, <1>5, <2>3, <2>5, <2>6, <2>7, <2>8, StaysInStep, Zenon
<1> QED BY <1>7, <1>8

-----------------------------------------------------------------------------
(***************************************************************************)
(* The theorems.                                                           *)
(***************************************************************************)
LEMMA ReadStep ==
  ASSUME IInv, Read
  PROVE  IInv'
<1>0. Streaming /\ Positions /\ Looping /\ Storing /\ Calling /\ Framing /\ Torn
  BY Zenon DEF IInv
<1>1. PICK n, b : call.type # "none" /\ Fills(n, b) /\ GoesOn(n, b)
  BY <1>0, ReadIs, Zenon
<1>2. Field(call)
  BY <1>0, <1>1, FieldIs, Zenon
<1>3. Outcome
  BY <1>1, <1>2, OutcomeIs, Zenon
<1>4. Streaming' /\ Positions' /\ Looping' /\ Storing' /\ Calling'
  BY <1>0, <1>1, <1>3, ReadKeeps, Zenon
<1>5. UNCHANGED <<setting, sent, request>>
  BY <1>1, Zenon DEF Fills
<1>6. CASE torn
  <2>1. torn'
    <3>1. torn' = torn \/ torn' = TRUE
      BY <1>3, Zenon DEF Outcome, Waits, Breaks, Handles, HandledAs
    <3> QED BY <1>6, <3>1, Zenon
  <2>2. Framing'
    BY <2>1, Zenon DEF Framing
  <2>3. Torn'
    BY <1>0, <1>1, <1>3, <1>5, <1>6, TornReads, Zenon
  <2> QED BY <1>4, <2>2, <2>3, Zenon DEF IInv
<1>7. CASE ~torn
  <2>1. InStep
    BY <1>0, <1>7, Zenon DEF Framing
  <2>2. Framing'
    <3>1. call.field \in {"header", "length", "rest", "drain"}
      BY <1>2, Zenon DEF Field
    <3>2. CASE call.field = "header"
      BY <1>0, <1>1, <1>7, <2>1, <3>2, HeaderInStep, Zenon
    <3>3. CASE call.field = "length"
      BY <1>0, <1>1, <1>7, <2>1, <3>3, LengthInStep, Zenon
    <3>4. CASE call.field = "rest"
      BY <1>0, <1>1, <1>7, <2>1, <3>4, RestInStep, Zenon
    <3>5. CASE call.field = "drain"
      BY <1>0, <1>1, <1>7, <2>1, <3>5, DrainInStep, Zenon
    <3> QED BY <3>1, <3>2, <3>3, <3>4, <3>5
  <2>3. Torn'
    <3>1. CASE ~torn'
      BY <3>1, Zenon DEF Torn
    <3>2. CASE torn'
      <4>1. Breaks
        BY <1>3, <1>7, <3>2, Zenon DEF Outcome, Waits, Handles, HandledAs
      <4>2. Len(handled) < Len(sent)
        BY <1>0, <1>1, <2>1, IsAhead, Zenon DEF Ahead
      <4> QED BY <1>0, <1>1, <1>5, <2>1, <4>1, <4>2, GoesTorn, Zenon DEF Breaks
    <3> QED BY <3>1, <3>2
  <2> QED BY <1>4, <2>2, <2>3, Zenon DEF IInv
<1> QED BY <1>6, <1>7

LEMMA StutterStep ==
  ASSUME IInv, UNCHANGED vars
  PROVE  IInv'
<1>1. Streaming /\ Positions /\ Looping /\ Storing /\ Calling /\ Framing /\ Torn
  BY Zenon DEF IInv
<1>2. /\ UNCHANGED <<setting, sent, wire, pieces, arrived, opened, taken, ended>>
      /\ UNCHANGED <<read_buf, pong_pending, overflow_counter, torn, handled, request, call>>
      /\ UNCHANGED <<pc, available, again, failed, pings>>
  BY Zenon DEF vars, network, reader, loop
<1> QED BY <1>1, <1>2, StreamingKept, PositionsKept, LoopingKept, StoringKept, CallingKept,
           FramingKept, TornKept, Zenon DEF IInv

LEMMA NextStep ==
  ASSUME IInv, [Next]_vars
  PROVE  IInv'
<1>1. CASE Next
  <2>1. ASSUME TimeOut \/ ReadEnd PROVE IInv'
    BY <2>1, NoMoreStep, Zenon DEF TimeOut, ReadEnd
  <2> QED BY <1>1, <2>1, ArriveStep, BrokerClosesStep, RequestStep, PublishFailsStep, ReadStep, LoopStep, Zenon
          DEF Next, Reading
<1>2. CASE UNCHANGED vars
  BY <1>2, StutterStep, Zenon
<1> QED BY <1>1, <1>2

LEMMA IInvHolds == Spec => []IInv
<1>1. Init => IInv
  BY InitIInv
<1>2. IInv /\ [Next]_vars => IInv'
  BY NextStep
<1> QED BY <1>1, <1>2, PTL DEF Spec

\* The client's variables keep their types and what is asked of the network never
\* goes beyond the read buffer.
THEOREM StreamTypeCorrect == Spec => []TypeOK
<1>1. IInv => TypeOK
  <2> SUFFICES ASSUME IInv PROVE TypeOK
    OBVIOUS
  <2>1. Streaming /\ Positions /\ Looping /\ Storing /\ Calling /\ Framing /\ Torn
    BY Zenon DEF IInv
  <2>2. pc \in {"connect", "select", "lock", "work", "closed"} /\ pings \in 0 .. MaxPings
    BY <2>1, Zenon DEF Looping
  <2>3. 0 <= taken /\ taken <= opened /\ opened <= arrived /\ arrived <= Len(wire)
    <3>1. arrived <= Len(wire)
      BY <2>1, ArrivedIs, Zenon
    <3>2. taken \in Nat /\ taken <= opened /\ opened <= arrived
      BY <2>1, Zenon DEF Positions
    <3>3. 0 <= taken
      BY <3>2
    <3> QED BY <3>1, <3>2, <3>3, Zenon
  <2>4. read_buf \in [1 .. ReadSize -> 0 .. 255]
    BY <2>1, Zenon DEF Storing, Byte
  <2>5. {ended, pong_pending, available, again, failed, torn} \subseteq BOOLEAN
    BY <2>1 DEF Storing, Looping
  <2>6. overflow_counter \in 0 .. Len(sent)
    <3>1. overflow_counter \in Nat /\ Len(sent) \in Nat /\ Len(handled) \in Nat
      BY <2>1 DEF Storing, Streaming
    <3>2. CASE torn
      BY <2>1, <3>1, <3>2 DEF Torn
    <3>3. CASE ~torn
      <4>1. overflow_counter <= Len(handled) /\ Len(handled) <= Len(sent)
        BY <2>1, <3>3, Zenon DEF Framing, InStep
      <4> QED BY <3>1, <4>1
    <3> QED BY <3>2, <3>3
  <2>7. call.type # "none" =>
          /\ call.got \in 0 .. ReadSize /\ call.missing > 0
          /\ call.field # "drain" => call.got + call.missing <= ReadSize
    <3> SUFFICES ASSUME call.type # "none"
                 PROVE  /\ call.got \in 0 .. ReadSize /\ call.missing > 0
                        /\ call.field # "drain" => call.got + call.missing <= ReadSize
      OBVIOUS
    <3>1. /\ call.got \in 0 .. ReadSize /\ call.missing \in Nat \ {0}
          /\ call.field # "drain" => call.got + call.missing <= ReadSize
      BY <2>1, FieldIs
    <3> QED BY <3>1
  <2> QED BY <2>2, <2>3, <2>4, <2>5, <2>6, <2>7, Zenon DEF TypeOK
<1> QED BY <1>1, IInvHolds, PTL

\* Packets are read as they were sent, however the network cuts the stream.
THEOREM PacketsFramed == Spec => []Framed
<1>1. IInv => Framed
  <2> SUFFICES ASSUME IInv PROVE Framed
    OBVIOUS
  <2>1. Storing /\ Framing /\ Torn
    BY Zenon DEF IInv
  <2>2. CASE torn
    BY <2>1, <2>2, Zenon DEF Framed, Torn
  <2>3. CASE ~torn
    <3>1. InStep
      BY <2>1, <2>3, Zenon DEF Framing
    <3>2. DOMAIN handled = 1 .. Len(handled)
      BY <2>1 DEF Storing
    <3>3. overflow_counter = Cardinality({i \in DOMAIN handled : handled[i].type = "dropped"})
      BY <3>1, <3>2, Zenon DEF InStep, Drops
    <3>4. Total([i \in DOMAIN handled |-> Len(sent[i].bytes)]) = Off(sent, Len(handled))
      BY <3>2, Zenon DEF Off
    <3> QED BY <2>3, <3>1, <3>2, <3>3, <3>4, Zenon DEF Framed, InStep
  <2> QED BY <2>2, <2>3
<1> QED BY <1>1, IInvHolds, PTL

=============================================================================
