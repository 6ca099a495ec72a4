--------------------------- MODULE KeepAliveProofs ---------------------------
(***************************************************************************)
(* Theorems about the keep-alive of a connection, for every interval,      *)
(* time-out, round trip and width of the clock that the assumptions of     *)
(* KeepAlive allow.                                                        *)
(***************************************************************************)
EXTENDS KeepAlive, TLAPS

-----------------------------------------------------------------------------
(***************************************************************************)
(* Counting modulo a width.                                                *)
(***************************************************************************)
LEMMA ModType ==
  ASSUME NEW a \in Int, NEW w \in Nat, w > 0
  PROVE  a % w \in 0 .. w - 1
OBVIOUS

LEMMA ModBelow ==
  ASSUME NEW a \in Int, NEW w \in Nat, 0 <= a, a < w
  PROVE  a % w = a
OBVIOUS

LEMMA ModAbove ==
  ASSUME NEW a \in Int, NEW w \in Nat, w <= a, a < 2 * w
  PROVE  a % w = a - w
OBVIOUS

LEMMA ModNegative ==
  ASSUME NEW a \in Int, NEW w \in Nat, -w <= a, a < 0
  PROVE  a % w = a + w
OBVIOUS

\* A counter that has moved on by one is one nearer to any place on its circle.
LEMMA OneNearer ==
  ASSUME NEW w \in Nat, NEW c \in 0 .. w - 1, NEW next \in 0 .. w - 1, NEW place \in 0 .. w - 1,
         NEW l \in Int, 2 * l < w, -w < 2 * (l - 1),
         next = c + 1 \/ next = c + 1 - w,
         \/ place - c = l
         \/ place - c = l + w
         \/ place - c = l - w
  PROVE  \/ place - next = l - 1
         \/ place - next = l - 1 + w
         \/ place - next = l - 1 - w
<1>1. CASE next = c + 1
  BY <1>1
<1>2. CASE next = c + 1 - w
  BY <1>2
<1> QED BY <1>1, <1>2

LEMMA Part ==
  ASSUME NEW a \in Nat, NEW b \in Nat, NEW c \in Nat, a + b < c
  PROVE  a < c
OBVIOUS

LEMMA Constants ==
  /\ Interval \in Nat /\ Timeout \in Nat /\ RoundTrip \in Nat /\ Wrap \in Nat
  /\ Interval > RoundTrip /\ Timeout > RoundTrip
  /\ Wrap > 2 * (2 * Interval + Timeout)
BY TimeAssumption, WrapAssumption

-----------------------------------------------------------------------------
(***************************************************************************)
(* The inductive invariant.                                                *)
(***************************************************************************)
\* TypeOK, variable by variable.
Typed ==
  /\ clock \in 0 .. Wrap - 1 /\ deadline \in 0 .. Wrap - 1
  /\ at \in {"select", "work", "closed"} /\ select_left \in 0 .. Timeout
  /\ available \in BOOLEAN /\ pong_pending \in BOOLEAN /\ error \in BOOLEAN /\ link \in BOOLEAN
  /\ busy \in None .. Timeout /\ pong \in None .. Timeout /\ data \subseteq {"pong", "message"}
  /\ silence \in Nat /\ unheard \in Nat

Open == at # "closed"

\* Ticks until a ping is due.
Left == Interval - silence

\* The deadline is that far from the clock, give or take a turn of the counter.
Aligned ==
  \/ deadline - clock = Left
  \/ deadline - clock = Left + Wrap
  \/ deadline - clock = Left - Wrap

\* What is left of a select() always ends before a ping is overdue.
Rounds ==
  /\ at = "select" => silence + select_left < Interval + Timeout
  /\ at = "work" => silence < Interval + Timeout

\* A request that waits was the last to send.
Requests == busy # None => silence = busy

\* A ping is unanswered, or its answer lies unread, only while one is awaited.
Pongs ==
  /\ pong # None => pong_pending /\ "pong" \notin data
  /\ "pong" \in data => pong_pending

\* While the link is alive answers are in time, and what is awaited is on its way.
Alive ==
  link => /\ unheard = 0
          /\ ~error /\ busy <= RoundTrip /\ pong <= RoundTrip
          /\ pong # None => silence <= pong
          /\ pong_pending => pong # None \/ "pong" \in data
          /\ at = "work" /\ ~available /\ "pong" \in data => silence <= RoundTrip

\* When it is dead one ping at most is sent: until then nothing was, after it
\* nothing is.  A message that had come before is acknowledged at once, or a
\* request is waiting, which must fail.
Dead ==
  ~link => /\ ~pong_pending \/ "pong" \in data => unheard <= silence
           /\ unheard < silence + Interval + Timeout
           /\ "message" \in data => unheard = 0 \/ busy # None \/ error

IInv ==
  /\ Typed
  /\ ~Open => busy = None
  /\ Open => Aligned /\ Rounds /\ Requests /\ Pongs /\ Alive /\ Dead

-----------------------------------------------------------------------------
(***************************************************************************)
(* The timer.                                                              *)
(***************************************************************************)
LEMMA Bounded ==
  ASSUME Typed, Open, Rounds
  PROVE  silence < Interval + Timeout
<1>1. silence \in Nat /\ select_left \in Nat /\ at \in {"select", "work", "closed"}
  BY Constants DEF Typed
<1> QED BY <1>1, Constants DEF Open, Rounds

LEMMA TimerIs ==
  ASSUME Typed, Aligned, silence < Interval + Timeout
  PROVE  TimerGet = Left
<1> DEFINE d == deadline - clock
<1>1. /\ silence \in Nat /\ clock \in 0 .. Wrap - 1 /\ deadline \in 0 .. Wrap - 1
  BY DEF Typed
<1>2. d \in Int /\ -Wrap < d /\ d < Wrap /\ Left \in Int /\ Left <= Interval /\ -Timeout < Left
  BY <1>1, Constants DEF Left
<1>3. d = Left \/ d = Left + Wrap \/ d = Left - Wrap
  BY DEF Aligned
<1> HIDE DEF d
<1>4. d % Wrap = IF Left >= 0 THEN Left ELSE Left + Wrap
  <2>1. CASE d >= 0
    <3>1. d % Wrap = d
      BY <1>2, <2>1, Constants, ModBelow
    <3> QED BY <1>2, <1>3, <2>1, <3>1, Constants
  <2>2. CASE d < 0
    <3>1. d % Wrap = d + Wrap
      BY <1>2, <2>2, Constants, ModNegative
    <3> QED BY <1>2, <1>3, <2>2, <3>1, Constants
  <2> QED BY <1>2, <2>1, <2>2
<1> DEFINE m == d % Wrap
<1>5. TimerGet = IF 2 * m >= Wrap THEN m - Wrap ELSE m
  BY DEF TimerGet, d
<1> HIDE DEF m
<1>6. m = IF Left >= 0 THEN Left ELSE Left + Wrap
  BY <1>4 DEF m
<1>7. CASE Left >= 0
  BY <1>2, <1>5, <1>6, <1>7, Constants
<1>8. CASE Left < 0
  BY <1>2, <1>5, <1>6, <1>8, Constants
<1> QED BY <1>2, <1>7, <1>8

\* Whoever sends sets the timer anew.
LEMMA SentAligns ==
  ASSUME Typed, Sent, clock' = clock
  PROVE  /\ deadline' \in 0 .. Wrap - 1 /\ silence' = 0
         /\ Aligned'
<1>1. clock \in 0 .. Wrap - 1
  BY DEF Typed
<1> DEFINE a == clock + Interval
<1>2. a \in Int /\ 0 <= a /\ a < 2 * Wrap /\ a - clock = Interval
  BY <1>1, Constants
<1>3. deadline' = a % Wrap /\ silence' = 0
  BY DEF Sent
<1> HIDE DEF a
<1>4. deadline' \in 0 .. Wrap - 1
  BY <1>2, <1>3, Constants, ModType
<1>5. deadline' = a \/ deadline' = a - Wrap
  <2>1. CASE a < Wrap
    BY <1>2, <1>3, <2>1, Constants, ModBelow
  <2>2. CASE a >= Wrap
    BY <1>2, <1>3, <2>2, Constants, ModAbove
  <2> QED BY <1>2, <2>1, <2>2, Constants
<1>6. deadline' - clock' = Interval \/ deadline' - clock' = Interval - Wrap
  BY <1>1, <1>2, <1>5, Constants
<1>7. Left' = Interval
  BY <1>3, Constants DEF Left
<1> QED BY <1>3, <1>4, <1>6, <1>7 DEF Aligned

-----------------------------------------------------------------------------
(***************************************************************************)
(* Every step keeps the invariant.                                         *)
(***************************************************************************)
LEMMA InitInv == Init => IInv
<1> SUFFICES ASSUME Init PROVE IInv
  OBVIOUS
<1>1. Typed
  <2>1. clock \in 0 .. Wrap - 1 /\ deadline \in 0 .. Wrap - 1 /\ select_left \in 0 .. Timeout
    BY Constants DEF Init
  <2>2. /\ busy \in None .. Timeout /\ pong \in None .. Timeout
        /\ silence \in Nat /\ unheard \in Nat
    BY Constants DEF Init, None
  <2> QED BY <2>1, <2>2 DEF Init, Typed
<1> QED BY <1>1 DEF Init, IInv, Open

LEMMA ConnectInv ==
  ASSUME IInv, Connect
  PROVE  IInv'
<1>1. Typed /\ busy = None
  BY DEF IInv, Connect, Open
<1>2. PICK d \in 0 .. RoundTrip : silence' = d /\ deadline' = (clock + Interval - d) % Wrap
  BY DEF Connect
<1> DEFINE a == clock + Interval - d
<1>3. clock \in 0 .. Wrap - 1
  BY <1>1 DEF Typed
<1>4. a \in Int /\ 0 <= a /\ a < 2 * Wrap /\ a - clock = Interval - d
  BY <1>2, <1>3, Constants
<1>5. deadline' = a % Wrap
  BY <1>2
<1> HIDE DEF a
<1>6. deadline' \in 0 .. Wrap - 1
  BY <1>4, <1>5, Constants, ModType
<1>7. deadline' = a \/ deadline' = a - Wrap
  <2>1. CASE a < Wrap
    BY <1>4, <1>5, <2>1, Constants, ModBelow
  <2>2. CASE a >= Wrap
    BY <1>4, <1>5, <2>2, Constants, ModAbove
  <2> QED BY <1>4, <2>1, <2>2, Constants
<1>8. Left' = Interval - d
  BY <1>2 DEF Left
<1>9. Aligned'
  <2>1. clock' = clock
    BY DEF Connect
  <2> QED BY <1>2, <1>3, <1>4, <1>7, <1>8, <2>1, Constants DEF Aligned
<1>10. Typed'
  <2>1. silence' \in Nat
    BY <1>2
  <2>2. clock' \in 0 .. Wrap - 1 /\ select_left' \in 0 .. Timeout /\ unheard' \in Nat
    BY <1>3, Constants DEF Connect
  <2>3. busy' \in None .. Timeout /\ pong' \in None .. Timeout
    BY <1>1, Constants DEF Connect, None
  <2> QED BY <1>6, <2>1, <2>2, <2>3 DEF Connect, Typed
<1>11. Rounds'
  BY <1>2, Constants DEF Connect, Rounds
<1>12. Requests' /\ Pongs' /\ Alive' /\ Dead'
  BY <1>1, Constants DEF Connect, Requests, Pongs, Alive, Dead, None
<1>13. Open'
  BY DEF Connect, Open
<1> QED BY <1>9, <1>10, <1>11, <1>12, <1>13 DEF IInv

LEMMA WakeInv ==
  ASSUME IInv, Wake
  PROVE  IInv'
<1>1. Typed /\ Open /\ Aligned /\ Rounds /\ Requests /\ Pongs /\ Alive /\ Dead
  BY DEF IInv, Wake, Open
<1>2. Typed'
  BY <1>1 DEF Wake, timer, past, Typed
<1>3. Aligned' /\ Requests' /\ Pongs' /\ Dead'
  BY <1>1 DEF Wake, timer, past, Aligned, Left, Requests, Pongs, Dead
<1>4. Rounds'
  BY <1>1, Constants DEF Wake, past, Rounds, Typed
<1>5. Alive'
  BY <1>1 DEF Wake, past, Alive, Typed
<1>6. Open'
  BY DEF Wake, Open
<1> QED BY <1>2, <1>3, <1>4, <1>5, <1>6 DEF IInv

LEMMA PublishInv ==
  ASSUME IInv, Publish
  PROVE  IInv'
<1>1. Typed /\ Open /\ Aligned /\ Rounds /\ Requests /\ Pongs /\ Alive /\ Dead /\ busy = None
  BY DEF IInv, Publish, Online, Open
<1>2. clock' = clock /\ Sent
  BY DEF Publish
<1>3. deadline' \in 0 .. Wrap - 1 /\ silence' = 0 /\ Aligned'
  BY <1>1, <1>2, SentAligns
<1>4. Typed'
  BY <1>1, <1>3 DEF Publish, loop, Typed
<1>5. Rounds'
  BY <1>1, <1>3, Constants DEF Publish, loop, Rounds, Typed
<1>6. Requests' /\ Pongs'
  BY <1>1 DEF Publish, loop, Requests, Pongs
<1>7. Alive'
  BY <1>1, <1>3, Constants DEF Publish, loop, Alive, Typed, None
<1>8. Dead'
  BY <1>1, <1>3, Constants DEF Publish, loop, Dead
<1>9. Open'
  BY <1>1 DEF Publish, loop, Open
<1> QED BY <1>3, <1>4, <1>5, <1>6, <1>7, <1>8, <1>9 DEF IInv

LEMMA RequestInv ==
  ASSUME IInv, Request
  PROVE  IInv'
<1>1. Typed /\ Open /\ Aligned /\ Rounds /\ Requests /\ Pongs /\ Alive /\ Dead /\ busy = None
  BY DEF IInv, Request, Online, Open
<1>2. clock' = clock /\ Sent
  BY DEF Request
<1>3. deadline' \in 0 .. Wrap - 1 /\ silence' = 0 /\ Aligned'
  BY <1>1, <1>2, SentAligns
<1>4. Typed'
  BY <1>1, <1>3, Constants DEF Request, loop, Typed, None
<1>5. Rounds'
  BY <1>1, <1>3, Constants DEF Request, loop, Rounds, Typed
<1>6. Requests' /\ Pongs'
  BY <1>1, <1>3 DEF Request, loop, Requests, Pongs
<1>7. Alive'
  BY <1>1, <1>3, Constants DEF Request, loop, Alive, Typed, None
<1>8. Dead'
  BY <1>1, <1>3, Constants DEF Request, loop, Dead
<1>9. Open'
  BY <1>1 DEF Request, loop, Open
<1> QED BY <1>3, <1>4, <1>5, <1>6, <1>7, <1>8, <1>9 DEF IInv

LEMMA AnsweredInv ==
  ASSUME IInv, Answered
  PROVE  IInv'
<1>1. /\ Typed /\ Open /\ Aligned /\ Rounds /\ Requests /\ Pongs /\ Alive /\ Dead
      /\ clock' = clock /\ busy' = None /\ link /\ link'
  BY DEF IInv, Answered, Open
<1>2. /\ deadline' \in 0 .. Wrap - 1 /\ silence' \in Nat /\ silence' <= silence
      /\ Aligned'
  <2>1. CASE Acknowledge
    <3>1. deadline' \in 0 .. Wrap - 1 /\ silence' = 0 /\ Aligned'
      BY <1>1, <2>1, SentAligns DEF Acknowledge
    <3> QED BY <1>1, <3>1 DEF Typed
  <2>2. CASE UNCHANGED <<deadline, silence>>
    BY <1>1, <2>2 DEF Typed, Aligned, Left
  <2> QED BY <2>1, <2>2 DEF Answered
<1>3. Typed'
  <2>1. busy' \in None .. Timeout
    BY <1>1, Constants DEF None
  <2> QED BY <1>1, <1>2, <2>1 DEF Answered, Typed
<1>4. Rounds'
  <2>1. silence \in Nat /\ select_left \in Nat /\ silence' \in Nat /\ Interval + Timeout \in Nat
    BY <1>1, <1>2, Constants DEF Typed
  <2>2. silence < Interval + Timeout
    BY <1>1, Bounded
  <2>3. select_left' = select_left /\ at' # "select"
    BY DEF Answered
  <2> QED BY <1>2, <2>1, <2>2, <2>3 DEF Rounds
<1>5. Requests' /\ Pongs' /\ Dead'
  BY <1>1 DEF Answered, Requests, Pongs, Dead
<1>6. Alive'
  <2>1. busy' <= RoundTrip
    BY <1>1, Constants DEF None
  <2>2. pong # None => silence' <= pong
    BY <1>1, <1>2 DEF Alive, Typed, None
  <2> QED BY <1>1, <2>1, <2>2 DEF Answered, Alive
<1>7. Open'
  BY <1>1 DEF Answered, Open
<1> QED BY <1>2, <1>3, <1>4, <1>5, <1>6, <1>7 DEF IInv

LEMMA ExpiredInv ==
  ASSUME IInv, Expired
  PROVE  IInv'
<1>1. /\ Typed /\ Open /\ Aligned /\ Rounds /\ Requests /\ Pongs /\ Alive /\ Dead
      /\ busy = Timeout
  BY Constants DEF IInv, Expired, None, Open
<1>2. Typed'
  <2>1. busy' \in None .. Timeout
    BY Constants DEF Expired, None
  <2> QED BY <1>1, <2>1 DEF Expired, timer, past, Typed
<1>3. Aligned' /\ Rounds' /\ Requests' /\ Pongs' /\ Dead'
  BY <1>1 DEF Expired, timer, past, Aligned, Left, Rounds, Requests, Pongs, Dead
<1>4. ~link'
  BY <1>1, Constants DEF Expired, Alive
<1>5. Alive' /\ Open'
  BY <1>1, <1>4 DEF Expired, Alive, Open
<1> QED BY <1>2, <1>3, <1>5 DEF IInv

LEMMA PongArrivesInv ==
  ASSUME IInv, PongArrives
  PROVE  IInv'
<1>1. Typed' /\ (~Open' => busy' = None) /\ (Open' = Open)
  <2>1. pong' \in None .. Timeout
    BY Constants DEF PongArrives, None
  <2> QED BY <2>1 DEF IInv, PongArrives, timer, loop, past, Typed, Open
<1> SUFFICES ASSUME Open PROVE Aligned' /\ Rounds' /\ Requests' /\ Pongs' /\ Alive' /\ Dead'
  BY <1>1, Zenon DEF IInv
<1>2. Typed /\ Aligned /\ Rounds /\ Requests /\ Pongs /\ Alive /\ Dead
  BY DEF IInv
<1>3. Aligned' /\ Rounds' /\ Requests' /\ Pongs' /\ Dead'
  BY <1>2 DEF PongArrives, timer, loop, past, Aligned, Left, Rounds, Requests, Pongs, Dead
<1>4. Alive'
  BY <1>2, Constants DEF PongArrives, timer, loop, past, Alive, Typed, None
<1> QED BY <1>3, <1>4

LEMMA MessageInv ==
  ASSUME IInv, Message
  PROVE  IInv'
<1>1. Typed /\ Open /\ Aligned /\ Rounds /\ Requests /\ Pongs /\ Alive /\ Dead
  BY DEF IInv, Message, Open
<1>2. Typed'
  BY <1>1 DEF Message, timer, loop, past, Typed
<1>3. Aligned' /\ Rounds' /\ Requests' /\ Pongs' /\ Dead' /\ Open'
  BY <1>1 DEF Message, timer, loop, past, Aligned, Left, Rounds, Requests, Pongs, Dead, Open
<1>4. Alive'
  BY <1>1 DEF Message, timer, loop, past, Alive
<1> QED BY <1>2, <1>3, <1>4 DEF IInv

LEMMA LinkDiesInv ==
  ASSUME IInv, LinkDies
  PROVE  IInv'
<1>1. Typed /\ Open /\ Aligned /\ Rounds /\ Requests /\ Pongs /\ Alive
  BY DEF IInv, LinkDies, Open
<1>2. Typed'
  BY <1>1 DEF LinkDies, timer, loop, Typed
<1>3. Aligned' /\ Rounds' /\ Requests' /\ Pongs' /\ Alive' /\ Open'
  BY <1>1 DEF LinkDies, timer, loop, Aligned, Left, Rounds, Requests, Pongs, Alive, Open
<1>4. Dead'
  BY <1>1, Constants DEF LinkDies, Dead, Typed
<1> QED BY <1>2, <1>3, <1>4 DEF IInv

\* Time passes for everybody alike.
LEMMA TickInv ==
  ASSUME IInv, Tick
  PROVE  IInv'
<1>1. /\ Typed /\ Open /\ Aligned /\ Rounds /\ Requests /\ Pongs /\ Alive /\ Dead
      /\ silence' = silence + 1 /\ at' = at
  BY DEF IInv, Tick, Open
<1>2. /\ busy # None => busy < Timeout
      /\ busy' = IF busy = None THEN None ELSE busy + 1
      /\ busy' \in None .. Timeout
  BY <1>1, Constants DEF Tick, Waiting, Later, Alive, Typed, None
<1>3. /\ pong' \in None .. Timeout
      /\ pong' # None <=> pong # None
      /\ link /\ pong # None => pong < RoundTrip /\ pong' = pong + 1
  BY <1>1, Constants DEF Tick, Waiting, Later, Typed, None
<1>4. /\ clock' \in 0 .. Wrap - 1
      /\ clock' = clock + 1 \/ clock' = clock + 1 - Wrap
  <2>1. clock \in 0 .. Wrap - 1
    BY <1>1 DEF Typed
  <2>2. clock' = (clock + 1) % Wrap
    BY DEF Tick
  <2>3. CASE clock + 1 < Wrap
    BY <2>1, <2>2, <2>3, Constants, ModBelow
  <2>4. CASE clock + 1 >= Wrap
    <3>1. clock + 1 = Wrap
      BY <2>1, <2>4, Constants
    <3>2. clock' = 0
      BY <2>2, <3>1, Constants
    <3> QED BY <2>1, <3>1, <3>2, Constants
  <2> QED BY <2>1, <2>3, <2>4, Constants
<1>5. Typed'
  <2>1. select_left' \in 0 .. Timeout /\ silence' \in Nat /\ unheard' \in Nat
    BY <1>1, Constants DEF Tick, Typed
  <2>2. busy' \in None .. Timeout /\ pong' \in None .. Timeout /\ clock' \in 0 .. Wrap - 1
    BY <1>2, <1>3, <1>4
  <2>3. /\ deadline' \in 0 .. Wrap - 1 /\ at' \in {"select", "work", "closed"}
        /\ available' \in BOOLEAN /\ pong_pending' \in BOOLEAN /\ error' \in BOOLEAN
        /\ link' \in BOOLEAN /\ data' \subseteq {"pong", "message"}
    BY <1>1 DEF Tick, Typed
  <2> QED BY <2>1, <2>2, <2>3 DEF Typed
<1>6. silence < Interval + Timeout
  BY <1>1, Bounded
<1>7. Rounds'
  <2>1. CASE at = "select"
    BY <1>1, <2>1, Constants DEF Tick, Waiting, Rounds, Typed
  <2>2. CASE at = "work"
    BY <1>1, <1>2, <2>2, Constants DEF Tick, Waiting, Rounds, Requests, Typed
  <2> QED BY <1>1, <2>1, <2>2 DEF Open, Typed, Rounds
<1>8. Requests'
  BY <1>1, <1>2 DEF Requests
<1>9. Aligned'
  <2>1. Left' = Left - 1
    BY <1>1, Constants DEF Left, Typed
  <2>2. silence' < Interval + Timeout
    <3>1. silence' \in Nat /\ select_left' \in Nat /\ at' \in {"select", "work"}
      BY <1>1, <1>5, Constants DEF Open, Typed
    <3>2. /\ at' = "select" => silence' + select_left' < Interval + Timeout
          /\ at' = "work" => silence' < Interval + Timeout
      BY <1>7 DEF Rounds
    <3>3. CASE at' = "select"
      <4>1. silence' + select_left' < Interval + Timeout /\ Interval + Timeout \in Nat
        BY <3>2, <3>3, Constants
      <4> QED BY <3>1, <4>1, Part
    <3>4. CASE at' = "work"
      BY <3>2, <3>4
    <3> QED BY <3>1, <3>3, <3>4
  <2>3. deadline' = deadline /\ deadline \in 0 .. Wrap - 1 /\ clock \in 0 .. Wrap - 1
    BY <1>1 DEF Tick, Typed
  <2>4. Left \in Int /\ Left <= Interval /\ -Timeout < Left'
    BY <1>1, <2>1, <2>2, Constants DEF Left, Typed
  <2>5. 2 * Left < Wrap /\ -Wrap < 2 * (Left - 1)
    BY <2>1, <2>4, Constants
  <2>6. \/ deadline - clock' = Left - 1
        \/ deadline - clock' = Left - 1 + Wrap
        \/ deadline - clock' = Left - 1 - Wrap
    <3> DEFINE l == Left
    <3>1. \/ deadline - clock = l
          \/ deadline - clock = l + Wrap
          \/ deadline - clock = l - Wrap
      BY <1>1 DEF Aligned
    <3>2. l \in Int /\ 2 * l < Wrap /\ -Wrap < 2 * (l - 1)
      BY <2>4, <2>5
    <3> HIDE DEF l
    <3>3. \/ deadline - clock' = l - 1
          \/ deadline - clock' = l - 1 + Wrap
          \/ deadline - clock' = l - 1 - Wrap
      BY <1>4, <2>3, <3>1, <3>2, Constants, OneNearer
    <3> QED BY <3>3 DEF l
  <2> QED BY <2>1, <2>3, <2>6 DEF Aligned
<1>10. Pongs'
  BY <1>1, <1>3 DEF Tick, Pongs
<1>11. Alive'
  <2> SUFFICES ASSUME link PROVE Alive'
    BY DEF Tick, Alive
  <2>1. ~error' /\ busy' <= RoundTrip /\ pong' <= RoundTrip
    BY <1>1, <1>2, <1>3, Constants DEF Tick, Waiting, Alive, Typed, None
  <2>2. pong' # None => silence' <= pong'
    BY <1>1, <1>3 DEF Alive, Typed
  <2>3. pong_pending' => pong' # None \/ "pong" \in data'
    BY <1>1, <1>3 DEF Tick, Alive
  <2>4. at' = "work" => silence' <= RoundTrip
    BY <1>1, <1>2, <2>1 DEF Tick, Waiting, Requests, Typed
  <2>5. unheard' = 0
    BY <1>1 DEF Tick, Alive
  <2> QED BY <2>1, <2>2, <2>3, <2>4, <2>5 DEF Alive
<1>12. Dead'
  <2> SUFFICES ASSUME ~link PROVE Dead'
    BY DEF Tick, Dead
  <2>1. /\ ~pong_pending' \/ "pong" \in data' => unheard' <= silence'
        /\ unheard' < silence' + Interval + Timeout
    BY <1>1, Constants DEF Tick, Dead, Typed
  \* A message lies unread only while another task waits for its answer.
  <2>2. "message" \in data => busy' # None
    <3>1. "message" \in data => at = "work"
      BY <1>1 DEF Tick, Waiting, Open, Typed
    <3>2. at = "work" => busy # None
      BY DEF Tick, Waiting
    <3>3. busy # None => busy' # None
      BY <1>1, <1>2 DEF Typed, None
    <3> QED BY <3>1, <3>2, <3>3
  <2>3. data' = data
    BY DEF Tick
  <2> QED BY <2>1, <2>2, <2>3 DEF Dead
<1>13. Open'
  BY <1>1 DEF Open
<1> QED BY <1>5, <1>7, <1>8, <1>9, <1>10, <1>11, <1>12, <1>13 DEF IInv

\* A round of the background task.
LEMMA WorkInv ==
  ASSUME IInv, Work
  PROVE  IInv' /\ (at' = "closed" => ~link)
<1>1. /\ Typed /\ Open /\ Aligned /\ Rounds /\ Requests /\ Pongs /\ Alive /\ Dead
      /\ at = "work" /\ busy = None /\ busy' = None /\ clock' = clock
  BY DEF IInv, Work, Open
<1>2. TimerGet = Left /\ silence < Interval + Timeout /\ silence \in Nat
  <2>1. silence < Interval + Timeout
    BY <1>1 DEF Rounds
  <2> QED BY <1>1, <2>1, TimerIs DEF Typed
<1>3. Due <=> silence >= Interval
  BY <1>2, Constants DEF Due, Left
\* While the link is alive no ping is due as long as an answer is awaited.
<1>4. link /\ Pending => ~Due
  <2> SUFFICES ASSUME link, Pending PROVE silence < Interval
    BY <1>2, <1>3, Constants
  <2>1. CASE pong # None
    <3>1. silence <= pong /\ pong <= RoundTrip /\ pong \in Int
      BY <1>1, <2>1 DEF Alive, Typed, None
    <3> QED BY <1>2, <3>1, Constants
  <2>2. CASE pong = None
    <3>1. "pong" \in data /\ ~available
      BY <1>1, <2>2 DEF Alive, Pending
    <3>2. silence <= RoundTrip
      BY <1>1, <3>1 DEF Alive
    <3> QED BY <1>2, <3>2, Constants
  <2> QED BY <2>1, <2>2
<1>5. at' = "closed" => ~link
  BY <1>1, <1>4 DEF Work, Ping, NextRound, Alive
\* With a ping, which is the only one.
<1>6. CASE Ping /\ Due /\ ~Pending
  <2>1. Sent /\ pong' = 0 /\ pong_pending' = TRUE /\ NextRound(FALSE)
    BY <1>6 DEF Ping, NextRound
  <2>2. deadline' \in 0 .. Wrap - 1 /\ silence' = 0 /\ Aligned'
    BY <1>1, <2>1, SentAligns
  <2>3. "pong" \notin data'
    BY <1>1, <1>6 DEF Work, Pongs, Pending
  <2>4. Typed'
    <3>1. select_left' \in 0 .. Timeout /\ pong' \in None .. Timeout
      BY <1>1, <2>1, Constants DEF NextRound, Typed, None
    <3> QED BY <1>1, <2>1, <2>2, <3>1 DEF Work, NextRound, Typed
  <2>5. Rounds'
    BY <1>1, <2>1, <2>2, Constants DEF NextRound, Rounds
  <2>6. Requests' /\ Pongs'
    BY <1>1, <2>1, <2>3 DEF Requests, Pongs
  <2>7. Alive'
    <3>1. busy' <= RoundTrip /\ pong' <= RoundTrip /\ silence' <= pong'
      BY <1>1, <2>1, <2>2, Constants DEF None
    <3>2. link' = link /\ error' = error /\ unheard' = unheard
      BY DEF Work
    <3>3. pong' # None
      BY <2>1 DEF None
    <3> QED BY <1>1, <2>3, <3>1, <3>2, <3>3 DEF Alive
  <2>8. Dead'
    <3>0. ~link => ("message" \in data' => unheard' = 0 \/ busy' # None \/ error')
      BY <1>1 DEF Work, Dead
    <3> SUFFICES ASSUME ~link PROVE unheard' < silence' + Interval + Timeout
      BY <2>1, <2>3, <3>0 DEF Work, Dead
    <3>1. unheard <= silence
      <4>1. ~pong_pending \/ "pong" \in data
        BY <1>6 DEF Pending
      <4> QED BY <1>1, <4>1 DEF Dead
    <3>2. unheard' = unheard /\ unheard \in Nat
      BY <1>1 DEF Work, Typed
    <3> QED BY <1>2, <2>2, <3>1, <3>2, Constants
  <2>9. ~Open' => busy' = None
    BY <1>1
  <2> QED BY <1>5, <2>2, <2>4, <2>5, <2>6, <2>7, <2>8, <2>9 DEF IInv
\* Without one.
<1>7. CASE Ping /\ ~(Due /\ ~Pending)
  <2>1. pong_pending' = Pending /\ UNCHANGED <<deadline, silence, pong>> /\ NextRound(Due /\ Pending)
    BY <1>7 DEF Ping
  <2>2. Typed'
    <3>1. select_left' \in 0 .. Timeout /\ pong_pending' \in BOOLEAN
      BY <1>1, <2>1, Constants DEF NextRound, Typed, Pending
    <3> QED BY <1>1, <2>1, <3>1 DEF Work, NextRound, Typed
  <2>3. Aligned' /\ Requests'
    BY <1>1, <2>1 DEF Aligned, Left, Requests
  <2>4. Pongs'
    BY <1>1, <2>1 DEF Work, Pongs, Pending
  <2>5. ~Open' => busy' = None
    BY <1>1
  <2>6. CASE Open'
    <3>1. ~Due /\ at' = "select" /\ select_left' = Timeout
      BY <1>7, <2>1, <2>6 DEF NextRound, Open
    <3>2. Rounds'
      BY <1>2, <1>3, <2>1, <3>1, Constants DEF Rounds
    <3>3. Alive'
      BY <1>1, <2>1, <3>1 DEF Work, Alive, Pending
    <3>4. Dead'
      BY <1>1, <2>1 DEF Work, Dead, Pending
    <3> QED BY <1>5, <2>2, <2>3, <2>4, <3>2, <3>3, <3>4, <2>5 DEF IInv
  <2>7. CASE ~Open'
    BY <1>5, <2>2, <2>5, <2>7 DEF IInv
  <2> QED BY <2>6, <2>7
\* With an acknowledgement.
<1>8. CASE /\ available /\ Acknowledge /\ pong_pending' = Pending
           /\ NextRound(FALSE) /\ UNCHANGED pong
  <2>1. Sent /\ "message" \in data /\ data' = {}
    BY <1>8 DEF Acknowledge, Work
  <2>2. deadline' \in 0 .. Wrap - 1 /\ silence' = 0 /\ Aligned'
    BY <1>1, <2>1, SentAligns
  <2>3. Typed'
    <3>1. select_left' \in 0 .. Timeout /\ pong_pending' \in BOOLEAN
      BY <1>1, <1>8, Constants DEF NextRound, Typed, Pending
    <3> QED BY <1>1, <1>8, <2>1, <2>2, <3>1 DEF Work, NextRound, Typed
  <2>4. ~Open' => busy' = None
    BY <1>1
  <2>5. CASE Open'
    <3>1. ~error /\ at' = "select" /\ select_left' = Timeout
      BY <1>8, <2>5 DEF NextRound, Open
    <3>2. Rounds' /\ Requests'
      BY <1>1, <2>2, <3>1, Constants DEF Rounds, Requests
    <3>3. Pongs'
      BY <1>1, <1>8, <2>1 DEF Pongs, Pending
    <3>4. Alive'
      <4>1. pong # None => 0 <= pong
        BY <1>1 DEF Typed, None
      <4> QED BY <1>1, <1>8, <2>1, <2>2, <3>1, <4>1 DEF Work, Alive, Pending
    <3>5. Dead'
      <4>1. ~link => unheard = 0
        BY <1>1, <2>1, <3>1 DEF Dead
      <4> QED BY <2>1, <2>2, <4>1, Constants DEF Work, Dead
    <3> QED BY <1>5, <2>2, <2>3, <2>4, <3>2, <3>3, <3>4, <3>5 DEF IInv
  <2>6. CASE ~Open'
    BY <1>5, <2>3, <2>4, <2>6 DEF IInv
  <2> QED BY <2>5, <2>6
<1> QED BY <1>6, <1>7, <1>8 DEF Work

LEMMA StutterInv ==
  ASSUME IInv, UNCHANGED vars
  PROVE  IInv'
BY DEF IInv, vars, timer, loop, past, Typed, Open, Aligned, Left, Rounds, Requests, Pongs, Alive, Dead

LEMMA NextInv ==
  ASSUME IInv, [Next]_vars
  PROVE  IInv' /\ (at # "closed" /\ at' = "closed" => ~link)
<1>1. CASE Work
  BY <1>1, WorkInv
<1>2. ASSUME ~Work PROVE at # "closed" => at' # "closed"
  BY <1>2 DEF Next, Connect, Wake, Publish, Request, Answered, Expired, PongArrives, Message, LinkDies,
              Tick, vars, loop
<1>3. CASE ~Work
  <2>1. IInv'
    BY <1>3, ConnectInv, WakeInv, PublishInv, RequestInv, AnsweredInv, ExpiredInv, PongArrivesInv,
       MessageInv, LinkDiesInv, TickInv, StutterInv, Zenon DEF Next
  <2> QED BY <1>2, <1>3, <2>1
<1> QED BY <1>1, <1>3

LEMMA Invariance == Spec => []IInv
<1>1. IInv /\ [Next]_vars => IInv'
  BY NextInv
<1> QED BY InitInv, <1>1, PTL DEF Spec

-----------------------------------------------------------------------------
(***************************************************************************)
(* The theorems.                                                           *)
(***************************************************************************)

\* Every variable keeps its type.
THEOREM TypeCorrect == Spec => []TypeOK
<1>1. IInv => TypeOK
  BY DEF IInv, Typed, TypeOK
<1> QED BY Invariance, <1>1, PTL

\* The timer always tells how long ago the last packet was sent, over every wrap
\* of the clock (esp_lwmqtt_timer_get, esp_lwmqtt.c:25).
THEOREM TimerCorrect == Spec => []TimerIsTrue
<1>1. IInv => TimerIsTrue
  <2> SUFFICES ASSUME IInv, at # "closed" PROVE TimerGet = Interval - silence
    BY DEF TimerIsTrue
  <2>1. Typed /\ Open /\ Aligned /\ Rounds
    BY DEF IInv, Open
  <2> QED BY <2>1, Bounded, TimerIs DEF Left
<1> QED BY Invariance, <1>1, PTL

\* A connection is never silent for an interval and a select() (esp_mqtt.c:420).
THEOREM NeverSilent == Spec => []SilenceBounded
<1>1. IInv => SilenceBounded
  BY Bounded DEF IInv, Open, SilenceBounded
<1> QED BY Invariance, <1>1, PTL

\* Whoever else sends, reads or waits, a connection over a link that is alive is
\* not given up (lwmqtt_keep_alive, client.c:707).
THEOREM HealthyNotClosed == Spec => HealthyStays
<1>1. IInv /\ [Next]_vars => [at # "closed" /\ at' = "closed" => ~link]_vars
  BY NextInv
<1> QED BY Invariance, <1>1, PTL DEF Spec, HealthyStays

\* A link that has died is noticed in bounded time unless somebody goes on sending.
THEOREM DeathIsNoticed == Spec => []DeathNoticed
<1>1. IInv => DeathNoticed
  <2> SUFFICES ASSUME IInv, at # "closed" PROVE unheard < 2 * (Interval + Timeout)
    BY DEF DeathNoticed
  <2>1. Typed /\ Rounds /\ Alive /\ Dead /\ Open
    BY DEF IInv, Open
  <2>2. silence < Interval + Timeout /\ silence \in Nat /\ unheard \in Nat
    BY <2>1, Bounded DEF Typed
  <2>3. CASE link
    BY <2>1, <2>3, Constants DEF Alive
  <2>4. CASE ~link
    BY <2>1, <2>2, <2>4, Constants DEF Dead
  <2> QED BY <2>3, <2>4
<1> QED BY Invariance, <1>1, PTL

=============================================================================
