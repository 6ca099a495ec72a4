------------------------------ MODULE KeepAlive ------------------------------
(***************************************************************************)
(* The keep-alive of a connection, in time: the select loop of esp_mqtt.c, *)
(* lwmqtt_keep_alive of client.c, the timers of esp_lwmqtt.c and the       *)
(* requests of other tasks, each of which restarts the keep-alive timer.   *)
(*                                                                         *)
(* Time passes in ticks.  What the program does takes none: a tick comes   *)
(* only when every task waits.  While the link is alive an answer takes at *)
(* most RoundTrip ticks; a dead link loses everything.                     *)
(***************************************************************************)
EXTENDS Integers

CONSTANTS
  Interval,    \* keep_alive, 10 s
  Timeout,     \* esp_mqtt_command_timeout, 10 s: of a select() and of a request
  RoundTrip,   \* bound: ticks an answer takes
  Wrap         \* the clock counts modulo this, 2^32 ms

ASSUME TimeAssumption == {Interval, Timeout, RoundTrip} \subseteq Nat /\ Interval > RoundTrip
                         /\ Timeout > RoundTrip
ASSUME WrapAssumption == Wrap \in Nat /\ Wrap > 2 * (2 * Interval + Timeout)

None == -1       \* nothing is outstanding

VARIABLES
  clock,         \* xTaskGetTickCount, in its width
  deadline,      \* of the keep-alive timer
  at,            \* the background task: "select", "work" or "closed"
  select_left,   \* ticks until select() gives up
  available,     \* what the last select() said
  pong_pending, error,
  busy,          \* ticks that a request of another task has waited, or None
  pong,          \* ticks since the unanswered ping, or None
  data,          \* what lies unread in the socket
  link,          \* the link is alive
  \* History: ticks since the last packet was sent, and since the link died or,
  \* if later, another task last used it.
  silence, unheard

timer == <<clock, deadline>>
loop  == <<at, select_left, available, pong_pending, error>>
past  == <<silence, unheard>>
vars  == <<timer, loop, busy, pong, data, link, past>>

\* esp_lwmqtt_timer_get: the difference of two counters, taken as signed.
TimerGet_Unsigned == (deadline - clock) % Wrap

TimerGet ==
  LET d == (deadline - clock) % Wrap IN IF 2 * d >= Wrap THEN d - Wrap ELSE d

\* esp_lwmqtt_timer_set, when a packet has been sent
Sent ==
  /\ deadline' = (clock + Interval) % Wrap
  /\ silence' = 0

Init ==
  /\ clock = 0 /\ deadline = 0
  /\ at = "closed" /\ select_left = 0 /\ available = FALSE
  /\ pong_pending = FALSE /\ error = FALSE
  /\ busy = None /\ pong = None /\ data = {} /\ link = TRUE
  /\ silence = 0 /\ unheard = 0

\* A connection begins: lwmqtt_connect has set the timer, and its answer took
\* some ticks to come.
Connect ==
  /\ at = "closed" /\ at' = "select" /\ select_left' = Timeout
  /\ \E d \in 0 .. RoundTrip : silence' = d /\ deadline' = (clock + Interval - d) % Wrap
  /\ pong_pending' = FALSE /\ error' = FALSE /\ available' = FALSE
  /\ pong' = None /\ data' = {} /\ link' = TRUE
  /\ unheard' = 0
  /\ UNCHANGED <<clock, busy>>

-----------------------------------------------------------------------------
(***************************************************************************)
(* The yield loop of esp_mqtt_process.                                     *)
(***************************************************************************)

\* select() returns: there is data, or its time is over.
Wake ==
  /\ at = "select" /\ (data # {} \/ select_left = 0)
  /\ at' = "work" /\ available' = (data # {})
  /\ UNCHANGED <<timer, select_left, pong_pending, error, busy, pong, data, link, past>>

\* lwmqtt_yield reads what is there, if select() saw any.
Pending_Ignored == pong_pending

Pending == pong_pending /\ ~(available /\ "pong" \in data)

Due_Late == TimerGet < 0

Due == TimerGet <= 0

NextRound(gives_up) ==
  IF error \/ gives_up
  THEN at' = "closed" /\ UNCHANGED select_left
  ELSE at' = "select" /\ select_left' = Timeout

\* Reading is over: a ping is sent when it is due.
Ping_NoPongCheck ==
  IF Due
  THEN Sent /\ pong' = 0 /\ pong_pending' = TRUE /\ NextRound(FALSE)
  ELSE pong_pending' = Pending /\ NextRound(FALSE) /\ UNCHANGED <<deadline, silence, pong>>

\* The connection is given up when the last one is not answered.
Ping ==
  /\ IF Due /\ ~Pending
     THEN Sent /\ pong' = 0 /\ pong_pending' = TRUE
     ELSE pong_pending' = Pending /\ UNCHANGED <<deadline, silence, pong>>
  /\ NextRound(Due /\ Pending)

\* Whoever reads a message may have to acknowledge it, which restarts the timer.
Acknowledge == "message" \in data /\ Sent

\* The rest of a round.  After an acknowledgement no ping is due.
Work ==
  /\ at = "work" /\ busy = None
  /\ data' = IF available THEN {} ELSE data
  /\ \/ Ping
     \/ available /\ Acknowledge /\ pong_pending' = Pending /\ NextRound(FALSE) /\ UNCHANGED pong
  /\ UNCHANGED <<clock, available, error, busy, link, unheard>>

-----------------------------------------------------------------------------
(***************************************************************************)
(* Other tasks, under the main mutex.                                      *)
(***************************************************************************)
Online == at # "closed" /\ busy = None

\* A publish with QoS 0.
Publish ==
  /\ Online /\ Sent /\ unheard' = 0
  /\ UNCHANGED <<clock, loop, busy, pong, data, link>>

\* A request that waits for its answer.
Request ==
  /\ Online /\ Sent /\ unheard' = 0
  /\ busy' = 0
  /\ UNCHANGED <<clock, loop, pong, data, link>>

\* The answer comes.  The task reads it and all that lies before it; a select()
\* that still waits returns as well.
Answered ==
  /\ busy # None /\ link /\ busy' = None
  /\ pong_pending' = (pong_pending /\ "pong" \notin data) /\ data' = {}
  /\ available' = (available \/ at = "select")
  /\ at' = IF at = "select" THEN "work" ELSE at
  /\ Acknowledge \/ UNCHANGED <<deadline, silence>>
  /\ UNCHANGED <<clock, select_left, error, pong, link, unheard>>

\* It does not: the request fails.
Expired ==
  /\ busy = Timeout /\ busy' = None
  /\ error' = TRUE
  /\ UNCHANGED <<timer, at, select_left, available, pong_pending, pong, data, link, past>>

-----------------------------------------------------------------------------
(***************************************************************************)
(* The network, and time.                                                  *)
(***************************************************************************)
PongArrives ==
  /\ pong # None /\ link /\ pong' = None
  /\ data' = data \cup {"pong"}
  /\ UNCHANGED <<timer, loop, busy, link, past>>

Message ==
  /\ at # "closed" /\ link
  /\ data' = data \cup {"message"}
  /\ UNCHANGED <<timer, loop, busy, pong, link, past>>

LinkDies ==
  /\ at # "closed" /\ link /\ link' = FALSE
  /\ unheard' = 0
  /\ UNCHANGED <<timer, loop, busy, pong, data, silence>>

\* Everybody waits, and no answer is overdue.
Waiting ==
  /\ at = "select" => data = {} /\ select_left > 0
  /\ at = "work" => busy # None
  /\ busy # None => busy < (IF link THEN RoundTrip ELSE Timeout)
  /\ pong # None /\ link => pong < RoundTrip

\* Bound: what is only compared with the time-out stops counting there.
Later(t) == IF t = None \/ t >= Timeout THEN t ELSE t + 1

Tick ==
  /\ at # "closed" /\ Waiting
  /\ clock' = (clock + 1) % Wrap
  /\ select_left' = IF select_left > 0 THEN select_left - 1 ELSE 0
  /\ busy' = Later(busy) /\ pong' = Later(pong)
  /\ silence' = silence + 1
  /\ unheard' = IF link THEN unheard ELSE unheard + 1
  /\ UNCHANGED <<deadline, at, available, pong_pending, error, data, link>>

Next ==
  \/ Connect \/ Wake \/ Work
  \/ Publish \/ Request \/ Answered \/ Expired
  \/ PongArrives \/ Message \/ LinkDies \/ Tick

Spec == Init /\ [][Next]_vars

-----------------------------------------------------------------------------
\* Every variable keeps its type.
TypeOK ==
  /\ {clock, deadline} \subseteq 0 .. Wrap - 1
  /\ at \in {"select", "work", "closed"} /\ select_left \in 0 .. Timeout
  /\ {available, pong_pending, error, link} \subseteq BOOLEAN
  /\ {busy, pong} \subseteq None .. Timeout /\ data \subseteq {"pong", "message"}
  /\ {silence, unheard} \subseteq Nat

\* The timer tells how long ago the last packet was sent, also over the wrap of
\* the clock.
TimerIsTrue == at # "closed" => TimerGet = Interval - silence

\* A connection is never silent for as long as an interval and a select().
SilenceBounded == at # "closed" => silence < Interval + Timeout

\* A connection over a link that is alive is never given up.
HealthyStays == [][at # "closed" /\ at' = "closed" => ~link]_vars

\* A dead link that nobody publishes to is noticed in bounded time: a ping goes out
\* within an interval and a select(), and its answer is missed within another.
DeathNoticed == at # "closed" => unheard < 2 * (Interval + Timeout)

=============================================================================
