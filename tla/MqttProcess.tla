----------------------------- MODULE MqttProcess -----------------------------
(***************************************************************************)
(* What an application relies on of esp_mqtt.h: a background process that, *)
(* once started, connects, reports each connection and each loss of one in *)
(* turn, and can be stopped, which is not reported.  Requests can succeed  *)
(* only on a connection.  Nothing here knows of tasks, mutexes or sockets; *)
(* EspMqtt implements it.                                                  *)
(***************************************************************************)
VARIABLES phase,   \* "off", "connecting" or "online"
          status,  \* what the process last reported since it was started
          last     \* how the last request ended, since the last connection's report

vars == <<phase, status, last>>

Init == phase = "off" /\ status = "none" /\ last = "none"

Start ==
  /\ phase = "off" /\ phase' = "connecting"
  /\ status' = "none"
  /\ UNCHANGED last

\* A new connection is made only after the loss of the previous one is reported.
Connect ==
  /\ phase = "connecting" /\ status # "connected"
  /\ phase' = "online"
  /\ UNCHANGED <<status, last>>

ReportConnected ==
  /\ phase = "online" /\ status # "connected"
  /\ status' = "connected" /\ last' = "none"
  /\ UNCHANGED phase

Lose ==
  /\ phase = "online" /\ status = "connected"
  /\ phase' = "connecting"
  /\ UNCHANGED <<status, last>>

ReportLost ==
  /\ phase = "connecting" /\ status = "connected"
  /\ status' = "disconnected"
  /\ UNCHANGED <<phase, last>>

Stop == phase # "off" /\ phase' = "off" /\ UNCHANGED <<status, last>>

\* A publish, subscribe or unsubscribe call returns.  It is refused if there is
\* no connection; on one it succeeds or fails.
Succeed == phase = "online" /\ last' = "ok" /\ UNCHANGED <<phase, status>>
Fail == phase = "online" /\ last' = "failed" /\ UNCHANGED <<phase, status>>
Refuse == phase # "online" /\ last' = "refused" /\ UNCHANGED <<phase, status>>

Next == \/ Start \/ Connect \/ ReportConnected \/ Lose \/ ReportLost \/ Stop
        \/ Succeed \/ Fail \/ Refuse

Spec == Init /\ [][Next]_vars

=============================================================================
