------------------------------ MODULE MCEspMqtt ------------------------------
(***************************************************************************)
(* Model checking of EspMqtt.  Clients are interchangeable, so the runs    *)
(* that check no liveness may identify states that differ by a renaming.   *)
(***************************************************************************)
EXTENDS EspMqtt, TLC

Symmetry == Permutations(Clients)
=============================================================================
