--------------------------- MODULE MCI2SMicrophone ---------------------------
(***************************************************************************)
(* Model checking of I2SMicrophone: the constants come from the .cfg files *)
(* and every bound is a guard of the specification, so that no state       *)
(* constraint cuts a behaviour short.                                      *)
(***************************************************************************)
EXTENDS I2SMicrophone
=============================================================================
