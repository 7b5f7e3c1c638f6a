------------------------------ MODULE MCBringup ------------------------------
(***************************************************************************)
(* Bringup for TLC: addresses are model values, a wait polls three times,  *)
(* and a call may start when one line or command is still under way.       *)
(***************************************************************************)
EXTENDS Bringup
=============================================================================
