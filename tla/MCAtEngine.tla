----------------------------- MODULE MCAtEngine -----------------------------
(***************************************************************************)
(* AtEngine for TLC.  The flows of a run are chosen in its .cfg.           *)
(***************************************************************************)
EXTENDS AtEngine
=============================================================================
