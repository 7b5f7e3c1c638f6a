--------------------------- MODULE MCRxAssembler ---------------------------
(* RxAssembler with a buffer of two or three bytes.  Bounds are in the .cfg  *)
(* files; MaxSince exceeds Cap, so that overlong lines are among the cases.  *)
EXTENDS RxAssembler
=============================================================================
