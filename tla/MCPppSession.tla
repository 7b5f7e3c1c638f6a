---------------------------- MODULE MCPppSession ----------------------------
(***************************************************************************)
(* PppSession for TLC.                                                     *)
(***************************************************************************)
EXTENDS PppSession
=============================================================================
