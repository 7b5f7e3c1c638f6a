------------------------------- MODULE MCSockets -------------------------------
(***************************************************************************)
(* Model checking of Sockets.  Nothing distinguishes the hosts.            *)
(***************************************************************************)
EXTENDS Sockets

HostSymmetry == Permutations(Hosts)
=============================================================================
