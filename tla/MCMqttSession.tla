---------------------------- MODULE MCMqttSession ----------------------------
(***************************************************************************)
(* MqttSession for TLC: two clients, each of them opened plainly and with  *)
(* TLS in turn.  Every configuration gives both identifiers the same       *)
(* value, as the examples and the tests of the library do.                 *)
(***************************************************************************)
EXTENDS MqttSession, TLC

CONSTANTS c1, c2

SameIds == {[tcp |-> c, client |-> c, tls |-> tls] : c \in {c1, c2},
                                                     tls \in BOOLEAN}

\* Nothing tells the clients apart.
Clients == Permutations(Ids)
=============================================================================
