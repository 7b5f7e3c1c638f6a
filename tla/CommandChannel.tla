---------------------------- MODULE CommandChannel ----------------------------
(***************************************************************************)
(* What the AT engine (src/src/ec200_at.c) promises to the files built on  *)
(* it, as a specification of its own: a command that goes out on a channel *)
(* in step, and that no call of a handler disturbs, ends with its own      *)
(* reply and leaves the channel in step, or it gives up.  Nothing is       *)
(* promised of a command that goes out on a channel that is not in step.   *)
(*                                                                         *)
(* AtEngine implements it: see Channel there.                              *)
(***************************************************************************)

VARIABLES
    state,     \* "in step": the module owes nothing; "own": it owes a reply to
               \* the undisturbed command in progress; "adrift": anything else
    outcome    \* of the last call: "none" (yet), "own reply", "gave up", "any"

vars == <<state, outcome>>

Init == state = "in step" /\ outcome = "none"

Command ==
    /\ state = "in step" /\ state' = "own" /\ outcome' = "none"

\* The command is decided by its own reply, which is then read in full.
Answered ==
    /\ state = "own" /\ state' = "in step" /\ outcome' = "own reply"

\* What is left of the reply is still to come.
GivesUp ==
    /\ state = "own" /\ state' \in {"in step", "adrift"} /\ outcome' = "gave up"

\* A handler calls the API before the reply is complete.
Disturbed ==
    /\ state = "own" /\ state' \in {"in step", "adrift"} /\ outcome' = "none"

\* Calls, returns and lines outside of undisturbed commands.  A channel may
\* come back into step, and only there a command becomes an own one again.
Otherwise ==
    /\ state # "own" /\ state' \in {"in step", "adrift"}
    /\ outcome' \in {outcome, "none", "any"}

Next == Command \/ Answered \/ GivesUp \/ Disturbed \/ Otherwise

Spec == Init /\ [][Next]_vars
=============================================================================
