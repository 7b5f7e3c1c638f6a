------------------------------ MODULE MCSettings ------------------------------
(***************************************************************************)
(* Settings for TLC: every group, and the durations of the timer codec:    *)
(* all up to a little more than 31 steps of the finest unit, and those at  *)
(* and around one step, the largest and the next multiple of every unit.   *)
(***************************************************************************)
EXTENDS Settings

Steps == {active_units[i].seconds : i \in DOMAIN active_units}
           \cup {tau_units[i].seconds : i \in DOMAIN tau_units}

AtTheEdge == {k * step + d : k \in {1, 31, 32}, step \in Steps, d \in -1..1}

ManyDurations == 0..70 \cup AtTheEdge

AllGroups == DOMAIN Initially
=============================================================================
