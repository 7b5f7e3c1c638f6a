------------------------------ MODULE PsmTimers ------------------------------
(***************************************************************************)
(* The 3GPP timer octets of src/src/ec200_power.c: a duration in seconds   *)
(* is encoded as three unit bits and a five-bit multiplier, for the two    *)
(* timers of Power Saving Mode, and a timer the network granted is decoded *)
(* again.                                                                  *)
(*                                                                         *)
(* The encoder searches a table of units from the coarsest to the finest   *)
(* and refuses what no unit can express.  The reference is a relation: a   *)
(* unit and a multiplier stand for their product.  The largest product,    *)
(* 31 times 320 hours, is far below 2^32: the arithmetic never wraps.      *)
(***************************************************************************)
EXTENDS Integers, Sequences

CONSTANT
    Durations   \* the durations an application asks for, in seconds

ASSUME DurationAssumption == Durations \subseteq Nat

VARIABLES
    did,       \* the last call: "encode", "decode", or "none" before any
    timer,     \* its timer: "tau" (T3412 extended) or "active" (T3324)
    seconds,   \* its duration
    octet,     \* its octet
    st         \* its status

vars == <<did, timer, seconds, octet, st>>

-----------------------------------------------------------------------------

Unit(code, s) == [code |-> code, seconds |-> s]

\* T3412 extended and T3324, coarsest unit first.
tau_units == << Unit(6, 320 * 3600), Unit(2, 10 * 3600), Unit(1, 3600),
                Unit(0, 600), Unit(5, 60), Unit(4, 30), Unit(3, 2) >>

active_units == << Unit(2, 6 * 60), Unit(1, 60), Unit(0, 2) >>

Timers == {"tau", "active"}

Units(t) == IF t = "tau" THEN tau_units ELSE active_units

PSM_UNIT_DEACTIVATED == 7
PSM_MAX_MULTIPLIER   == 31

\* An octet, by its unit bits and its multiplier bits.
Octets == [code : 0..7, mult : 0..31]

\* psm_write_bits: five bits of the multiplier are kept.
Octet(code, mult) == [code |-> code % 8, mult |-> mult % 32]
Deactivated == Octet(PSM_UNIT_DEACTIVATED, 0)

\* Mutant of Suits: one multiplier too many.
SuitsOneMore(s, unit) ==
    s % unit.seconds = 0 /\ s \div unit.seconds <= PSM_MAX_MULTIPLIER + 1

\* A unit of the table expresses s.
Suits(s, unit) ==
    s % unit.seconds = 0 /\ s \div unit.seconds <= PSM_MAX_MULTIPLIER

Suitable(s, t) == {i \in DOMAIN Units(t) : Suits(s, Units(t)[i])}

\* The entry at which a search of the table ends.
First(I) == CHOOSE i \in I : \A j \in I : i <= j

Encoded(s, t) ==
    LET unit == Units(t)[First(Suitable(s, t))]
    IN  Octet(unit.code, s \div unit.seconds)

\* The entries with the unit code of an octet.
Meant(o, t) == {i \in DOMAIN Units(t) : Units(t)[i].code = o.code}

\* Mutant of Decoded: an active time is decoded as a TAU.
DecodedAsTau(o, t) == tau_units[First(Meant(o, "tau"))].seconds * o.mult

Decoded(o, t) == Units(t)[First(Meant(o, t))].seconds * o.mult

-----------------------------------------------------------------------------
(* Calls.  A call that fails writes no result. *)

NoOctet   == [code |-> -1, mult |-> -1]
NoSeconds == -1

\* ec200_psm_encode_tau and ec200_psm_encode_active_time
Encode(s, t) ==
    /\ did' = "encode" /\ seconds' = s /\ timer' = t
    /\ \/ s = 0 /\ octet' = Deactivated /\ st' = "OK"
       \/ s # 0 /\ Suitable(s, t) # {} /\ octet' = Encoded(s, t) /\ st' = "OK"
       \/ s # 0 /\ Suitable(s, t) = {} /\ octet' = NoOctet /\ st' = "PARAM"

\* ec200_psm_decode_timer
Decode(o, t) ==
    /\ did' = "decode" /\ octet' = o /\ timer' = t
    /\ \/ o.code = PSM_UNIT_DEACTIVATED /\ seconds' = 0 /\ st' = "OK"
       \/ /\ o.code # PSM_UNIT_DEACTIVATED /\ Meant(o, t) # {}
          /\ seconds' = Decoded(o, t) /\ st' = "OK"
       \/ /\ o.code # PSM_UNIT_DEACTIVATED /\ Meant(o, t) = {}
          /\ seconds' = NoSeconds /\ st' = "PARSE"

Init == did = "none" /\ timer = "tau" /\ seconds = 0 /\ octet = Deactivated /\ st = "none"

Next ==
    \/ \E s \in Durations, t \in Timers : Encode(s, t)
    \/ \E o \in Octets, t \in Timers : Decode(o, t)

Spec == Init /\ [][Next]_vars

-----------------------------------------------------------------------------
(* Properties *)

\* The reference: octet o stands for s seconds.
Stands(o, s, t) ==
    \/ o.code = PSM_UNIT_DEACTIVATED /\ s = 0
    \/ \E i \in DOMAIN Units(t) :
           Units(t)[i].code = o.code /\ s = Units(t)[i].seconds * o.mult

\* Every variable has its type: an octet has eight bits.
TypeOK ==
    /\ did \in {"none", "encode", "decode"} /\ timer \in Timers
    /\ st \in {"none", "OK", "PARAM", "PARSE"}
    /\ IF st = "PARSE" THEN seconds = NoSeconds ELSE seconds \in Nat
    /\ IF st = "PARAM" THEN octet = NoOctet ELSE octet \in Octets

\* A call that succeeds has related its octet and its duration exactly: nothing
\* is rounded, and a multiplier never spills into the unit bits.  And only what
\* no octet expresses is refused, by the encoder and by the decoder.
Exact ==
    /\ st = "OK" => Stands(octet, seconds, timer)
    /\ st = "PARAM" => ~\E o \in Octets : Stands(o, seconds, timer)
    /\ st = "PARSE" => ~\E i \in DOMAIN Units(timer) :
                            Units(timer)[i].code = octet.code

\* What was encoded for a timer is decoded for that timer as what it was.
DecodesWhatWasEncoded ==
    [][ (/\ did = "encode" /\ st = "OK" /\ did' = "decode"
         /\ octet' = octet /\ timer' = timer) =>
            st' = "OK" /\ seconds' = seconds ]_vars
=============================================================================
