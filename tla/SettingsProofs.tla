---------------------------- MODULE SettingsProofs ----------------------------
(***************************************************************************)
(* Proofs about Settings, for every group of settings and number of calls, *)
(* and about the codec of the power-saving timers it extends, for every    *)
(* duration: an octet and a duration that a call relates stand for each    *)
(* other, nothing expressible is refused, and decoding undoes encoding.    *)
(* A query that fails hands out nothing of the reply, and what a call did  *)
(* to the module is what it says.                                          *)
(***************************************************************************)
EXTENDS Settings, TLAPS, SequenceTheorems, WellFoundedInduction

-----------------------------------------------------------------------------
(* The codec of the power-saving timers.                                     *)

\* A nonempty set of table entries has a first one, which First picks.
LEMMA FirstIsLeast ==
    ASSUME NEW I \in SUBSET (1..7), I # {}
    PROVE  First(I) \in I /\ \A j \in I : First(I) <= j
<1>1. \E i \in I : \A j \in I : i <= j
  <2> SUFFICES ASSUME \A i \in I : \E j \in I : j < i PROVE FALSE
    OBVIOUS
  <2>1. 1 \notin I
    OBVIOUS
  <2>2. 2 \notin I
    BY <2>1
  <2>3. 3 \notin I
    BY <2>1, <2>2
  <2>4. 4 \notin I
    BY <2>1, <2>2, <2>3
  <2>5. 5 \notin I
    BY <2>1, <2>2, <2>3, <2>4
  <2>6. 6 \notin I
    BY <2>1, <2>2, <2>3, <2>4, <2>5
  <2>7. 7 \notin I
    BY <2>1, <2>2, <2>3, <2>4, <2>5, <2>6
  <2>8. PICK k \in I : TRUE
    OBVIOUS
  <2>9. k \in 1..7
    BY <2>8
  <2>10. k = 1 \/ k = 2 \/ k = 3 \/ k = 4 \/ k = 5 \/ k = 6 \/ k = 7
    BY <2>9
  <2> QED
    BY <2>1, <2>2, <2>3, <2>4, <2>5, <2>6, <2>7, <2>8, <2>10
<1> QED
  BY <1>1 DEF First

\* The entries of the two tables spelled out: at most seven, with unit codes
\* below that of a deactivated timer, no two with the same code.
LEMMA UnitTable ==
    ASSUME NEW t \in Timers
    PROVE  /\ DOMAIN Units(t) \subseteq 1..7
           /\ \A i \in DOMAIN Units(t) : Units(t)[i].code \in 0..6
           /\ \A i \in DOMAIN Units(t) :
                  Units(t)[i].seconds \in {1152000, 36000, 3600, 600, 360, 60, 30, 2}
           /\ \A i, j \in DOMAIN Units(t) :
                  Units(t)[i].code = Units(t)[j].code => i = j
<1>1. CASE t = "tau"
  <2>1. Units(t) = tau_units /\ DOMAIN tau_units = 1..7
    BY <1>1 DEF Units, tau_units
  <2>2. \A i \in 1..7 : i \in {1, 2, 3, 4, 5, 6, 7}
    OBVIOUS
  <2>3. /\ tau_units[1] = Unit(6, 1152000) /\ tau_units[2] = Unit(2, 36000)
        /\ tau_units[3] = Unit(1, 3600)    /\ tau_units[4] = Unit(0, 600)
        /\ tau_units[5] = Unit(5, 60)      /\ tau_units[6] = Unit(4, 30)
        /\ tau_units[7] = Unit(3, 2)
    BY DEF tau_units
  <2> QED
    BY <2>1, <2>2, <2>3 DEF Unit
<1>2. CASE t = "active"
  <2>1. Units(t) = active_units /\ DOMAIN active_units = 1..3
    BY <1>2 DEF Units, active_units
  <2>2. \A i \in 1..3 : i \in {1, 2, 3}
    OBVIOUS
  <2>3. /\ active_units[1] = Unit(2, 360) /\ active_units[2] = Unit(1, 60)
        /\ active_units[3] = Unit(0, 2)
    BY DEF active_units
  <2> QED
    BY <2>1, <2>2, <2>3 DEF Unit
<1> QED
  BY <1>1, <1>2 DEF Timers

\* Division by a unit: what Suits asks for is that the duration is one of the
\* unit's 32 multiples.
LEMMA SuitsIsMultiple ==
    ASSUME NEW s \in Nat, NEW t \in Timers, NEW i \in DOMAIN Units(t)
    PROVE  /\ Suits(s, Units(t)[i]) =>
                  /\ s \div Units(t)[i].seconds \in 0..31
                  /\ s = Units(t)[i].seconds * (s \div Units(t)[i].seconds)
           /\ \A m \in 0..31 : s = Units(t)[i].seconds * m => Suits(s, Units(t)[i])
<1> DEFINE u == Units(t)[i].seconds
<1>1. ASSUME NEW k \in {1152000, 36000, 3600, 600, 360, 60, 30, 2}
      PROVE  /\ (s % k = 0 /\ s \div k <= 31) =>
                    s \div k \in 0..31 /\ s = k * (s \div k)
             /\ \A m \in 0..31 : s = k * m => s % k = 0 /\ s \div k <= 31
  <2>1. CASE k = 1152000  BY <2>1
  <2>2. CASE k = 36000    BY <2>2
  <2>3. CASE k = 3600     BY <2>3
  <2>4. CASE k = 600      BY <2>4
  <2>5. CASE k = 360      BY <2>5
  <2>6. CASE k = 60       BY <2>6
  <2>7. CASE k = 30       BY <2>7
  <2>8. CASE k = 2        BY <2>8
  <2> QED
    BY <2>1, <2>2, <2>3, <2>4, <2>5, <2>6, <2>7, <2>8
<1>2. u \in {1152000, 36000, 3600, 600, 360, 60, 30, 2}
  BY UnitTable
<1>3. Suits(s, Units(t)[i]) <=> s % u = 0 /\ s \div u <= 31
  BY DEF Suits, PSM_MAX_MULTIPLIER
<1> HIDE DEF u
<1>4. /\ Suits(s, Units(t)[i]) => s \div u \in 0..31 /\ s = u * (s \div u)
      /\ \A m \in 0..31 : s = u * m => Suits(s, Units(t)[i])
  BY <1>1, <1>2, <1>3
<1> QED
  BY <1>4 DEF u

\* The encoder's octet is well formed and stands for the duration.
LEMMA EncodedStands ==
    ASSUME NEW s \in Nat, NEW t \in Timers, Suitable(s, t) # {}
    PROVE  Encoded(s, t) \in Octets /\ Stands(Encoded(s, t), s, t)
<1> DEFINE i == First(Suitable(s, t))
           m == s \div Units(t)[i].seconds
<1>1. i \in DOMAIN Units(t) /\ Suits(s, Units(t)[i])
  BY FirstIsLeast, UnitTable DEF Suitable
<1>2. m \in 0..31 /\ s = Units(t)[i].seconds * m
  BY <1>1, SuitsIsMultiple
<1>3. Units(t)[i].code \in 0..6
  BY <1>1, UnitTable
<1>4. Encoded(s, t) = Octet(Units(t)[i].code, m)
  BY DEF Encoded
<1> HIDE DEF i, m
<1>5. Octet(Units(t)[i].code, m) = [code |-> Units(t)[i].code, mult |-> m]
  BY <1>2, <1>3 DEF Octet
<1> QED
  BY <1>1, <1>2, <1>3, <1>4, <1>5 DEF Octets, Stands

\* What no unit suits, no octet stands for.
LEMMA NothingStands ==
    ASSUME NEW s \in Nat, NEW t \in Timers, s # 0, Suitable(s, t) = {},
           NEW o \in Octets
    PROVE  ~Stands(o, s, t)
<1> SUFFICES ASSUME NEW i \in DOMAIN Units(t), s = Units(t)[i].seconds * o.mult
             PROVE  FALSE
  BY DEF Stands
<1>1. o.mult \in 0..31
  BY DEF Octets
<1> QED
  BY <1>1, SuitsIsMultiple DEF Suitable

\* The decoder's duration is the one the octet stands for, and the only one.
LEMMA DecodedIsMeant ==
    ASSUME NEW o \in Octets, NEW t \in Timers, Meant(o, t) # {},
           o.code # PSM_UNIT_DEACTIVATED
    PROVE  /\ Decoded(o, t) \in Nat
           /\ Stands(o, Decoded(o, t), t)
           /\ \A s \in Nat : Stands(o, s, t) => s = Decoded(o, t)
<1> DEFINE i == First(Meant(o, t))
<1>1. i \in DOMAIN Units(t) /\ Units(t)[i].code = o.code
  BY FirstIsLeast, UnitTable DEF Meant
<1>2. Units(t)[i].seconds \in Nat /\ o.mult \in Nat
  BY <1>1, UnitTable DEF Octets
<1>3. Decoded(o, t) = Units(t)[i].seconds * o.mult
  BY DEF Decoded
<1>4. \A j \in DOMAIN Units(t) : Units(t)[j].code = o.code => j = i
  BY <1>1, UnitTable
<1> HIDE DEF i
<1>5. Decoded(o, t) \in Nat
  BY <1>2, <1>3
<1> QED
  BY <1>1, <1>3, <1>4, <1>5 DEF Stands

-----------------------------------------------------------------------------

\* The invariant: types, exact results, and refusals of the inexpressible only.
PsmInv == TypeOK /\ Exact

\* A deactivated timer is an octet, and it stands for zero.
LEMMA DeactivatedStands ==
    ASSUME NEW t \in Timers
    PROVE  Deactivated \in Octets /\ Stands(Deactivated, 0, t)
BY DEF Deactivated, Octet, Octets, Stands, PSM_UNIT_DEACTIVATED

\* Every call establishes the invariant from its arguments alone.
LEMMA PsmInvNext == PsmInv /\ [Next]_vars => PsmInv'
<1> SUFFICES ASSUME PsmInv, [Next]_vars PROVE PsmInv'
  OBVIOUS
<1> USE DEF PsmInv, TypeOK, Exact
<1>1. ASSUME NEW s \in Durations, NEW t \in Timers, Encode(s, t) PROVE PsmInv'
  <2>1. s \in Nat /\ did' = "encode" /\ seconds' = s /\ timer' = t
    BY <1>1, DurationAssumption DEF Encode
  <2>2. CASE s = 0 /\ octet' = Deactivated /\ st' = "OK"
    BY <2>1, <2>2, DeactivatedStands
  <2>3. CASE s # 0 /\ Suitable(s, t) # {} /\ octet' = Encoded(s, t) /\ st' = "OK"
    BY <2>1, <2>3, EncodedStands
  <2>4. CASE s # 0 /\ Suitable(s, t) = {} /\ octet' = NoOctet /\ st' = "PARAM"
    BY <2>1, <2>4, NothingStands
  <2> QED
    BY <1>1, <2>2, <2>3, <2>4 DEF Encode
<1>2. ASSUME NEW o \in Octets, NEW t \in Timers, Decode(o, t) PROVE PsmInv'
  <2>1. did' = "decode" /\ octet' = o /\ timer' = t
    BY <1>2 DEF Decode
  <2>2. CASE o.code = PSM_UNIT_DEACTIVATED /\ seconds' = 0 /\ st' = "OK"
    BY <2>1, <2>2 DEF Stands
  <2>3. CASE /\ o.code # PSM_UNIT_DEACTIVATED /\ Meant(o, t) # {}
             /\ seconds' = Decoded(o, t) /\ st' = "OK"
    BY <2>1, <2>3, DecodedIsMeant
  <2>4. CASE /\ o.code # PSM_UNIT_DEACTIVATED /\ Meant(o, t) = {}
             /\ seconds' = NoSeconds /\ st' = "PARSE"
    BY <2>1, <2>4 DEF Meant
  <2> QED
    BY <1>2, <2>2, <2>3, <2>4 DEF Decode
<1>3. ASSUME UNCHANGED vars PROVE PsmInv'
  BY <1>3 DEF vars
<1> QED
  BY <1>1, <1>2, <1>3 DEF Next

\* Before the first call of the codec nothing has been encoded or decoded.
LEMMA PsmInvInit == Init => PsmInv
BY DeactivatedStands DEF Init, PsmInv, TypeOK, Exact, Timers

\* What an application does besides leaves the codec alone, or starts it anew.
LEMMA TimerSteps == [SettingsNext]_settingVars => [Next]_vars \/ Init'
<1>1. ASSUME NEW c, Start(c) PROVE Init'
  BY <1>1 DEF Start, Init
<1>2. ASSUME NEW l, Notified(l) PROVE UNCHANGED vars
  BY <1>2 DEF Notified, timerVars
<1>3. ReadsLine \/ ReadsResult => UNCHANGED vars
  BY DEF ReadsLine, ReadsResult, Reads, timerVars
<1>4. TimesOut \/ ModuleObeys \/ ModuleRefuses => UNCHANGED vars
  BY DEF TimesOut, ModuleObeys, ModuleRefuses, timerVars
<1>5. UNCHANGED settingVars => UNCHANGED vars
  BY DEF settingVars
<1>6. CodecStep => Next
  BY DEF CodecStep
<1> QED
  BY <1>1, <1>2, <1>3, <1>4, <1>5, <1>6 DEF SettingsNext

LEMMA PsmInvKept == PsmInv /\ [SettingsNext]_settingVars => PsmInv'
<1>1. Init' => PsmInv'
  BY PsmInvInit, PTL
<1> QED
  BY <1>1, TimerSteps, PsmInvNext

\* What the two codecs do is exact for every duration, and only what no octet
\* expresses is refused (psm_encode, ec200_psm_decode_timer).
THEOREM CodecsAreExact == SettingsSpec => []Exact
<1>1. SettingsInit => PsmInv
  BY PsmInvInit DEF SettingsInit
<1>2. PsmInv => Exact
  BY DEF PsmInv
<1> QED
  BY <1>1, <1>2, PsmInvKept, PTL DEF SettingsSpec

\* What was encoded decodes to itself, for every duration and both timers.
THEOREM DecodingUndoesEncoding == SettingsSpec => DecodesWhatWasEncoded
<1>1. SettingsInit => PsmInv
  BY PsmInvInit DEF SettingsInit
<1>2. PsmInv /\ [SettingsNext]_settingVars =>
          [(/\ did = "encode" /\ st = "OK" /\ did' = "decode"
            /\ octet' = octet /\ timer' = timer) =>
                st' = "OK" /\ seconds' = seconds]_vars
  <2> SUFFICES ASSUME PsmInv, did = "encode", st = "OK", did' = "decode",
                      octet' = octet, timer' = timer,
                      NEW o \in Octets, NEW t \in Timers, Decode(o, t)
               PROVE  st' = "OK" /\ seconds' = seconds
    BY TimerSteps DEF Next, Encode, Init
  <2>1. /\ octet = o /\ timer = t /\ seconds \in Nat /\ Stands(o, seconds, t)
    BY DEF Decode, PsmInv, TypeOK, Exact
  <2>2. CASE o.code = PSM_UNIT_DEACTIVATED
    <3>1. seconds = 0
      BY <2>1, <2>2, UnitTable DEF Stands, PSM_UNIT_DEACTIVATED
    <3> QED
      BY <2>2, <3>1 DEF Decode
  <2>3. CASE o.code # PSM_UNIT_DEACTIVATED
    <3>1. Meant(o, t) # {}
      BY <2>1, <2>3 DEF Stands, Meant
    <3> QED
      BY <2>1, <2>3, <3>1, DecodedIsMeant DEF Decode
  <2> QED
    BY <2>2, <2>3
<1> QED
  BY <1>1, <1>2, PsmInvKept, PTL DEF SettingsSpec, DecodesWhatWasEncoded

-----------------------------------------------------------------------------
(* Answers.                                                                  *)

\* An answer that has failed has handed out nothing.
AllOrNothing(a) == a.st = "OK" \/ a.out = <<>>

\* And it is the library that has refused, not the module.
Proper(a) == AllOrNothing(a) /\ a.st # "MODULE"

\* The answers the parsers are made of.
LEMMA ProperOnes ==
    /\ \A out : Proper(Gives(out)) /\ Gives(out).st = "OK"
    /\ Proper(Parse) /\ Proper(Fails("OVERFLOW"))
    /\ \A st_ : AllOrNothing(Fails(st_)) /\ AllOrNothing(Answer(st_, <<>>)) /\ Fails(st_).st = st_
BY DEF Proper, AllOrNothing, Gives, Parse, Fails, Answer

LEMMA FittingProper == \A f, sz : Proper(Fitting(f, sz))
<1> TAKE f, sz
<1>1. CASE f.num = 0
  BY <1>1, ProperOnes, Zenon DEF Fitting
<1> QED
  BY ProperOnes DEF Fitting

LEMMA EdrxProper == \A l : Proper(ec200_edrx_get(l))
BY ProperOnes DEF ec200_edrx_get

LEMMA SmscProper == \A l, sz : Proper(ec200_sms_get_smsc(l, sz))
<1> TAKE l, sz
<1>1. CASE Quoted(l) = <<>>
  BY <1>1, ProperOnes, Zenon DEF ec200_sms_get_smsc
<1> QED
  BY ProperOnes DEF ec200_sms_get_smsc

\* No query hands out half of a line, and none takes the part of the module.
LEMMA QueriesProper ==
    \A l, sz, d :
        /\ Proper(ec200_power_get_cfun(l)) /\ Proper(ec200_psm_get(l))
        /\ Proper(ec200_edrx_get_dynamic(l))
        /\ Proper(ec200_net_get_signal(l)) /\ Proper(ec200_net_get_signal_ext(l))
        /\ Proper(ec200_net_get_operator(l)) /\ Proper(ec200_net_get_info(l))
        /\ Proper(ec200_net_get_spn(l, sz)) /\ Proper(ec200_net_is_attached(l))
        /\ Proper(parse_reg_status(l)) /\ Proper(ec200_data_get_ip(l, sz))
        /\ Proper(parse_timestamp(l)) /\ Proper(ec200_gnss_get_status(l))
        /\ Proper(ec200_gnss_get_location(l))
        /\ Proper(qflst_size(l)) /\ Proper(ec200_file_storage(l))
        /\ Proper(ec200_sms_get_indication(l)) /\ Proper(ec200_sms_send_stored(l))
        /\ Proper(ec200_sms_read(l, d)) /\ Proper(ec200_sim_get_status(l))
        /\ Proper(FirstLine(l, sz)) /\ Proper(ec200_sim_get_iccid(l, sz))
<1> TAKE l, sz, d
<1>1. Proper(ec200_power_get_cfun(l)) /\ Proper(ec200_psm_get(l)) /\ Proper(ec200_edrx_get_dynamic(l))
  BY ProperOnes, Zenon DEF ec200_power_get_cfun, OneInt, ec200_psm_get, ec200_edrx_get_dynamic
<1>2. Proper(ec200_net_get_signal(l)) /\ Proper(ec200_net_get_signal_ext(l))
  BY ProperOnes, Zenon DEF ec200_net_get_signal, ec200_net_get_signal_ext
<1>3. Proper(ec200_net_get_operator(l)) /\ Proper(ec200_net_get_info(l))
  BY ProperOnes, Zenon DEF ec200_net_get_operator, ec200_net_get_info
<1>4. Proper(ec200_net_get_spn(l, sz)) /\ Proper(ec200_net_is_attached(l))
  BY ProperOnes, Zenon DEF ec200_net_get_spn, ec200_net_is_attached, IsOne
<1>5. Proper(parse_reg_status(l)) /\ Proper(ec200_data_get_ip(l, sz)) /\ Proper(parse_timestamp(l))
  <2>1. Proper(parse_reg_status(l))
    BY ProperOnes, Zenon DEF parse_reg_status
  <2>2. Proper(ec200_data_get_ip(l, sz))
    BY ProperOnes, Zenon DEF ec200_data_get_ip
  <2>3. Proper(parse_timestamp(l))
    <3>1. parse_timestamp(l) = Parse \/ \E out : parse_timestamp(l) = Gives(out)
      BY DEF parse_timestamp
    <3> QED
      BY <3>1, ProperOnes
  <2> QED
    BY <2>1, <2>2, <2>3
<1>6. Proper(ec200_gnss_get_status(l)) /\ Proper(ec200_gnss_get_location(l))
  BY ProperOnes, Zenon DEF ec200_gnss_get_status, IsOne, ec200_gnss_get_location
<1>7. Proper(qflst_size(l)) /\ Proper(ec200_file_storage(l))
  BY ProperOnes, Zenon DEF qflst_size, OneInt, ec200_file_storage
<1>8. /\ Proper(ec200_sms_get_indication(l)) /\ Proper(ec200_sms_send_stored(l))
      /\ Proper(ec200_sms_read(l, d))
  BY ProperOnes, Zenon DEF ec200_sms_get_indication, ec200_sms_send_stored, ec200_sms_read
<1>9. Proper(ec200_sim_get_status(l)) /\ Proper(FirstLine(l, sz)) /\ Proper(ec200_sim_get_iccid(l, sz))
  BY ProperOnes, FittingProper, Zenon DEF ec200_sim_get_status, FirstLine, ec200_sim_get_iccid
<1> QED
  BY <1>1, <1>2, <1>3, <1>4, <1>5, <1>6, <1>7, <1>8, <1>9

\* The two results that come with a verdict of the module.
LEMMA VerdictProper ==
    \A l : /\ AllOrNothing(parse_http_result(l)) /\ AllOrNothing(ec200_time_sync_ntp(l))
           /\ ec200_time_sync_ntp(l).st = Verdict(l)
<1> TAKE l
<1>1. AllOrNothing(parse_http_result(l))
  <2>1. CASE Verdict(l) # "OK"
    BY <2>1, ProperOnes DEF parse_http_result
  <2>2. CASE Verdict(l) = "OK"
    <3>1. PICK out : parse_http_result(l) = Gives(out)
      BY <2>2 DEF parse_http_result
    <3> QED
      BY <3>1, ProperOnes DEF Proper
  <2> QED
    BY <2>1, <2>2
<1>2. AllOrNothing(ec200_time_sync_ntp(l)) /\ ec200_time_sync_ntp(l).st = Verdict(l)
  BY DEF ec200_time_sync_ntp, Answer, AllOrNothing
<1> QED
  BY <1>1, <1>2

\* The parsers that store as they go.
StoreAsTheyGo == {"ec200_sms_set_storage", "ec200_sms_get_storage"}

\* So it is for the answer of every call, the two exceptions apart.
LEMMA ParsedProper ==
    ASSUME NEW c
    PROVE  /\ c.api \notin StoreAsTheyGo => AllOrNothing(Parsed(c))
           /\ c.api \notin {"ec200_http_get", "ec200_time_sync_ntp"} \cup StoreAsTheyGo =>
                  Proper(Parsed(c))
<1> DEFINE l == IF c.line = <<>> THEN <<>> ELSE c.line[1].fields
<1>1. c.api \notin {"ec200_http_get", "ec200_time_sync_ntp"} \cup StoreAsTheyGo =>
          Proper(Parsed(c))
  BY QueriesProper, EdrxProper, SmscProper, ProperOnes, Zenon DEF Parsed, StoreAsTheyGo
<1>2. c.api = "ec200_http_get" => Parsed(c) = parse_http_result(l)
  BY DEF Parsed
<1>3. c.api = "ec200_time_sync_ntp" => Parsed(c) = ec200_time_sync_ntp(l)
  BY DEF Parsed
<1> HIDE DEF l
<1> QED
  BY <1>1, <1>2, <1>3, VerdictProper DEF Proper

-----------------------------------------------------------------------------
(* A query that fails hands out nothing.                                     *)

LEMMA ReturnHandsOut ==
    ASSUME NEW api, NEW a, Return(api, a), AllOrNothing(a) \/ api \in StoreAsTheyGo
    PROVE  NoHalfAnswer'
<1>1. CASE last' = Result(api, Gives(<<<<>>>>))
  <2>1. last'.st = "OK"
    BY <1>1, ProperOnes DEF Result
  <2> QED
    BY <2>1 DEF NoHalfAnswer
<1>2. CASE last' = Result(api, a)
  <2>1. last'.api = api /\ last'.st = a.st /\ last'.out = a.out
    BY <1>2 DEF Result
  <2> QED
    BY <2>1 DEF NoHalfAnswer, AllOrNothing, StoreAsTheyGo
<1> QED
  BY <1>1, <1>2 DEF Return

LEMMA CommandEndsHandsOut ==
    ASSUME NEW c, NEW status, CommandEnds(c, status), NoHalfAnswer
    PROVE  NoHalfAnswer'
<1>1. ASSUME NEW d, Sends(d) PROVE NoHalfAnswer'
  BY <1>1 DEF Sends, NoHalfAnswer
<1>2. ASSUME Return(c.api, Parsed(c)) PROVE NoHalfAnswer'
  BY <1>2, ParsedProper, ReturnHandsOut
<1>3. ASSUME Return(c.api, Fails(status)) PROVE NoHalfAnswer'
  BY <1>3, ProperOnes, ReturnHandsOut
<1> QED
  BY <1>1, <1>2, <1>3 DEF CommandEnds

LEMMA NoHalfAnswerNext ==
    ASSUME NoHalfAnswer, [SettingsNext]_settingVars
    PROVE  NoHalfAnswer'
<1>1. UNCHANGED last => NoHalfAnswer'
  BY DEF NoHalfAnswer
<1>2. ASSUME NEW c, Start(c) PROVE NoHalfAnswer'
  <2>1. ASSUME Return(c.api, Fails("PARAM")) PROVE NoHalfAnswer'
    BY <2>1, ProperOnes, ReturnHandsOut
  <2> QED
    BY <1>1, <1>2, <2>1 DEF Start, Sends
<1>3. ASSUME NEW l, Notified(l) PROVE NoHalfAnswer'
  <2>1. last'.api = "ec200_sms_parse_notification"
    BY <1>3 DEF Notified, Result
  <2> QED
    BY <2>1 DEF NoHalfAnswer
<1>4. CASE ReadsLine
  <2>1. UNCHANGED last \/ \E status : CommandEnds(call, status)
    BY <1>4 DEF ReadsLine, Notes
  <2> QED
    BY <1>1, <2>1, CommandEndsHandsOut
<1>5. CASE ReadsResult
  <2>1. UNCHANGED last \/ \E c, status : CommandEnds(c, status)
    BY <1>5 DEF ReadsResult, Notes
  <2> QED
    BY <1>1, <2>1, CommandEndsHandsOut
<1>6. CASE TimesOut
  BY <1>6, CommandEndsHandsOut DEF TimesOut
<1>7. CASE ModuleObeys \/ ModuleRefuses \/ CodecStep \/ UNCHANGED settingVars
  BY <1>1, <1>7 DEF ModuleObeys, ModuleRefuses, CodecStep, settingVars
<1> QED
  BY <1>2, <1>3, <1>4, <1>5, <1>6, <1>7 DEF SettingsNext

\* A query that fails has put nothing of the reply into the caller's structure:
\* the parsers of the component files fill it only when all of the line is
\* understood (parse_reg_status, ec200_gnss_get_location, ...), whatever lines
\* the module or a call before have left in the stream.
THEOREM NoHalfAnswerHolds == SettingsSpec => []NoHalfAnswer
<1>1. SettingsInit => NoHalfAnswer
  <2>1. SettingsInit => last.st = "OK"
    BY ProperOnes DEF SettingsInit, Result
  <2> QED
    BY <2>1 DEF NoHalfAnswer
<1> QED
  BY <1>1, NoHalfAnswerNext, PTL DEF SettingsSpec

-----------------------------------------------------------------------------
(* The settings after some of the commands.                                  *)

\* The least of some numbers.
LEMMA LeastNat ==
    ASSUME NEW T \in SUBSET Nat, T # {}
    PROVE  \E x \in T : \A y \in T : x <= y
<1> DEFINE R == OpToRel(<, Nat)
<1>1. IsWellFoundedOn(R, Nat)
  BY NatLessThanWellFounded
<1>2. \E x \in T : \A y \in T : ~(<<y, x>> \in R)
  <2> HIDE DEF R
  <2> QED
    BY <1>1, WFMin
<1>3. \A x, y \in Nat : <<y, x>> \notin R => x <= y
  BY DEF OpToRel
<1> HIDE DEF R
<1> QED
  BY <1>2, <1>3

\* f has the settings after each of the first n commands of s.
Obeys(k, s, n, f) ==
    f = [i \in 0..n |-> IF i = 0 THEN k ELSE Obeyed(f[i - 1], s[i])]

LEMMA ObeysNext ==
    ASSUME NEW k, NEW s, NEW n \in Nat \ {0}, NEW f, Obeys(k, s, n - 1, f)
    PROVE  \E g : Obeys(k, s, n, g)
<1> DEFINE g == [i \in 0..n |-> IF i = n THEN Obeyed(f[n - 1], s[n]) ELSE f[i]]
<1>1. ASSUME NEW i \in 0..n
      PROVE  g[i] = IF i = 0 THEN k ELSE Obeyed(g[i - 1], s[i])
  <2>1. CASE i = 0
    <3>1. 0 \in 0..(n - 1) /\ 0 # n
      OBVIOUS
    <3>2. f[0] = k
      BY <3>1 DEF Obeys
    <3> QED
      BY <2>1, <3>1, <3>2
  <2>2. CASE i # 0 /\ i # n
    <3>1. i \in 0..(n - 1) /\ i - 1 \in 0..n /\ i - 1 # n
      BY <2>2
    <3>2. f[i] = Obeyed(f[i - 1], s[i])
      BY <2>2, <3>1 DEF Obeys
    <3>3. g[i] = f[i] /\ g[i - 1] = f[i - 1]
      BY <2>2, <3>1
    <3> QED
      BY <2>2, <3>2, <3>3
  <2>3. CASE i = n
    <3>1. n - 1 \in 0..n /\ n - 1 # n /\ n # 0
      OBVIOUS
    <3>2. g[n] = Obeyed(f[n - 1], s[n]) /\ g[n - 1] = f[n - 1]
      BY <3>1
    <3> QED
      BY <2>3, <3>1, <3>2
  <2> QED
    BY <2>1, <2>2, <2>3
<1>2. g = [i \in 0..n |-> g[i]]
  OBVIOUS
<1> HIDE DEF g
<1>3. g = [i \in 0..n |-> IF i = 0 THEN k ELSE Obeyed(g[i - 1], s[i])]
  BY <1>1, <1>2, Zenon
<1> QED
  BY <1>3 DEF Obeys

LEMMA ObeysExists ==
    ASSUME NEW k, NEW s, NEW n \in Nat
    PROVE  \E f : Obeys(k, s, n, f)
<1> DEFINE P(m) == \E f : Obeys(k, s, m, f)
           T == {m \in Nat : ~P(m)}
<1> SUFFICES ASSUME T # {} PROVE FALSE
  OBVIOUS
<1>1. T \in SUBSET Nat
  OBVIOUS
<1>2. PICK m \in T : \A j \in T : m <= j
  BY <1>1, LeastNat
<1>3. m \in Nat /\ ~P(m)
  OBVIOUS
<1>4. m # 0
  <2>1. Obeys(k, s, 0, [i \in 0..0 |-> k])
    BY DEF Obeys
  <2> QED
    BY <1>3, <2>1
<1>5. m - 1 \in Nat /\ ~(m <= m - 1) /\ m \in Nat \ {0}
  BY <1>3, <1>4
<1>6. P(m - 1)
  BY <1>2, <1>5
<1>7. PICK f : Obeys(k, s, m - 1, f)
  BY <1>6
<1>8. P(m)
  BY <1>5, <1>7, ObeysNext
<1> QED
  BY <1>3, <1>8

LEMMA ObeyingIs ==
    ASSUME NEW k, NEW s, Len(s) \in Nat
    PROVE  /\ Obeying(k, s, 0) = k
           /\ \A n \in 1..Len(s) : Obeying(k, s, n) = Obeyed(Obeying(k, s, n - 1), s[n])
<1> DEFINE f == CHOOSE g : Obeys(k, s, Len(s), g)
<1>1. Obeys(k, s, Len(s), f)
  BY ObeysExists
<1>2. \A n : Obeying(k, s, n) = f[n]
  BY Zenon DEF Obeying, Obeys
<1> HIDE DEF f
<1>3. f[0] = k
  BY <1>1 DEF Obeys
<1>4. ASSUME NEW n \in 1..Len(s) PROVE f[n] = Obeyed(f[n - 1], s[n])
  <2>1. n \in 0..Len(s) /\ n # 0
    OBVIOUS
  <2> QED
    BY <1>1, <2>1 DEF Obeys
<1> QED
  BY <1>2, <1>3, <1>4, Zenon

-----------------------------------------------------------------------------
(* The calls there are.  Asking changes nothing in the module; a setting is  *)
(* made by commands whose calls wait for the final result, or for one line   *)
(* and the final result; two commands bring about a result line, too.        *)

\* Commands that change nothing, and one of them.
Asker(c) == c.does \in {"ask", "get"}
Askers(s) == \E T : s \in Seq(T) /\ \A c \in T : Asker(c)
Asks(commands) == \E a : commands = <<a>> /\ Asker(a)

\* Commands that are waited for to their final result, and leave the verdict of
\* a time server alone.
Setter(c) == c.loop \in {"final", "prefix"} /\ c.does # "ask" /\ c.key # "qntp"
Setters(commands) == \E T : commands \in Seq(T) /\ \A c \in T : Setter(c)

NtpSync == <<Await("sync", "qntp")>>

\* Names with a meaning of their own.
Special == {"none", "ec200_net_get_signal_ext", "ec200_sim_get_iccid", "ec200_file_exists",
            "ec200_http_get", "ec200_time_sync_ntp"}

LEMMA AskIs ==
    /\ \A key : Asker(Ask(key)) /\ Asker(AskBody(key))
    /\ Asker(Await("get", "qhttpget"))
BY DEF Ask, AskBody, Await, Command, Asker

LEMMA SetterIs ==
    /\ \A key, val : key # "qntp" => Setter(Set(key, val))
    /\ \A key : key # "qntp" => Setter(Delete(key))
    /\ \A val : Setter(Command("tell", "cpms", val, "prefix"))
    /\ Setter(Command("sent", "slot", <<>>, "prefix"))
    /\ Setter(Command("off", "cfun", <<>>, "final"))
    /\ \A does, key, val : does # "ask" /\ key # "qntp" => Setter(Command(does, key, val, "final"))
BY DEF Setter, Set, Delete, Command

LEMMA NoneSetters == Setters(<<>>)
<1> DEFINE T == {}
<1>1. <<>> \in Seq(T) /\ \A c \in T : Setter(c)
  BY EmptySeq
<1> HIDE DEF T
<1> QED
  BY <1>1, Zenon DEF Setters

LEMMA OneSetter == ASSUME NEW c, Setter(c) PROVE Setters(<<c>>)
<1> DEFINE T == {c}
<1>1. <<c>> \in Seq(T) /\ \A d \in T : Setter(d)
  OBVIOUS
<1> HIDE DEF T
<1> QED
  BY <1>1, Zenon DEF Setters

LEMMA ThreeSetters ==
    ASSUME NEW a, NEW b, NEW c, Setter(a), Setter(b), Setter(c)
    PROVE  Setters(<<a, b>>) /\ Setters(<<a, b, c>>)
<1> DEFINE T == {a, b, c}
<1>1. <<a, b>> \in Seq(T) /\ <<a, b, c>> \in Seq(T) /\ \A d \in T : Setter(d)
  OBVIOUS
<1> HIDE DEF T
<1> QED
  BY <1>1, Zenon DEF Setters

LEMMA ConcatSetters ==
    ASSUME NEW s, NEW t, Setters(s), Setters(t) PROVE Setters(s \o t)
<1>1. PICK S : s \in Seq(S) /\ \A c \in S : Setter(c)
  BY DEF Setters
<1>2. PICK T : t \in Seq(T) /\ \A c \in T : Setter(c)
  BY DEF Setters
<1>3. s \in Seq(S \cup T) /\ t \in Seq(S \cup T)
  BY <1>1, <1>2
<1>4. s \o t \in Seq(S \cup T)
  BY <1>3, ConcatProperties
<1>5. \A c \in S \cup T : Setter(c)
  BY <1>1, <1>2
<1> QED
  BY <1>4, <1>5, Zenon DEF Setters

LEMMA CheckedSetters ==
    ASSUME NEW ok, NEW s, Setters(s) PROVE Setters(Checked(ok, s))
BY NoneSetters DEF Checked

\* Len and the elements of a sequence of setters.
LEMMA SettersAre ==
    ASSUME NEW s, Setters(s)
    PROVE  Len(s) \in Nat /\ \A i \in 1..Len(s) : Setter(s[i])
<1>1. PICK T : s \in Seq(T) /\ \A c \in T : Setter(c)
  BY DEF Setters
<1>2. Len(s) \in Nat /\ \A i \in 1..Len(s) : s[i] \in T
  BY <1>1
<1> QED
  BY <1>1, <1>2

LEMMA SettingSetters == \A key, val : key # "qntp" => Setters(<<Set(key, val)>>)
BY SetterIs, OneSetter, Zenon

LEMMA Setting ==
    /\ \A level, reset : Setters(ec200_power_set_cfun(level, reset))
    /\ Setters(ec200_power_reset) /\ Setters(ec200_power_down)
    /\ \A b : Setters(ec200_power_set_sleep(b)) /\ Setters(ec200_net_set_attached(b))
    /\ Setters(ec200_psm_disable)
    /\ \A b, t, a : Setters(ec200_psm_set(b, t, a))
    /\ \A b, act, r : Setters(ec200_edrx_set(b, act, r))
    /\ \A mode, format, oper, act : Setters(ec200_net_set_operator(mode, format, oper, act))
    /\ \A dt : Setters(ec200_time_set(dt))
    /\ \A b : Setters(ec200_time_set_auto_update(b))
<1>1. \A level, reset : Setters(ec200_power_set_cfun(level, reset))
  <2> TAKE level, reset
  <2>1. \A does : does # "ask" => Setter(Command(does, "cfun", <<Num(level)>>, "final"))
    BY SetterIs
  <2>2. Setter(Command(IF reset THEN "restart" ELSE "set", "cfun", <<Num(level)>>, "final"))
    BY <2>1
  <2> QED
    BY <2>2, OneSetter, Zenon DEF ec200_power_set_cfun
<1>2. Setters(ec200_power_reset) /\ Setters(ec200_power_down)
  BY <1>1, SetterIs, OneSetter, Zenon DEF ec200_power_reset, ec200_power_down
<1>3. \A b : Setters(ec200_power_set_sleep(b)) /\ Setters(ec200_net_set_attached(b))
  BY SettingSetters, Zenon DEF ec200_power_set_sleep, ec200_net_set_attached
<1>4. Setters(ec200_psm_disable)
  BY SettingSetters, Zenon DEF ec200_psm_disable
<1>5. \A b, t, a : Setters(ec200_psm_set(b, t, a))
  BY <1>4, SettingSetters, CheckedSetters, Zenon DEF ec200_psm_set
<1>6. \A b, act, r : Setters(ec200_edrx_set(b, act, r))
  BY SettingSetters, CheckedSetters, Zenon DEF ec200_edrx_set, ec200_edrx_disable
<1>7. \A mode, format, oper, act : Setters(ec200_net_set_operator(mode, format, oper, act))
  BY SettingSetters, CheckedSetters, Zenon DEF ec200_net_set_operator
<1>8. \A dt : Setters(ec200_time_set(dt))
  BY SettingSetters, CheckedSetters, Zenon DEF ec200_time_set
<1>9. \A b : Setters(ec200_time_set_auto_update(b))
  BY SettingSetters, Zenon DEF ec200_time_set_auto_update
<1> QED
  BY <1>1, <1>2, <1>3, <1>4, <1>5, <1>6, <1>7, <1>8, <1>9

LEMMA MoreSetting ==
    /\ \A mems : Setters(ec200_sms_set_storage_commands(mems))
    /\ \A f : Setters(ec200_sms_set_format(f)) /\ Setters(ec200_sms_set_smsc(f))
    /\ \A v : Setters(ec200_sms_set_indication(v))
    /\ \A n : Setters(ec200_sms_delete(n)) /\ Setters(ec200_sms_delete_all(n))
    /\ \A n : Setters(ec200_sms_send_stored_commands(n))
    /\ \A pin : Setters(ec200_sim_enter_pin(pin))
    /\ \A b : Setters(ec200_set_echo(b)) /\ Setters(ec200_set_cmee(b))
    /\ Setters(ec200_gnss_start) /\ Setters(ec200_gnss_stop)
    /\ \A t : Setters(ec200_gnss_set_nmea_output(t))
    /\ \A name : Setters(ec200_file_delete(name))
<1>1. \A mems : Setters(ec200_sms_set_storage_commands(mems))
  BY SetterIs, OneSetter, CheckedSetters, Zenon DEF ec200_sms_set_storage_commands
<1>2. \A f : Setters(ec200_sms_set_format(f)) /\ Setters(ec200_sms_set_smsc(f))
  BY SettingSetters, CheckedSetters, Zenon DEF ec200_sms_set_format, ec200_sms_set_smsc
<1>3. \A v : Setters(ec200_sms_set_indication(v))
  BY SettingSetters, CheckedSetters, Zenon DEF ec200_sms_set_indication
<1>4. \A n : Setters(ec200_sms_delete(n)) /\ Setters(ec200_sms_delete_all(n))
  BY SetterIs, OneSetter, CheckedSetters, Zenon DEF ec200_sms_delete, ec200_sms_delete_all
<1>5. \A n : Setters(ec200_sms_send_stored_commands(n))
  BY SetterIs, OneSetter, CheckedSetters, Zenon DEF ec200_sms_send_stored_commands
<1>6. \A pin : Setters(ec200_sim_enter_pin(pin))
  BY SettingSetters, CheckedSetters, Zenon DEF ec200_sim_enter_pin
<1>7. \A b : Setters(ec200_set_echo(b)) /\ Setters(ec200_set_cmee(b))
  BY SettingSetters, CheckedSetters, Zenon DEF ec200_set_echo, ec200_set_cmee
<1>8. Setters(ec200_gnss_start) /\ Setters(ec200_gnss_stop)
  BY SettingSetters, Zenon DEF ec200_gnss_start, ec200_gnss_stop
<1>9. \A t : Setters(ec200_gnss_set_nmea_output(t))
  BY SetterIs, ThreeSetters, Zenon DEF ec200_gnss_set_nmea_output
<1>10. \A name : Setters(ec200_file_delete(name))
  BY SetterIs, OneSetter, CheckedSetters, Zenon DEF ec200_file_delete
<1> QED
  BY <1>1, <1>2, <1>3, <1>4, <1>5, <1>6, <1>7, <1>8, <1>9, <1>10

LEMMA ContextSetting ==
    /\ \A v, l, ca, cert, key : Setters(ec200_ssl_configure(v, l, ca, cert, key))
    /\ \A l : Setters(ec200_ssl_set_seclevel(l))
    /\ \A n : Setters(ec200_http_set_context(n)) /\ Setters(ec200_http_set_ssl_context(n))
    /\ \A cid, apn, user : Setters(ec200_data_set_pdp(cid, apn, user))
    /\ \A cid : Setters(ec200_data_activate(cid)) /\ Setters(ec200_data_deactivate(cid))
<1>1. \A v, l, ca, cert, key : Setters(ec200_ssl_configure(v, l, ca, cert, key))
  <2> TAKE v, l, ca, cert, key
  <2>1. \A k, f : k # "qntp" => Setters(cfg_file(k, f))
    BY NoneSetters, SettingSetters, Zenon DEF cfg_file
  <2>2. \A k, a, m, b : k # "qntp" /\ m # "qntp" => Setters(<<Set(k, a), Set(m, b)>>)
    BY SetterIs, ThreeSetters, Zenon
  <2>3. \A k, a, m, b, o, c : k # "qntp" /\ m # "qntp" /\ o # "qntp" =>
            Setters(<<Set(k, a), Set(m, b), Set(o, c)>>)
    BY SetterIs, ThreeSetters, Zenon
  <2> DEFINE all == <<Set("sslversion", <<Num(v)>>), Set("ciphersuite", <<Num(65535)>>),
                      Set("seclevel", <<Num(l)>>)>>
                    \o cfg_file("cacert", ca) \o cfg_file("clientcert", cert)
                    \o cfg_file("clientkey", key)
                    \o <<Set("ignorelocaltime", <<Num(1)>>), Set("sni", <<Num(1)>>)>>
  <2>4. Setters(all)
    BY <2>1, <2>2, <2>3, ConcatSetters
  <2> DEFINE ok == /\ v \in 0..4 /\ l \in 0..2
                   /\ l >= 1 => ca.num > 0
                   /\ l = 2 => cert.num > 0 /\ key.num > 0
  <2>5. ec200_ssl_configure(v, l, ca, cert, key) = Checked(ok, all)
    BY DEF ec200_ssl_configure
  <2> HIDE DEF all, ok
  <2> QED
    BY <2>4, <2>5, CheckedSetters
<1>2. \A l : Setters(ec200_ssl_set_seclevel(l))
  BY SettingSetters, CheckedSetters, Zenon DEF ec200_ssl_set_seclevel
<1>3. \A n : Setters(ec200_http_set_context(n)) /\ Setters(ec200_http_set_ssl_context(n))
  BY SettingSetters, CheckedSetters, Zenon DEF ec200_http_set_context, ec200_http_set_ssl_context
<1>4. \A cid, apn, user : Setters(ec200_data_set_pdp(cid, apn, user))
  BY NoneSetters, SettingSetters, ConcatSetters, CheckedSetters, Zenon DEF ec200_data_set_pdp
<1>5. \A cid : Setters(ec200_data_activate(cid)) /\ Setters(ec200_data_deactivate(cid))
  BY SettingSetters, CheckedSetters, Zenon DEF ec200_data_activate, ec200_data_deactivate
<1> QED
  BY <1>1, <1>2, <1>3, <1>4, <1>5

\* The calls an application may make: none of them is called "none".
Plainly(c) ==
    \/ c.commands = <<>>
    \/ Asks(c.commands) /\ c.api # "none"
    \/ Setters(c.commands) /\ c.api \notin Special
Syncs(c) == c.commands = NtpSync /\ c.api = "ec200_time_sync_ntp"

LEMMA CallIs ==
    \A api, commands, sz :
        /\ Call(api, commands).api = api /\ Call(api, commands).commands = commands
        /\ CallInto(api, commands, sz).api = api
        /\ CallInto(api, commands, sz).commands = commands
BY DEF Call, CallInto

LEMMA SettingShaped ==
    \A api, commands : Setters(commands) /\ api \notin Special => Plainly(Call(api, commands))
BY CallIs DEF Plainly

LEMMA AskingShaped ==
    \A api, a, sz : Asker(a) /\ api # "none" =>
        Plainly(Call(api, <<a>>)) /\ Plainly(CallInto(api, <<a>>, sz))
<1> TAKE api, a, sz
<1> SUFFICES ASSUME Asker(a), api # "none"
             PROVE  Plainly(Call(api, <<a>>)) /\ Plainly(CallInto(api, <<a>>, sz))
  OBVIOUS
<1>1. Asks(<<a>>)
  BY DEF Asks
<1> QED
  BY <1>1, CallIs DEF Plainly

LEMMA PlainShaped ==
    \A key, apis : "none" \notin apis => \A c \in Plain(key, apis) : Plainly(c)
<1> TAKE key, apis
<1> SUFFICES ASSUME "none" \notin apis, NEW c \in Plain(key, apis)
             PROVE  Plainly(c)
  OBVIOUS
<1>1. PICK api \in apis : c = Call(api, <<Ask(key)>>)
  BY DEF Plain
<1>2. api # "none" /\ Asker(Ask(key))
  BY <1>1, AskIs
<1> QED
  BY <1>1, <1>2, AskingShaped

LEMMA SizedShaped ==
    \A api, a, sizes : api # "none" /\ Asker(a) => \A c \in Sized(api, a, sizes) : Plainly(c)
BY AskingShaped, Zenon DEF Sized

LEMMA SyncIs ==
    \A ctx, server :
        LET c == Call("ec200_time_sync_ntp", ec200_time_sync_ntp_commands(ctx, server))
        IN  Plainly(c) \/ Syncs(c)
BY CallIs DEF Plainly, Syncs, ec200_time_sync_ntp_commands, Checked, NtpSync

LEMMA PowerSettingsPlain == \A c \in PowerSettings : Plainly(c)
<1> DEFINE F(level, reset) ==
               Call("ec200_power_set_cfun", ec200_power_set_cfun(level, reset))
           G(t, a) == Call("ec200_psm_set", ec200_psm_set(TRUE, t, a))
           H(enabled, act, r) == Call("ec200_edrx_set", ec200_edrx_set(enabled, act, r))
           S == {F(level, reset) : level \in {0, 4}, reset \in BOOLEAN}
           T == {Call("ec200_power_reset", ec200_power_reset),
                 Call("ec200_power_down", ec200_power_down),
                 Call("ec200_psm_disable", ec200_psm_disable),
                 Call("ec200_power_set_sleep", ec200_power_set_sleep(TRUE))}
           U == {G(t, a) : t \in Bits, a \in Bits}
           V == {H(enabled, act, r) :
                     enabled \in BOOLEAN, act \in {1, 2, 5},
                     r \in {Str("cycle", 4), Str("long", 5)}}
<1>1. \A level, reset : Plainly(F(level, reset))
  <2>1. "ec200_power_set_cfun" \notin Special
    BY DEF Special
  <2> QED
    BY <2>1, Setting, SettingShaped, Zenon
<1>2. \A t, a : Plainly(G(t, a))
  <2>1. "ec200_psm_set" \notin Special
    BY DEF Special
  <2> QED
    BY <2>1, Setting, SettingShaped, Zenon
<1>3. \A enabled, act, r : Plainly(H(enabled, act, r))
  <2>1. "ec200_edrx_set" \notin Special
    BY DEF Special
  <2> QED
    BY <2>1, Setting, SettingShaped, Zenon
<1>4. PowerSettings = S \cup T \cup U \cup V
  BY DEF PowerSettings
<1> HIDE DEF F, G, H
<1>5. \A c \in S : Plainly(c)
  BY <1>1
<1>6. \A c \in T : Plainly(c)
  BY Setting, SettingShaped DEF Special
<1>7. \A c \in U : Plainly(c)
  BY <1>2
<1>8. \A c \in V : Plainly(c)
  BY <1>3
<1> HIDE DEF S, T, U, V
<1> QED
  BY <1>4, <1>5, <1>6, <1>7, <1>8

LEMMA PowerQueriesPlain == \A c \in PowerQueries : Plainly(c)
<1>1. \A c \in Plain("cfun", {"ec200_power_get_cfun"}) : Plainly(c)
  BY PlainShaped
<1>2. \A c \in Plain("cpsms", {"ec200_psm_get"}) : Plainly(c)
  BY PlainShaped
<1>3. \A c \in Plain("cedrxs", {"ec200_edrx_get"}) : Plainly(c)
  BY PlainShaped
<1>4. \A c \in Plain("cedrxrdp", {"ec200_edrx_get_dynamic"}) : Plainly(c)
  BY PlainShaped
<1> QED
  BY <1>1, <1>2, <1>3, <1>4, Zenon DEF PowerQueries

LEMMA NetworkSettingsPlain == \A c \in NetworkSettings : Plainly(c)
<1> DEFINE F(mode, oper) ==
               Call("ec200_net_set_operator", ec200_net_set_operator(mode, 2, oper, 7))
           names == {Str("", 0), Str("40404", 5), Str("long", 32)}
           S == {F(mode, oper) : mode \in {0, 1, 2}, oper \in names}
           T == {Call("ec200_net_set_attached", ec200_net_set_attached(b)) : b \in BOOLEAN}
<1>1. \A mode, oper : Plainly(F(mode, oper))
  <2>1. "ec200_net_set_operator" \notin Special
    BY DEF Special
  <2> QED
    BY <2>1, Setting, SettingShaped, Zenon
<1>2. NetworkSettings = S \cup T
  BY DEF NetworkSettings
<1> HIDE DEF F, names
<1>3. \A c \in S : Plainly(c)
  BY <1>1
<1>4. \A c \in T : Plainly(c)
  BY Setting, SettingShaped DEF Special
<1> HIDE DEF S, T
<1> QED
  BY <1>2, <1>3, <1>4

LEMMA NetworkQueriesPlain == \A c \in NetworkQueries : Plainly(c)
<1>1. \A c \in Plain("csq", {"ec200_net_get_signal"}) : Plainly(c)
  BY PlainShaped
<1>2. \A c \in Plain("qcsq", {"ec200_net_get_signal_ext"}) : Plainly(c)
  BY PlainShaped
<1>3. \A c \in Plain("cops", {"ec200_net_get_operator"}) : Plainly(c)
  BY PlainShaped
<1>4. \A c \in Plain("qnwinfo", {"ec200_net_get_info"}) : Plainly(c)
  BY PlainShaped
<1>5. \A c \in Plain("cgatt", {"ec200_net_is_attached"}) : Plainly(c)
  BY PlainShaped
<1>6. \A c \in Plain("creg", {"ec200_net_get_creg"}) : Plainly(c)
  BY PlainShaped
<1>7. \A c \in Plain("cgreg", {"ec200_net_get_cgreg"}) : Plainly(c)
  BY PlainShaped
<1>8. \A c \in Plain("cereg", {"ec200_net_get_cereg"}) : Plainly(c)
  BY PlainShaped
<1>9. \A c \in Sized("ec200_net_get_spn", Ask("qspn"), {8, 16}) : Plainly(c)
  BY AskIs, SizedShaped
<1> QED
  BY <1>1, <1>2, <1>3, <1>4, <1>5, <1>6, <1>7, <1>8, <1>9, Zenon DEF NetworkQueries

LEMMA ClockSettingsPlain == \A c \in ClockSettings : Plainly(c) \/ Syncs(c)
<1> DEFINE F(ctx, server) ==
               Call("ec200_time_sync_ntp", ec200_time_sync_ntp_commands(ctx, server))
           S == {Call("ec200_time_set", ec200_time_set(dt)) : dt \in Dates}
           T == {Call("ec200_time_set_auto_update", ec200_time_set_auto_update(TRUE))}
           U == {F(ctx, server) :
                     ctx \in {0, 1}, server \in {Str("server", 12), Str("long", 256)}}
<1>1. \A ctx, server : Plainly(F(ctx, server)) \/ Syncs(F(ctx, server))
  BY SyncIs, Zenon
<1>2. ClockSettings = S \cup T \cup U
  BY DEF ClockSettings
<1> HIDE DEF F
<1>3. \A c \in S : Plainly(c) \/ Syncs(c)
  BY Setting, SettingShaped DEF Special
<1>4. \A c \in T : Plainly(c) \/ Syncs(c)
  BY Setting, SettingShaped DEF Special
<1>5. \A c \in U : Plainly(c) \/ Syncs(c)
  BY <1>1
<1> HIDE DEF S, T, U
<1> QED
  BY <1>2, <1>3, <1>4, <1>5

LEMMA ClockQueriesPlain == \A c \in ClockQueries : Plainly(c)
<1>1. \A c \in Plain("cclk", {"ec200_time_get"}) : Plainly(c)
  BY PlainShaped
<1>2. \A c \in Plain("qlts", {"ec200_time_get_network"}) : Plainly(c)
  BY PlainShaped
<1> QED
  BY <1>1, <1>2, Zenon DEF ClockQueries

LEMMA SmsSettingsPlain == \A c \in SmsSettings : Plainly(c)
<1>1. \A c \in {Call("ec200_sms_set_storage",
                     ec200_sms_set_storage_commands(<<"SM", w, "ME">>)) :
                    w \in mem_strings} : Plainly(c)
  BY MoreSetting, SettingShaped DEF Special
<1>2. \A c \in {Call("ec200_sms_set_format", ec200_sms_set_format(format)) :
                    format \in 1..2} : Plainly(c)
  BY MoreSetting, SettingShaped DEF Special
<1>3. \A c \in {Call("ec200_sms_set_smsc", ec200_sms_set_smsc(number)) :
                    number \in {Str("", 0), Str("other", 19), Str("long", 20)}} : Plainly(c)
  BY MoreSetting, SettingShaped DEF Special
<1>4. \A c \in {Call("ec200_sms_set_indication", ec200_sms_set_indication(v)) :
                    v \in {<<2, 1, 0, 2, 1>>, <<2, 1, 0, 2, 2>>}} : Plainly(c)
  BY MoreSetting, SettingShaped DEF Special
<1>5. \A c \in {Call("ec200_sms_delete", ec200_sms_delete(index)) :
                    index \in {-1, 0}} : Plainly(c)
  BY MoreSetting, SettingShaped DEF Special
<1>6. \A c \in {Call("ec200_sms_delete_all", ec200_sms_delete_all(flag)) :
                    flag \in {0, 4, 5}} : Plainly(c)
  BY MoreSetting, SettingShaped DEF Special
<1>7. \A c \in {Call("ec200_sms_send_stored", ec200_sms_send_stored_commands(index)) :
                    index \in {-1, 0}} : Plainly(c)
  BY MoreSetting, SettingShaped DEF Special
<1> QED
  BY <1>1, <1>2, <1>3, <1>4, <1>5, <1>6, <1>7, Zenon DEF SmsSettings

LEMMA SmsQueriesPlain == \A c \in SmsQueries : Plainly(c)
<1>1. \A c \in Plain("cpms", {"ec200_sms_get_storage"}) : Plainly(c)
  BY PlainShaped
<1>2. \A c \in Plain("cnmi", {"ec200_sms_get_indication"}) : Plainly(c)
  BY PlainShaped
<1>3. \A c \in Sized("ec200_sms_get_smsc", Ask("csca"), {12, 20}) : Plainly(c)
  BY AskIs, SizedShaped
<1>4. \A c \in {Call("ec200_sms_read", <<AskBody("slot")>>),
                Call("ec200_sms_read", <<>>)} : Plainly(c)
  BY AskIs, AskingShaped, CallIs DEF Plainly, ec200_http_get
<1> QED
  BY <1>1, <1>2, <1>3, <1>4, Zenon DEF SmsQueries

LEMMA IdentitySettingsPlain == \A c \in IdentitySettings : Plainly(c)
<1>1. \A c \in {Call("ec200_sim_enter_pin", ec200_sim_enter_pin(pin)) :
                    pin \in {Str("", 0), Str("1234", 4), Str("long", 9)}} : Plainly(c)
  BY MoreSetting, SettingShaped DEF Special
<1>2. \A c \in {Call("ec200_set_echo", ec200_set_echo(b)) : b \in BOOLEAN} : Plainly(c)
  BY MoreSetting, SettingShaped DEF Special
<1>3. \A c \in {Call("ec200_set_cmee", ec200_set_cmee(mode)) : mode \in 2..3} : Plainly(c)
  BY MoreSetting, SettingShaped DEF Special
<1> QED
  BY <1>1, <1>2, <1>3, Zenon DEF IdentitySettings

LEMMA IdentityQueriesPlain == \A c \in IdentityQueries : Plainly(c)
<1>1. \A c \in Plain("cpin", {"ec200_sim_get_status"}) : Plainly(c)
  BY PlainShaped
<1>2. \A c \in Sized("ec200_sim_get_iccid", Ask("iccid"), {20, 21, 32}) : Plainly(c)
  BY AskIs, SizedShaped
<1>3. \A c \in Sized("ec200_sim_get_imsi", AskBody("imsi"), {15, 16}) : Plainly(c)
  BY AskIs, SizedShaped
<1>4. \A c \in Sized("ec200_get_imei", AskBody("imei"), {15, 16}) : Plainly(c)
  BY AskIs, SizedShaped
<1>5. \A c \in Sized("ec200_get_fw_version", AskBody("version"), {24, 64}) : Plainly(c)
  BY AskIs, SizedShaped
<1> QED
  BY <1>1, <1>2, <1>3, <1>4, <1>5, Zenon DEF IdentityQueries

LEMMA GnssSettingsPlain == \A c \in GnssSettings : Plainly(c)
<1>1. \A c \in {Call("ec200_gnss_start", ec200_gnss_start),
                Call("ec200_gnss_stop", ec200_gnss_stop)} : Plainly(c)
  BY MoreSetting, SettingShaped DEF Special
<1>2. \A c \in {Call("ec200_gnss_set_nmea_output", ec200_gnss_set_nmea_output(types)) :
                    types \in {0, 31}} : Plainly(c)
  BY MoreSetting, SettingShaped DEF Special
<1> QED
  BY <1>1, <1>2, Zenon DEF GnssSettings

LEMMA GnssQueriesPlain == \A c \in GnssQueries : Plainly(c)
<1>1. \A c \in Plain("qgps", {"ec200_gnss_get_status"}) : Plainly(c)
  BY PlainShaped
<1>2. \A c \in Plain("qgpsloc", {"ec200_gnss_get_location"}) : Plainly(c)
  BY PlainShaped
<1> QED
  BY <1>1, <1>2, Zenon DEF GnssQueries

LEMMA TlsSettingsPlain == \A c \in TlsSettings : Plainly(c)
<1> DEFINE F(version, level, ca, cert, key) ==
               Call("ec200_ssl_configure", ec200_ssl_configure(version, level, ca, cert, key))
           S == {F(version, level, ca, cert, key) :
                     version \in {4, 5}, level \in 0..3, ca \in Files, cert \in Files,
                     key \in Files}
           T == {Call("ec200_ssl_set_seclevel", ec200_ssl_set_seclevel(level)) :
                     level \in 0..3}
           U == {Call("ec200_http_set_context", ec200_http_set_context(ctx)) :
                     ctx \in {0, 16}}
           V == {Call("ec200_http_set_ssl_context", ec200_http_set_ssl_context(ctx)) :
                     ctx \in {5, 6}}
<1>1. \A version, level, ca, cert, key : Plainly(F(version, level, ca, cert, key))
  <2>1. "ec200_ssl_configure" \notin Special
    BY DEF Special
  <2> QED
    BY <2>1, ContextSetting, SettingShaped, Zenon
<1>2. TlsSettings = S \cup T \cup U \cup V
  BY DEF TlsSettings
<1> HIDE DEF F
<1>3. \A c \in S : Plainly(c)
  BY <1>1
<1>4. \A c \in T : Plainly(c)
  BY ContextSetting, SettingShaped DEF Special
<1>5. \A c \in U : Plainly(c)
  BY ContextSetting, SettingShaped DEF Special
<1>6. \A c \in V : Plainly(c)
  BY ContextSetting, SettingShaped DEF Special
<1> HIDE DEF S, T, U, V
<1> QED
  BY <1>2, <1>3, <1>4, <1>5, <1>6

LEMMA TlsQueriesPlain == \A c \in TlsQueries : Plainly(c)
<1>1. \A c \in {Call("ec200_http_get", ec200_http_get)} : Plainly(c)
  BY AskIs, AskingShaped, CallIs DEF Plainly, ec200_http_get
<1> QED
  BY <1>1, Zenon DEF TlsQueries

LEMMA FileSettingsPlain == \A c \in FileSettings : Plainly(c)
<1>1. \A c \in {Call("ec200_file_delete", ec200_file_delete(name)) :
                    name \in {Str("", 0), Str("name", 63), Str("long", 64)}} : Plainly(c)
  BY MoreSetting, SettingShaped DEF Special
<1> QED
  BY <1>1, Zenon DEF FileSettings

LEMMA FileQueriesPlain == \A c \in FileQueries : Plainly(c)
<1>1. \A c \in Plain("qflst", {"ec200_file_exists", "ec200_file_size"}) : Plainly(c)
  BY PlainShaped
<1>2. \A c \in Plain("qflds", {"ec200_file_storage"}) : Plainly(c)
  BY PlainShaped
<1> QED
  BY <1>1, <1>2, Zenon DEF FileQueries

LEMMA PdpSettingsPlain == \A c \in PdpSettings : Plainly(c)
<1> DEFINE F(cid, user) ==
               Call("ec200_data_set_pdp", ec200_data_set_pdp(cid, Str("apn", 3), user))
           names == {Str("", 0), Str("user", 4)}
           S == {F(cid, user) : cid \in {0, 16}, user \in names}
           T == {Call("ec200_data_activate", ec200_data_activate(cid)) : cid \in 16..17}
           U == {Call("ec200_data_deactivate", ec200_data_deactivate(cid)) : cid \in 16..17}
<1>1. \A cid, user : Plainly(F(cid, user))
  <2>1. "ec200_data_set_pdp" \notin Special
    BY DEF Special
  <2> QED
    BY <2>1, ContextSetting, SettingShaped, Zenon
<1>2. PdpSettings = S \cup T \cup U
  BY DEF PdpSettings
<1> HIDE DEF F, names
<1>3. \A c \in S : Plainly(c)
  BY <1>1
<1>4. \A c \in T : Plainly(c)
  BY ContextSetting, SettingShaped DEF Special
<1>5. \A c \in U : Plainly(c)
  BY ContextSetting, SettingShaped DEF Special
<1> HIDE DEF S, T, U
<1> QED
  BY <1>2, <1>3, <1>4, <1>5

LEMMA PdpQueriesPlain == \A c \in PdpQueries : Plainly(c)
<1>1. \A c \in Sized("ec200_data_get_ip", Ask("cgpaddr"), {8, 16}) : Plainly(c)
  BY AskIs, SizedShaped
<1> QED
  BY <1>1, Zenon DEF PdpQueries

LEMMA CallsShaped ==
    ASSUME NEW g \in DOMAIN Initially, NEW c \in CallsOf(g)
    PROVE  Plainly(c) \/ (g = "clock" /\ Syncs(c))
<1>1. g \in {"power", "network", "clock", "sms", "identity", "gnss", "tls", "file", "pdp"}
  BY DEF Initially
<1>2. c \in SettingsOf[g] \/ c \in QueriesOf[g]
  BY DEF CallsOf
<1>3. CASE c \in SettingsOf[g]
  BY <1>1, <1>3, PowerSettingsPlain, NetworkSettingsPlain, ClockSettingsPlain,
     SmsSettingsPlain, IdentitySettingsPlain, GnssSettingsPlain, TlsSettingsPlain,
     FileSettingsPlain, PdpSettingsPlain
     DEF SettingsOf
<1>4. CASE c \in QueriesOf[g]
  BY <1>1, <1>4, PowerQueriesPlain, NetworkQueriesPlain, ClockQueriesPlain,
     SmsQueriesPlain, IdentityQueriesPlain, GnssQueriesPlain, TlsQueriesPlain,
     FileQueriesPlain, PdpQueriesPlain
     DEF QueriesOf
<1> QED
  BY <1>2, <1>3, <1>4

-----------------------------------------------------------------------------
(* The groups.  The settings a module holds have the names of one group.     *)

\* A set of settings with the same names, none of them the verdict of a server.
Uniform(S) == \A i, k \in S : DOMAIN i = DOMAIN k
Serverless(S) == \A k \in S : "qntp" \notin DOMAIN k

LEMMA PowerNames == Uniform(PowerKept) /\ Serverless(PowerKept)
<1> DEFINE names == {"cfun", "qsclk", "cpsms", "cedrxs", "cedrxrdp"}
<1> SUFFICES \A k \in PowerKept : DOMAIN k = names
  BY DEF Uniform, Serverless
<1>1. \A A, B, C, D, E :
          \A k \in [cfun : A, qsclk : B, cpsms : C, cedrxs : D, cedrxrdp : E] :
              DOMAIN k = names
  OBVIOUS
<1> QED
  BY <1>1, Zenon DEF PowerKept

LEMMA NetworkNames == Uniform(NetworkKept) /\ Serverless(NetworkKept)
<1> DEFINE names == {"cops", "cgatt", "csq", "qcsq", "qnwinfo", "qspn", "creg", "cgreg",
                     "cereg"}
           A == {<<Num(0), Num(0), Str("operator", 8), Num(7)>>}
           B == {<<Num(0)>>, <<Num(1)>>}
           C == {<<Num(31), Num(0)>>, <<Num(99), Num(99)>>}
           D == {<<Str("LTE", 3), Num(-61), Num(-90), Num(12), Num(-9)>>}
           E == {<<Str("FDD LTE", 7), Str("40404", 5), Str("BAND 3", 6), Num(1650)>>,
                 <<Word("No Service", 10)>>}
           F == {<<Str("operator", 8), Str("short", 5)>>}
           G == {<<Num(2), Num(5), Str("area", 4), Str("cell", 8), Num(7)>>, <<Num(0), Num(6)>>}
           H == {<<Num(1), Num(0)>>}
           I == {<<Num(0), Num(1)>>}
<1> SUFFICES \A k \in NetworkKept : DOMAIN k = names
  BY DEF Uniform, Serverless
<1>1. NetworkKept = [cops : A, cgatt : B, csq : C, qcsq : D, qnwinfo : E, qspn : F, creg
                     : G, cgreg : H, cereg : I]
  BY DEF NetworkKept
<1> HIDE DEF A, B, C, D, E, F, G, H, I
<1> QED
  BY <1>1

LEMMA ClockNames == Uniform(ClockKept)
<1> DEFINE names == {"cclk", "ctzu", "qlts", "qntp"}
           A == {Clock(24)}
           B == {<<Num(0)>>}
           C == {Clock(24), Clock(2024)}
           D == {<<Num(0), Str("time", 20)>>, <<Num(550)>>}
<1> SUFFICES \A k \in ClockKept : DOMAIN k = names
  BY DEF Uniform
<1>1. ClockKept = [cclk : A, ctzu : B, qlts : C, qntp : D]
  BY DEF ClockKept
<1> HIDE DEF A, B, C, D
<1> QED
  BY <1>1

LEMMA SmsNames == Uniform(SmsKept) /\ Serverless(SmsKept)
<1> DEFINE names == {"cmgf", "csca", "cpms", "cnmi", "slot"}
<1> SUFFICES \A k \in SmsKept : DOMAIN k = names
  BY DEF Uniform, Serverless
<1>1. \A A, B, C, D, E :
          \A k \in [cmgf : A, csca : B, cpms : C, cnmi : D, slot : E] :
              DOMAIN k = names
  OBVIOUS
<1> QED
  BY <1>1, Zenon DEF SmsKept

LEMMA IdentityNames == Uniform(IdentityKept) /\ Serverless(IdentityKept)
<1> DEFINE names == {"cpin", "echo", "cmee", "iccid", "imsi", "imei", "version"}
<1> SUFFICES \A k \in IdentityKept : DOMAIN k = names
  BY DEF Uniform, Serverless
<1>1. \A A, B, C, D, E, F, G :
          \A k \in [cpin : A, echo : B, cmee : C, iccid : D, imsi : E, imei : F, version
                    : G] :
              DOMAIN k = names
  OBVIOUS
<1> QED
  BY <1>1, Zenon DEF IdentityKept

LEMMA GnssNames == Uniform(GnssKept) /\ Serverless(GnssKept)
<1> DEFINE names == {"qgps", "nmeasrc", "gpsnmeatype", "qgpsloc"}
           A == {<<Num(0)>>, <<Num(1)>>}
           B == {<<Num(0)>>}
           C == {<<Num(1)>>}
           D == {<<Word("hhmmss", 6), Num(12), Num(77), Num(hdop), Num(900), Num(fix),
                   Num(10), Num(20), Num(30), Word("ddmmyy", 6), Num(9)>> :
                     hdop \in {12, 999}, fix \in {0, 3}}
<1> SUFFICES \A k \in GnssKept : DOMAIN k = names
  BY DEF Uniform, Serverless
<1>1. GnssKept = [qgps : A, nmeasrc : B, gpsnmeatype : C, qgpsloc : D]
  BY DEF GnssKept
<1> HIDE DEF A, B, C, D
<1> QED
  BY <1>1

LEMMA TlsNames == Uniform(TlsKept) /\ Serverless(TlsKept)
<1> DEFINE names == {"sslversion", "ciphersuite", "seclevel", "cacert", "clientcert",
                     "clientkey", "ignorelocaltime", "sni", "contextid", "sslctxid",
                     "qhttpget"}
<1> SUFFICES \A k \in TlsKept : DOMAIN k = names
  BY DEF Uniform, Serverless
<1>1. \A A, B, C, D, E, F, G, H, I, J, K :
          \A k \in [sslversion : A, ciphersuite : B, seclevel : C, cacert : D, clientcert
                    : E, clientkey : F, ignorelocaltime : G, sni : H, contextid : I,
                    sslctxid : J, qhttpget : K] :
              DOMAIN k = names
  OBVIOUS
<1> QED
  BY <1>1, Zenon DEF TlsKept

LEMMA FileNames == Uniform(FileKept) /\ Serverless(FileKept)
<1> DEFINE names == {"qflst", "qflds"}
<1> SUFFICES \A k \in FileKept : DOMAIN k = names
  BY DEF Uniform, Serverless
<1>1. \A A, B :
          \A k \in [qflst : A, qflds : B] :
              DOMAIN k = names
  OBVIOUS
<1> QED
  BY <1>1, Zenon DEF FileKept

LEMMA PdpNames == Uniform(PdpKept) /\ Serverless(PdpKept)
<1> DEFINE names == {"cgdcont", "qicsgp", "cgact", "cgpaddr"}
<1> SUFFICES \A k \in PdpKept : DOMAIN k = names
  BY DEF Uniform, Serverless
<1>1. \A A, B, C, D :
          \A k \in [cgdcont : A, qicsgp : B, cgact : C, cgpaddr : D] :
              DOMAIN k = names
  OBVIOUS
<1> QED
  BY <1>1, Zenon DEF PdpKept

LEMMA GroupNames ==
    /\ \A g \in DOMAIN Initially : Uniform(Initially[g])
    /\ \A g \in DOMAIN Initially \ {"clock"} : Serverless(Initially[g])
BY PowerNames, NetworkNames, ClockNames, SmsNames, IdentityNames, GnssNames, TlsNames,
   FileNames, PdpNames
   DEF Initially

\* The verdict of a time server, as the module holds it.
Verdicts == {<<Num(0), Str("time", 20)>>, <<Num(550)>>}

LEMMA ClockServer ==
    /\ \A k \in Initially["clock"] : "qntp" \in DOMAIN k /\ k.qntp \in Verdicts
    /\ Initially["clock"] # {}
<1> DEFINE A == {Clock(24)}
           B == {<<Num(0)>>}
           C == {Clock(24), Clock(2024)}
<1>1. ClockKept = [cclk : A, ctzu : B, qlts : C, qntp : Verdicts]
  BY DEF ClockKept, Verdicts
<1>2. /\ Clock(24) \in A /\ <<Num(0)>> \in B /\ Clock(24) \in C
      /\ <<Num(550)>> \in Verdicts
  BY DEF Verdicts
<1> HIDE DEF A, B, C
<1>3. [cclk |-> Clock(24), ctzu |-> <<Num(0)>>, qlts |-> Clock(24), qntp |-> <<Num(550)>>]
          \in [cclk : A, ctzu : B, qlts : C, qntp : Verdicts]
  BY <1>2
<1>4. \A k \in [cclk : A, ctzu : B, qlts : C, qntp : Verdicts] :
          "qntp" \in DOMAIN k /\ k.qntp \in Verdicts
  OBVIOUS
<1>5. Initially["clock"] = ClockKept
  BY DEF Initially
<1> QED
  BY <1>1, <1>3, <1>4, <1>5

\* What the module holds bears the names of a group, and the verdict of a time
\* server is one of those it may hold.
Known(k) ==
    /\ \E g \in Groups : \A i \in Initially[g] : DOMAIN i = DOMAIN k
    /\ "qntp" \in DOMAIN k => k.qntp \in Verdicts

LEMMA KnownFirst == ASSUME NEW g \in Groups, NEW k \in Initially[g] PROVE Known(k)
<1>1. g \in DOMAIN Initially
  BY GroupsAssumption
<1>2. \A i \in Initially[g] : DOMAIN i = DOMAIN k
  BY <1>1, GroupNames DEF Uniform
<1>3. "qntp" \in DOMAIN k => k.qntp \in Verdicts
  BY <1>1, GroupNames, ClockServer DEF Serverless
<1> QED
  BY <1>2, <1>3 DEF Known

\* The calls of the group the module belongs to.
LEMMA KnownCalls ==
    ASSUME NEW k, Known(k), NEW c \in CallsOf(GroupOf(k))
    PROVE  Plainly(c) \/ (Syncs(c) /\ "qntp" \in DOMAIN k)
<1>1. GroupOf(k) \in Groups /\ \A i \in Initially[GroupOf(k)] : DOMAIN i = DOMAIN k
  BY DEF Known, GroupOf
<1>2. Plainly(c) \/ (GroupOf(k) = "clock" /\ Syncs(c))
  BY <1>1, GroupsAssumption, CallsShaped
<1>3. GroupOf(k) = "clock" => "qntp" \in DOMAIN k
  <2> SUFFICES ASSUME GroupOf(k) = "clock" PROVE "qntp" \in DOMAIN k
    OBVIOUS
  <2>1. PICK i : i \in Initially["clock"]
    BY ClockServer
  <2> QED
    BY <1>1, <2>1, ClockServer
<1> QED
  BY <1>2, <1>3

-----------------------------------------------------------------------------
(* What commands do, and what the module answers them.                       *)

SyncCommand == Await("sync", "qntp")
Ordinary(c) == Asker(c) \/ Setter(c) \/ c = SyncCommand
AllOrdinary(s) == \E T : s \in Seq(T) /\ \A c \in T : Ordinary(c)

LEMMA AskerIdle == ASSUME NEW k, NEW c, Asker(c) PROVE Obeyed(k, c) = k
BY DEF Asker, Obeyed

LEMMA ObeyedNames == ASSUME NEW k, NEW c PROVE DOMAIN Obeyed(k, c) = DOMAIN k
<1>1. CASE c.does \in {"set", "tell"}
  BY <1>1 DEF Obeyed
<1>2. CASE c.does \in {"delete", "restart"}
  BY <1>2 DEF Obeyed
<1>3. CASE c.does \notin {"set", "tell", "delete", "restart"}
  <2>1. \/ Obeyed(k, c) = k
        \/ Obeyed(k, c) = [k EXCEPT !.cclk = Clock(26)]
        \/ Obeyed(k, c) = [k EXCEPT ![c.key][1] = Str("STO SENT", 8)]
    BY <1>3 DEF Obeyed
  <2> QED
    BY <2>1
<1> QED
  BY <1>1, <1>2, <1>3

LEMMA ObeyedServer ==
    ASSUME NEW k, NEW c, Ordinary(c), "qntp" \in DOMAIN k
    PROVE  Obeyed(k, c).qntp = k.qntp
<1>1. c.key # "qntp" \/ c.does \notin {"set", "tell", "delete", "sent"}
  BY DEF Ordinary, Asker, Setter, SyncCommand, Await, Command
<1>2. CASE c.does \in {"set", "tell"}
  BY <1>1, <1>2 DEF Obeyed
<1>3. CASE c.does \in {"delete", "restart"}
  BY <1>1, <1>3 DEF Obeyed
<1>4. CASE c.does \notin {"set", "tell", "delete", "restart"}
  <2>1. \/ Obeyed(k, c) = k
        \/ Obeyed(k, c) = [k EXCEPT !.cclk = Clock(26)]
        \/ Obeyed(k, c) = [k EXCEPT ![c.key][1] = Str("STO SENT", 8)] /\ c.does = "sent"
    BY <1>4 DEF Obeyed
  <2> QED
    BY <1>1, <2>1
<1> QED
  BY <1>2, <1>3, <1>4

LEMMA ObeyedKnown ==
    ASSUME NEW k, NEW c, Ordinary(c), Known(k) PROVE Known(Obeyed(k, c))
BY ObeyedNames, ObeyedServer DEF Known

LEMMA PairIs == ASSUME NEW a, NEW b PROVE <<a>> \o <<b>> = <<a, b>>
<1> DEFINE T == {a, b}
<1>1. <<a>> \in Seq(T) /\ <<b>> \in Seq(T) /\ <<a, b>> \in Seq(T)
  OBVIOUS
<1>2. /\ <<a>> \o <<b>> \in Seq(T) /\ Len(<<a>> \o <<b>>) = 2
      /\ (<<a>> \o <<b>>)[1] = a /\ (<<a>> \o <<b>>)[2] = b
  BY <1>1
<1>3. Len(<<a, b>>) = 2 /\ <<a, b>>[1] = a /\ <<a, b>>[2] = b
  OBVIOUS
<1> HIDE DEF T
<1>4. \A i \in 1..2 : i = 1 \/ i = 2
  OBVIOUS
<1>5. Len(<<a>> \o <<b>>) = Len(<<a, b>>)
      /\ \A i \in 1..Len(<<a, b>>) : (<<a>> \o <<b>>)[i] = <<a, b>>[i]
  BY <1>2, <1>3, <1>4
<1> QED
  BY <1>1, <1>2, <1>5, SeqEqual

\* A setting is answered by the OK, or by one line and the OK.
LEMMA SetterAnswers ==
    ASSUME NEW c, Setter(c), NEW f, NEW said \in Answers(c, f)
    PROVE  said = <<Final("OK")>> \/ \E l : l.kind = "data" /\ said = <<l, Final("OK")>>
<1>1. c.does # "ask" /\ c.loop # "await"
  BY DEF Setter
<1>2. PICK r \in Reports(c, f) : said = r \o <<Final("OK")>>
  BY <1>1 DEF Answers
<1>3. r = <<>> \/ \E p, s : r = <<Line("data", p, s)>>
  <2>1. CASE c.does = "tell"
    <3>1. Reports(c, f) = Shortened("cpms", Numbers(f), 1)
      BY <1>1, <2>1 DEF Reports
    <3> QED
      BY <1>2, <3>1 DEF Shortened
  <2>2. CASE c.does = "sent"
    <3>1. Reports(c, f) =
              {<<Line("data", "slot", <<Num(7)>>)>>, <<Line("data", "slot", <<>>)>>}
      BY <1>1, <2>2 DEF Reports
    <3> QED
      BY <1>2, <3>1
  <2>3. CASE c.does \notin {"tell", "sent"}
    BY <1>1, <1>2, <2>3 DEF Reports
  <2> QED
    BY <2>1, <2>2, <2>3
<1>4. CASE r = <<>>
  BY <1>2, <1>4
<1>5. CASE \E p, s : r = <<Line("data", p, s)>>
  <2>1. PICK p, s : r = <<Line("data", p, s)>>
    BY <1>5
  <2>2. Line("data", p, s).kind = "data"
    BY DEF Line
  <2>3. said = <<Line("data", p, s), Final("OK")>>
    BY <1>2, <2>1, PairIs, Zenon
  <2> QED
    BY <2>2, <2>3
<1> QED
  BY <1>3, <1>4, <1>5

\* The result line of a synchronisation with the verdict that settings k hold.
ServerLine(l, k) ==
    /\ l.kind = "data" /\ l.prefix = "qntp"
    /\ 1 \in DOMAIN l.fields /\ l.fields[1] = k.qntp[1]

LEMMA SyncAnswers ==
    ASSUME NEW k, k.qntp \in Verdicts, NEW said \in Answers(SyncCommand, k.qntp)
    PROVE  \E l : ServerLine(l, k) /\ said \in {<<l, Final("OK")>>, <<Final("OK"), l>>}
<1>1. SyncCommand.does = "sync" /\ SyncCommand.loop = "await" /\ SyncCommand.key = "qntp"
  BY DEF SyncCommand, Await, Command
<1>2. Reports(SyncCommand, k.qntp) = Shortened("qntp", k.qntp, 1)
  BY <1>1 DEF Reports, Least, Registrations
<1>3. PICK r \in Shortened("qntp", k.qntp, 1) :
          said = r \o <<Final("OK")>> \/ said = <<Final("OK")>> \o r
  BY <1>1, <1>2 DEF Answers
<1>4. PICK n \in 1..Len(k.qntp) : r = <<Line("data", "qntp", SubSeq(k.qntp, 1, n))>>
  BY <1>3 DEF Shortened
<1> DEFINE l == Line("data", "qntp", SubSeq(k.qntp, 1, n))
<1>5. ServerLine(l, k)
  <2>1. \E T : k.qntp \in Seq(T)
    <3> DEFINE T == {Num(0), Str("time", 20), Num(550)}
    <3>1. Num(0) \in T /\ Str("time", 20) \in T /\ Num(550) \in T
      OBVIOUS
    <3> HIDE DEF T
    <3>2. <<Num(0), Str("time", 20)>> \in Seq(T) /\ <<Num(550)>> \in Seq(T)
      BY <3>1
    <3> QED
      BY <3>2 DEF Verdicts
  <2>2. PICK T : k.qntp \in Seq(T)
    BY <2>1
  <2>3. 1 \in DOMAIN SubSeq(k.qntp, 1, n) /\ SubSeq(k.qntp, 1, n)[1] = k.qntp[1]
    BY <1>4, <2>2
  <2> QED
    BY <2>3 DEF ServerLine, Line
<1>6. said \in {<<l, Final("OK")>>, <<Final("OK"), l>>}
  <2>1. r = <<l>>
    BY <1>4
  <2> HIDE DEF l
  <2> QED
    BY <1>3, <2>1
<1> HIDE DEF l
<1> QED
  BY <1>5, <1>6, Zenon

\* A verdict other than OK has left the clock as it was.
LEMMA SyncRefused ==
    ASSUME NEW k, k.qntp \in Verdicts, NEW l, ServerLine(l, k), Verdict(l.fields) = "MODULE"
    PROVE  Obeyed(k, SyncCommand) = k
<1>1. Value(l.fields, 0) # 0
  BY DEF Verdict
<1>2. 0 + 1 = 1
  OBVIOUS
<1>3. l.fields[1].num # 0
  BY <1>1, <1>2 DEF Value, Nth, ServerLine
<1>4. Num(0).num = 0
  BY DEF Num, Field
<1>5. 1 \in DOMAIN k.qntp
  BY DEF Verdicts
<1>6. Nth(k.qntp, 0) # Num(0)
  BY <1>2, <1>3, <1>4, <1>5 DEF Nth, ServerLine
<1>7. SyncCommand.does = "sync"
  BY DEF SyncCommand, Await, Command
<1> QED
  BY <1>6, <1>7 DEF Obeyed

\* Only a verdict blames the module.
LEMMA ParsedSettings ==
    ASSUME NEW c, c.api \notin {"ec200_http_get", "ec200_time_sync_ntp"}
    PROVE  Parsed(c).st # "MODULE"
<1> DEFINE l == IF c.line = <<>> THEN <<>> ELSE c.line[1].fields
<1>1. c.api \notin StoreAsTheyGo => Parsed(c).st # "MODULE"
  BY ParsedProper DEF Proper
<1>2. \A first, stride : parse_cpms_usage(l, first, stride).st \in {"OK", "PARSE"}
  BY Zenon DEF parse_cpms_usage, Answer
<1>3. c.api = "ec200_sms_set_storage" => Parsed(c) = parse_cpms_usage(l, 0, 2)
  BY DEF Parsed, ec200_sms_set_storage
<1>4. c.api = "ec200_sms_get_storage" => Parsed(c) = parse_cpms_usage(l, 1, 3)
  BY DEF Parsed, ec200_sms_get_storage
<1> HIDE DEF l
<1> QED
  BY <1>1, <1>2, <1>3, <1>4 DEF StoreAsTheyGo

-----------------------------------------------------------------------------
(* Calls under way.                                                          *)

LEMMA AllAppend ==
    ASSUME NEW s, NEW a
    PROVE  /\ Askers(s) /\ Asker(a) => Askers(Append(s, a))
           /\ AllOrdinary(s) /\ Ordinary(a) => AllOrdinary(Append(s, a))
<1>1. ASSUME NEW T, s \in Seq(T) PROVE Append(s, a) \in Seq(T \cup {a})
  <2>1. s \in Seq(T \cup {a}) /\ a \in T \cup {a}
    BY <1>1
  <2> QED
    BY <2>1
<1>2. ASSUME Askers(s), Asker(a) PROVE Askers(Append(s, a))
  <2>1. PICK T : s \in Seq(T) /\ \A c \in T : Asker(c)
    BY <1>2 DEF Askers
  <2>2. Append(s, a) \in Seq(T \cup {a}) /\ \A c \in T \cup {a} : Asker(c)
    BY <1>1, <1>2, <2>1
  <2> QED
    BY <2>2, Zenon DEF Askers
<1>3. ASSUME AllOrdinary(s), Ordinary(a) PROVE AllOrdinary(Append(s, a))
  <2>1. PICK T : s \in Seq(T) /\ \A c \in T : Ordinary(c)
    BY <1>3 DEF AllOrdinary
  <2>2. Append(s, a) \in Seq(T \cup {a}) /\ \A c \in T \cup {a} : Ordinary(c)
    BY <1>1, <1>3, <2>1
  <2> QED
    BY <2>2, Zenon DEF AllOrdinary
<1> QED
  BY <1>2, <1>3

LEMMA AllTail ==
    ASSUME NEW s, s # <<>>
    PROVE  /\ Askers(s) => Asker(Head(s)) /\ Askers(Tail(s))
           /\ AllOrdinary(s) => Ordinary(Head(s)) /\ AllOrdinary(Tail(s))
<1>1. ASSUME NEW T, s \in Seq(T) PROVE Head(s) \in T /\ Tail(s) \in Seq(T)
  BY <1>1
<1>2. ASSUME Askers(s) PROVE Asker(Head(s)) /\ Askers(Tail(s))
  <2>1. PICK T : s \in Seq(T) /\ \A c \in T : Asker(c)
    BY <1>2 DEF Askers
  <2>2. Head(s) \in T /\ Tail(s) \in Seq(T)
    BY <1>1, <2>1
  <2> QED
    BY <2>1, <2>2, Zenon DEF Askers
<1>3. ASSUME AllOrdinary(s) PROVE Ordinary(Head(s)) /\ AllOrdinary(Tail(s))
  <2>1. PICK T : s \in Seq(T) /\ \A c \in T : Ordinary(c)
    BY <1>3 DEF AllOrdinary
  <2>2. Head(s) \in T /\ Tail(s) \in Seq(T)
    BY <1>1, <2>1
  <2> QED
    BY <2>1, <2>2, Zenon DEF AllOrdinary
<1> QED
  BY <1>2, <1>3

LEMMA EmptyAll == Askers(<<>>) /\ AllOrdinary(<<>>)
<1> DEFINE T == {}
<1>1. <<>> \in Seq(T) /\ (\A c \in T : Asker(c)) /\ (\A c \in T : Ordinary(c))
  BY EmptySeq
<1> HIDE DEF T
<1> QED
  BY <1>1, Zenon DEF Askers, AllOrdinary

\* A call asks one thing, makes settings, or synchronises the clock.
Shaped(c) ==
    \/ Asks(c.commands)
    \/ Setters(c.commands) /\ c.api \notin Special
    \/ Syncs(c)

IsCall(c) ==
    DOMAIN c = {"api", "commands", "sz", "at", "line", "body", "acked", "start", "clean"}

\* A call that is at one of its commands.
Proceeding(c) ==
    /\ IsCall(c) /\ c.api # "none" /\ Shaped(c)
    /\ Len(c.commands) \in Nat /\ c.at \in 1..Len(c.commands)

LEMMA ShapedCommands ==
    ASSUME NEW c, Shaped(c)
    PROVE  /\ Len(c.commands) \in Nat /\ \A i \in 1..Len(c.commands) : Ordinary(c.commands[i])
           /\ Asks(c.commands) =>
                  Len(c.commands) = 1 /\ c.commands = <<c.commands[1]>> /\ Asker(c.commands[1])
           /\ Syncs(c) =>
                  Len(c.commands) = 1 /\ c.commands = <<c.commands[1]>>
                  /\ c.commands[1] = SyncCommand
<1>1. ASSUME Asks(c.commands)
      PROVE  Len(c.commands) = 1 /\ c.commands = <<c.commands[1]>> /\ Asker(c.commands[1])
  BY <1>1 DEF Asks
<1>2. ASSUME Syncs(c)
      PROVE  Len(c.commands) = 1 /\ c.commands = <<c.commands[1]>>
             /\ c.commands[1] = SyncCommand
  BY <1>2 DEF Syncs, NtpSync, SyncCommand
<1>3. ASSUME Setters(c.commands)
      PROVE  Len(c.commands) \in Nat /\ \A i \in 1..Len(c.commands) : Setter(c.commands[i])
  BY <1>3, SettersAre
<1>4. Len(c.commands) \in Nat /\ \A i \in 1..Len(c.commands) : Ordinary(c.commands[i])
  <2>1. \A i \in 1..1 : i = 1
    OBVIOUS
  <2> QED
    BY <1>1, <1>2, <1>3, <2>1 DEF Shaped, Ordinary
<1> QED
  BY <1>1, <1>2, <1>4

LEMMA NotNone == ASSUME NEW c, Proceeding(c) PROVE c # NoCall
BY DEF Proceeding, NoCall

\* The same call, further on.
Onward(d, c) ==
    /\ IsCall(d) /\ d.api = c.api /\ d.commands = c.commands /\ d.start = c.start
    /\ d.clean = c.clean

LEMMA OnwardShaped ==
    ASSUME NEW c, NEW d, Onward(d, c)
    PROVE  /\ Shaped(d) = Shaped(c) /\ \A n : After(d, n) = After(c, n)
           /\ Proceeding(c) /\ d.at \in 1..Len(c.commands) => Proceeding(d)
BY DEF Onward, Shaped, Syncs, After, Proceeding

Following(c) == [Fresh(c) EXCEPT !.at = @ + 1]

\* What the call notes of a line, and of an OK.
LEMMA CallNotes ==
    ASSUME NEW c, IsCall(c), NEW d, NEW line, NEW body,
           \/ d = [c EXCEPT !.line = line, !.body = body]
           \/ d = [c EXCEPT !.line = line]
    PROVE  Onward(d, c) /\ d.at = c.at /\ d.line = line /\ d.acked = c.acked
BY DEF IsCall, Onward

LEMMA CallAcks ==
    ASSUME NEW c, IsCall(c), NEW d, d = [c EXCEPT !.acked = TRUE]
    PROVE  Onward(d, c) /\ d.at = c.at /\ d.line = c.line /\ d.acked
BY DEF IsCall, Onward

LEMMA CallFresh ==
    ASSUME NEW c, IsCall(c)
    PROVE  Onward(Fresh(c), c) /\ Fresh(c).at = c.at /\ Fresh(c).line = <<>> /\ ~Fresh(c).acked
BY DEF IsCall, Onward, Fresh

LEMMA CallFollowing ==
    ASSUME NEW c, IsCall(c)
    PROVE  Onward(Following(c), c) /\ Following(c).at = c.at + 1
<1>1. IsCall(Fresh(c)) /\ Onward(Fresh(c), c) /\ Fresh(c).at = c.at
  BY CallFresh DEF Onward
<1>2. Onward(Following(c), Fresh(c)) /\ Following(c).at = Fresh(c).at + 1
  BY <1>1 DEF Following, Onward, IsCall
<1> QED
  BY <1>1, <1>2 DEF Onward

\* Another way to ask is taken by calls that ask, and asks again.
LEMMA FallbackIs ==
    ASSUME NEW c, Proceeding(c), Fallback(c) # c
    PROVE  /\ Asks(c.commands) /\ c.api \in Special \ {"ec200_time_sync_ntp"}
           /\ Proceeding(Fallback(c)) /\ Asks(Fallback(c).commands)
           /\ Fallback(c).start = c.start /\ Fallback(c).clean = c.clean
<1>1. c.api \in {"ec200_net_get_signal_ext", "ec200_sim_get_iccid"}
  BY DEF Fallback
<1>2. Asks(c.commands) /\ c.api \in Special \ {"ec200_time_sync_ntp"}
  BY <1>1 DEF Proceeding, Shaped, Syncs, Special
<1>3. c.at = 1
  BY <1>2, ShapedCommands DEF Proceeding
<1>4. /\ IsCall(Fallback(c)) /\ Fallback(c).api # "none" /\ Fallback(c).at = 1
      /\ Fallback(c).start = c.start /\ Fallback(c).clean = c.clean
      /\ \E key : Fallback(c).commands = <<Ask(key)>> \/ Fallback(c).commands = <<AskBody(key)>>
  <2>1. CASE c.api = "ec200_net_get_signal_ext"
    BY <1>3, <2>1 DEF Fallback, Proceeding, IsCall
  <2>2. CASE c.api = "ec200_sim_get_iccid"
    <3>1. Fallback(c) = [c EXCEPT !.commands = <<AskBody("iccid")>>]
      BY <2>2 DEF Fallback
    <3> QED
      BY <1>3, <2>2, <3>1 DEF Proceeding, IsCall
  <2> QED
    BY <1>1, <2>1, <2>2
<1>5. Asks(Fallback(c).commands) /\ Len(Fallback(c).commands) = 1
  <2>1. PICK a : Fallback(c).commands = <<a>> /\ Asker(a)
    BY <1>4, AskIs
  <2> QED
    BY <2>1 DEF Asks
<1>6. Proceeding(Fallback(c))
  BY <1>4, <1>5 DEF Proceeding, Shaped
<1> QED
  BY <1>2, <1>4, <1>5, <1>6

\* What the end of a command makes of a call.
LEMMA EndsIs ==
    ASSUME NEW c, Proceeding(c), NEW status, CommandEnds(c, status)
    PROVE  \/ /\ status = "OK" /\ c.at < Len(c.commands) /\ c.at + 1 \in 1..Len(c.commands)
              /\ call' = Following(c) /\ work' = Append(work, c.commands[c.at + 1])
           \/ /\ status # "OK" /\ Fallback(c) # c
              /\ call' = Fresh(Fallback(c)) /\ work' = Append(work, call'.commands[1])
           \/ /\ status = "OK" => c.at = Len(c.commands)
              /\ status # "OK" => Fallback(c) = c
              /\ Return(c.api, IF status = "OK" THEN Parsed(c) ELSE Fails(status))
<1>1. c.at \in 1..Len(c.commands) /\ Len(c.commands) \in Nat /\ IsCall(c)
  BY DEF Proceeding
<1>2. ASSUME status = "OK", c.at < Len(c.commands), Sends([Fresh(c) EXCEPT !.at = @ + 1])
      PROVE  /\ c.at + 1 \in 1..Len(c.commands)
             /\ call' = Following(c) /\ work' = Append(work, c.commands[c.at + 1])
  <2>1. call' = Following(c) /\ work' = Append(work, Following(c).commands[Following(c).at])
    BY <1>2 DEF Sends, Following
  <2>2. Following(c).commands = c.commands /\ Following(c).at = c.at + 1
    BY <1>1, CallFollowing DEF Onward
  <2> QED
    BY <1>1, <1>2, <2>1, <2>2
<1>3. ASSUME Fallback(c) # c, Sends(Fresh(Fallback(c)))
      PROVE  call' = Fresh(Fallback(c)) /\ work' = Append(work, call'.commands[1])
  <2>1. Proceeding(Fallback(c)) /\ Asks(Fallback(c).commands)
    BY <1>3, FallbackIs
  <2>2. IsCall(Fallback(c)) /\ Fallback(c).at = 1
    BY <2>1, ShapedCommands DEF Proceeding
  <2>3. Fresh(Fallback(c)).at = 1
    BY <2>2, CallFresh
  <2> QED
    BY <1>3, <2>3 DEF Sends
<1> QED
  BY <1>1, <1>2, <1>3 DEF CommandEnds

-----------------------------------------------------------------------------
(* How far a clean call has come, and the module with it.                    *)

\* The module has not come to the command, has refused it, or has obeyed it.
Sent(c) == work = <<c.commands[c.at]>> /\ stream = <<>> /\ kept = After(c, c.at - 1)
Refused(c) == work = <<>> /\ stream = <<Final("ERROR")>> /\ kept = After(c, c.at - 1)
Made(c) ==
    /\ work = <<>> /\ kept = After(c, c.at)
    /\ \/ stream = <<Final("OK")>>
       \/ \E l : l.kind = "data" /\ stream = <<l, Final("OK")>>

\* The module has come to a synchronisation: of the result line and the OK,
\* none has been read, the line, or the OK.
Synced(c) ==
    /\ work = <<>> /\ kept = After(c, 1)
    /\ \E l : /\ ServerLine(l, c.start)
              /\ \/ c.line = <<>> /\ ~c.acked /\ stream \in {<<l, Final("OK")>>, <<Final("OK"), l>>}
                 \/ c.line = <<l>> /\ stream = <<Final("OK")>>
                 \/ c.line = <<>> /\ c.acked /\ stream = <<l>>

InStep(c) ==
    \/ Asks(c.commands) /\ Askers(work) /\ kept = c.start
    \/ Setters(c.commands) /\ c.api \notin Special /\ (Sent(c) \/ Refused(c) \/ Made(c))
    \/ /\ Syncs(c) /\ "qntp" \in DOMAIN c.start /\ c.start.qntp \in Verdicts
       /\ \/ (Sent(c) \/ Refused(c)) /\ c.line = <<>> /\ ~c.acked
          \/ Synced(c)

DoneInv ==
    /\ Known(kept) /\ AllOrdinary(work)
    /\ call # NoCall => Proceeding(call) /\ (call.clean => InStep(call))

\* What the call has done to the module is what it says.
Right(c) ==
    kept' \in CASE last'.st = "OK"     -> {After(c, Len(c.commands))}
                [] last'.st = "MODULE" -> {After(c, c.at - 1)}
                [] OTHER -> {After(c, c.at - 1), After(c, c.at)}

LEMMA AfterIs ==
    ASSUME NEW c, Proceeding(c)
    PROVE  /\ After(c, 0) = c.start
           /\ \A n \in 1..Len(c.commands) : After(c, n) = Obeyed(After(c, n - 1), c.commands[n])
BY ObeyingIs DEF After, Proceeding

LEMMA AskRight ==
    ASSUME NEW c, Proceeding(c), Asks(c.commands), kept' = c.start
    PROVE  Right(c)
<1>1. Len(c.commands) = 1 /\ Asker(c.commands[1]) /\ c.at = 1
  BY ShapedCommands DEF Proceeding
<1>2. After(c, 0) = c.start /\ After(c, 1) = c.start
  BY <1>1, AfterIs, AskerIdle
<1> QED
  BY <1>1, <1>2 DEF Right

\* A call has ended with a status of its own.
LEMMA StatusRight ==
    ASSUME NEW c, Proceeding(c), NEW a, Return(c.api, a), c.api # "ec200_file_exists",
           kept' = kept,
           a.st = "OK" => c.at = Len(c.commands) /\ kept = After(c, c.at),
           a.st = "MODULE" => kept = After(c, c.at - 1),
           kept \in {After(c, c.at - 1), After(c, c.at)}
    PROVE  Right(c)
<1>1. last'.st = a.st
  BY DEF Return, Result
<1> QED
  BY <1>1 DEF Right

LEMMA EndsProceeding ==
    ASSUME NEW c, Proceeding(c), NEW status, CommandEnds(c, status), AllOrdinary(work)
    PROVE  /\ AllOrdinary(work')
           /\ call' # NoCall => Proceeding(call') /\ call'.clean = c.clean
<1>1. Shaped(c) /\ IsCall(c)
  BY DEF Proceeding
<1>2. CASE /\ c.at + 1 \in 1..Len(c.commands)
           /\ call' = Following(c) /\ work' = Append(work, c.commands[c.at + 1])
  <2>1. Onward(call', c) /\ call'.at \in 1..Len(c.commands)
    BY <1>1, <1>2, CallFollowing
  <2>2. Ordinary(c.commands[c.at + 1])
    BY <1>1, <1>2, ShapedCommands
  <2> QED
    BY <1>2, <2>1, <2>2, OnwardShaped, AllAppend DEF Onward
<1>3. CASE /\ Fallback(c) # c
           /\ call' = Fresh(Fallback(c)) /\ work' = Append(work, call'.commands[1])
  <2>1. /\ Proceeding(Fallback(c)) /\ Asks(Fallback(c).commands)
        /\ Fallback(c).clean = c.clean
    BY <1>3, FallbackIs
  <2>2. Onward(call', Fallback(c)) /\ call'.at = Fallback(c).at
    BY <1>3, <2>1, CallFresh DEF Proceeding
  <2>3. Proceeding(call') /\ Asks(call'.commands) /\ call'.clean = c.clean
    BY <2>1, <2>2, OnwardShaped DEF Onward, Proceeding
  <2>4. Ordinary(call'.commands[1])
    BY <2>3, ShapedCommands DEF Proceeding, Ordinary
  <2> QED
    BY <1>3, <2>3, <2>4, AllAppend
<1>4. ASSUME NEW a, Return(c.api, a) PROVE work' = work /\ call' = NoCall
  BY <1>4 DEF Return
<1> QED
  BY <1>2, <1>3, <1>4, EndsIs

\* A call that asks goes on asking.
LEMMA AskEnds ==
    ASSUME NEW c, Proceeding(c), NEW status, CommandEnds(c, status), Asks(c.commands),
           Askers(work)
    PROVE  /\ Askers(work')
           /\ call' # NoCall => Asks(call'.commands) /\ call'.start = c.start
<1>1. Len(c.commands) = 1 /\ c.at = 1
  BY ShapedCommands DEF Proceeding
<1>2. ~(c.at + 1 \in 1..Len(c.commands))
  BY <1>1
<1>3. CASE /\ Fallback(c) # c
           /\ call' = Fresh(Fallback(c)) /\ work' = Append(work, call'.commands[1])
  <2>1. /\ Proceeding(Fallback(c)) /\ Asks(Fallback(c).commands)
        /\ Fallback(c).start = c.start
    BY <1>3, FallbackIs
  <2>2. Onward(call', Fallback(c)) /\ call'.at = Fallback(c).at
    BY <1>3, <2>1, CallFresh DEF Proceeding
  <2>3. Proceeding(call') /\ Asks(call'.commands) /\ call'.start = c.start
    BY <2>1, <2>2, OnwardShaped DEF Onward, Proceeding
  <2>4. Asker(call'.commands[1])
    BY <2>3, ShapedCommands DEF Proceeding
  <2> QED
    BY <1>3, <2>3, <2>4, AllAppend
<1>4. ASSUME NEW a, Return(c.api, a) PROVE work' = work /\ call' = NoCall
  BY <1>4 DEF Return
<1> QED
  BY <1>2, <1>3, <1>4, EndsIs

\* A call that makes settings sends the next one, or is over.
LEMMA SetEnds ==
    ASSUME NEW c, Proceeding(c), NEW status, CommandEnds(c, status),
           Setters(c.commands), c.api \notin Special, kept' = kept,
           status = "OK" => work = <<>> /\ stream' = <<>> /\ kept = After(c, c.at),
           status = "MODULE" => kept = After(c, c.at - 1),
           kept \in {After(c, c.at - 1), After(c, c.at)}
    PROVE  /\ call' = NoCall => Right(c)
           /\ call' # NoCall => InStep(call)'
<1>1. Fallback(c) = c
  BY FallbackIs DEF Special, Proceeding, Shaped
<1>2. CASE /\ status = "OK" /\ c.at + 1 \in 1..Len(c.commands)
           /\ call' = Following(c) /\ work' = Append(work, c.commands[c.at + 1])
  <2>1. Onward(call', c) /\ call'.at = c.at + 1
    BY <1>2, CallFollowing DEF Proceeding
  <2>2. Proceeding(call')
    BY <1>2, <2>1, OnwardShaped
  <2>3. work' = <<call'.commands[call'.at]>>
    BY <1>2, <2>1 DEF Onward
  <2>4. call'.at - 1 = c.at
    BY <2>1 DEF Proceeding
  <2>5. kept' = After(call', call'.at - 1)
    BY <1>2, <2>1, <2>4, OnwardShaped
  <2>6. Sent(call)'
    BY <1>2, <2>3, <2>5 DEF Sent, After
  <2> QED
    BY <2>1, <2>2, <2>6, NotNone DEF InStep, Onward
<1>3. CASE /\ status = "OK" => c.at = Len(c.commands)
           /\ Return(c.api, IF status = "OK" THEN Parsed(c) ELSE Fails(status))
  <2>1. c.api \notin {"ec200_http_get", "ec200_time_sync_ntp", "ec200_file_exists"}
    BY DEF Special
  <2>2. Parsed(c).st # "MODULE"
    BY <2>1, ParsedSettings
  <2>3. CASE status = "OK"
    BY <1>3, <2>1, <2>2, <2>3, StatusRight DEF Return
  <2>4. CASE status # "OK"
    BY <1>3, <2>1, <2>4, ProperOnes, StatusRight DEF Return
  <2> QED
    BY <2>3, <2>4
<1> QED
  BY <1>1, <1>2, <1>3, EndsIs

\* What holds behind a step of the call, and what it returns.
Keeps == DoneInv' /\ (CleanReturn => Right(call))

LEMMA NotesKeeps ==
    ASSUME DoneInv, call # NoCall, NEW d, Notes(d), Onward(d, call), d.at = call.at,
           kept' = kept, call.clean => InStep(call)'
    PROVE  Keeps
<1>1. Proceeding(call')
  BY OnwardShaped DEF DoneInv, Notes, Proceeding
<1>2. call' # NoCall
  BY <1>1, NotNone
<1> QED
  BY <1>1, <1>2 DEF Keeps, DoneInv, Notes, Onward, CleanReturn

LEMMA EndsKeeps ==
    ASSUME DoneInv, call # NoCall, NEW c, Onward(c, call), c.at = call.at, NEW status,
           CommandEnds(c, status), kept' = kept,
           call.clean /\ call' = NoCall => Right(call),
           call.clean /\ call' # NoCall => InStep(call)'
    PROVE  Keeps
<1>1. Proceeding(c) /\ c.clean = call.clean
  BY OnwardShaped DEF DoneInv, Onward, Proceeding
<1>2. /\ AllOrdinary(work')
      /\ call' # NoCall => Proceeding(call') /\ call'.clean = call.clean
  BY <1>1, EndsProceeding DEF DoneInv
<1> QED
  BY <1>2 DEF Keeps, DoneInv, CleanReturn

\* A call that asks, whatever it reads.
LEMMA AskKeeps ==
    ASSUME DoneInv, call # NoCall, Asks(call.commands), Askers(work), kept = call.start,
           kept' = kept, NEW c, Onward(c, call), c.at = call.at,
           Notes(c) \/ \E status : CommandEnds(c, status)
    PROVE  /\ call' = NoCall => Right(call)
           /\ call' # NoCall => InStep(call)'
<1>1. Proceeding(call) /\ Proceeding(c)
  BY OnwardShaped DEF DoneInv, Onward, Proceeding
<1>2. Asks(c.commands) /\ c.start = call.start
  BY DEF Onward
<1>3. Right(call)
  BY <1>1, AskRight
<1>4. CASE Notes(c)
  <2>1. call' = c /\ work' = work
    BY <1>4 DEF Notes
  <2>2. Asks(call'.commands) /\ Askers(work') /\ kept' = call'.start
    BY <1>2, <2>1
  <2> QED
    BY <1>3, <2>2 DEF InStep
<1>5. ASSUME NEW status, CommandEnds(c, status) PROVE call' # NoCall => InStep(call)'
  BY <1>1, <1>2, <1>5, AskEnds DEF InStep
<1> QED
  BY <1>3, <1>4, <1>5

LEMMA OnwardSelf == ASSUME NEW c, IsCall(c) PROVE Onward(c, c)
BY DEF Onward

LEMMA OneTail == \A a : <<a>> # <<>> /\ Head(<<a>>) = a /\ Tail(<<a>>) = <<>>
OBVIOUS

LEMMA PairTail == \A a, b : <<a, b>> # <<>> /\ Head(<<a, b>>) = a /\ Tail(<<a, b>>) = <<b>>
OBVIOUS

LEMMA FinalIs == \A kind : Final(kind).kind = kind
BY DEF Final, Line

\* The command a clean call that makes settings waits in.
LEMMA SetterWaits ==
    ASSUME NEW c, Proceeding(c), Setters(c.commands) PROVE c.commands[c.at].loop # "await"
BY SettersAre DEF Proceeding, Setter

LEMMA ReadsLineKeeps == ASSUME DoneInv, ReadsLine PROVE Keeps
<1>1. call # NoCall /\ Proceeding(call) /\ IsCall(call) /\ kept' = kept /\ stream' = Tail(stream)
  BY DEF ReadsLine, Reads, DoneInv, Proceeding, moduleVars
<1> DEFINE l == Head(stream)
           missing == Waits("prefix") /\ call.line = <<>>
           line == IF missing /\ l.prefix = call.commands[call.at].key THEN <<l>> ELSE call.line
           body == IF Waits("body") THEN Append(call.body, l) ELSE call.body
           d == [call EXCEPT !.line = line, !.body = body]
           ended == IF missing THEN "PARSE" ELSE "OK"
<1>2. \/ l.kind = "data" /\ Notes(d)
      \/ l.kind = "OK" /\ CommandEnds(call, ended)
      \/ l.kind = "ERROR" /\ CommandEnds(call, "MODULE")
  BY <1>1 DEF ReadsLine, IsCall
<1> HIDE DEF line, body
<1>3. Onward(d, call) /\ d.at = call.at
  BY <1>1, CallNotes
<1>4. Onward(call, call)
  BY <1>1, OnwardSelf
<1>5. ended \in {"PARSE", "OK"}
  OBVIOUS
<1> HIDE DEF d, ended
<1>6. ASSUME call.clean
      PROVE  /\ call' = NoCall => Right(call)
             /\ call' # NoCall => InStep(call)'
  <2>1. InStep(call)
    BY <1>1, <1>6 DEF DoneInv
  <2>2. CASE Asks(call.commands) /\ Askers(work) /\ kept = call.start
    BY <1>1, <1>2, <1>3, <1>4, <2>2, AskKeeps
  <2>3. ASSUME Setters(call.commands), call.api \notin Special, Sent(call) \/ Refused(call) \/ Made(call)
        PROVE  /\ call' = NoCall => Right(call)
               /\ call' # NoCall => InStep(call)'
    <3>1. stream # <<>>
      BY DEF ReadsLine, Reads
    <3>2. CASE Refused(call)
      <4>1. l.kind = "ERROR"
        BY <3>2, OneTail, FinalIs DEF Refused
      <4> QED
        BY <1>1, <1>2, <2>3, <3>2, <4>1, SetEnds DEF Refused
    <3>3. CASE Made(call) /\ stream = <<Final("OK")>>
      <4>1. l.kind = "OK" /\ stream' = <<>>
        BY <1>1, <3>3, OneTail, FinalIs
      <4> QED
        BY <1>1, <1>2, <1>5, <2>3, <3>3, <4>1, SetEnds DEF Made
    <3>4. CASE Made(call) /\ \E e : e.kind = "data" /\ stream = <<e, Final("OK")>>
      <4>1. l.kind = "data" /\ stream' = <<Final("OK")>>
        BY <1>1, <3>4, PairTail
      <4>2. call' = d /\ work' = work
        BY <1>2, <4>1 DEF Notes
      <4>3. Made(call)'
        BY <1>1, <1>3, <3>4, <4>1, <4>2, OnwardShaped DEF Made, Onward, After
      <4>4. call' # NoCall
        BY <1>1, <1>3, <4>2, OnwardShaped, NotNone DEF Proceeding
      <4> QED
        BY <1>3, <2>3, <4>2, <4>3, <4>4 DEF InStep, Onward
    <3> QED
      BY <2>3, <3>1, <3>2, <3>3, <3>4 DEF Sent, Made
  <2>4. ~Syncs(call)
    <3>1. ~(call.commands[call.at].loop = "await")
      BY <1>1 DEF ReadsLine, Waits
    <3>2. SyncCommand.loop = "await"
      BY DEF SyncCommand, Await, Command
    <3> QED
      BY <1>1, <3>1, <3>2, ShapedCommands DEF Proceeding
  <2> QED
    BY <2>1, <2>2, <2>3, <2>4 DEF InStep
<1>7. CASE Notes(d)
  <2>1. call' = d
    BY <1>7 DEF Notes
  <2>2. call' # NoCall
    BY <1>1, <1>3, <2>1, OnwardShaped, NotNone DEF Proceeding
  <2> QED
    BY <1>1, <1>3, <1>6, <1>7, <2>2, NotesKeeps
<1>8. ASSUME NEW status, CommandEnds(call, status) PROVE Keeps
  BY <1>1, <1>4, <1>6, <1>8, EndsKeeps
<1> QED
  BY <1>2, <1>7, <1>8

\* A synchronisation whose result line has been read, or that has failed.
LEMMA SyncEnds ==
    ASSUME Proceeding(call), Syncs(call), call.start.qntp \in Verdicts,
           NEW c, Onward(c, call), c.at = call.at, NEW status, CommandEnds(c, status),
           kept' = kept, kept \in {After(call, 0), After(call, 1)},
           status = "OK" => /\ kept = After(call, 1)
                            /\ \E l : ServerLine(l, call.start) /\ c.line = <<l>>,
           status = "MODULE" => kept = After(call, 0)
    PROVE  call' = NoCall /\ Right(call)
<1>1. Proceeding(c) /\ Syncs(c) /\ c.start = call.start /\ c.commands = call.commands
  BY OnwardShaped DEF Onward, Proceeding, Syncs
<1>2. /\ Len(c.commands) = 1 /\ c.commands[1] = SyncCommand /\ c.at = 1
      /\ ~(c.at + 1 \in 1..Len(c.commands))
  BY <1>1, ShapedCommands DEF Proceeding
<1>3. c.api = "ec200_time_sync_ntp" /\ Fallback(c) = c
  BY <1>1, FallbackIs DEF Syncs
<1>4. Return(c.api, IF status = "OK" THEN Parsed(c) ELSE Fails(status))
  BY <1>1, <1>2, <1>3, EndsIs
<1>5. /\ c.at - 1 = 0 /\ After(c, 0) = After(call, 0) /\ After(c, 1) = After(call, 1)
      /\ After(call, 1) = Obeyed(call.start, SyncCommand) /\ After(call, 0) = call.start
  BY <1>1, <1>2, AfterIs DEF After
<1>6. CASE status = "OK"
  <2>1. PICK l : ServerLine(l, call.start) /\ c.line = <<l>>
    BY <1>6
  <2>2. Parsed(c) = ec200_time_sync_ntp(l.fields)
    BY <1>3, <2>1 DEF Parsed
  <2>3. Parsed(c).st = Verdict(l.fields)
    BY <2>2, VerdictProper
  <2>4. Parsed(c).st = "MODULE" => kept = After(c, 0)
    BY <1>5, <1>6, <2>1, <2>3, SyncRefused
  <2>5. Right(c)
    BY <1>1, <1>2, <1>3, <1>4, <1>5, <1>6, <2>4, StatusRight
  <2> QED
    BY <1>1, <1>2, <1>4, <1>5, <2>5 DEF Right, Return
<1>7. CASE status # "OK"
  <2>1. Fails(status).st = status
    BY ProperOnes
  <2>2. Right(c)
    BY <1>1, <1>2, <1>3, <1>4, <1>5, <1>7, <2>1, StatusRight
  <2> QED
    BY <1>1, <1>2, <1>4, <1>5, <2>2 DEF Right, Return
<1> QED
  BY <1>6, <1>7

LEMMA SyncAfter ==
    ASSUME NEW c, Proceeding(c), Syncs(c)
    PROVE  c.at = 1 /\ c.at - 1 = 0 /\ c.commands[c.at] = SyncCommand /\ SyncCommand.key = "qntp"
           /\ SyncCommand.loop = "await" /\ After(c, 0) = c.start
           /\ After(c, 1) = Obeyed(c.start, SyncCommand)
<1>1. Len(c.commands) = 1 /\ c.commands[1] = SyncCommand /\ c.at = 1
  BY ShapedCommands DEF Proceeding
<1>2. SyncCommand.loop = "await" /\ SyncCommand.key = "qntp"
  BY DEF SyncCommand, Await, Command
<1> QED
  BY <1>1, <1>2, AfterIs

LEMMA ReadsResultKeeps == ASSUME DoneInv, ReadsResult PROVE Keeps
<1>1. call # NoCall /\ Proceeding(call) /\ IsCall(call) /\ kept' = kept /\ stream' = Tail(stream)
  BY DEF ReadsResult, Waits, Reads, DoneInv, Proceeding, moduleVars
<1> DEFINE l == Head(stream)
           wanted == l.prefix = call.commands[call.at].key
           c == [call EXCEPT !.line = <<l>>]
           d == [call EXCEPT !.acked = TRUE]
<1>2. \/ l.kind = "data" /\ ~wanted /\ Notes(call)
      \/ l.kind = "data" /\ wanted /\ ~call.acked /\ Notes(c)
      \/ l.kind = "data" /\ wanted /\ call.acked /\ CommandEnds(c, "OK")
      \/ l.kind = "OK" /\ call.line = <<>> /\ Notes(d)
      \/ l.kind = "ERROR" /\ call.line = <<>> /\ CommandEnds(call, "MODULE")
      \/ l.kind # "data" /\ call.line # <<>> /\ CommandEnds(call, "OK")
  BY DEF ReadsResult
<1>3. Onward(c, call) /\ c.at = call.at /\ c.line = <<l>> /\ c.acked = call.acked
  BY <1>1, CallNotes
<1>4. Onward(d, call) /\ d.at = call.at /\ d.line = call.line /\ d.acked
  BY <1>1, CallAcks
<1>5. Onward(call, call)
  BY <1>1, OnwardSelf
<1> HIDE DEF c, d
<1>6. ASSUME call.clean
      PROVE  /\ call' = NoCall => Right(call)
             /\ call' # NoCall => InStep(call)'
  <2>1. InStep(call)
    BY <1>1, <1>6 DEF DoneInv
  <2>2. CASE Asks(call.commands) /\ Askers(work) /\ kept = call.start
    BY <1>1, <1>2, <1>3, <1>4, <1>5, <2>2, AskKeeps
  <2>3. ~Setters(call.commands)
    BY <1>1, SetterWaits DEF ReadsResult, Waits
  <2>4. ASSUME Syncs(call), "qntp" \in DOMAIN call.start, call.start.qntp \in Verdicts,
               \/ (Sent(call) \/ Refused(call)) /\ call.line = <<>> /\ ~call.acked
               \/ Synced(call)
        PROVE  /\ call' = NoCall => Right(call)
               /\ call' # NoCall => InStep(call)'
    <3>1. stream # <<>>
      BY DEF ReadsResult, Reads
    <3>2. /\ call.at = 1 /\ call.at - 1 = 0 /\ call.commands[call.at] = SyncCommand
          /\ SyncCommand.key = "qntp"
      BY <1>1, <2>4, SyncAfter
    <3>3. CASE Refused(call) /\ call.line = <<>>
      <4>1. l.kind = "ERROR"
        BY <3>3, OneTail, FinalIs DEF Refused
      <4>2. CommandEnds(call, "MODULE")
        BY <1>2, <3>3, <4>1
      <4> QED
        BY <1>1, <1>5, <2>4, <3>2, <3>3, <4>2, SyncEnds DEF Refused
    <3>4. CASE Synced(call)
      <4>1. PICK e : /\ ServerLine(e, call.start)
                     /\ \/ call.line = <<>> /\ ~call.acked
                           /\ stream \in {<<e, Final("OK")>>, <<Final("OK"), e>>}
                        \/ call.line = <<e>> /\ stream = <<Final("OK")>>
                        \/ call.line = <<>> /\ call.acked /\ stream = <<e>>
        BY <3>4 DEF Synced
      <4>2. e.kind = "data" /\ e.prefix = "qntp" /\ Final("OK").kind = "OK"
        BY <4>1, FinalIs DEF ServerLine
      <4>3. ASSUME NEW f, Notes(f), Onward(f, call), work' = <<>>, kept' = kept,
                   \/ f.line = <<e>> /\ stream' = <<Final("OK")>>
                   \/ f.line = <<>> /\ f.acked /\ stream' = <<e>>
            PROVE  InStep(call)'
        <5>1. call' = f /\ Syncs(f) /\ f.start = call.start
          BY <2>4, <4>3 DEF Notes, Onward, Syncs
        <5>2. kept' = After(call', 1)
          BY <3>4, <4>3, <5>1, OnwardShaped DEF Synced
        <5>3. Synced(call)'
          BY <4>1, <4>3, <5>1, <5>2 DEF Synced, ServerLine
        <5> QED
          BY <2>4, <5>1, <5>3 DEF InStep
      <4>4. CASE call.line = <<>> /\ ~call.acked /\ stream = <<e, Final("OK")>>
        <5>1. l = e /\ stream' = <<Final("OK")>>
          BY <1>1, <4>4, PairTail
        <5>2. Notes(c) /\ c.line = <<e>>
          BY <1>2, <1>3, <3>2, <4>2, <4>4, <5>1
        <5>3. call' # NoCall
          BY <1>1, <1>3, <5>2, OnwardShaped, NotNone DEF Proceeding, Notes
        <5> QED
          BY <1>1, <1>3, <3>4, <4>3, <5>1, <5>2, <5>3 DEF Synced, Notes
      <4>5. CASE call.line = <<>> /\ ~call.acked /\ stream = <<Final("OK"), e>>
        <5>1. l = Final("OK") /\ stream' = <<e>>
          BY <1>1, <4>5, PairTail
        <5>2. Notes(d)
          BY <1>2, <4>2, <4>5, <5>1
        <5>3. call' # NoCall
          BY <1>1, <1>4, <5>2, OnwardShaped, NotNone DEF Proceeding, Notes
        <5> QED
          BY <1>1, <1>4, <3>4, <4>3, <4>5, <5>1, <5>2, <5>3 DEF Synced, Notes
      <4>6. CASE call.line = <<e>> /\ stream = <<Final("OK")>>
        <5>1. l = Final("OK") /\ call.line # <<>>
          BY <4>6, OneTail
        <5>2. CommandEnds(call, "OK")
          BY <1>2, <4>2, <5>1
        <5> QED
          BY <1>1, <1>5, <2>4, <3>4, <4>1, <4>6, <5>2, SyncEnds DEF Synced
      <4>7. CASE call.line = <<>> /\ call.acked /\ stream = <<e>>
        <5>1. l = e
          BY <4>7, OneTail
        <5>2. CommandEnds(c, "OK") /\ c.line = <<e>>
          BY <1>2, <1>3, <3>2, <4>2, <4>7, <5>1
        <5> QED
          BY <1>1, <1>3, <2>4, <3>4, <4>1, <5>2, SyncEnds DEF Synced
      <4> QED
        BY <4>1, <4>4, <4>5, <4>6, <4>7
    <3> QED
      BY <2>4, <3>1, <3>3, <3>4 DEF Sent
  <2> QED
    BY <2>1, <2>2, <2>3, <2>4 DEF InStep
<1>7. ASSUME NEW e, Notes(e), Onward(e, call), e.at = call.at PROVE Keeps
  <2>1. call' = e /\ Proceeding(e)
    BY <1>1, <1>7, OnwardShaped DEF Notes, Proceeding
  <2>2. call' # NoCall
    BY <2>1, NotNone
  <2> QED
    BY <1>1, <1>6, <1>7, <2>2, NotesKeeps
<1>8. ASSUME NEW e, NEW status, CommandEnds(e, status), Onward(e, call), e.at = call.at
      PROVE  Keeps
  BY <1>1, <1>6, <1>8, EndsKeeps
<1> QED
  BY <1>2, <1>3, <1>4, <1>5, <1>7, <1>8

LEMMA TimesOutKeeps == ASSUME DoneInv, TimesOut PROVE Keeps
<1>1. call # NoCall /\ Proceeding(call) /\ kept' = kept /\ stream' = stream
  BY DEF TimesOut, DoneInv, moduleVars
<1> DEFINE status == IF Waits("await") /\ call.line # <<>> THEN "OK" ELSE "TIMEOUT"
<1>2. CommandEnds(call, status)
  BY DEF TimesOut
<1>3. Onward(call, call)
  BY <1>1, OnwardSelf DEF Proceeding
<1>4. status = "OK" => call.line # <<>> /\ call.commands[call.at].loop = "await"
  BY DEF Waits
<1>5. status = "TIMEOUT" => call.line = <<>> \/ call.commands[call.at].loop # "await"
  BY <1>1 DEF Waits
<1>6. status \in {"OK", "TIMEOUT"}
  OBVIOUS
<1> HIDE DEF status
<1>7. ASSUME call.clean
      PROVE  /\ call' = NoCall => Right(call)
             /\ call' # NoCall => InStep(call)'
  <2>1. InStep(call)
    BY <1>1, <1>7 DEF DoneInv
  <2>2. CASE Asks(call.commands) /\ Askers(work) /\ kept = call.start
    BY <1>1, <1>2, <1>3, <2>2, AskKeeps
  <2>3. CASE Setters(call.commands) /\ call.api \notin Special
             /\ (Sent(call) \/ Refused(call) \/ Made(call))
    <3>1. status = "TIMEOUT"
      BY <1>1, <1>4, <1>6, <2>3, SetterWaits
    <3>2. kept \in {After(call, call.at - 1), After(call, call.at)}
      BY <2>3 DEF Sent, Refused, Made
    <3> QED
      BY <1>1, <1>2, <2>3, <3>1, <3>2, SetEnds
  <2>4. CASE /\ Syncs(call) /\ "qntp" \in DOMAIN call.start /\ call.start.qntp \in Verdicts
             /\ \/ (Sent(call) \/ Refused(call)) /\ call.line = <<>> /\ ~call.acked
                \/ Synced(call)
    <3>1. call.at - 1 = 0
      BY <1>1, <2>4, SyncAfter
    <3>2. kept \in {After(call, 0), After(call, 1)}
      BY <2>4, <3>1 DEF Sent, Refused, Synced
    <3>3. ASSUME status = "OK"
          PROVE  /\ kept = After(call, 1)
                 /\ \E l : ServerLine(l, call.start) /\ call.line = <<l>>
      <4>1. call.line # <<>>
        BY <1>4, <3>3
      <4> QED
        BY <2>4, <4>1 DEF Synced
    <3> QED
      BY <1>1, <1>2, <1>3, <1>6, <2>4, <3>2, <3>3, SyncEnds
  <2> QED
    BY <2>1, <2>2, <2>3, <2>4 DEF InStep
<1> QED
  BY <1>1, <1>2, <1>3, <1>7, EndsKeeps

\* The module comes to a command, and obeys it.
LEMMA ObeysKeeps == ASSUME DoneInv, ModuleObeys PROVE DoneInv'
<1> DEFINE c == Head(work)
<1>1. /\ work # <<>> /\ work' = Tail(work) /\ call' = call /\ kept' = Obeyed(kept, c)
      /\ \E said \in Answers(c, kept'[c.key]) : stream' = stream \o said
  BY DEF ModuleObeys
<1>2. Ordinary(c) /\ AllOrdinary(work')
  BY <1>1, AllTail DEF DoneInv
<1>3. Known(kept')
  BY <1>1, <1>2, ObeyedKnown DEF DoneInv
<1>4. ASSUME call # NoCall, call.clean PROVE InStep(call)'
  <2>1. InStep(call) /\ Proceeding(call)
    BY <1>4 DEF DoneInv
  <2>2. CASE Asks(call.commands) /\ Askers(work) /\ kept = call.start
    <3>1. Asker(c) /\ Askers(work')
      BY <1>1, <2>2, AllTail
    <3>2. kept' = kept
      BY <1>1, <3>1, AskerIdle
    <3> QED
      BY <1>1, <2>2, <3>1, <3>2 DEF InStep
  <2>3. ASSUME Sent(call)
        PROVE  /\ c = call.commands[call.at] /\ work' = <<>>
               /\ kept' = After(call, call.at)
               /\ \E said \in Answers(c, kept'[c.key]) : stream' = said
    <3>1. c = call.commands[call.at] /\ work' = <<>>
      BY <1>1, <2>3, OneTail DEF Sent
    <3>2. kept' = After(call, call.at)
      BY <1>1, <2>1, <2>3, <3>1, AfterIs DEF Sent, Proceeding
    <3>3. PICK said \in Answers(c, kept'[c.key]) : stream' = <<>> \o said
      BY <1>1, <2>3 DEF Sent
    <3> HIDE DEF c
    <3> QED
      BY <3>1, <3>2, <3>3
  <2>4. CASE Setters(call.commands) /\ call.api \notin Special
             /\ (Sent(call) \/ Refused(call) \/ Made(call))
    <3>1. Sent(call)
      BY <1>1, <2>4 DEF Refused, Made
    <3>2. Setter(c)
      BY <2>1, <2>3, <2>4, <3>1, SettersAre DEF Proceeding
    <3>3. stream' = <<Final("OK")>> \/ \E l : l.kind = "data" /\ stream' = <<l, Final("OK")>>
      BY <2>3, <3>1, <3>2, SetterAnswers
    <3>4. Made(call)'
      BY <1>1, <2>3, <3>1, <3>3 DEF Made, After
    <3> QED
      BY <1>1, <2>4, <3>4 DEF InStep
  <2>5. CASE /\ Syncs(call) /\ "qntp" \in DOMAIN call.start /\ call.start.qntp \in Verdicts
             /\ \/ (Sent(call) \/ Refused(call)) /\ call.line = <<>> /\ ~call.acked
                \/ Synced(call)
    <3>1. Sent(call) /\ call.line = <<>> /\ ~call.acked
      BY <1>1, <2>5 DEF Refused, Synced
    <3>2. /\ call.at = 1 /\ call.at - 1 = 0 /\ call.commands[call.at] = SyncCommand
          /\ SyncCommand.key = "qntp" /\ After(call, 0) = call.start
      BY <2>1, <2>5, SyncAfter
    <3>3. c = SyncCommand /\ kept = call.start /\ kept' = Obeyed(call.start, SyncCommand)
      BY <1>1, <2>3, <3>1, <3>2 DEF Sent
    <3>4. kept'["qntp"] = call.start.qntp
      BY <2>5, <3>3, ObeyedServer DEF Ordinary
    <3>5. PICK said \in Answers(SyncCommand, call.start.qntp) : stream' = said
      BY <2>3, <3>1, <3>2, <3>3, <3>4
    <3>6. PICK l : /\ ServerLine(l, call.start)
                   /\ said \in {<<l, Final("OK")>>, <<Final("OK"), l>>}
      BY <2>5, SyncAnswers
    <3>7. Synced(call)'
      BY <1>1, <2>3, <3>1, <3>2, <3>5, <3>6 DEF Synced, After, ServerLine
    <3> QED
      BY <1>1, <2>5, <3>7 DEF InStep, Syncs
  <2> QED
    BY <2>1, <2>2, <2>4, <2>5 DEF InStep
<1> QED
  BY <1>1, <1>2, <1>3, <1>4 DEF DoneInv

\* The module comes to a command, and refuses it.
LEMMA RefusesKeeps == ASSUME DoneInv, ModuleRefuses PROVE DoneInv'
<1>1. /\ work # <<>> /\ work' = Tail(work) /\ call' = call /\ kept' = kept
      /\ stream' = Append(stream, Final("ERROR"))
  BY DEF ModuleRefuses, moduleVars
<1>2. AllOrdinary(work') /\ Known(kept')
  BY <1>1, AllTail DEF DoneInv
<1>3. ASSUME call # NoCall, call.clean PROVE InStep(call)'
  <2>1. InStep(call)
    BY <1>3 DEF DoneInv
  <2>2. CASE Asks(call.commands) /\ Askers(work) /\ kept = call.start
    BY <1>1, <2>2, AllTail DEF InStep
  <2>3. ASSUME Sent(call) PROVE Refused(call)'
    <3>1. Append(<<>>, Final("ERROR")) = <<Final("ERROR")>>
      OBVIOUS
    <3> QED
      BY <1>1, <2>3, <3>1, OneTail DEF Sent, Refused, After
  <2>4. ~Refused(call) /\ ~Made(call) /\ ~Synced(call)
    BY <1>1 DEF Refused, Made, Synced
  <2> QED
    BY <1>1, <2>1, <2>2, <2>3, <2>4 DEF InStep, Syncs
<1> QED
  BY <1>1, <1>2, <1>3 DEF DoneInv

\* A call begins.
LEMMA StartKeeps ==
    ASSUME DoneInv, NEW c \in CallsOf(GroupOf(kept)), Start(c)
    PROVE  DoneInv'
<1>1. call = NoCall /\ kept' = kept /\ stream' = stream
  BY DEF Start, moduleVars
<1>2. Plainly(c) \/ (Syncs(c) /\ "qntp" \in DOMAIN kept)
  BY KnownCalls DEF DoneInv
<1>3. CASE Return(c.api, Fails("PARAM"))
  BY <1>1, <1>3 DEF Return, DoneInv
<1> DEFINE d == [api |-> c.api, commands |-> c.commands, sz |-> c.sz, at |-> 1,
                 line |-> <<>>, body |-> <<>>, acked |-> FALSE, start |-> kept,
                 clean |-> work = <<>> /\ stream = <<>>]
<1>4. CASE c.commands # <<>> /\ Sends(d)
  <2>1. /\ IsCall(d) /\ d.api = c.api /\ d.commands = c.commands /\ d.at = 1
        /\ d.line = <<>> /\ ~d.acked /\ d.start = kept
        /\ d.clean = (work = <<>> /\ stream = <<>>)
    BY DEF IsCall
  <2> HIDE DEF d
  <2>2. call' = d /\ work' = Append(work, d.commands[1])
    BY <1>4, <2>1 DEF Sends
  <2>3. Shaped(d) /\ d.api # "none"
    BY <1>2, <1>4, <2>1 DEF Plainly, Shaped, Syncs, Special
  <2>4. Len(d.commands) \in Nat /\ 1 \in 1..Len(d.commands)
    <3>1. Len(d.commands) \in Nat
      BY <2>3, ShapedCommands
    <3>2. Setters(d.commands) => Len(d.commands) # 0
      <4> SUFFICES ASSUME Setters(d.commands), Len(d.commands) = 0 PROVE FALSE
        OBVIOUS
      <4>1. PICK T : d.commands \in Seq(T)
        BY DEF Setters
      <4>2. d.commands = <<>>
        BY <4>1, EmptySeq
      <4> QED
        BY <1>4, <2>1, <4>2
    <3> QED
      BY <2>3, <3>1, <3>2, ShapedCommands DEF Shaped
  <2>5. Proceeding(d)
    BY <2>1, <2>3, <2>4 DEF Proceeding
  <2>6. Ordinary(d.commands[1])
    BY <2>3, <2>4, ShapedCommands
  <2>7. AllOrdinary(work')
    BY <2>2, <2>6, AllAppend DEF DoneInv
  <2>8. ASSUME d.clean PROVE InStep(call)'
    <3>1. work' = <<d.commands[1]>> /\ stream' = <<>>
      <4>1. work = <<>> /\ stream = <<>>
        BY <2>1, <2>8
      <4>2. \A a : Append(<<>>, a) = <<a>>
        OBVIOUS
      <4> QED
        BY <1>1, <2>2, <4>1, <4>2
    <3>2. kept' = After(d, d.at - 1)
      <4>1. d.at - 1 = 0
        BY <2>1
      <4> QED
        BY <1>1, <2>1, <2>5, <4>1, AfterIs
    <3>3. Sent(call)'
      BY <2>1, <2>2, <3>1, <3>2 DEF Sent, After
    <3>4. CASE Asks(d.commands)
      <4>1. Asker(d.commands[1])
        BY <2>3, <3>4, ShapedCommands
      <4>2. Askers(<<>>) /\ work' = Append(<<>>, d.commands[1])
        BY <2>1, <2>2, <2>8, EmptyAll
      <4> QED
        BY <1>1, <2>1, <2>2, <3>4, <4>1, <4>2, AllAppend DEF InStep
    <3>5. CASE Setters(d.commands) /\ d.api \notin Special
      BY <2>2, <3>3, <3>5 DEF InStep
    <3>6. CASE Syncs(d)
      <4>1. "qntp" \in DOMAIN kept \/ Asks(d.commands) \/ (Setters(d.commands) /\ d.api \notin Special)
        BY <1>2, <1>4, <2>1 DEF Plainly
      <4>2. "qntp" \in DOMAIN kept => kept.qntp \in Verdicts
        BY DEF DoneInv, Known
      <4> QED
        BY <2>1, <2>2, <3>3, <3>4, <3>5, <3>6, <4>1, <4>2 DEF InStep, Syncs
    <3> QED
      BY <2>3, <3>4, <3>5, <3>6 DEF Shaped
  <2> QED
    BY <1>1, <2>2, <2>5, <2>7, <2>8 DEF DoneInv
<1> QED
  BY <1>3, <1>4 DEF Start

LEMMA DoneNext == ASSUME DoneInv, [SettingsNext]_settingVars PROVE Keeps
<1>1. ASSUME call = NoCall \/ call' = call, DoneInv' PROVE Keeps
  BY <1>1 DEF Keeps, CleanReturn
<1>2. ASSUME UNCHANGED <<kept, work, stream, call>> PROVE Keeps
  <2>1. DoneInv'
    BY <1>2 DEF DoneInv, InStep, Sent, Refused, Made, Synced
  <2> QED
    BY <1>1, <1>2, <2>1
<1>3. ASSUME NEW c \in CallsOf(GroupOf(kept)), Start(c) PROVE Keeps
  BY <1>1, <1>3, StartKeeps DEF Start
<1>4. CASE ModuleObeys
  BY <1>1, <1>4, ObeysKeeps DEF ModuleObeys
<1>5. CASE ModuleRefuses
  BY <1>1, <1>5, RefusesKeeps DEF ModuleRefuses
<1>6. CASE CodecStep \/ (\E l \in Notifications : Notified(l)) \/ UNCHANGED settingVars
  BY <1>2, <1>6 DEF CodecStep, Notified, settingVars, moduleVars
<1> QED
  BY <1>3, <1>4, <1>5, <1>6, ReadsLineKeeps, ReadsResultKeeps, TimesOutKeeps DEF SettingsNext

\* A call that ends has done to the module what it says: OK, all its commands
\* have been obeyed; refused, exactly those before the refused one; given up or
\* not understood, the last one sent may or may not have been.
THEOREM DoneAsAskedHolds == SettingsSpec => DoneAsAsked
<1>1. SettingsInit => DoneInv
  <2> SUFFICES ASSUME SettingsInit PROVE DoneInv
    OBVIOUS
  <2>1. PICK g \in Groups : kept \in Initially[g]
    BY DEF SettingsInit
  <2> QED
    BY <2>1, KnownFirst, EmptyAll DEF SettingsInit, DoneInv
<1>2. DoneInv /\ [SettingsNext]_settingVars => DoneInv'
  BY DoneNext DEF Keeps
<1>3. DoneInv /\ [SettingsNext]_settingVars =>
        [CleanReturn =>
            kept' \in CASE last'.st = "OK"     -> {After(call, Len(call.commands))}
                        [] last'.st = "MODULE" -> {After(call, call.at - 1)}
                        [] OTHER -> {After(call, call.at - 1), After(call, call.at)}
        ]_settingVars
  BY DoneNext DEF Keeps, Right
<1> QED
  BY <1>1, <1>2, <1>3, PTL DEF SettingsSpec, DoneAsAsked
=============================================================================
