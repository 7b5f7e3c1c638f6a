------------------------------- MODULE Queries -------------------------------
(***************************************************************************)
(* What the caller of a query gets from the line that answers it: the      *)
(* parsers of the component files, over lines split into fields.           *)
(* FieldParser is about that split; here a line is a sequence of fields,   *)
(* and an operator has the name of the C function it stands for.           *)
(*                                                                         *)
(* A field is a bare integer, a quoted string, a bare word, or empty.      *)
(***************************************************************************)
EXTENDS Integers, Sequences, FiniteSetsExt

\* num is the value of an integer, the length of a string or word.
Field(kind, str, num) == [kind |-> kind, str |-> str, num |-> num]
Num(n)     == Field("num", "", n)
Str(s, n)  == Field("str", s, n)
Word(s, n) == Field("word", s, n)
Nil        == Field("nil", "", 0)

\* What a query returns, and the values it puts into the caller's structure.
\* A value that does not come from the reply is <<>>: the caller sees what was
\* there before, or the zero or "unknown" the function puts in its place.
Answer(status, out) == [st |-> status, out |-> out]
Gives(out)    == Answer("OK", out)
Fails(status) == Answer(status, <<>>)
Parse == Fails("PARSE")

Slot(f) == IF f.kind = "nil" THEN <<>> ELSE <<f>>

-----------------------------------------------------------------------------
(* Fields.  Indices count from 0, as in the code. *)

Nth(l, i) == IF i + 1 \in DOMAIN l THEN l[i + 1] ELSE Nil

\* ec200_at_parse_int_field
IsInt(l, i) == Nth(l, i).kind = "num"
Value(l, i) == Nth(l, i).num

\* extract_quoted, again and again
Quoted(l) == SelectSeq(l, LAMBDA f : f.kind = "str")

\* copy_field: with or without quotes, and an absent field is an empty one.
copy_field(l, i) == Slot(Nth(l, i))

\* sscanf: how many conversions succeed.  %[^"] does not match an empty string.
Converts(f, kind) == f.kind = kind /\ (kind = "str" => f.num > 0)
sscanf(l, first, kinds) ==
    LET misses == {i \in 1..Len(kinds) : ~Converts(Nth(l, first + i - 1), kinds[i])}
    IN  IF misses = {} THEN Len(kinds) ELSE Min(misses) - 1

\* The values of n conversions out of m, from field `first' on.
Converted(l, first, n, m) ==
    [i \in 1..m |-> IF i <= n THEN Slot(Nth(l, first + i - 1)) ELSE <<>>]

\* bool out of an integer field
Flag(b) == <<Num(IF b THEN 1 ELSE 0)>>
OneInt(l, i) == IF IsInt(l, i) THEN Gives(<<Slot(Nth(l, i))>>) ELSE Parse
IsOne(l)     == IF IsInt(l, 0) THEN Gives(<<Flag(Value(l, 0) = 1)>>) ELSE Parse

\* A string for a buffer of sz bytes: refused rather than cut.
Fitting(f, sz) == CASE f.num = 0   -> Parse
                    [] f.num >= sz -> Fails("OVERFLOW")
                    [] OTHER       -> Gives(<<<<f>>>>)

-----------------------------------------------------------------------------
(* src/src/ec200_power.c *)

ec200_power_get_cfun(l) == OneInt(l, 0)

ec200_psm_get(l) ==
    IF ~IsInt(l, 0) THEN Parse
    ELSE Gives(<<Flag(Value(l, 0) # 0), copy_field(l, 3), copy_field(l, 4)>>)

\* Mutant of ec200_edrx_get: the technology is taken from the first field, as
\* 3GPP 27.007 has it.
EdrxByTheBook(l) ==
    IF ~IsInt(l, 0) THEN Parse
    ELSE Gives(<<Flag(Value(l, 0) # 0), Slot(Nth(l, 0)), copy_field(l, 2)>>)

ec200_edrx_get(l) ==
    CASE ~IsInt(l, 0) -> Parse
      [] IsInt(l, 0) /\ IsInt(l, 1) ->
             Gives(<<Flag(Value(l, 0) # 0), Slot(Nth(l, 1)), copy_field(l, 2)>>)
      [] IsInt(l, 0) /\ ~IsInt(l, 1) ->
             Gives(<<Flag(Value(l, 0) # 0), <<>>, <<>>>>)

ec200_edrx_get_dynamic(l) ==
    IF ~IsInt(l, 0) THEN Parse
    ELSE Gives(<<Slot(Nth(l, 0)), copy_field(l, 1), copy_field(l, 2), copy_field(l, 3)>>)

-----------------------------------------------------------------------------
(* src/src/ec200_network.c *)

Dbm(rssi) == IF rssi \in 0..31 THEN -113 + 2 * rssi ELSE 0

ec200_net_get_signal(l) ==
    IF sscanf(l, 0, <<"num", "num">>) < 2 THEN Parse
    ELSE Gives(<<<<Num(Dbm(Value(l, 0)))>>, Slot(Nth(l, 1))>>)

\* +QCSQ: the name of the system, then values that may be negative.
ec200_net_get_signal_ext(l) ==
    LET n == sscanf(l, 1, <<"num", "num", "num">>)
    IN  IF n < 1 THEN Parse ELSE Gives(Converted(l, 1, n, 3))

ec200_net_get_operator(l) ==
    LET n == sscanf(l, 0, <<"num", "num", "str", "num">>)
    IN  IF n < 1 THEN Parse ELSE Gives(Converted(l, 0, n, 4))

ec200_net_get_info(l) ==
    LET n == sscanf(l, 0, <<"str", "str", "str", "num">>)
    IN  IF n < 1 THEN Parse ELSE Gives(Converted(l, 0, n, 4))

\* A name that does not fit is cut.
ec200_net_get_spn(l, sz) ==
    IF Quoted(l) = <<>> THEN Parse
    ELSE LET f == Quoted(l)[1]
         IN  Gives(<<<<IF f.num >= sz THEN [f EXCEPT !.num = sz - 1] ELSE f>>>>)

ec200_net_is_attached(l) == IsOne(l)

\* The status is behind the first comma; only the unsolicited form has none.
parse_reg_status(l) ==
    LET f == Nth(l, IF Len(l) > 1 THEN 1 ELSE 0)
    IN  IF f.kind = "num" /\ f.num \in 0..5 THEN Gives(<<Slot(f)>>) ELSE Parse

-----------------------------------------------------------------------------
(* src/src/ec200_data.c, src/src/ec200_http.c, src/src/ec200_time.c *)

\* What is behind the first comma; an address that does not fit is cut.
ec200_data_get_ip(l, sz) ==
    LET f == Nth(l, 1)
    IN  IF Len(l) < 2 \/ f.num = 0 THEN Parse
        ELSE Gives(<<<<IF f.num >= sz THEN [f EXCEPT !.num = sz - 1] ELSE f>>>>)

\* The verdict of a result line, in its first field.
Verdict(l) ==
    CASE ~IsInt(l, 0) -> "PARSE"
      [] IsInt(l, 0) /\ Value(l, 0) # 0 -> "MODULE"
      [] IsInt(l, 0) /\ Value(l, 0) = 0 -> "OK"

\* The code of the response is kept in 16 bits; both values may be missing.
parse_http_result(l) ==
    IF Verdict(l) # "OK" THEN Fails(Verdict(l))
    ELSE Gives(<<IF IsInt(l, 1) THEN <<Num(Value(l, 1) % 65536)>> ELSE <<>>,
                 IF IsInt(l, 2) THEN <<Num(Max({Value(l, 2), 0}))>> ELSE <<>>>>)

ec200_time_sync_ntp(l) == Answer(Verdict(l), <<>>)

\* The fields of a time stamp.
InClock(l) == /\ Value(l, 1) \in 1..12 /\ Value(l, 2) \in 1..31
              /\ Value(l, 3) \in 0..23 /\ Value(l, 4) \in 0..59 /\ Value(l, 5) \in 0..60

\* "yy/MM/dd,hh:mm:ss+zz"; the zone may be missing.
parse_timestamp(l) ==
    LET n == sscanf(l, 0, [i \in 1..7 |-> "num"])
    IN  IF n < 6 \/ ~InClock(l) THEN Parse
        ELSE Gives([Converted(l, 0, n, 7) EXCEPT ![1] = <<Num(2000 + Value(l, 0))>>])

-----------------------------------------------------------------------------
(* src/src/ec200_gnss.c, src/src/ec200_file.c *)

ec200_gnss_get_status(l) == IsOne(l)

\* UTC, latitude, longitude, HDOP, altitude, fix, course, km/h, (knots), date,
\* satellites; HDOP in tenths, for which the caller has one byte.
ec200_gnss_get_location(l) ==
    LET kinds == <<"word", "num", "num", "num", "num", "num", "num", "num", "num",
                   "word", "num">>
        n == sscanf(l, 0, kinds)
        at == <<1, 2, 3, 4, 5, 6, 7, 8, 10, 11>>
    IN  IF n < 2 THEN Parse
        ELSE Gives([i \in 1..10 |->
                       CASE at[i] > n -> <<>>
                         [] i = 4 /\ at[i] <= n -> <<Num(Value(l, 3) % 256)>>
                         [] i = 6 /\ at[i] <= n -> Flag(Value(l, 5) > 0)
                         [] OTHER -> Slot(Nth(l, at[i] - 1))])

\* +QFLST: name, size
qflst_size(l) == IF IsInt(l, 1) /\ Value(l, 1) >= 0 THEN OneInt(l, 1) ELSE Parse

ec200_file_storage(l) ==
    IF \A i \in 0..1 : IsInt(l, i) /\ Value(l, i) >= 0
    THEN Gives(<<Slot(Nth(l, 0)), Slot(Nth(l, 1))>>) ELSE Parse

-----------------------------------------------------------------------------
(* src/src/ec200_sms.c *)

\* Used and total of three areas; an area is stored as soon as it is parsed.
parse_cpms_usage(l, first, stride) ==
    LET at(i)  == first + (i - 1) * stride
        bad    == {i \in 1..3 : \E k \in 0..1 :
                      ~IsInt(l, at(i) + k) \/ Value(l, at(i) + k) < 0}
        good   == IF bad = {} THEN 3 ELSE Min(bad) - 1
        out    == [k \in 1..6 |->
                      LET i == (k + 1) \div 2
                      IN  IF i > good THEN <<>>
                          ELSE Slot(Nth(l, at(i) + ((k + 1) % 2)))]
    IN  Answer(IF bad = {} THEN "OK" ELSE "PARSE", out)

ec200_sms_set_storage(l) == parse_cpms_usage(l, 0, 2)
ec200_sms_get_storage(l) == parse_cpms_usage(l, 1, 3)

\* Not extract_quoted: a number that does not fit is refused.
ec200_sms_get_smsc(l, sz) ==
    CASE Quoted(l) = <<>> -> Parse
      [] Quoted(l) # <<>> /\ Quoted(l)[1].num >= sz -> Fails("OVERFLOW")
      [] OTHER -> Gives(<<<<Quoted(l)[1]>>>>)

InByte(l, i) == IsInt(l, i) /\ Value(l, i) \in 0..255

\* Mutant of ec200_sms_get_indication: fields are stored as they are parsed.
IndicationAsParsed(l) ==
    LET bad  == {i \in 0..4 : ~InByte(l, i)}
        good == IF bad = {} THEN 5 ELSE Min(bad)
    IN  Answer(IF bad = {} THEN "OK" ELSE "PARSE", Converted(l, 0, good, 5))

\* All five fields, or none.
ec200_sms_get_indication(l) ==
    IF \A i \in 0..4 : InByte(l, i) THEN Gives(Converted(l, 0, 5, 5)) ELSE Parse

\* The reference is informational: without it the call succeeds all the same.
ec200_sms_send_stored(l) == Gives(<<IF IsInt(l, 0) THEN Slot(Nth(l, 0)) ELSE <<>>>>)

\* Status, sender, perhaps a name, and the time stamp, which is the third
\* string if that one begins with a digit.
parse_cmgr_header(l, digitLed) ==
    LET q == Quoted(l)
        string(k) == IF k <= Len(q) THEN <<q[k]>> ELSE <<>>
    IN  <<string(1), string(2),
          IF Len(q) >= 3 /\ q[3].str \in digitLed THEN string(3) ELSE string(4)>>

\* +CMGR and its text, out of all lines of the answer.
ec200_sms_read(body, digitLed) ==
    LET headers == {i \in DOMAIN body : body[i].prefix = "CMGR"}
    IN  IF headers = {} THEN Parse
        ELSE LET h == Min(headers)
             IN  Gives(Append(parse_cmgr_header(body[h].fields, digitLed),
                              IF h = Len(body) THEN <<>> ELSE body[h + 1].fields))

\* +CMTI: the storage is stored before the index is looked at.
ec200_sms_parse_notification(l, storages) ==
    CASE Quoted(l) = <<>> -> Parse
      [] Quoted(l) # <<>> /\ Quoted(l)[1].str \notin storages -> Parse
      [] Quoted(l) # <<>> /\ Quoted(l)[1].str \in storages ->
             IF IsInt(l, 1) /\ Value(l, 1) >= 0
             THEN Gives(<<<<Quoted(l)[1]>>, Slot(Nth(l, 1))>>)
             ELSE Answer("PARSE", <<<<Quoted(l)[1]>>, <<>>>>)

-----------------------------------------------------------------------------
(* src/src/ec200_sim.c, src/src/ec200.c *)

\* The text of each state is compared in this order, as a prefix.
SimStates == <<"READY", "SIM PIN2", "SIM PUK2", "SIM PIN", "SIM PUK", "NOT INSERTED">>
StartsWith(w) == {w} \cup (IF w = "SIM PIN2" THEN {"SIM PIN"} ELSE {})
                   \cup (IF w = "SIM PUK2" THEN {"SIM PUK"} ELSE {})

ec200_sim_get_status(l) ==
    LET hits == {i \in DOMAIN SimStates : SimStates[i] \in StartsWith(Nth(l, 0).str)}
    IN  Gives(<<IF hits = {} THEN <<>> ELSE <<Word(SimStates[Min(hits)], Nth(l, 0).num)>>>>)

\* A whole line as text: a prefix, of about eight characters, is part of it.
Text(line) ==
    LET f == Nth(line.fields, 0)
    IN  IF line.prefix = "" THEN f ELSE Word(line.prefix, f.num + 8)

\* get_string_response, ec200_sim_get_imsi: the first line of the answer.
FirstLine(body, sz) == IF body = <<>> THEN Parse ELSE Fitting(Text(body[1]), sz)

\* ec200_sim_get_iccid, from the line with the prefix.
ec200_sim_get_iccid(l, sz) == Fitting(Nth(l, 0), sz)
=============================================================================
