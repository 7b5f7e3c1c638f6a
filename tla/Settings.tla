------------------------------- MODULE Settings -------------------------------
(***************************************************************************)
(* The settings and queries of the component files against the module that *)
(* keeps the settings.  A call sends its commands (Commands), stops at the *)
(* first that fails, and parses the reply of a query (Queries); the codec  *)
(* of the power-saving timers (PsmTimers) sends none.                      *)
(*                                                                         *)
(* The module obeys or refuses each command in its own time; a call that   *)
(* gave up leaves the command, and its reply, to the calls after it.  How  *)
(* a reply is told from other lines, and whether calls return, is the      *)
(* matter of AtEngine.  An application is followed through one group of    *)
(* settings and through MaxCalls calls.                                    *)
(***************************************************************************)
EXTENDS PsmTimers, Commands, SequencesExt

CONSTANTS
    Groups,     \* the groups of settings an application may use
    MaxCalls    \* bound: calls of one behaviour

ASSUME SettingsAssumption == MaxCalls \in Nat

VARIABLES
    kept,     \* the settings of the module: a line of fields for each name
    off,      \* the module is powered down
    work,     \* commands the module has not come to yet
    stream,   \* lines the library has not read yet
    call,     \* the call under way, or NoCall
    last,     \* what the last call returned
    calls     \* how many calls were made

timerVars == vars
moduleVars == <<kept, off>>
settingVars == <<vars, kept, off, work, stream, call, last, calls>>

-----------------------------------------------------------------------------
(* The module.  A setting is a line of fields, as a query reports it. *)

Clock(year) == <<Num(year), Num(2), Num(28), Num(12), Num(30), Num(0), Num(32)>>

\* What the module may hold when the application starts.
PowerKept ==
    [cfun : {<<Num(1)>>}, qsclk : {<<Num(0)>>},
     cpsms : {<<Num(1), Nil, Nil, Str("tau", 8), Str("active", 8)>>},
     cedrxs : {<<Num(0)>>, <<Num(1), Num(4), Str("old", 4)>>},
     cedrxrdp : {<<Num(4), Str("asked", 4), Str("given", 4), Str("window", 4)>>}]

NetworkKept ==
    [cops : {<<Num(0), Num(0), Str("operator", 8), Num(7)>>},
     cgatt : {<<Num(0)>>, <<Num(1)>>},
     csq : {<<Num(31), Num(0)>>, <<Num(99), Num(99)>>},
     qcsq : {<<Str("LTE", 3), Num(-61), Num(-90), Num(12), Num(-9)>>},
     qnwinfo : {<<Str("FDD LTE", 7), Str("40404", 5), Str("BAND 3", 6), Num(1650)>>,
                <<Word("No Service", 10)>>},
     qspn : {<<Str("operator", 8), Str("short", 5)>>},
     creg : {<<Num(2), Num(5), Str("area", 4), Str("cell", 8), Num(7)>>,
             <<Num(0), Num(6)>>},
     cgreg : {<<Num(1), Num(0)>>}, cereg : {<<Num(0), Num(1)>>}]

ClockKept ==
    [cclk : {Clock(24)}, ctzu : {<<Num(0)>>}, qlts : {Clock(24), Clock(2024)},
     qntp : {<<Num(0), Str("time", 20)>>, <<Num(550)>>}]

SmsKept ==
    [cmgf : {<<Num(1)>>}, csca : {<<Str("number", 12)>>},
     cpms : {Area("ME") \o Area("ME") \o Area("SM")},
     cnmi : {[i \in 1..5 |-> Num(i - 1)]},
     slot : {<<>>, <<Str("STO UNSENT", 10), Str("+91", 3), Nil, Nil, Word("text", 4)>>,
             <<Str("REC READ", 8), Str("+91", 3), Nil, Str("21/01/01", 20),
               Word("text", 4)>>,
             <<Str("REC READ", 8), Str("+91", 3), Str("name", 4), Str("21/01/01", 20),
               Word("text", 4)>>,
             <<Str("REC READ", 8), Str("+91", 3), Str("1st", 3), Str("21/01/01", 20),
               Word("text", 4)>>}]

IdentityKept ==
    [cpin : {<<Word(s, 8)>> : s \in {"READY", "SIM PIN", "SIM PIN2", "SIM PUK2"}},
     echo : {<<Num(0)>>}, cmee : {<<Num(1)>>}, iccid : {<<Word("8991", 20)>>},
     imsi : {<<Word("404", 15)>>}, imei : {<<Word("86", 15)>>},
     version : {<<Word("EC200UCNAA", 24)>>}]

GnssKept ==
    [qgps : {<<Num(0)>>, <<Num(1)>>}, nmeasrc : {<<Num(0)>>},
     gpsnmeatype : {<<Num(1)>>},
     qgpsloc : {<<Word("hhmmss", 6), Num(12), Num(77), Num(hdop), Num(900), Num(fix),
                  Num(10), Num(20), Num(30), Word("ddmmyy", 6), Num(9)>> :
                    hdop \in {12, 999}, fix \in {0, 3}}]

TlsKept ==
    [sslversion : {<<Num(0)>>}, ciphersuite : {<<Num(1)>>}, seclevel : {<<Num(0)>>},
     cacert : {<<>>, <<Str("old", 3)>>}, clientcert : {<<>>}, clientkey : {<<>>},
     ignorelocaltime : {<<Num(0)>>}, sni : {<<Num(0)>>}, contextid : {<<Num(1)>>},
     sslctxid : {<<Num(0)>>},
     qhttpget : {<<Num(0), Num(200), Num(5)>>, <<Num(703)>>}]

FileKept ==
    [qflst : {<<>>, <<Str("name", 63), Num(100)>>}, qflds : {<<Num(500), Num(900)>>}]

PdpKept ==
    [cgdcont : {<<Str("", 0)>>}, qicsgp : {<<>>}, cgact : {<<Num(0)>>},
     cgpaddr : {<<Num(16), Str("10.0.0.2", 8)>>, <<Num(16), Str("", 0)>>}]

Initially ==
    [power |-> PowerKept, network |-> NetworkKept, clock |-> ClockKept,
     sms |-> SmsKept, identity |-> IdentityKept, gnss |-> GnssKept,
     tls |-> TlsKept, file |-> FileKept, pdp |-> PdpKept]

ASSUME GroupsAssumption == Groups \subseteq DOMAIN Initially

\* A command that carries fewer fields than the setting has, or empty ones,
\* leaves the rest as it was.
Applied(val, old) ==
    [i \in 1..IF Len(val) > Len(old) THEN Len(val) ELSE Len(old) |->
        IF i <= Len(val) /\ (val[i] # Nil \/ i > Len(old)) THEN val[i] ELSE old[i]]

\* The settings after command c.  A restart loses those not kept in flash.
Obeyed(k, c) ==
    CASE c.does \in {"set", "tell"} -> [k EXCEPT ![c.key] = Applied(c.val, @)]
      [] c.does = "delete"  -> [k EXCEPT ![c.key] = <<>>]
      [] c.does = "restart" -> [k EXCEPT !.cfun = c.val, !.qsclk = <<Num(0)>>]
      [] c.does = "sync" /\ Nth(k.qntp, 0) = Num(0) -> [k EXCEPT !.cclk = Clock(26)]
      [] c.does = "sent" /\ k[c.key] # <<>> -> [k EXCEPT ![c.key][1] = Str("STO SENT", 8)]
      [] OTHER -> k

Line(kind, prefix, fields) == [kind |-> kind, prefix |-> prefix, fields |-> fields]
Final(kind) == Line(kind, "", <<>>)

\* A firmware may leave out the last fields of a line, of a time stamp only the
\* zone; a registration has its status always.
Registrations == {"creg", "cgreg", "cereg"}
Least(key) == CASE key \in {"cclk", "qlts"} -> 6
                [] key \in Registrations -> 2
                [] OTHER -> 1
Numbers(f) == SelectSeq(f, LAMBDA e : e.kind = "num")
Shortened(prefix, f, least) == {<<Line("data", prefix, SubSeq(f, 1, n))>> : n \in least..Len(f)}

\* How a firmware reports a setting that is asked for.  A change of registration
\* may be announced, with the same prefix, before it is reported.
Described(key, f) ==
    CASE key = "slot" ->
             {<<Line("data", "CMGR", Front(f)), Line("data", "", <<Last(f)>>)>>,
              <<Line("data", "CMGR", Front(f))>>}
      [] key = "iccid" -> {<<Line("data", p, f)>> : p \in {"", "iccid"}}
      [] key \in {"imsi", "imei", "version"} -> {<<Line("data", "", f)>>}
      [] key \in Registrations ->
             {urc \o said : urc \in {<<>>, <<Line("data", key, <<f[2]>>)>>},
                            said \in Shortened(key, f, 2)}
      [] OTHER -> Shortened(key, f, Least(key))

\* What the module reports besides the final result.
Reports(c, f) ==
    CASE c.does = "tell" -> Shortened("cpms", Numbers(f), 1)
      [] c.does = "sent" -> {<<Line("data", "slot", <<Num(7)>>)>>, <<Line("data", "slot", <<>>)>>}
      [] c.does = "ask" /\ f = <<>> -> {<<>>}
      [] c.does = "ask" /\ f # <<>> -> Described(c.key, f)
      [] c.loop = "await" -> Shortened(c.key, f, Least(c.key))
      [] OTHER -> {<<>>}

\* A result that a call awaits comes before or behind the OK.
Answers(c, f) ==
    LET OK == <<Final("OK")>>
    IN  {said \o OK : said \in Reports(c, f)}
          \cup IF c.loop = "await" THEN {OK \o said : said \in Reports(c, f)} ELSE {}

\* The module comes to a command.
ModuleObeys ==
    /\ work # <<>> /\ ~off
    /\ LET c == Head(work)
       IN  /\ kept' = Obeyed(kept, c)
           /\ off' = (c.does = "off")
           /\ \E said \in Answers(c, kept'[c.key]) : stream' = stream \o said
    /\ work' = Tail(work)
    /\ UNCHANGED <<timerVars, call, last, calls>>

ModuleRefuses ==
    /\ work # <<>> /\ ~off
    /\ stream' = Append(stream, Final("ERROR"))
    /\ work' = Tail(work)
    /\ UNCHANGED <<timerVars, moduleVars, call, last, calls>>

-----------------------------------------------------------------------------
(* Calls. *)

NoCall == [api |-> "none"]
Result(api, answer) == [api |-> api, st |-> answer.st, out |-> answer.out]

\* Strings that begin with a digit, storages by name.
DigitLed == {"21/01/01", "1st"}

\* The answer of a query, from the line with its prefix and all its lines.
Parsed(c) ==
    LET l == IF c.line = <<>> THEN <<>> ELSE c.line[1].fields
    IN  CASE c.api = "ec200_power_get_cfun"     -> ec200_power_get_cfun(l)
          [] c.api = "ec200_psm_get"            -> ec200_psm_get(l)
          [] c.api = "ec200_edrx_get"           -> ec200_edrx_get(l)
          [] c.api = "ec200_edrx_get_dynamic"   -> ec200_edrx_get_dynamic(l)
          [] c.api = "ec200_net_get_signal"     -> ec200_net_get_signal(l)
          [] c.api = "ec200_net_get_signal_ext" -> ec200_net_get_signal_ext(l)
          [] c.api = "ec200_net_get_operator"   -> ec200_net_get_operator(l)
          [] c.api = "ec200_net_get_info"       -> ec200_net_get_info(l)
          [] c.api = "ec200_net_get_spn"        -> ec200_net_get_spn(l, c.sz)
          [] c.api = "ec200_net_is_attached"    -> ec200_net_is_attached(l)
          [] c.api \in {"ec200_net_get_creg", "ec200_net_get_cgreg", "ec200_net_get_cereg"} ->
                 parse_reg_status(l)
          [] c.api = "ec200_data_get_ip"        -> ec200_data_get_ip(l, c.sz)
          [] c.api = "ec200_http_get"           -> parse_http_result(l)
          [] c.api = "ec200_time_sync_ntp"      -> ec200_time_sync_ntp(l)
          [] c.api \in {"ec200_time_get", "ec200_time_get_network"} -> parse_timestamp(l)
          [] c.api = "ec200_gnss_get_status"    -> ec200_gnss_get_status(l)
          [] c.api = "ec200_gnss_get_location"  -> ec200_gnss_get_location(l)
          [] c.api = "ec200_file_exists"        -> Gives(<<Flag(TRUE)>>)
          [] c.api = "ec200_file_size"          -> qflst_size(l)
          [] c.api = "ec200_file_storage"       -> ec200_file_storage(l)
          [] c.api = "ec200_sms_set_storage"    -> ec200_sms_set_storage(l)
          [] c.api = "ec200_sms_get_storage"    -> ec200_sms_get_storage(l)
          [] c.api = "ec200_sms_get_smsc"       -> ec200_sms_get_smsc(l, c.sz)
          [] c.api = "ec200_sms_get_indication" -> ec200_sms_get_indication(l)
          [] c.api = "ec200_sms_send_stored"    -> ec200_sms_send_stored(l)
          [] c.api = "ec200_sms_read"           -> ec200_sms_read(c.body, DigitLed)
          [] c.api = "ec200_sim_get_status"     -> ec200_sim_get_status(l)
          [] c.api = "ec200_sim_get_iccid"      ->
                 IF c.line = <<>> THEN FirstLine(c.body, c.sz) ELSE ec200_sim_get_iccid(l, c.sz)
          [] c.api \in {"ec200_sim_get_imsi", "ec200_get_imei", "ec200_get_fw_version"} ->
                 FirstLine(c.body, c.sz)
          [] OTHER -> Gives(<<>>)

\* A call returns.  A file that is not listed does not exist.
Return(api, answer) ==
    /\ last' = IF api = "ec200_file_exists" /\ answer.st \in {"MODULE", "PARSE"}
               THEN Result(api, Gives(<<<<>>>>)) ELSE Result(api, answer)
    /\ call' = NoCall
    /\ UNCHANGED work

Sends(c) == call' = c /\ work' = Append(work, c.commands[c.at]) /\ UNCHANGED last

\* Another way to ask, when the first failed: without the extended command, or
\* without a prefix.
Fallback(c) ==
    CASE c.api = "ec200_net_get_signal_ext" ->
             [c EXCEPT !.api = "ec200_net_get_signal", !.commands = <<Ask("csq")>>]
      [] c.api = "ec200_sim_get_iccid" /\ c.commands = <<Ask("iccid")>> ->
             [c EXCEPT !.commands = <<AskBody("iccid")>>]
      [] OTHER -> c

Fresh(c) == [c EXCEPT !.line = <<>>, !.body = <<>>, !.acked = FALSE]

\* Mutant of CommandEnds: a command that fails does not end its call.
CommandEndsAnyhow(c, status) ==
    \/ c.at < Len(c.commands) /\ Sends([Fresh(c) EXCEPT !.at = @ + 1])
    \/ c.at = Len(c.commands) /\ status # "OK" /\ Return(c.api, Fails(status))
    \/ c.at = Len(c.commands) /\ status = "OK" /\ Return(c.api, Parsed(c))

\* The command under way ends: the call goes on, asks in another way, or is over.
CommandEnds(c, status) ==
    \/ status = "OK" /\ c.at < Len(c.commands) /\ Sends([Fresh(c) EXCEPT !.at = @ + 1])
    \/ status = "OK" /\ c.at = Len(c.commands) /\ Return(c.api, Parsed(c))
    \/ status # "OK" /\ Fallback(c) # c /\ Sends(Fresh(Fallback(c)))
    \/ status # "OK" /\ Fallback(c) = c /\ Return(c.api, Fails(status))

\* The application makes a call.  The codec has no part in what follows.
Start(c) ==
    /\ call = NoCall /\ calls < MaxCalls
    /\ calls' = calls + 1
    /\ \/ c.commands = <<>> /\ Return(c.api, Fails("PARAM"))
       \/ /\ c.commands # <<>>
          /\ Sends([api |-> c.api, commands |-> c.commands, sz |-> c.sz, at |-> 1,
                    line |-> <<>>, body |-> <<>>, acked |-> FALSE, start |-> kept,
                    clean |-> work = <<>> /\ stream = <<>>])
    /\ did' = "none" /\ timer' = "tau" /\ seconds' = 0 /\ octet' = Deactivated /\ st' = "none"
    /\ UNCHANGED <<moduleVars, stream>>

Waits(loop) == call # NoCall /\ call.commands[call.at].loop = loop
Reads == stream # <<>> /\ stream' = Tail(stream) /\ UNCHANGED <<timerVars, moduleVars, calls>>
Notes(c) == call' = c /\ UNCHANGED <<work, last>>

\* receive_transaction, one line; the first with the prefix is the answer.
ReadsLine ==
    /\ call # NoCall /\ ~Waits("await") /\ Reads
    /\ LET l == Head(stream)
           missing == Waits("prefix") /\ call.line = <<>>
       IN  \/ /\ l.kind = "data"
              /\ Notes([call EXCEPT
                     !.line = IF missing /\ l.prefix = call.commands[call.at].key THEN <<l>> ELSE @,
                     !.body = IF Waits("body") THEN Append(@, l) ELSE @])
           \/ l.kind = "OK" /\ CommandEnds(call, IF missing THEN "PARSE" ELSE "OK")
           \/ l.kind = "ERROR" /\ CommandEnds(call, "MODULE")

\* ec200_at_send_await_urc, one line.  The result line and the OK are waited for
\* in either order, and the verdict of an OK that comes second is ignored.
ReadsResult ==
    /\ Waits("await") /\ Reads
    /\ LET l == Head(stream)
           wanted == l.prefix = call.commands[call.at].key
           c == [call EXCEPT !.line = <<l>>]
       IN  \/ l.kind = "data" /\ ~wanted /\ Notes(call)
           \/ l.kind = "data" /\ wanted /\ ~call.acked /\ Notes(c)
           \/ l.kind = "data" /\ wanted /\ call.acked /\ CommandEnds(c, "OK")
           \/ l.kind = "OK" /\ call.line = <<>> /\ Notes([call EXCEPT !.acked = TRUE])
           \/ l.kind = "ERROR" /\ call.line = <<>> /\ CommandEnds(call, "MODULE")
           \/ l.kind # "data" /\ call.line # <<>> /\ CommandEnds(call, "OK")

\* A line that is due has not come in time.
TimesOut ==
    /\ call # NoCall
    /\ CommandEnds(call, IF Waits("await") /\ call.line # <<>> THEN "OK" ELSE "TIMEOUT")
    /\ UNCHANGED <<timerVars, moduleVars, stream, calls>>

\* The application parses a +CMTI line that a handler was given.
Notified(l) ==
    /\ call = NoCall /\ calls < MaxCalls /\ "slot" \in DOMAIN kept
    /\ last' = Result("ec200_sms_parse_notification", ec200_sms_parse_notification(l, mem_strings))
    /\ calls' = calls + 1
    /\ UNCHANGED <<timerVars, moduleVars, work, stream, call>>

Notifications == {<<Str(mem, 2), Num(index)>> : mem \in {"SM", "XX"}, index \in {-1, 3}}

\* The codec, as long as nothing else has been called.
CodecStep ==
    /\ calls = 0 /\ "cpsms" \in DOMAIN kept
    /\ Next
    /\ UNCHANGED <<moduleVars, work, stream, call, last, calls>>

SettingsInit ==
    /\ Init
    /\ \E group \in Groups : kept \in Initially[group]
    /\ off = FALSE /\ work = <<>> /\ stream = <<>>
    /\ call = NoCall /\ last = Result("none", Gives(<<>>)) /\ calls = 0

\* The group is known by its settings.
GroupOf(k) ==
    CHOOSE group \in Groups : \A i \in Initially[group] : DOMAIN i = DOMAIN k

SettingsNext ==
    \/ CodecStep
    \/ \E c \in CallsOf(GroupOf(kept)) : Start(c)
    \/ \E l \in Notifications : Notified(l)
    \/ ReadsLine \/ ReadsResult \/ TimesOut
    \/ ModuleObeys \/ ModuleRefuses

SettingsSpec == SettingsInit /\ [][SettingsNext]_settingVars

-----------------------------------------------------------------------------
(* Properties.  A call is clean if it began with nothing left of another.  *)

\* A clean call returns in this step.
CleanReturn == call # NoCall /\ call' = NoCall /\ call.clean

\* Settings k after the first n of the commands, and those of a call.
Obeying(k, commands, n) ==
    LET done[i \in 0..Len(commands)] ==
            IF i = 0 THEN k ELSE Obeyed(done[i - 1], commands[i])
    IN  done[n]
After(c, n) == Obeying(c.start, c.commands, n)

\* What a call did to the module is what it says: OK, all its commands have been
\* obeyed; refused, exactly those before the refused one; given up or not
\* understood, the last one sent may or may not have been.  Nothing is done
\* behind a failure, and nothing of another call.
DoneAsAsked ==
    [][ CleanReturn =>
            kept' \in CASE last'.st = "OK"     -> {After(call, Len(call.commands))}
                        [] last'.st = "MODULE" -> {After(call, call.at - 1)}
                        [] OTHER -> {After(call, call.at - 1), After(call, call.at)}
      ]_settingVars

-----------------------------------------------------------------------------

\* The reference for the parsers: the setting of a query, and the field of its
\* line, counted from 0, that each value handed out is documented to be.
At(key, fields) == [key |-> key, fields |-> fields]
Documented ==
    [ec200_power_get_cfun |-> At("cfun", <<0>>),
     ec200_psm_get |-> At("cpsms", <<0, 3, 4>>),
     ec200_edrx_get |-> At("cedrxs", <<0, 1, 2>>),
     ec200_edrx_get_dynamic |-> At("cedrxrdp", <<0, 1, 2, 3>>),
     ec200_net_get_signal |-> At("csq", <<0, 1>>),
     ec200_net_get_signal_ext |-> At("qcsq", <<1, 2, 3>>),
     ec200_net_get_operator |-> At("cops", <<0, 1, 2, 3>>),
     ec200_net_get_info |-> At("qnwinfo", <<0, 1, 2, 3>>),
     ec200_net_get_spn |-> At("qspn", <<0>>),
     ec200_net_is_attached |-> At("cgatt", <<0>>),
     ec200_net_get_creg |-> At("creg", <<1>>),
     ec200_net_get_cgreg |-> At("cgreg", <<1>>),
     ec200_net_get_cereg |-> At("cereg", <<1>>),
     ec200_data_get_ip |-> At("cgpaddr", <<1>>),
     ec200_http_get |-> At("qhttpget", <<1, 2>>),
     ec200_time_get |-> At("cclk", <<0, 1, 2, 3, 4, 5, 6>>),
     ec200_time_get_network |-> At("qlts", <<0, 1, 2, 3, 4, 5, 6>>),
     ec200_gnss_get_status |-> At("qgps", <<0>>),
     ec200_gnss_get_location |-> At("qgpsloc", <<0, 1, 2, 3, 4, 5, 6, 7, 9, 10>>),
     ec200_file_exists |-> At("qflst", <<1>>),
     ec200_file_size |-> At("qflst", <<1>>),
     ec200_file_storage |-> At("qflds", <<0, 1>>),
     ec200_sms_set_storage |-> At("cpms", <<1, 2, 4, 5, 7, 8>>),
     ec200_sms_get_storage |-> At("cpms", <<1, 2, 4, 5, 7, 8>>),
     ec200_sms_get_smsc |-> At("csca", <<0>>),
     ec200_sms_get_indication |-> At("cnmi", <<0, 1, 2, 3, 4>>),
     ec200_sms_read |-> At("slot", <<0, 1, 3, 4>>),
     ec200_sim_get_status |-> At("cpin", <<0>>),
     ec200_sim_get_iccid |-> At("iccid", <<0>>),
     ec200_sim_get_imsi |-> At("imsi", <<0>>),
     ec200_get_imei |-> At("imei", <<0>>),
     ec200_get_fw_version |-> At("version", <<0>>)]

\* The values that are not handed out as they are: a yes or no, decibels, a year
\* since 2000.
YesOrNo == {<<"ec200_psm_get", 1>>, <<"ec200_edrx_get", 1>>, <<"ec200_net_is_attached", 1>>,
            <<"ec200_gnss_get_status", 1>>, <<"ec200_gnss_get_location", 6>>,
            <<"ec200_file_exists", 1>>}
AsMeant(api, i, f) ==
    CASE <<api, i>> \in YesOrNo -> Bit(f.num > 0)
      [] <<api, i>> = <<"ec200_net_get_signal", 1>> -> Num(IF f.num = 99 THEN 0 ELSE 2 * f.num - 113)
      [] <<api, i>> = <<"ec200_time_get", 1>> -> Num(2000 + f.num)
      [] OTHER -> f

\* Deviations the repository knows (TECH_DEBT.md): the year of the network time
\* (A1), a dilution beyond 25.5 (A7), a name cut to its buffer (C5).  Two more:
\* a sender's name that begins with a digit passes for the time stamp, and
\* after a try that timed out the card number may come with its prefix.
Excepted(api, i, k) ==
    \/ api = "ec200_time_get_network" /\ i = 1
    \/ api = "ec200_gnss_get_location" /\ i = 4 /\ k.qgpsloc[4].num > 255
    \/ api = "ec200_net_get_spn" /\ k.qspn[1].num >= call.sz
    \/ api = "ec200_data_get_ip" /\ k.cgpaddr[2].num >= call.sz
    \/ api = "ec200_sms_read" /\ i = 3 /\ k.slot # <<>> /\ k.slot[3].str \in DigitLed
    \/ api = "ec200_sim_get_iccid" /\ call.body # <<>> /\ call.body[1].prefix = "iccid"

\* How many fields the lines that decided the call reported.
Reported ==
    IF call.api = "ec200_sms_set_storage" THEN (3 * Len(call.line[1].fields)) \div 2
    ELSE IF call.line # <<>> THEN Len(call.line[1].fields)
    ELSE IF call.acked THEN Len(Head(stream).fields)
    ELSE Len(FlattenSeq([i \in DOMAIN call.body |-> call.body[i].fields]))

\* A query that succeeds hands out what the module keeps, each value from its
\* own place, and leaves out only what the module left out.
ReadsWhatIsKept ==
    [][ (CleanReturn /\ last'.st = "OK" /\ call.api \in DOMAIN Documented) =>
            LET doc == Documented[call.api]
            IN  \A i \in DOMAIN doc.fields :
                    LET f == Nth(kept[doc.key], doc.fields[i])
                        due == IF f = Nil THEN <<>> ELSE <<AsMeant(call.api, i, f)>>
                    IN  \/ last'.out[i] = due
                        \/ last'.out[i] = <<>> /\ doc.fields[i] >= Reported
                        \/ Excepted(call.api, i, kept)
      ]_settingVars

\* A query that fails has put nothing of the reply into the caller's structure.
\* Excepted are the storage usage, stored area by area, and the storage of a
\* notification whose index is unreadable.
NoHalfAnswer ==
    (/\ last.st # "OK"
     /\ last.api \notin {"ec200_sms_set_storage", "ec200_sms_get_storage",
                         "ec200_sms_parse_notification"}) =>
        \A i \in DOMAIN last.out : last.out[i] = <<>>
=============================================================================
