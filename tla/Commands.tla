------------------------------ MODULE Commands ------------------------------
(***************************************************************************)
(* The command lines that the functions of the component files send, from  *)
(* their checked arguments: settings and queries of power, network, clock, *)
(* SMS, SIM, identity, GNSS, TLS and HTTP contexts, files and packet data  *)
(* contexts (src/src/ec200_*.c).  An operator has the name of the C        *)
(* function it stands for; each is a sequence of commands, which the call  *)
(* sends in turn and abandons at the first that fails.                     *)
(***************************************************************************)
EXTENDS Queries

-----------------------------------------------------------------------------
(* Commands.  A command names the setting it is about, and `loop' is the   *)
(* receive loop its call waits in: for the final result only, for a line   *)
(* with the prefix of the setting, for such a line and the OK in either    *)
(* order, or for every line.                                               *)

Command(does, key, val, loop) == [does |-> does, key |-> key, val |-> val, loop |-> loop]
Set(key, val) == Command("set", key, val, "final")
Ask(key)      == Command("ask", key, <<>>, "prefix")
AskBody(key)  == Command("ask", key, <<>>, "body")
Delete(key)   == Command("delete", key, <<>>, "final")
Await(does, key) == Command(does, key, <<>>, "await")

Bit(b) == Num(IF b THEN 1 ELSE 0)
Short(n, sz) == n > 0 /\ n < sz

\* A call whose arguments are refused sends nothing.
Checked(ok, commands) == IF ok THEN commands ELSE <<>>

(* src/src/ec200_power.c *)
ec200_power_set_cfun(level, reset) ==
    <<Command(IF reset THEN "restart" ELSE "set", "cfun", <<Num(level)>>, "final")>>
ec200_power_reset == ec200_power_set_cfun(1, TRUE)
ec200_power_down == <<Command("off", "cfun", <<>>, "final")>>
ec200_power_set_sleep(enable) == <<Set("qsclk", <<Bit(enable)>>)>>

ec200_psm_disable == <<Set("cpsms", <<Num(0)>>)>>
ec200_psm_set(enabled, tau, active) ==
    IF ~enabled THEN ec200_psm_disable
    ELSE Checked(tau.num = 8 /\ active.num = 8,
                 <<Set("cpsms", <<Num(1), Nil, Nil, tau, active>>)>>)

edrx_act_valid(act) == act \in 2..5
ec200_edrx_disable(act) == Checked(edrx_act_valid(act), <<Set("cedrxs", <<Num(0), Num(act)>>)>>)
ec200_edrx_set(enabled, act, requested) ==
    IF ~enabled THEN ec200_edrx_disable(act)
    ELSE Checked(edrx_act_valid(act) /\ requested.num = 4,
                 <<Set("cedrxs", <<Num(1), Num(act), requested>>)>>)

(* src/src/ec200_network.c *)
ec200_net_set_operator(mode, format, oper, act) ==
    Checked(oper.num < 32,
            <<Set("cops", CASE mode = 0 -> <<Num(0)>>
                            [] mode # 0 /\ oper.num > 0 ->
                                   <<Num(mode), Num(format), oper, Num(act)>>
                            [] mode # 0 /\ oper.num = 0 -> <<Num(mode), Num(format)>>)>>)
ec200_net_set_attached(attach) == <<Set("cgatt", <<Bit(attach)>>)>>

(* src/src/ec200_time.c: year, month, day, hour, minute, second, zone *)
InDate(dt) == /\ dt[1] \in 2000..2099 /\ dt[2] \in 1..12 /\ dt[3] \in 1..31
              /\ dt[4] \in 0..23 /\ dt[5] \in 0..59 /\ dt[6] \in 0..59
ec200_time_set(dt) ==
    Checked(InDate(dt),
            <<Set("cclk", [i \in 1..7 |-> Num(IF i = 1 THEN dt[1] - 2000 ELSE dt[i])])>>)
ec200_time_set_auto_update(enable) == <<Set("ctzu", <<Bit(enable)>>)>>
ec200_time_sync_ntp_commands(ctx, server) ==
    Checked(Short(server.num, 256) /\ ctx \in 1..16, <<Await("sync", "qntp")>>)

(* src/src/ec200_sms.c *)
mem_strings == {"SM", "ME", "MT"}

\* The module's use and size of an area, and the line of three areas.
Area(mem) == CASE mem = "SM" -> <<Str("SM", 2), Num(1), Num(10)>>
               [] mem = "ME" -> <<Str("ME", 2), Num(2), Num(23)>>
               [] mem = "MT" -> <<Str("MT", 2), Num(3), Num(33)>>
ec200_sms_set_storage_commands(mems) ==
    Checked(mems[2] # "MT",
            <<Command("tell", "cpms", Area(mems[1]) \o Area(mems[2]) \o Area(mems[3]),
                      "prefix")>>)
ec200_sms_set_format(format) == Checked(format \in 0..1, <<Set("cmgf", <<Num(format)>>)>>)
ec200_sms_set_smsc(number) == Checked(Short(number.num, 20), <<Set("csca", <<number>>)>>)
ec200_sms_set_indication(v) ==
    Checked(v[1] <= 2 /\ v[2] <= 3 /\ v[3] <= 3 /\ v[4] <= 2 /\ v[5] <= 1,
            <<Set("cnmi", [i \in 1..5 |-> Num(v[i])])>>)
ec200_sms_delete(index) == Checked(index >= 0, <<Delete("slot")>>)
ec200_sms_delete_all(flag) == Checked(flag \in 1..4, <<Delete("slot")>>)
ec200_sms_send_stored_commands(index) ==
    Checked(index >= 0, <<Command("sent", "slot", <<>>, "prefix")>>)

(* src/src/ec200_sim.c, src/src/ec200.c, src/src/ec200_gnss.c, src/src/ec200_file.c *)
ec200_sim_enter_pin(pin) ==
    Checked(Short(pin.num, 9), <<Set("cpin", <<Word("READY", 5)>>)>>)
ec200_set_echo(enable) == <<Set("echo", <<Bit(enable)>>)>>
ec200_set_cmee(mode) == Checked(mode <= 2, <<Set("cmee", <<Num(mode)>>)>>)
ec200_gnss_start == <<Set("qgps", <<Num(1)>>)>>
ec200_gnss_stop  == <<Set("qgps", <<Num(0)>>)>>
ec200_gnss_set_nmea_output(types) ==
    <<Set("nmeasrc", <<Bit(types # 0)>>), Set("gpsnmeatype", <<Num(types)>>)>>
ec200_file_delete(name) == Checked(Short(name.num, 64), <<Delete("qflst")>>)

(* src/src/ec200_ssl.c, src/src/ec200_http.c: one TLS context.  A file name *)
(* that is empty is not sent.                                               *)
ec200_ssl_set_seclevel(level) ==
    Checked(level \in 0..2, <<Set("seclevel", <<Num(level)>>)>>)
cfg_file(key, f) == IF f.num = 0 THEN <<>> ELSE <<Set(key, <<f>>)>>
ec200_ssl_configure(version, level, cacert, clientcert, clientkey) ==
    Checked(/\ version \in 0..4 /\ level \in 0..2
            /\ level >= 1 => cacert.num > 0
            /\ level = 2 => clientcert.num > 0 /\ clientkey.num > 0,
            <<Set("sslversion", <<Num(version)>>), Set("ciphersuite", <<Num(65535)>>),
              Set("seclevel", <<Num(level)>>)>>
            \o cfg_file("cacert", cacert) \o cfg_file("clientcert", clientcert)
            \o cfg_file("clientkey", clientkey)
            \o <<Set("ignorelocaltime", <<Num(1)>>), Set("sni", <<Num(1)>>)>>)
ec200_http_set_context(ctx) == Checked(ctx \in 1..16, <<Set("contextid", <<Num(ctx)>>)>>)
ec200_http_set_ssl_context(ctx) == Checked(ctx <= 5, <<Set("sslctxid", <<Num(ctx)>>)>>)
ec200_http_get == <<Await("get", "qhttpget")>>

(* src/src/ec200_data.c: one context *)
ec200_data_set_pdp(cid, apn, username) ==
    Checked(cid \in 1..16,
            <<Set("cgdcont", <<apn>>)>>
            \o IF username.num = 0 THEN <<>> ELSE <<Set("qicsgp", <<apn, username>>)>>)
ec200_data_activate(cid) == Checked(cid \in 1..16, <<Set("cgact", <<Num(1)>>)>>)
ec200_data_deactivate(cid) == Checked(cid \in 1..16, <<Set("cgact", <<Num(0)>>)>>)

-----------------------------------------------------------------------------
(* The calls of each group, with arguments at their bounds. *)

Call(api, commands) == [api |-> api, commands |-> commands, sz |-> 0]
\* A query into a buffer of sz bytes.
CallInto(api, commands, sz) == [Call(api, commands) EXCEPT !.sz = sz]

Bits == {Str("bits", 8), Str("others", 8), Str("short", 3)}
Files == {Str("", 0), Str("file", 7)}
Dates == {<<2024, 2, 29, 23, 59, 59, -12>>, <<2099, 12, 31, 0, 0, 0, 32>>,
          <<2100, 1, 1, 0, 0, 0, 0>>, <<2024, 1, 1, 24, 0, 0, 0>>,
          <<2024, 1, 1, 0, 0, 60, 0>>, <<1999, 1, 1, 0, 0, 0, 0>>}

\* What an application may set.
PowerSettings ==
    {Call("ec200_power_set_cfun", ec200_power_set_cfun(level, reset)) :
        level \in {0, 4}, reset \in BOOLEAN}
    \cup {Call("ec200_power_reset", ec200_power_reset),
          Call("ec200_power_down", ec200_power_down),
          Call("ec200_psm_disable", ec200_psm_disable),
          Call("ec200_power_set_sleep", ec200_power_set_sleep(TRUE))}
    \cup {Call("ec200_psm_set", ec200_psm_set(TRUE, t, a)) : t \in Bits, a \in Bits}
    \cup {Call("ec200_edrx_set", ec200_edrx_set(enabled, act, r)) :
            enabled \in BOOLEAN, act \in {1, 2, 5},
            r \in {Str("cycle", 4), Str("long", 5)}}

NetworkSettings ==
    {Call("ec200_net_set_operator", ec200_net_set_operator(mode, 2, oper, 7)) :
        mode \in {0, 1, 2}, oper \in {Str("", 0), Str("40404", 5), Str("long", 32)}}
    \cup {Call("ec200_net_set_attached", ec200_net_set_attached(b)) : b \in BOOLEAN}

ClockSettings ==
    {Call("ec200_time_set", ec200_time_set(dt)) : dt \in Dates}
    \cup {Call("ec200_time_set_auto_update", ec200_time_set_auto_update(TRUE))}
    \cup {Call("ec200_time_sync_ntp", ec200_time_sync_ntp_commands(ctx, server)) :
            ctx \in {0, 1}, server \in {Str("server", 12), Str("long", 256)}}

SmsSettings ==
    {Call("ec200_sms_set_storage", ec200_sms_set_storage_commands(<<"SM", w, "ME">>)) :
        w \in mem_strings}
    \cup {Call("ec200_sms_set_format", ec200_sms_set_format(format)) : format \in 1..2}
    \cup {Call("ec200_sms_set_smsc", ec200_sms_set_smsc(number)) :
            number \in {Str("", 0), Str("other", 19), Str("long", 20)}}
    \cup {Call("ec200_sms_set_indication", ec200_sms_set_indication(v)) :
            v \in {<<2, 1, 0, 2, 1>>, <<2, 1, 0, 2, 2>>}}
    \cup {Call("ec200_sms_delete", ec200_sms_delete(index)) : index \in {-1, 0}}
    \cup {Call("ec200_sms_delete_all", ec200_sms_delete_all(flag)) : flag \in {0, 4, 5}}
    \cup {Call("ec200_sms_send_stored", ec200_sms_send_stored_commands(index)) :
            index \in {-1, 0}}

IdentitySettings ==
    {Call("ec200_sim_enter_pin", ec200_sim_enter_pin(pin)) :
        pin \in {Str("", 0), Str("1234", 4), Str("long", 9)}}
    \cup {Call("ec200_set_echo", ec200_set_echo(b)) : b \in BOOLEAN}
    \cup {Call("ec200_set_cmee", ec200_set_cmee(mode)) : mode \in 2..3}

GnssSettings ==
    {Call("ec200_gnss_start", ec200_gnss_start), Call("ec200_gnss_stop", ec200_gnss_stop)}
    \cup {Call("ec200_gnss_set_nmea_output", ec200_gnss_set_nmea_output(types)) :
            types \in {0, 31}}

TlsSettings ==
    {Call("ec200_ssl_configure", ec200_ssl_configure(version, level, ca, cert, key)) :
        version \in {4, 5}, level \in 0..3, ca \in Files, cert \in Files, key \in Files}
    \cup {Call("ec200_ssl_set_seclevel", ec200_ssl_set_seclevel(level)) : level \in 0..3}
    \cup {Call("ec200_http_set_context", ec200_http_set_context(ctx)) : ctx \in {0, 16}}
    \cup {Call("ec200_http_set_ssl_context", ec200_http_set_ssl_context(ctx)) :
            ctx \in {5, 6}}

FileSettings ==
    {Call("ec200_file_delete", ec200_file_delete(name)) :
        name \in {Str("", 0), Str("name", 63), Str("long", 64)}}

PdpSettings ==
    {Call("ec200_data_set_pdp", ec200_data_set_pdp(cid, Str("apn", 3), user)) :
        cid \in {0, 16}, user \in {Str("", 0), Str("user", 4)}}
    \cup {Call("ec200_data_activate", ec200_data_activate(cid)) : cid \in 16..17}
    \cup {Call("ec200_data_deactivate", ec200_data_deactivate(cid)) : cid \in 16..17}

SettingsOf ==
    [power |-> PowerSettings, network |-> NetworkSettings, clock |-> ClockSettings,
     sms |-> SmsSettings, identity |-> IdentitySettings, gnss |-> GnssSettings,
     tls |-> TlsSettings, file |-> FileSettings, pdp |-> PdpSettings]

\* What it may ask.
Plain(key, apis) == {Call(api, <<Ask(key)>>) : api \in apis}
Sized(api, command, sizes) == {CallInto(api, <<command>>, sz) : sz \in sizes}

PowerQueries ==
    Plain("cfun", {"ec200_power_get_cfun"}) \cup Plain("cpsms", {"ec200_psm_get"})
    \cup Plain("cedrxs", {"ec200_edrx_get"})
    \cup Plain("cedrxrdp", {"ec200_edrx_get_dynamic"})

NetworkQueries ==
    Plain("csq", {"ec200_net_get_signal"}) \cup Plain("qcsq", {"ec200_net_get_signal_ext"})
    \cup Plain("cops", {"ec200_net_get_operator"})
    \cup Plain("qnwinfo", {"ec200_net_get_info"})
    \cup Plain("cgatt", {"ec200_net_is_attached"})
    \cup Plain("creg", {"ec200_net_get_creg"}) \cup Plain("cgreg", {"ec200_net_get_cgreg"})
    \cup Plain("cereg", {"ec200_net_get_cereg"})
    \cup Sized("ec200_net_get_spn", Ask("qspn"), {8, 16})

ClockQueries ==
    Plain("cclk", {"ec200_time_get"}) \cup Plain("qlts", {"ec200_time_get_network"})

SmsQueries ==
    Plain("cpms", {"ec200_sms_get_storage"}) \cup Plain("cnmi", {"ec200_sms_get_indication"})
    \cup Sized("ec200_sms_get_smsc", Ask("csca"), {12, 20})
    \cup {Call("ec200_sms_read", <<AskBody("slot")>>), Call("ec200_sms_read", <<>>)}

IdentityQueries ==
    Plain("cpin", {"ec200_sim_get_status"})
    \cup Sized("ec200_sim_get_iccid", Ask("iccid"), {20, 21, 32})
    \cup Sized("ec200_sim_get_imsi", AskBody("imsi"), {15, 16})
    \cup Sized("ec200_get_imei", AskBody("imei"), {15, 16})
    \cup Sized("ec200_get_fw_version", AskBody("version"), {24, 64})

GnssQueries ==
    Plain("qgps", {"ec200_gnss_get_status"})
    \cup Plain("qgpsloc", {"ec200_gnss_get_location"})

TlsQueries == {Call("ec200_http_get", ec200_http_get)}

FileQueries ==
    Plain("qflst", {"ec200_file_exists", "ec200_file_size"})
    \cup Plain("qflds", {"ec200_file_storage"})

PdpQueries == Sized("ec200_data_get_ip", Ask("cgpaddr"), {8, 16})

QueriesOf ==
    [power |-> PowerQueries, network |-> NetworkQueries, clock |-> ClockQueries,
     sms |-> SmsQueries, identity |-> IdentityQueries, gnss |-> GnssQueries,
     tls |-> TlsQueries, file |-> FileQueries, pdp |-> PdpQueries]

CallsOf(group) == SettingsOf[group] \cup QueriesOf[group]
=============================================================================
