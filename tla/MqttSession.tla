----------------------------- MODULE MqttSession -----------------------------
(***************************************************************************)
(* The MQTT session calls of src/src/ec200_mqtt.c against a module that    *)
(* keeps settings, sockets and sessions per client and finishes a command  *)
(* long after it has acknowledged it.                                      *)
(*                                                                         *)
(* The library keeps no session state at all.  That a session runs over    *)
(* the transport its configuration asks for (TLS or not) rests on one      *)
(* setting inside the module, which outlives sessions, resets of the       *)
(* library and calls that gave up, and on result lines from which only the *)
(* error field is read.                                                    *)
(***************************************************************************)
EXTENDS Integers, Sequences, FiniteSets

CONSTANTS
    Ids,        \* client identifiers of the module
    Configs,    \* the configurations the application uses
    MaxOwed     \* bound: unread lines and unfinished work at which a call starts

ASSUME ConfigAssumption ==
    /\ Configs \subseteq [tcp : Ids, client : Ids, tls : BOOLEAN]
    /\ MaxOwed \in Nat

VARIABLES
    wire,       \* commands the module has received and not looked at
    jobs,       \* commands it has acknowledged and not finished
    stream,     \* lines it has sent and nobody has read
    ssl,        \* its "ssl" setting of each client
    sock,       \* the transport of each client: "closed", "plain" or "tls"
    session,    \* the clients with an MQTT session
    call,       \* the call in progress
    opened,     \* configurations opened and not closed, to the application
    last        \* the last return, until the next call, for the properties

module == <<jobs, ssl, sock, session>>
vars   == <<wire, module, stream, call, opened, last>>

-----------------------------------------------------------------------------

Asynchronous == {"open", "conn", "disc", "close", "sub"}

Transport(tls) == IF tls THEN "tls" ELSE "plain"

Cmd(op, c, tls) == [op |-> op, id |-> c, tls |-> tls]

\* Lines: final results, and the result line of a command that takes its time,
\* here with the transport the client has when it is sent.
Final(kind) == [kind |-> kind, id |-> "none", good |-> FALSE, on |-> "closed"]
Ok     == Final("OK")
Error  == Final("ERROR")
NoLine == Final("none")
ResultLine(op, c, good, on) == [kind |-> op, id |-> c, good |-> good, on |-> on]

NoConfig == [tcp |-> "none", client |-> "none", tls |-> FALSE]
NoCall   == [api |-> "none", cfg |-> NoConfig, step |-> "none", by |-> NoLine,
             clean |-> FALSE]
NoResult == [api |-> "none", cfg |-> NoConfig, st |-> "none", by |-> NoLine,
             clean |-> FALSE]

Idle  == call = NoCall
Quiet == wire = <<>> /\ jobs = {} /\ stream = <<>>

-----------------------------------------------------------------------------
(* The module (external) *)

\* What becomes of a client when a command of it is finished well, and the
\* result line.  A command may fail for reasons of its own.
Finish(job) ==
    LET c == job.id
        possible == \/ job.op = "open" /\ sock[c] = "closed"
                    \/ job.op = "conn" /\ sock[c] # "closed" /\ c \notin session
                    \/ job.op \in {"disc", "sub"} /\ c \in session
                    \/ job.op = "close" /\ sock[c] # "closed"
    IN  \/ /\ possible
           /\ sock' = CASE job.op = "open" -> [sock EXCEPT ![c] = Transport(job.tls)]
                        [] job.op \in {"disc", "close"} -> [sock EXCEPT ![c] = "closed"]
                        [] OTHER -> sock
           /\ session' = CASE job.op = "conn" -> session \cup {c}
                           [] job.op \in {"disc", "close"} -> session \ {c}
                           [] OTHER -> session
           /\ stream' = Append(stream, ResultLine(job.op, c, TRUE, sock'[c]))
        \/ /\ stream' = Append(stream, ResultLine(job.op, c, FALSE, sock[c]))
           /\ UNCHANGED <<sock, session>>

Obey ==
    /\ wire # <<>> /\ wire' = Tail(wire)
    /\ LET w == Head(wire) IN
       \/ stream' = Append(stream, Error) /\ UNCHANGED module
       \/ /\ w.op = "cfg"
          /\ ssl' = [ssl EXCEPT ![w.id] = w.tls]
          /\ stream' = Append(stream, Ok)
          /\ UNCHANGED <<jobs, sock, session>>
       \/ /\ w.op \in Asynchronous
          /\ jobs' = jobs \cup {Cmd(w.op, w.id, ssl[w.id])}
          /\ stream' = Append(stream, Ok)
          /\ UNCHANGED <<ssl, sock, session>>
    /\ UNCHANGED <<call, opened, last>>

\* The result of a command follows its OK.
FinishJob ==
    /\ \E job \in jobs : Finish(job) /\ jobs' = jobs \ {job}
    /\ UNCHANGED <<wire, ssl, call, opened, last>>

\* Some firmware sends it before the OK.
ObeyAtOnce ==
    /\ wire # <<>> /\ wire' = Tail(wire) /\ Head(wire).op \in Asynchronous
    /\ LET w == Head(wire)
           c == w.id
       IN  /\ w.op = "open" /\ sock[c] = "closed"
           /\ sock' = [sock EXCEPT ![c] = Transport(ssl[c])]
           /\ stream' = stream \o <<ResultLine("open", c, TRUE, sock'[c]), Ok>>
    /\ UNCHANGED <<jobs, ssl, session, call, opened, last>>

\* The broker or the network drops a client.
Drop(c) ==
    /\ sock[c] # "closed"
    /\ sock' = [sock EXCEPT ![c] = "closed"] /\ session' = session \ {c}
    /\ UNCHANGED <<wire, jobs, stream, ssl, call, opened, last>>

-----------------------------------------------------------------------------
(* Calls *)

\* open and close name the client by tcp_connect_id, the others by client_idx.
Client(api, cfg) == IF api \in {"open", "close"} THEN cfg.tcp ELSE cfg.client

Uses(cfg, c) == cfg.tcp = c \/ cfg.client = c

Start(api, cfg, step, op, tls) ==
    /\ Idle
    /\ Len(wire) + Len(stream) + Cardinality(jobs) <= MaxOwed
    /\ call' = [api |-> api, cfg |-> cfg, step |-> step, by |-> NoLine,
                clean |-> Quiet]
    /\ wire' = Append(wire, Cmd(op, Client(api, cfg), tls))
    /\ opened' = IF api \in {"open", "disc", "close"}
                 THEN {d \in opened : ~Uses(d, Client(api, cfg))} ELSE opened
    /\ last' = NoResult
    /\ UNCHANGED <<module, stream>>

\* Mutant of OpenStarts: the setting is only stated to switch TLS on.
OpenStartsPlainly(cfg) ==
    IF cfg.tls THEN Start("open", cfg, "setting", "cfg", TRUE)
               ELSE Start("open", cfg, "first", "open", FALSE)

\* ec200_mqtt_open states the setting, on or off, before it opens.
OpenStarts(cfg) == Start("open", cfg, "setting", "cfg", cfg.tls)

\* ec200_mqtt_connect, _disconnect, _close, and _subscribe or _unsubscribe.
OtherStarts(cfg) ==
    \E api \in Asynchronous \ {"open"} :
        Start(api, cfg, "first", api, FALSE)

Return(st, by) ==
    /\ call' = NoCall
    /\ last' = [api |-> call.api, cfg |-> call.cfg, st |-> st, by |-> by,
                clean |-> call.clean]
    /\ opened' = IF call.api = "open" /\ call.clean /\ st = "OK"
                 THEN opened \cup {call.cfg} ELSE opened
    /\ UNCHANGED wire

Goto(step, by) ==
    /\ call' = [call EXCEPT !.step = step, !.by = by]
    /\ UNCHANGED <<opened, last>>

\* qmt_result: of the result line only the error field is looked at.
QmtResult(line) == IF line.good THEN "OK" ELSE "MODULE"

\* The first command of open is a plain one: result lines are passed over.
ReadSetting(line) ==
    \/ line = Ok /\ Goto("first", NoLine)
         /\ wire' = Append(wire, Cmd("open", call.cfg.tcp, FALSE))
    \/ line = Error /\ Return("MODULE", line)
    \/ line \notin {Ok, Error} /\ UNCHANGED <<call, wire, opened, last>>

\* Mutant of ReadFirst: the OK is taken for the end of the call.
ReadFirstTooSoon(line) ==
    \/ line.kind = call.api /\ Goto("final", line) /\ UNCHANGED wire
    \/ line = Ok /\ Return("OK", line)
    \/ line = Error /\ Return("MODULE", line)
    \/ line.kind \notin {"OK", "ERROR", call.api} /\ UNCHANGED <<call, wire, opened, last>>

\* send_await_urc: the OK comes first, or else the result line does.
ReadFirst(line) ==
    \/ line.kind = call.api /\ Goto("final", line) /\ UNCHANGED wire
    \/ line = Ok /\ Goto("result", NoLine) /\ UNCHANGED wire
    \/ line = Error /\ Return("MODULE", line)
    \/ line.kind \notin {"OK", "ERROR", call.api} /\ UNCHANGED <<call, wire, opened, last>>

\* A stray OK is passed over.
ReadResult(line) ==
    \/ line.kind = call.api /\ Return(QmtResult(line), line)
    \/ line = Error /\ Return("MODULE", line)
    \/ line.kind \notin {"ERROR", call.api} /\ UNCHANGED <<call, wire, opened, last>>

\* The trailing OK, whose status is thrown away.
ReadFinal(line) ==
    \/ line \in {Ok, Error} /\ Return(QmtResult(call.by), call.by)
    \/ line \notin {Ok, Error} /\ UNCHANGED <<call, wire, opened, last>>

ReadLine ==
    /\ stream # <<>> /\ stream' = Tail(stream)
    /\ LET line == Head(stream) IN
       \/ call.step = "setting" /\ ReadSetting(line)
       \/ call.step = "first"   /\ ReadFirst(line)
       \/ call.step = "result"  /\ ReadResult(line)
       \/ call.step = "final"   /\ ReadFinal(line)
    /\ UNCHANGED module

\* The status of the wait for the trailing OK is thrown away.
GivesUp(status) ==
    /\ IF call.step = "final" THEN Return(QmtResult(call.by), call.by)
                             ELSE Return(status, NoLine)
    /\ UNCHANGED <<module, stream>>

\* The module is late.  What it still owes stays owed.
TimesOut == ~Idle /\ stream = <<>> /\ GivesUp("TIMEOUT")

\* The transport fails.
ReadFails == ~Idle /\ GivesUp("IO")

\* ec200_at_poll_urc between calls: lines nobody waits for go to the handlers.
Poll ==
    /\ Idle /\ stream # <<>> /\ stream' = Tail(stream)
    /\ UNCHANGED <<wire, module, call, opened, last>>

-----------------------------------------------------------------------------

Init ==
    /\ wire = <<>> /\ jobs = {} /\ stream = <<>>
    /\ ssl \in [Ids -> BOOLEAN]
    /\ sock = [c \in Ids |-> "closed"] /\ session = {}
    /\ call = NoCall /\ opened = {} /\ last = NoResult

Next ==
    \/ Obey \/ FinishJob \/ ObeyAtOnce \/ \E c \in Ids : Drop(c)
    \/ \E cfg \in Configs : OpenStarts(cfg) \/ OtherStarts(cfg)
    \/ ReadLine \/ TimesOut \/ ReadFails \/ Poll

Spec == Init /\ [][Next]_vars

-----------------------------------------------------------------------------
(* Properties *)

Lines == [kind : Asynchronous \cup {"OK", "ERROR", "none"},
          id : Ids \cup {"none"}, good : BOOLEAN,
          on : {"closed", "plain", "tls"}]

\* An open that starts with nothing owed and succeeds has opened the client it
\* names over the transport it asks for, whatever setting earlier sessions,
\* failed calls or another program have left in the module.
OpenedAsAsked ==
    (last.api = "open" /\ last.clean /\ last.st = "OK") =>
        /\ last.by.id = last.cfg.tcp
        /\ last.by.on = Transport(last.cfg.tls)

\* A session made with a configuration that was opened before runs over the
\* transport of that configuration, whatever was opened, closed, dropped or
\* left unfinished for the other clients in between.
ConnectedAsOpened ==
    (last.api = "conn" /\ last.clean /\ last.st = "OK" /\ last.cfg \in opened) =>
        last.by.on = Transport(last.cfg.tls)

\* A call that starts with nothing owed and ends with a line of the module has
\* left nothing owed: no OK and no result line for a later call to stumble on.
AnsweredInFull ==
    [][ (ReadLine /\ call' = NoCall /\ call.clean) => Quiet' ]_vars
=============================================================================
