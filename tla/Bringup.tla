------------------------------- MODULE Bringup -------------------------------
(***************************************************************************)
(* From a cold module to an IP address: ec200_init (src/src/ec200.c),      *)
(* ec200_net_wait_registered (src/src/ec200_network.c) and                 *)
(* ec200_data_connect (src/src/ec200_data.c).                              *)
(*                                                                         *)
(* All three go on after a failed query: the probe is repeated, the poll   *)
(* is repeated, the address is asked for once more.  The answer to a query *)
(* that timed out then answers the next one, and every command after it    *)
(* reads the reply of its predecessor.  The properties ask what a success  *)
(* still means then.                                                       *)
(***************************************************************************)
EXTENDS Integers, Sequences, FiniteSets

CONSTANTS
    Addrs,       \* addresses the network assigns
    NoAddr,      \* "0.0.0.0"
    None,        \* no value: an empty field, a context never filled in
    Polls,       \* timeout_ms / 2000, rounded up: the delays of a wait
    MaxOwed,     \* bound: unread lines and commands at which a call starts
    MaxUnread    \* bound: unread lines beyond which nothing unasked arrives

ASSUME BringupAssumption ==
    /\ NoAddr \notin Addrs /\ None \notin Addrs \cup {NoAddr}
    /\ {Polls, MaxOwed, MaxUnread} \subseteq Nat

VARIABLES
    work,      \* commands the module has received and not processed
    stream,    \* lines it has sent and nobody has read
    awake,     \* it has booted
    echo,      \* it echoes commands
    reg,       \* it is registered on the network
    up, addr,  \* its context is active; its address
    ready,     \* _initialised
    ctxAddr,   \* ctx->ip_addr of the application
    call,      \* the call in progress
    been,      \* what the module has been since the call started
    last       \* the last return, until the next call, for the properties

module == <<awake, echo, reg, up, addr>>
vars   == <<work, stream, module, ready, ctxAddr, call, been, last>>

-----------------------------------------------------------------------------

Line(kind, val) == [kind |-> kind, val |-> val]
Ok      == Line("OK", None)
Error   == Line("ERROR", None)
Noise   == Line("TEXT", None)
Reg(r)  == Line("REG", r)
Addr(a) == Line("ADDR", a)

NoCall == [api |-> "none", step |-> "none", tries |-> 0, late |-> 0,
           matched |-> FALSE, got |-> None, act |-> "OK", clean |-> FALSE]
Nothing == [reg |-> FALSE, addrs |-> {}, active |-> FALSE]
Result(api, st) == [api |-> api, st |-> st]

Idle  == call = NoCall
Quiet == work = <<>> /\ stream = <<>>

-----------------------------------------------------------------------------
(* The module and the network (external) *)

Reply(lines) == stream' = stream \o (IF echo THEN <<Noise>> ELSE <<>>) \o lines

\* The module is registered or not and has an address, and a call notes it.
Becomes(r, a) ==
    /\ reg' = r /\ addr' = a
    /\ been' = IF Idle THEN been
               ELSE [been EXCEPT !.reg = @ \/ r, !.addrs = @ \cup {a}]

Activates ==
    /\ reg /\ up' = TRUE
    /\ addr' \in IF addr = NoAddr THEN Addrs \cup {NoAddr} ELSE {addr}
    /\ been' = IF Idle THEN been
               ELSE [been EXCEPT !.active = TRUE, !.addrs = @ \cup {addr'}]
    /\ UNCHANGED <<awake, echo, reg>>

\* Any command but the probe may fail; the activation of an active context
\* may or may not.
Obey(w) ==
    \/ w # "AT" /\ Reply(<<Error>>) /\ UNCHANGED <<module, been>>
    \/ w \in {"AT", "CGDCONT", "QICSGP"} /\ Reply(<<Ok>>) /\ UNCHANGED <<module, been>>
    \/ w = "ATE0"    /\ Reply(<<Ok>>) /\ echo' = FALSE
                     /\ UNCHANGED <<awake, reg, up, addr, been>>
    \/ w = "CEREG"   /\ Reply(<<Reg(reg), Ok>>) /\ UNCHANGED <<module, been>>
    \/ w = "CGPADDR" /\ \/ Reply(<<Addr(addr), Ok>>)
                        \/ ~up /\ (Reply(<<Addr(None), Ok>>) \/ Reply(<<Ok>>))
                     /\ UNCHANGED <<module, been>>
    \/ w = "CGACT"   /\ Reply(<<Ok>>) /\ Activates

ModuleWorks ==
    /\ awake /\ work # <<>> /\ work' = Tail(work)
    /\ Obey(Head(work))
    /\ UNCHANGED <<ready, ctxAddr, call, last>>

\* A module that boots keeps what it has received, or loses it.
Boots ==
    /\ ~awake /\ awake' = TRUE
    /\ work' \in {work, <<>>}
    /\ \/ UNCHANGED stream
       \/ Len(stream) < MaxUnread /\ stream' = Append(stream, Noise)
    /\ UNCHANGED <<echo, reg, up, addr, ready, ctxAddr, call, been, last>>

\* Registration goes, or comes, perhaps with a bearer that is active at once.
\* A module that reports it does so with the prefix of the query's answer.
NetworkChanges ==
    /\ awake /\ Len(stream) < MaxUnread
    /\ IF reg THEN Becomes(FALSE, NoAddr) /\ up' = FALSE
       ELSE \/ Becomes(TRUE, NoAddr) /\ UNCHANGED up
            \/ \E a \in Addrs : Becomes(TRUE, a) /\ up' = TRUE
    /\ stream' \in {stream, Append(stream, Reg(reg'))}
    /\ UNCHANGED <<work, awake, echo, ready, ctxAddr, call, last>>

AddressComes ==
    /\ up /\ addr = NoAddr
    /\ \E a \in Addrs : Becomes(reg, a)
    /\ UNCHANGED <<work, stream, awake, echo, up, ready, ctxAddr, call, last>>

\* Between calls the module may be reset; it echoes again.
Restarts ==
    /\ Idle /\ awake
    /\ awake' = FALSE /\ echo' = TRUE /\ work' = <<>>
    /\ reg' = FALSE /\ up' = FALSE /\ addr' = NoAddr
    /\ last' = Result("none", "none")
    /\ UNCHANGED <<stream, ready, ctxAddr, call, been>>

-----------------------------------------------------------------------------
(* Calls *)

Transmit(cmd) == work' = Append(work, cmd)

Start(api, step, cmd) ==
    /\ Idle /\ Len(work) + Len(stream) <= MaxOwed
    /\ call' = [NoCall EXCEPT !.api = api, !.step = step, !.clean = Quiet]
    /\ been' = [reg |-> reg, addrs |-> {addr}, active |-> FALSE]
    /\ last' = Result("none", "none")
    /\ Transmit(cmd)
    /\ UNCHANGED <<stream, module, ctxAddr>>

StartInit    == Start("init", "probe", "AT") /\ ready' = TRUE
StartWait    == ready /\ Start("wait", "poll", "CEREG") /\ UNCHANGED ready
StartConnect == ready /\ Start("connect", "first", "CGPADDR") /\ UNCHANGED ready

\* A handle that is not initialised writes nothing: the polls run out, and
\* the first setting ends the connect.
StartUnready ==
    /\ Idle /\ ~ready
    /\ last' \in {Result("wait", "TIMEOUT"), Result("connect", "NOT_READY")}
    /\ UNCHANGED <<work, stream, module, ready, ctxAddr, call, been>>

\* ec200_at_poll_urc between calls.
Poll ==
    /\ Idle /\ stream # <<>> /\ stream' = Tail(stream)
    /\ UNCHANGED <<work, module, ready, ctxAddr, call, been, last>>

Return(st) ==
    /\ call' = NoCall /\ been' = Nothing
    /\ last' = Result(call.api, st)
    /\ UNCHANGED work

Goto(c, step, cmd) ==
    /\ call' = [c EXCEPT !.step = step, !.matched = FALSE, !.got = None]
    /\ Transmit(cmd)
    /\ UNCHANGED <<been, last>>

-----------------------------------------------------------------------------
(* What follows the end of a command of call c with status st *)

\* Mutant of ProbeEnds: an answered probe ends the call.
ProbeEndsAll(c, st) ==
    \/ st = "OK" /\ Return("OK") /\ UNCHANGED ready
    \/ st # "OK" /\ Return("TIMEOUT") /\ ready' = FALSE

ProbeEnds(c, st) ==
    \/ st = "OK" /\ Goto(c, "echo", "ATE0") /\ UNCHANGED ready
    \/ st # "OK" /\ c.tries < 2 /\ UNCHANGED ready
         /\ Goto([c EXCEPT !.tries = @ + 1], "probe", "AT")
    \/ st # "OK" /\ c.tries = 2 /\ Return("TIMEOUT") /\ ready' = FALSE

EchoEnds(st) == Return(st) /\ ready' = (st = "OK")

\* Mutants of Registered and PollEnds: any answer will do; the time is
\* compared with > instead of >=.
RegisteredAnyhow(c, st) == st = "OK"

Registered(c, st) == st = "OK" /\ c.got = TRUE

PollEnds(c, st) ==
    \/ Registered(c, st) /\ Return("OK")
    \/ ~Registered(c, st) /\ c.tries >= Polls /\ Return("TIMEOUT")
    \/ ~Registered(c, st) /\ c.tries < Polls
         /\ Goto([c EXCEPT !.tries = @ + 1], "poll", "CEREG")

\* The status of ec200_data_get_ip, which leaves the buffer alone if it fails.
GetIp(c, st) == IF st = "OK" /\ c.got = None THEN "PARSE" ELSE st
Kept(c, st)  == IF GetIp(c, st) = "OK" THEN c.got ELSE ctxAddr

\* Mutant of HasAddress: the buffer is looked at whatever the status is.
HasAddressWritten(c, st) == Kept(c, st) \notin {NoAddr, None}

HasAddress(c, st) == GetIp(c, st) = "OK" /\ Kept(c, st) # NoAddr

FirstEnds(c, st) ==
    /\ ctxAddr' = Kept(c, st)
    /\ \/ HasAddress(c, st) /\ Return("OK")
       \/ ~HasAddress(c, st) /\ Goto(c, "set", "CGDCONT")

\* Credentials are set if the application gave any.
SettingEnds(c, st) ==
    \/ st # "OK" /\ Return(st)
    \/ st = "OK" /\ c.step = "set" /\ Goto(c, "auth", "QICSGP")
    \/ st = "OK" /\ Goto(c, "act", "CGACT")

ActEnds(c, st) == Goto([c EXCEPT !.act = st], "again", "CGPADDR")

AgainEnds(c, st) ==
    /\ ctxAddr' = Kept(c, st)
    /\ \/ HasAddress(c, st) /\ Return("OK")
       \/ ~HasAddress(c, st)
            /\ Return(IF c.act # "OK" THEN c.act ELSE GetIp(c, st))

Ends(c, st) ==
    \/ c.step = "probe" /\ ProbeEnds(c, st) /\ UNCHANGED ctxAddr
    \/ c.step = "echo"  /\ EchoEnds(st) /\ UNCHANGED ctxAddr
    \/ c.step = "poll"  /\ PollEnds(c, st) /\ UNCHANGED <<ready, ctxAddr>>
    \/ c.step = "first" /\ FirstEnds(c, st) /\ UNCHANGED ready
    \/ c.step \in {"set", "auth"} /\ SettingEnds(c, st) /\ UNCHANGED <<ready, ctxAddr>>
    \/ c.step = "act"   /\ ActEnds(c, st) /\ UNCHANGED <<ready, ctxAddr>>
    \/ c.step = "again" /\ AgainEnds(c, st) /\ UNCHANGED ready

-----------------------------------------------------------------------------
(* The receive loop of the command in progress *)

\* The prefix a query waits for; the other commands wait for no line of theirs.
Awaited(step) == CASE step = "poll" -> "REG"
                   [] step \in {"first", "again"} -> "ADDR"
                   [] OTHER -> "none"

\* The status with which the command ends at a line, or "go".
Verdict(c, line) ==
    CASE line = Error -> "MODULE"
      [] line = Ok /\ (c.matched \/ Awaited(c.step) = "none") -> "OK"
      [] line = Ok -> "PARSE"
      [] OTHER -> "go"

\* A query stores the first line with its prefix.
Stored(c, line) ==
    IF ~c.matched /\ line.kind = Awaited(c.step)
    THEN [c EXCEPT !.matched = TRUE, !.got = line.val] ELSE c

ReadLine ==
    /\ ~Idle /\ stream # <<>> /\ stream' = Tail(stream)
    /\ LET line == Head(stream)
           st   == Verdict(call, line)
       IN  \/ st # "go" /\ Ends(call, st)
           \/ /\ st = "go" /\ call' = Stored(call, line)
              /\ UNCHANGED <<work, ready, ctxAddr, been, last>>
    /\ UNCHANGED module

\* The call gives up on a command: nothing comes in time, or the read fails.
GivesUp(st) ==
    /\ ~Idle
    /\ Ends([call EXCEPT !.late = @ + 1], st)
    /\ UNCHANGED <<stream, module>>

TimesOut  == stream = <<>> /\ GivesUp("TIMEOUT")
ReadFails == GivesUp("IO")

-----------------------------------------------------------------------------

Init ==
    /\ work = <<>> /\ stream = <<>>
    /\ awake \in BOOLEAN /\ echo = TRUE
    /\ reg = FALSE /\ up = FALSE /\ addr = NoAddr
    /\ ready = FALSE /\ ctxAddr \in Addrs \cup {None}
    /\ call = NoCall /\ been = Nothing /\ last = Result("none", "none")

Next ==
    \/ ModuleWorks \/ Boots \/ NetworkChanges \/ AddressComes \/ Restarts
    \/ StartInit \/ StartWait \/ StartConnect \/ StartUnready \/ Poll
    \/ ReadLine \/ TimesOut \/ ReadFails

Spec == Init /\ [][Next]_vars

-----------------------------------------------------------------------------
(* Properties *)

\* This step returns st from api, called on a quiet channel.
Returns(api, st) ==
    /\ call.api = api /\ call.clean
    /\ call' = NoCall /\ last' = Result(api, st)

Finals(lines) == Cardinality({k \in DOMAIN lines : lines[k].kind \in {"OK", "ERROR"}})

\* The answers that ec200_init leaves to later calls are at most as many as
\* the commands it gave up on, and if it gave up on none the echo is off.
InitOwes ==
    [][Returns("init", "OK") =>
          /\ Len(work') + Finals(stream') <= call.late
          /\ call.late = 0 => ~echo']_vars

\* After ec200_net_wait_registered the module was registered at some time of
\* the call, however many of the polls were answered late.
RegistrationSeen == [][Returns("wait", "OK") => been.reg]_vars

\* After ec200_data_connect the application has an address that the module had
\* at some time of the call, and it is the empty one only if the module has
\* activated the context.
ConnectionSeen ==
    [][Returns("connect", "OK") =>
          /\ ctxAddr' \in been.addrs
          /\ ctxAddr' = NoAddr => been.active]_vars

\* After ec200_init succeeded the module, once it has nothing left to do, does
\* not echo (src/README.md:61).
InitDisablesEcho ==
    last = Result("init", "OK") /\ work = <<>> => ~echo
=============================================================================
