------------------------------- MODULE Sockets -------------------------------
(***************************************************************************)
(* TCP, UDP and TLS sockets, name resolution and ping                      *)
(* (src/src/ec200_tcpip.c, src/src/ec200_ssl_socket.c) against a module    *)
(* that announces results in its own time.                                 *)
(*                                                                         *)
(* None of these calls compares the connection, or the host, a line names  *)
(* with the one it asked about; a recv reads as many raw bytes as a line   *)
(* tells it to, without knowing whose line that is; a resolve leaves the   *)
(* addresses after the first one to whoever reads next.  The properties    *)
(* say what an application that sees nothing but return codes can rely on. *)
(* Argument checks, failing callbacks and line caps are in AtEngine.       *)
(***************************************************************************)
EXTENDS Integers, Sequences, FiniteSets, SequencesExt

CONSTANTS
    Conns,       \* connections in use
    Tls,         \* those of them that are TLS sockets
    Hosts,       \* hosts that are resolved or pinged
    None,        \* no value
    Lens,        \* buffer sizes of a recv
    MaxBytes,    \* bound: bytes that the peers of open connections have sent
    MaxAddrs,    \* bound: addresses of a host
    MaxPings,    \* lines a ping looks at (EC200_AT_MAX_LINES)
    MaxOwed,     \* bound: lines and commands under way when a call starts
    MaxUnread    \* bound: unread lines beyond which nothing unasked arrives

ASSUME SocketsAssumption ==
    /\ Tls \subseteq Conns /\ None \notin Conns \cup Hosts
    /\ Lens \subseteq Nat \ {0}
    /\ {MaxBytes, MaxAddrs, MaxPings, MaxOwed, MaxUnread} \subseteq Nat

VARIABLES
    work,     \* commands the module has received and not processed
    jobs,     \* lines it will still send for commands it has answered
    stream,   \* lines and raw bytes it has sent and nobody has read
    sink,     \* the connection it takes payload for, None in command mode
    conn,     \* its connections: "idle", "open" or "dead"
    sent,     \* bytes that have arrived on a connection
    taken,    \* bytes of it that recv commands have fetched
    call,     \* the call in progress
    trusted,  \* every call since the channel was last quiet was answered
    last      \* the return this step makes, for the properties

module == <<conn, sent, taken, sink>>
vars   == <<work, jobs, stream, module, call, trusted, last>>

-----------------------------------------------------------------------------
(* Lines.  about is the connection or host a line names or, for OK and     *)
(* ERROR, None; val is what the library parses from it.                    *)

Line(kind, about, val) == [kind |-> kind, about |-> about, val |-> val]
Ok     == Line("OK", None, None)
Error  == Line("ERROR", None, None)
Text   == Line("TEXT", None, None)
Prompt == Line("PROMPT", None, None)
Data(c, n) == Line("DATA", c, n)
Junk   == Line("JUNK", None, None)

\* The header of a recv has one field; the answer to "how many" has three,
\* the same prefix, and its first field is the total.
Header(c, n) == Line(IF c \in Tls THEN "SSLRECV" ELSE "QIRD", c, [first |-> n, third |-> None])
Counts(c)    == Line("QIRD", c, [first |-> sent[c], third |-> sent[c] - taken[c]])

Cmd(api, about, len) == [api |-> api, about |-> about, len |-> len]
Payload == Cmd("payload", None, 0)

NoCall == [api |-> "none", about |-> None, len |-> 0, step |-> "none",
           line |-> None, got |-> <<>>, seen |-> 0, at |-> 0,
           trusted |-> FALSE, sure |-> TRUE]
NoReturn == [st |-> "none", line |-> None]

Idle  == call = NoCall
Elsewhere == UNCHANGED <<call, trusted>> /\ last' = NoReturn
Quiet == work = <<>> /\ jobs = {} /\ sink = None
            /\ \A k \in 1..Len(stream) : stream[k] = Text

-----------------------------------------------------------------------------
(* The module, the network and the peers (external) *)

\* The lines that follow the OK of an asynchronous command, each in its time.
OpenResults(c) == {<<Line(IF c \in Tls THEN "QSSLOPEN" ELSE "QIOPEN", c, ok)>> :
                      ok \in BOOLEAN}
DnsResults(h) ==
    {<<Line("DNS", h, "error")>>}
      \cup {<<Line("DNS", h, "header")>> \o [k \in 1..n |-> Line("DNS", h, "address")] :
               n \in 1..MaxAddrs}
PingResults(h) ==
    {<<Line("PING", h, "reply"), Line("PING", h, s)>> : s \in {"summary", "failed"}}

Results(w) == CASE w.api = "open" -> OpenResults(w.about)
                [] w.api = "dns"  -> DnsResults(w.about)
                [] w.api = "ping" -> PingResults(w.about)

Reply(lines) == stream' = stream \o lines

\* A connection is in use from its open to its close; it is open once a result
\* says so, and a failed open leaves it dead.
Announced(cs, l) ==
    IF l.kind \in {"QIOPEN", "QSSLOPEN"} /\ l.val /\ cs[l.about] = "dead"
    THEN [cs EXCEPT ![l.about] = "open"] ELSE cs
InUse(w) == IF w.api = "open" THEN [conn EXCEPT ![w.about] = "dead"] ELSE conn

Refuses == Reply(<<Error>>) /\ UNCHANGED <<jobs, module>>

Obeys(w) ==
    \/ /\ w.api \in {"open", "dns", "ping"}
       /\ w.api = "open" => conn[w.about] = "idle"
       /\ \E r \in Results(w) :
             \/ Reply(<<Ok>>) /\ jobs' = jobs \cup {r} /\ conn' = InUse(w)
             \/ /\ Reply(<<Head(r), Ok>>) /\ conn' = Announced(InUse(w), Head(r))
                /\ jobs' = IF Len(r) = 1 THEN jobs ELSE jobs \cup {Tail(r)}
       /\ UNCHANGED <<sent, taken, sink>>
    \/ /\ w.api = "recv" /\ conn[w.about] # "idle"
       /\ LET c == w.about
              n == IF sent[c] - taken[c] < w.len THEN sent[c] - taken[c] ELSE w.len
          IN  /\ Reply(<<Header(c, n)>> \o [k \in 1..n |-> Data(c, taken[c] + k)] \o <<Ok>>)
              /\ taken' = [taken EXCEPT ![c] = @ + n]
       /\ UNCHANGED <<jobs, conn, sent, sink>>
    \/ w.api = "avail" /\ Reply(<<Counts(w.about), Ok>>) /\ UNCHANGED <<jobs, module>>
    \/ w.api = "state" /\ UNCHANGED <<jobs, module>>
         /\ IF conn[w.about] = "idle" THEN Reply(<<Ok>>)
            ELSE Reply(<<Line("QISTATE", w.about, conn[w.about] = "open"), Ok>>)
    \/ /\ w.api = "send" /\ conn[w.about] = "open"
       /\ Reply(<<Prompt>>) /\ sink' = w.about
       /\ UNCHANGED <<jobs, conn, sent, taken>>
    \/ /\ w.api = "close" /\ Reply(<<Ok>>)
       /\ conn'  = [conn EXCEPT ![w.about] = "idle"]
       /\ sent'  = [sent EXCEPT ![w.about] = 0]
       /\ taken' = [taken EXCEPT ![w.about] = 0]
       /\ UNCHANGED <<jobs, sink>>

\* Whatever comes while it waits for payload is payload; payload that comes
\* when it does not wait is no command.
Swallows ==
    /\ sink # None /\ sink' = None
    /\ \E ok \in BOOLEAN : Reply(<<Line("SEND", sink, ok)>>)
    /\ UNCHANGED <<jobs, conn, sent, taken>>

ModuleWorks ==
    /\ work # <<>> /\ work' = Tail(work)
    /\ \/ Swallows
       \/ sink = None /\ (Refuses \/ Obeys(Head(work)))
       \/ sink = None /\ Head(work) = Payload /\ UNCHANGED <<jobs, stream, module>>
    /\ Elsewhere

ModuleAnnounces ==
    \E job \in jobs :
       /\ Reply(<<Head(job)>>) /\ conn' = Announced(conn, Head(job))
       /\ jobs' = (jobs \ {job}) \cup (IF Len(job) = 1 THEN {} ELSE {Tail(job)})
       /\ UNCHANGED <<work, sent, taken, sink>> /\ Elsewhere

Arrived == FoldFunction(+, 0, sent)

\* Data arrives, or the peer closes; the module may say so.
PeerActs ==
    /\ Len(stream) < MaxUnread /\ stream' \in {stream, Append(stream, Text)}
    /\ \E c \in Conns :
          /\ conn[c] = "open"
          /\ \/ Arrived < MaxBytes /\ sent' = [sent EXCEPT ![c] = @ + 1] /\ UNCHANGED conn
             \/ conn' = [conn EXCEPT ![c] = "dead"] /\ UNCHANGED sent
    /\ UNCHANGED <<work, jobs, taken, sink>> /\ Elsewhere

-----------------------------------------------------------------------------
(* Starting and ending a call *)

\* What a call waits for in the first place, and the prefix of its lines.
FirstStep(api) == CASE api \in {"open", "dns", "ping"} -> "await"
                    [] api = "recv"              -> "header"
                    [] api = "send"              -> "prompt"
                    [] api = "close"             -> "final"
                    [] api \in {"state", "avail"} -> "query"

Prefix(c) == CASE c.api = "open"  -> IF c.about \in Tls THEN "QSSLOPEN" ELSE "QIOPEN"
               [] c.api = "recv"  -> IF c.about \in Tls THEN "SSLRECV" ELSE "QIRD"
               [] c.api = "avail" -> "QIRD"
               [] c.api = "state" -> "QISTATE"
               [] c.api = "send"  -> "SEND"
               [] c.api = "dns"   -> "DNS"
               [] c.api = "ping"  -> "PING"
               [] OTHER           -> "none"

Start(api, about, len) ==
    /\ Idle /\ Len(work) + Len(stream) + Cardinality(jobs) <= MaxOwed
    /\ trusted' = (trusted \/ Quiet)
    /\ call' = [NoCall EXCEPT !.api = api, !.about = about, !.len = len,
                              !.step = FirstStep(api), !.trusted = trusted',
                              !.at = IF about \in Conns THEN taken[about] ELSE 0]
    /\ work' = Append(work, Cmd(api, about, len))
    /\ last' = NoReturn
    /\ UNCHANGED <<jobs, stream, module>>

StartConn == \E c \in Conns :
                \/ \E api \in {"open", "send", "close"} : Start(api, c, 0)
                \/ \E n \in Lens : Start("recv", c, n)
StartQuery == \E c \in Conns \ Tls, api \in {"state", "avail"} : Start(api, c, 0)
StartHost == \E h \in Hosts, api \in {"dns", "ping"} : Start(api, h, 0)

\* A line reader takes raw bytes for the text of a line.
HeadLine == IF Head(stream).kind = "DATA" THEN Text ELSE Head(stream)
RestOf(s) ==
    LET n == SelectInSeq(s, LAMBDA l : l.kind # "DATA")
    IN  CASE n = 0 -> <<>>
          [] n = 1 -> Tail(s)
          [] OTHER -> SubSeq(s, n, Len(s))

Poll ==
    /\ Idle /\ stream # <<>> /\ stream' = RestOf(stream)
    /\ UNCHANGED <<work, jobs, module>> /\ Elsewhere

\* A resolve may leave addresses behind, a call that gave up its answer.
Return(c, st) ==
    /\ call' = NoCall /\ last' = [st |-> st, line |-> c.line]
    /\ trusted' = (trusted /\ st \in {"OK", "MODULE"} /\ c.sure /\ c.api # "dns")
    /\ UNCHANGED work

Goto(c, step) ==
    /\ call' = [c EXCEPT !.step = step]
    /\ last' = NoReturn
    /\ UNCHANGED <<work, trusted>>

-----------------------------------------------------------------------------
(* What a call does with the line it waited for *)

JudgeOpen(c) == Return(c, IF c.line.val THEN "OK" ELSE "MODULE")

\* An address where the header should be is skipped like one.
JudgeDns(c) == IF c.line.val = "error" THEN Return(c, "MODULE") ELSE Goto(c, "address")
JudgeAddress(c) == Return(c, IF c.line.val = "address" THEN "OK" ELSE "PARSE")

\* Mutant of JudgePing: any line that reports no error ends the ping.
JudgePingAtReply(c) == Return(c, IF c.line.val = "failed" THEN "MODULE" ELSE "OK")

\* The line after the last one that is looked at is waited for all the same.
JudgePing(c) ==
    IF c.seen = MaxPings THEN Return(c, "TIMEOUT")
    ELSE CASE c.line.val = "summary" -> Return(c, "OK")
           [] c.line.val = "failed"  -> Return(c, "MODULE")
           [] OTHER -> Goto([c EXCEPT !.seen = @ + 1], "result")

\* Mutants of JudgeHeader: the buffer is filled, whatever the header says; an
\* empty answer ends the call, its OK unread.
JudgeHeaderBySize(c) ==
    IF c.line.val.first > c.len THEN Return(c, "PARSE") ELSE Goto(c, "data")
JudgeHeaderEmptyEnds(c) ==
    CASE c.line.val.first > c.len -> Return(c, "PARSE")
      [] c.line.val.first = 0     -> Return(c, "OK")
      [] OTHER                    -> Goto([c EXCEPT !.len = c.line.val.first], "data")

JudgeHeader(c) ==
    CASE c.line.val.first > c.len -> Return(c, "PARSE")
      [] c.line.val.first = 0     -> Goto(c, "final")
      [] OTHER                    -> Goto([c EXCEPT !.len = c.line.val.first], "data")

JudgeCounts(c) == Return(c, IF c.line.val.third = None THEN "PARSE" ELSE "OK")

Judge(c) == CASE c.api = "open"             -> JudgeOpen(c)
              [] c.api = "dns"              -> IF c.step = "address" THEN JudgeAddress(c)
                                               ELSE JudgeDns(c)
              [] c.api = "ping"             -> JudgePing(c)
              [] c.api = "recv"             -> JudgeHeader(c)
              [] c.api = "avail"            -> JudgeCounts(c)
              [] c.api = "send"             -> Return(c, IF c.line.val THEN "OK" ELSE "MODULE")
              [] c.api = "state"            -> Return(c, "OK")

-----------------------------------------------------------------------------
(* The receive loops *)

Skip == Elsewhere /\ UNCHANGED work

Matches(l) == l.kind = Prefix(call)
With(l)    == [call EXCEPT !.line = l]

\* send_await_urc: the result may come before the OK, which is then waited
\* for with a status nobody looks at.
Await(l) == CASE Matches(l) -> Goto(With(l), "tail")
              [] l = Ok     -> Goto(call, "result")
              [] l = Error  -> Return(call, "MODULE")
              [] OTHER      -> Skip

TailLine(l) == IF l \in {Ok, Error} THEN Judge(call) ELSE Skip

\* wait_prefix: a stray OK is ignored.
Result(l) == CASE Matches(l) -> Judge(With(l))
               [] l = Error  -> Return(call, "MODULE")
               [] OTHER      -> Skip

\* send_wait: the first line with the prefix, then the OK.
Query(l) == CASE Matches(l) /\ call.line = None -> Goto(With(l), "query")
              [] l = Ok /\ call.line = None     -> Return(call, "PARSE")
              [] l = Ok /\ call.line # None     -> Judge(call)
              [] l = Error                      -> Return(call, "MODULE")
              [] OTHER                          -> Skip

\* send_expect: returns at the line with the prefix.
Expect(l) == CASE Matches(l) -> Judge(With(l))
               [] l = Ok     -> Return(call, "PARSE")
               [] l = Error  -> Return(call, "MODULE")
               [] OTHER      -> Skip

Final(l) == CASE l = Ok    -> Return(call, "OK")
              [] l = Error -> Return(call, "MODULE")
              [] OTHER     -> Skip

\* send_prompt; the payload is written at once.
Gate(l) == CASE l = Prompt -> /\ call' = [call EXCEPT !.step = "result"]
                              /\ work' = Append(work, Payload)
                              /\ last' = NoReturn
                              /\ UNCHANGED trusted
             [] l = Ok     -> Return(call, "PARSE")
             [] l = Error  -> Return(call, "MODULE")
             [] OTHER      -> Skip

ReadLine ==
    /\ ~Idle /\ call.step # "data" /\ stream # <<>>
    /\ stream' = RestOf(stream)
    /\ LET l == HeadLine
       IN  CASE call.step = "await"  -> Await(l)
             [] call.step = "tail"   -> TailLine(l)
             [] call.step \in {"result", "address"} -> Result(l)
             [] call.step = "query"  -> Query(l)
             [] call.step = "header" -> Expect(l)
             [] call.step = "final"  -> Final(l)
             [] call.step = "prompt" -> Gate(l)
    /\ UNCHANGED <<jobs, module>>

\* Mutant of ReadRaw: one byte less is read.
ReadRawShort ==
    /\ call.step = "data" /\ stream # <<>>
    /\ stream' = Tail(stream)
    /\ LET got == Append(call.got, Head(stream))
       IN  Goto([call EXCEPT !.got = got],
                IF Len(got) >= call.len - 1 THEN "final" ELSE "data")
    /\ UNCHANGED <<jobs, module>>

\* read_exact.  A raw read that meets a line takes its bytes; what is left of
\* the line may still read as it did, or not.
ReadRaw ==
    /\ call.step = "data" /\ stream # <<>>
    /\ LET l   == Head(stream)
           got == Append(call.got, IF l.kind = "DATA" THEN l ELSE Junk)
           c   == [call EXCEPT !.got = got]
       IN  /\ IF l.kind = "DATA" THEN stream' = Tail(stream)
              ELSE stream' \in {stream, <<Text>> \o Tail(stream)}
           /\ Goto(c, IF Len(got) = c.len THEN "final" ELSE "data")
    /\ UNCHANGED <<jobs, module>>

\* The call gives up, perhaps on a line under way.  Only the wait for a trailing
\* OK forgives that.
TimesOut ==
    /\ ~Idle
    /\ IF call.step = "tail" THEN Judge([call EXCEPT !.sure = FALSE])
       ELSE Return(call, "TIMEOUT")
    /\ UNCHANGED <<jobs, stream, module>>

-----------------------------------------------------------------------------

Init ==
    /\ work = <<>> /\ jobs = {} /\ stream = <<>> /\ sink = None
    /\ conn = [c \in Conns |-> "idle"]
    /\ sent = [c \in Conns |-> 0] /\ taken = [c \in Conns |-> 0]
    /\ call = NoCall /\ trusted = TRUE /\ last = NoReturn

Next ==
    \/ ModuleWorks \/ ModuleAnnounces \/ PeerActs
    \/ StartConn \/ StartQuery \/ StartHost \/ Poll
    \/ ReadLine \/ ReadRaw \/ TimesOut

Spec == Init /\ [][Next]_vars

-----------------------------------------------------------------------------
(* Properties.  A call is trusted if every call since the channel was last  *)
(* quiet returned EC200_OK or EC200_ERR_MODULE, none of them went without   *)
(* its trailing OK, and none of them was a resolve.                         *)

Returns(c) == c # NoCall /\ call' = NoCall
Succeeds   == Returns(call) /\ last'.st = "OK"

\* Between trusted calls the module owes nothing and nothing but unsolicited
\* lines is unread: to answer is to leave the channel in step.
QuietWhileAnswered == Idle /\ trusted => Quiet

\* A trusted call that succeeds was decided by a line about its own connection
\* or host, although no call compares them, and an open by a connection that
\* is in use.
DecidedByOwnLine ==
    [][Succeeds /\ call.trusted =>
          /\ last'.line # None => last'.line.about = call.about
          /\ call.api = "open" => conn[call.about] # "idle"]_vars

\* A trusted recv hands out the next bytes of its connection, in order, even if
\* it gives up, and if it succeeds nothing it fetched is lost.
ReceivedInOrder ==
    [][Returns(call) /\ call.trusted /\ call.api = "recv" =>
          /\ \A k \in 1..Len(call.got) :
                call.got[k] = Data(call.about, call.at + k)
          /\ last'.st = "OK" => taken[call.about] = call.at + Len(call.got)]_vars

\* Whatever went wrong before, a recv on a TLS socket hands out bytes that a
\* peer sent, in order and of one connection, never a part of a line.
TlsBytesAreData ==
    call.api = "recv" /\ call.about \in Tls =>
        \A k \in 1..Len(call.got) :
            /\ call.got[k].kind = "DATA"
            /\ k > 1 => call.got[k] =
                          Data(call.got[1].about, call.got[1].val + k - 1)
=============================================================================
