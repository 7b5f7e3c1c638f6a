------------------------------ MODULE AtEngine ------------------------------
(***************************************************************************)
(* The AT command engine of src/src/ec200_at.c, one complete line at a     *)
(* time, together with the command flows the domain files build from it.   *)
(*                                                                         *)
(* The library is synchronous: an API call transmits a command and runs a  *)
(* fixed sequence of receive loops until one of them fails or the last one *)
(* is done.  A URC handler may run inside a loop and may call the API      *)
(* again, so calls in progress form a stack of frames.  The module answers *)
(* in its own time: a loop may give up before the reply comes, and the     *)
(* reply then waits in the stream for whoever reads next.                  *)
(*                                                                         *)
(* Lines carry the number of the command that made the module send them;   *)
(* the code has no such number, and the properties ask whether it can tell *)
(* the lines apart without it.                                             *)
(***************************************************************************)
EXTENDS Integers, Sequences, FiniteSets

CONSTANTS
    Flows,        \* the command flows the application uses
    UrcPrefix,    \* the prefixes of the unsolicited lines of the module
    MaxUrc,       \* EC200_MAX_URC_HANDLERS
    MaxLines,     \* EC200_AT_MAX_LINES, the storm guard of the loops
    MaxDepth,     \* bound: calls nested through handlers
    MaxCmds       \* bound: commands transmitted in a behaviour

ErrorKind == {"ERROR", "CME", "CMS"}

\* What a line is, up to what the loops tell apart.  "RESULT" is the line
\* with the prefix a flow waits for; TEXT is any other line of a reply.
ReplyKind == {"OK", "TEXT", "RESULT", "CONNECT", "PROMPT", "DATA"}
                \cup ErrorKind

AllFlows == {"send", "query", "data", "await", "submit", "socket", "publish",
             "url", "post", "upload"}

ASSUME FlowsAssumption == Flows \subseteq AllFlows
ASSUME BoundsAssumption ==
    /\ MaxUrc \in Nat
    /\ MaxLines \in Nat \ {0}
    /\ MaxDepth \in Nat \ {0}
    /\ MaxCmds \in Nat
ASSUME UrcAssumption ==
    UrcPrefix \cap ((ReplyKind \ {"RESULT"}) \cup {"BLANK", "none"}) = {}

VARIABLES
    replies,     \* lines the module has sent or will send, oldest first
    modem,       \* whether the module takes bytes as commands or as payload
    frame,       \* the calls in progress; frame[depth] is the running one
    depth,
    registered,  \* prefixes in _urc_table
    errKind,     \* _last_err_kind
    nextId,      \* number of the next command
    last         \* the last return, until the next call, for the properties

vars == <<replies, modem, frame, depth, registered, errKind, nextId, last>>

-----------------------------------------------------------------------------
(* Lines *)

Line(kind, id) == [kind |-> kind, id |-> id]
NoLine  == Line("none", 0)
Unasked == UrcPrefix \cup {"BLANK"}
Lines   == [kind : ReplyKind \cup Unasked \cup {"none"}, id : Nat]

Stamp(script, id) == [i \in DOMAIN script |-> Line(script[i], id)]

-----------------------------------------------------------------------------
(* Flows: the loops each API function runs after at_transmit *)

Loop(name, pfx, stop) == [loop |-> name, pfx |-> pfx, stop |-> stop]
Recv       == Loop("recv", "none", FALSE)
RecvResult == Loop("recv", "RESULT", FALSE)
RecvHeader == Loop("recv", "RESULT", TRUE)
Exact      == Loop("exact", "none", FALSE)
Write      == Loop("write", "none", FALSE)
Final      == Loop("final", "none", FALSE)
Prompt     == Loop("prompt", "none", FALSE)
Prefix     == Loop("prefix", "RESULT", FALSE)
Connect    == Loop("recv", "CONNECT", TRUE)
PollLoop   == Loop("poll", "none", FALSE)

\* Mutants of the flows: the reply is not matched by its prefix.
QueryPhasesUnmatched  == << Recv >>
SubmitPhasesUnmatched == << Prompt, Write, Recv >>

SendPhases    == << Recv >>
QueryPhases   == << RecvResult >>
DataPhases    == << RecvHeader, Exact, Final >>
AwaitPhases   == << RecvHeader, Prefix, Final >>
SubmitPhases  == << Prompt, Write, Prefix, Final >>
SocketPhases  == << Prompt, Write, Prefix >>
PublishPhases == << Prompt, Write, Prefix >>
UrlPhases     == << Connect, Write, Final >>
PostPhases    == << Connect, Write, Final, Prefix >>
UploadPhases  == << Connect, Write, Prefix, Final >>
PollPhases    == << PollLoop >>

FlowTable ==
    [send |-> SendPhases, query |-> QueryPhases, data |-> DataPhases,
     await |-> AwaitPhases, submit |-> SubmitPhases, socket |-> SocketPhases,
     publish |-> PublishPhases, url |-> UrlPhases, post |-> PostPhases,
     upload |-> UploadPhases, poll |-> PollPhases]

Phases(flow) == FlowTable[flow]
Steps(flow)  == Len(Phases(flow))

\* Mutants of NextStep: the last loop of a flow is left out; the status of
\* the gate is ignored.
NextStepEarly(f, st) ==
    IF st = "OK" /\ f.step + 1 < Steps(f.flow) THEN f.step + 1 ELSE 0
NextStepUnchecked(f, st) ==
    IF st \in {"OK", "PARSE"} /\ f.step < Steps(f.flow) THEN f.step + 1 ELSE 0

\* The loop that follows the one that ended with status st; 0 returns st.
\* A send_await_urc goes on after PARSE (the OK came first: phase 2) and
\* after OK (the result line came first: consume the trailing OK).
NextStep(f, st) ==
    IF f.flow = "await"
    THEN IF f.step = 1 /\ st = "PARSE" THEN 2
         ELSE IF f.step = 1 /\ st = "OK" THEN 3 ELSE 0
    ELSE IF st = "OK" /\ f.step < Steps(f.flow) THEN f.step + 1 ELSE 0

\* The trailing wait_final of send_await_urc has its status thrown away.
Ignored(f) == f.flow = "await" /\ f.step = 3

-----------------------------------------------------------------------------
(* The module (external): what it may answer to each command *)

Errors == {<<k>> : k \in ErrorKind}

Gated == {"submit", "socket", "publish", "url", "post", "upload"}

AtPrompt  == {<<"PROMPT">>, <<"OK">>}
AtConnect == {<<"CONNECT">>, <<"OK">>}

\* The answers to a command line; a gated command stops at its gate.
AnswerTable ==
    [send    |-> {<<"OK">>, <<"TEXT", "OK">>},
     query   |-> {<<"RESULT", "OK">>, <<"OK">>},
     data    |-> {<<"RESULT", "DATA", "OK">>, <<"OK">>},
     await   |-> {<<"OK", "RESULT">>, <<"RESULT", "OK">>},
     submit  |-> AtPrompt, socket |-> AtPrompt, publish |-> AtPrompt,
     url     |-> AtConnect, post |-> AtConnect, upload |-> AtConnect]

Answers(flow) == Errors \cup AnswerTable[flow]

\* The answers to the payload of a gated command.
PayloadAnswerTable ==
    [submit  |-> {<<"RESULT", "OK">>},
     socket  |-> {<<"RESULT">>},
     publish |-> {<<"OK", "RESULT">>, <<"RESULT">>},
     url     |-> {<<"OK">>},
     post    |-> {<<"OK", "RESULT">>},
     upload  |-> {<<"RESULT", "OK">>}]

PayloadAnswers(flow) == Errors \cup PayloadAnswerTable[flow]

CommandMode == [mode |-> "command", id |-> 0, flow |-> "none"]
PayloadMode(flow, id) == [mode |-> "payload", id |-> id, flow |-> flow]

\* No reply is owed and the module reads commands.
Quiet == replies = <<>> /\ modem = CommandMode

-----------------------------------------------------------------------------
(* Frames and returns *)

Frame(flow, id, clean) ==
    [flow |-> flow, step |-> 1, id |-> id, lines |-> 0, resp |-> NoLine,
     inHandler |-> FALSE, mayCall |-> TRUE, clean |-> clean,
     nested |-> FALSE, ignored |-> FALSE]
NoFrame == Frame("none", 0, FALSE)

top == frame[depth]
loop == Phases(top.flow)[top.step]

Running == depth > 0 /\ ~top.inHandler
UserRuns == depth > 0 => top.inHandler

Result(f, st, by) ==
    [flow |-> f.flow, id |-> f.id, st |-> st, by |-> by, resp |-> f.resp,
     clean |-> f.clean, nested |-> f.nested, ignored |-> f.ignored]
NoResult == Result(NoFrame, "none", NoLine)

\* Mutant of Continue: lines are not counted.
ContinueUncounted(f, handler) ==
    /\ frame' = [frame EXCEPT ![depth] = [f EXCEPT !.inHandler = handler]]
    /\ UNCHANGED <<depth, last>>

\* The loop of frame f goes on with its next line; a handler may have to run.
Continue(f, handler) ==
    /\ frame' = [frame EXCEPT ![depth] =
                    [f EXCEPT !.inHandler = handler,
                              !.lines = IF loop.loop = "prompt" THEN 0
                                                                ELSE @ + 1]]
    /\ UNCHANGED <<depth, last>>

Return(f, st, by) ==
    /\ frame' = [frame EXCEPT ![depth] = NoFrame]
    /\ depth' = depth - 1
    /\ last'  = Result(f, st, by)

\* The loop of frame f ends with status st, decided by line `by'.
Done(f, st, by) ==
    LET next == NextStep(f, st)
        g    == [f EXCEPT !.ignored = @ \/ (Ignored(f) /\ st # "OK")]
    IN  IF next = 0
        THEN Return(g, IF Ignored(f) THEN "OK" ELSE st, by)
        ELSE /\ frame' = [frame EXCEPT ![depth] =
                             [g EXCEPT !.step = next, !.lines = 0]]
             /\ UNCHANGED <<depth, last>>

-----------------------------------------------------------------------------
(* What the loops do with one line *)

RecordError(l) == errKind' = IF l.kind \in {"CME", "CMS"} THEN l.kind
                                                          ELSE errKind

\* Mutant of Mapped: the kind is looked up before the line is recorded.
MappedTooEarly == IF errKind = "none" THEN "MODULE" ELSE errKind

\* map_error_terminal, after is_terminal has recorded the line
Mapped == IF errKind' = "none" THEN "MODULE" ELSE errKind'

ErrorTerminal(l) ==
    /\ l.kind \in ErrorKind
    /\ RecordError(l)
    /\ Done(top, Mapped, l)

Dispatch(l) == Continue(top, l.kind \in registered) /\ UNCHANGED errKind

Skip(l) == l.kind = "BLANK" /\ Continue(top, FALSE) /\ UNCHANGED errKind

IsOther(l) == l.kind \notin ErrorKind \cup {"OK", "BLANK"}

\* Mutant of Accumulates: before a registered handler has had its turn.
AccumulatesFirst(l) == loop.pfx = "none" /\ top.resp = NoLine

\* A line of a prefix-less transaction is added to the response.  The first
\* one stands for all of them.
Accumulates(l) ==
    loop.pfx = "none" /\ l.kind \notin registered /\ top.resp = NoLine

RecvLine(l) ==
    LET unmatched == loop.pfx # "none" /\ top.resp = NoLine
        hit       == unmatched /\ l.kind = loop.pfx
        got       == [top EXCEPT !.resp = l]
    IN  \/ Skip(l)
        \/ /\ hit
           /\ IF loop.stop THEN Done(got, "OK", l) ELSE Continue(got, FALSE)
           /\ UNCHANGED errKind
        \/ /\ l.kind = "OK" /\ UNCHANGED errKind
           /\ Done(top, IF unmatched THEN "PARSE" ELSE "OK", l)
        \/ ErrorTerminal(l)
        \/ /\ IsOther(l) /\ ~hit /\ UNCHANGED errKind
           /\ IF Accumulates(l) THEN Continue(got, FALSE)
                                ELSE Continue(top, l.kind \in registered)

PrefixLine(l) ==
    \/ Skip(l)
    \/ /\ l.kind = loop.pfx /\ UNCHANGED errKind
       /\ Done([top EXCEPT !.resp = l], "OK", l)
    \/ ErrorTerminal(l)
    \/ l.kind = "OK" /\ Continue(top, FALSE) /\ UNCHANGED errKind
    \/ IsOther(l) /\ l.kind # loop.pfx /\ Dispatch(l)

FinalLine(l) ==
    \/ Skip(l)
    \/ l.kind = "OK" /\ Done(top, "OK", l) /\ UNCHANGED errKind
    \/ ErrorTerminal(l)
    \/ IsOther(l) /\ Dispatch(l)

PromptLine(l) ==
    \/ Skip(l)
    \/ l.kind = "PROMPT" /\ Done(top, "OK", l) /\ UNCHANGED errKind
    \/ ErrorTerminal(l)
    \/ l.kind = "OK" /\ Done(top, "PARSE", l) /\ UNCHANGED errKind
    \/ IsOther(l) /\ l.kind # "PROMPT" /\ Dispatch(l)

\* Registered handlers first, the fallback urc_handler for all other lines.
PollLine(l) ==
    \/ Skip(l)
    \/ l.kind # "BLANK" /\ Continue(top, TRUE) /\ UNCHANGED errKind

\* Mutant of Capped: wait_prefix and wait_final loop without the guard.
CappedInRecv == loop.loop \in {"recv", "poll"}

Capped == loop.loop \in {"recv", "prefix", "final", "poll"}

Handle(l) ==
    /\ Capped => top.lines < MaxLines
    /\ \/ loop.loop = "recv"   /\ RecvLine(l)
       \/ loop.loop = "prefix" /\ PrefixLine(l)
       \/ loop.loop = "final"  /\ FinalLine(l)
       \/ loop.loop = "prompt" /\ PromptLine(l)
       \/ loop.loop = "poll"   /\ PollLine(l)

-----------------------------------------------------------------------------
(* Steps of the library inside a call *)

RxReply ==
    /\ Running /\ replies # <<>>
    /\ Handle(Head(replies))
    /\ replies' = Tail(replies)
    /\ UNCHANGED <<modem, registered, nextId>>

\* An unsolicited or blank line arrives between two lines of a reply.
RxUnasked ==
    /\ Running
    /\ \E k \in Unasked : Handle(Line(k, 0))
    /\ UNCHANGED <<replies, modem, registered, nextId>>

\* ec200_at_read_exact: the next bytes are the payload, whatever they are.
RxPayload ==
    /\ Running /\ loop.loop = "exact" /\ replies # <<>>
    /\ replies' = Tail(replies)
    /\ Done(top, "OK", Head(replies))
    /\ UNCHANGED <<modem, registered, errKind, nextId>>

\* Mutant of RxTimeout: the prompt loop waits for ever.
RxTimeoutNotAtPrompt ==
    /\ Running /\ loop.loop \notin {"write", "prompt"}
    /\ Capped => top.lines < MaxLines
    /\ Done(top, IF loop.loop = "poll" THEN "OK" ELSE "TIMEOUT", NoLine)
    /\ UNCHANGED <<replies, modem, registered, errKind, nextId>>

\* The budget is spent before the next line is complete.
RxTimeout ==
    /\ Running /\ loop.loop # "write"
    /\ Capped => top.lines < MaxLines
    /\ Done(top, IF loop.loop = "poll" THEN "OK" ELSE "TIMEOUT", NoLine)
    /\ UNCHANGED <<replies, modem, registered, errKind, nextId>>

RxIoError ==
    /\ Running /\ loop.loop # "write"
    /\ Capped => top.lines < MaxLines
    /\ Done(top, "IO", NoLine)
    /\ UNCHANGED <<replies, modem, registered, errKind, nextId>>

\* EC200_AT_MAX_LINES lines have been read and none ended the loop.
LineCap ==
    /\ Running /\ Capped /\ top.lines = MaxLines
    /\ Done(top, IF loop.loop = "poll" THEN "OK" ELSE "OVERFLOW", NoLine)
    /\ UNCHANGED <<replies, modem, registered, errKind, nextId>>

\* ec200_at_write_raw of the payload.  A module that waits for it answers;
\* a module in command mode reads it as junk command lines.
WritePayload ==
    /\ Running /\ loop.loop = "write"
    /\ Done(top, "OK", NoLine)
    /\ modem' = CommandMode
    /\ IF modem.mode = "payload"
       THEN \E s \in PayloadAnswers(modem.flow) :
                replies' = replies \o Stamp(s, modem.id)
       ELSE \E s \in {<<>>, <<"ERROR">>} : replies' = replies \o Stamp(s, 0)
    /\ UNCHANGED <<registered, errKind, nextId>>

\* The transport fails or stays blocked: part of the payload is missing.
WritePayloadFails ==
    /\ Running /\ loop.loop = "write"
    /\ \E st \in {"IO", "TIMEOUT"} : Done(top, st, NoLine)
    /\ UNCHANGED <<replies, modem, registered, errKind, nextId>>

LibraryStep == RxReply \/ RxUnasked \/ RxPayload \/ RxTimeout \/ RxIoError
                 \/ LineCap \/ WritePayload \/ WritePayloadFails

-----------------------------------------------------------------------------
(* Steps of the application, from its main loop or from a handler *)

\* A handler makes at most one call per activation; the call disturbs the
\* command it interrupts.
Push(f) ==
    /\ depth < MaxDepth
    /\ depth > 0 => top.mayCall
    /\ depth' = depth + 1
    /\ last' = NoResult
    /\ frame' = [d \in 1..MaxDepth |->
                    IF d = depth + 1 THEN f
                    ELSE IF d = depth
                    THEN [frame[d] EXCEPT !.mayCall = FALSE, !.clean = FALSE,
                                          !.nested = TRUE]
                    ELSE frame[d]]

\* No command is outstanding: only polls are interrupted.
AtRest == \A d \in 1..depth : frame[d].flow = "poll"

\* at_transmit and the whole command line goes out.  A module that waits for
\* payload takes the command line for it, and answers if that completes it.
Transmit(flow) ==
    /\ UserRuns /\ nextId <= MaxCmds
    /\ errKind' = "none"
    /\ nextId' = nextId + 1
    /\ LET f == Frame(flow, nextId, Quiet /\ AtRest) IN
       /\ Push(f)
       /\ \/ /\ modem.mode = "command"
             /\ \E s \in Answers(flow) :
                  /\ replies' = replies \o Stamp(s, nextId)
                  /\ modem' = IF s \in {<<"PROMPT">>, <<"CONNECT">>}
                              THEN PayloadMode(flow, nextId) ELSE modem
          \/ modem.mode = "payload" /\ UNCHANGED <<replies, modem>>
          \/ /\ modem.mode = "payload" /\ modem' = CommandMode
             /\ \E s \in PayloadAnswers(modem.flow) :
                  replies' = replies \o Stamp(s, modem.id)
    /\ UNCHANGED registered

\* The command does not fit _tx_buf or cannot be written: nothing is waited
\* for, and the errors of the previous command are gone all the same.
TransmitFails ==
    /\ UserRuns /\ depth < MaxDepth
    /\ errKind' = "none" /\ last' = NoResult
    /\ UNCHANGED <<replies, modem, frame, depth, registered, nextId>>

Poll ==
    /\ UserRuns
    /\ Push(Frame("poll", 0, FALSE))
    /\ UNCHANGED <<replies, modem, registered, errKind, nextId>>

RegisterUrc(u) ==
    /\ UserRuns
    /\ u \in registered \/ Cardinality(registered) < MaxUrc
    /\ registered' = registered \cup {u}
    /\ UNCHANGED <<replies, modem, frame, depth, errKind, nextId, last>>

UnregisterUrc(u) ==
    /\ UserRuns /\ u \in registered
    /\ registered' = registered \ {u}
    /\ UNCHANGED <<replies, modem, frame, depth, errKind, nextId, last>>

HandlerReturns ==
    /\ depth > 0 /\ top.inHandler
    /\ frame' = [frame EXCEPT ![depth] =
                    [top EXCEPT !.inHandler = FALSE, !.mayCall = TRUE]]
    /\ UNCHANGED <<replies, modem, depth, registered, errKind, nextId, last>>

-----------------------------------------------------------------------------

Init ==
    /\ replies = <<>> /\ modem = CommandMode
    /\ frame = [d \in 1..MaxDepth |-> NoFrame] /\ depth = 0
    /\ registered = {} /\ errKind = "none" /\ nextId = 1
    /\ last = NoResult

Next ==
    \/ LibraryStep
    \/ \E flow \in Flows : Transmit(flow)
    \/ TransmitFails
    \/ Poll
    \/ \E u \in UrcPrefix : RegisterUrc(u) \/ UnregisterUrc(u)
    \/ HandlerReturns

Spec == Init /\ [][Next]_vars

\* The code of a call never pauses of its own accord (every read and write
\* it makes is bounded), and handlers are required to return.  The transport
\* is not required to fail.
Works == RxReply \/ RxUnasked \/ RxPayload \/ RxTimeout \/ LineCap
           \/ WritePayload
Fairness == WF_vars(Works) /\ WF_vars(HandlerReturns)
FairSpec == Spec /\ Fairness
-----------------------------------------------------------------------------
(* Properties *)

Status == {"OK", "PARSE", "CME", "CMS", "MODULE", "TIMEOUT", "IO", "OVERFLOW"}
GaveUp == {"TIMEOUT", "IO", "OVERFLOW"}

FrameType ==
    [flow : Flows \cup {"poll", "none"}, step : 1..4, id : Nat,
     lines : 0..MaxLines, resp : Lines, inHandler : BOOLEAN,
     mayCall : BOOLEAN, clean : BOOLEAN, nested : BOOLEAN, ignored : BOOLEAN]

ResultType ==
    [flow : Flows \cup {"poll", "none"}, id : Nat, st : Status \cup {"none"},
     by : Lines, resp : Lines,
     clean : BOOLEAN, nested : BOOLEAN, ignored : BOOLEAN]

ChannelType ==
    /\ replies \in Seq(Lines)
    /\ modem \in [mode : {"command", "payload"}, id : Nat,
                  flow : Flows \cup {"none"}]
    /\ modem.mode = "payload" => modem.flow \in Gated

\* A call in progress is at a step its flow has.
StackType ==
    /\ frame \in [1..MaxDepth -> FrameType]
    /\ depth \in 0..MaxDepth
    /\ \A d \in 1..depth : /\ frame[d].flow # "none"
                           /\ frame[d].step <= Steps(frame[d].flow)
    /\ last \in ResultType

\* The table never holds more prefixes than it has slots.
TableType ==
    /\ registered \in SUBSET UrcPrefix
    /\ IsFiniteSet(registered)
    /\ Cardinality(registered) <= MaxUrc

\* Every variable has its type.
TypeOK ==
    /\ ChannelType
    /\ StackType
    /\ TableType
    /\ errKind \in {"none", "CME", "CMS"}
    /\ nextId \in Nat \ {0}

\* What the module may still owe to a call of `flow' whose loop is at `step'
\* and has stored `resp', if nothing came between the call and its reply.
Owed(flow, step, resp) ==
    IF step = 1 THEN IF resp = NoLine \/ flow = "send" THEN Answers(flow)
                     ELSE IF flow = "query" THEN {<<"OK">>} ELSE {}
    ELSE IF step = 2 THEN IF flow \in Gated THEN {<<>>}
                          ELSE IF flow = "data" THEN {<<"DATA", "OK">>}
                                                ELSE {<<"RESULT">>}
    ELSE IF step = 3 THEN IF flow \in Gated THEN PayloadAnswers(flow)
                                            ELSE {<<"OK">>}
    ELSE IF flow = "post" THEN {<<"RESULT">>} ELSE {<<"OK">>}

\* The module is at, or about to send, the gate where it waits for payload.
AtGate(flow, step, s) == \/ step = 1 /\ s \in {<<"PROMPT">>, <<"CONNECT">>}
                         \/ step = 2 /\ flow \in Gated

Owes(flow, step, resp, id, s) ==
    /\ s \in Owed(flow, step, resp)
    /\ replies = Stamp(s, id)
    /\ modem = IF AtGate(flow, step, s) THEN PayloadMode(flow, id)
                                        ELSE CommandMode

InStep(f) == \E s \in Owed(f.flow, f.step, f.resp) :
                 Owes(f.flow, f.step, f.resp, f.id, s)

OwnResponse(r) ==
    r.resp # NoLine =>
        r.resp.id = r.id \/ (r.flow = "send" /\ r.resp.id = 0)

\* A clean call is the running one, and the stream holds exactly what the
\* module owes to it: the invariant behind OwnReply and StaysQuiet.
CleanInStep ==
    \A d \in 1..depth :
        /\ ~frame[d].ignored
        /\ frame[d].clean => /\ d = depth
                             /\ frame[d].flow # "poll"
                             /\ InStep(frame[d])
                             /\ OwnResponse(frame[d])

\* A call made on a quiet channel and not interrupted by a handler's call is
\* decided by a line of the reply to its own command, and the response it
\* hands out is such a line too, whatever happened to earlier commands.  The
\* response of a plain send may hold lines nobody asked for (id 0).
OwnReply ==
    (last.clean /\ last.st \notin GaveUp) =>
        /\ last.by.id = last.id \/ (last.ignored /\ last.by = NoLine)
        /\ OwnResponse(last)

\* Such a call leaves the channel quiet, so that the next one starts from
\* there, unless it gave up or ignored a failed wait (the trailing OK of
\* send_await_urc).
StaysQuiet ==
    [][ (depth' < depth /\ last'.clean /\ last'.st \notin GaveUp
            /\ ~last'.ignored) => Quiet' ]_vars

\* An error status is the one of the error line that ended the call: a
\* +CME/+CMS kind left by an earlier command never classifies a later plain
\* ERROR, provided no handler's call came in between.
ErrorKindIsOwn ==
    (last.st \in {"CME", "CMS", "MODULE"} /\ ~last.nested) =>
        last.st = IF last.by.kind = "ERROR" THEN "MODULE" ELSE last.by.kind

\* As ErrorKindIsOwn, of every call: the claim of the file's header comment.
ErrorKindIsAlwaysOwn ==
    last.st \in {"CME", "CMS", "MODULE"} =>
        last.st = IF last.by.kind = "ERROR" THEN "MODULE" ELSE last.by.kind

\* An unsolicited line with a registered prefix is never stored in a caller's
\* response buffer, in any loop and at any depth of nested calls.
UrcNeverFiled ==
    [][ \A d \in 1..MaxDepth :
          LET r == frame'[d].resp IN
          (r # frame[d].resp /\ r.id = 0) => r.kind \notin registered ]_vars

\* The channel as CommandChannel has it.
OwnCall == \E d \in 1..depth : frame[d].clean
ChannelState == CASE OwnCall -> "own"
                  [] ~OwnCall /\ Quiet -> "in step"
                  [] OTHER -> "adrift"
ByOwnReply == last.by.id = last.id /\ OwnResponse(last)
Outcome == IF last.st = "none" THEN "none"
           ELSE IF ~last.clean THEN "any"
           ELSE IF last.st \in GaveUp \/ last.ignored THEN "gave up"
           ELSE IF ByOwnReply THEN "own reply" ELSE "foreign reply"

Channel == INSTANCE CommandChannel WITH state <- ChannelState, outcome <- Outcome

\* The engine implements the channel the other files rely on: a command that
\* starts in step and is not disturbed is decided by its own reply and ends in
\* step, or gives up, and a command is an own one only if it starts in step.
ImplementsChannel == Channel!Spec

\* The payload of an undisturbed call goes to the command it belongs to: the
\* gate it saw was not the late gate of an earlier command.
PayloadToOwnCommand ==
    [][ (Running /\ loop.loop = "write" /\ top.clean) =>
            modem = PayloadMode(top.flow, top.id) ]_vars

\* Every call returns, whatever the module sends or fails to send, except
\* that the prompt loop counts no lines.
InPromptLoop == Running /\ loop.loop = "prompt"
CallReturns == depth > 0 ~> (depth = 0 \/ InPromptLoop)

\* Every call returns once the module stops sending lines nobody asked for.
ReturnsAfterStorm == <>[][~RxUnasked]_vars => (depth > 0 ~> depth = 0)
=============================================================================
