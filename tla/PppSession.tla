----------------------------- MODULE PppSession -----------------------------
(***************************************************************************)
(* The PPP control plane of src/src/ec200_ppp.c: dial, escape, resume,     *)
(* hangup and disconnect, with the data-mode flag that decides who owns    *)
(* the UART, against a module that changes mode in its own time and a peer *)
(* that may end the data call at any moment.                               *)
(*                                                                         *)
(* The flag _ppp_data_mode is the library's belief about the module.  A    *)
(* command written while the module is in data mode goes into the PPP      *)
(* stream; a "+++" typed in command mode spoils the next command; a flag   *)
(* left set makes every API answer EC200_ERR_BUSY.  The properties relate  *)
(* belief and module.                                                      *)
(***************************************************************************)
EXTENDS Integers, Sequences

CONSTANTS
    MaxLines,    \* EC200_AT_MAX_LINES, the storm guard of the loops
    HostTakes,   \* the lines the host's PPP stack may read in data mode
    Failures,    \* the ways in which a transport callback may disappoint
    MaxStream,   \* bound: unread lines beyond which nothing unasked arrives
    MaxWork      \* bound: commands the module has received and not processed

Item == {"OK", "ERROR", "CONNECT", "NO_CARRIER", "FRAME"}

ASSUME PppAssumption ==
    /\ MaxLines \in Nat \ {0} /\ MaxStream \in Nat /\ MaxWork \in Nat
    /\ HostTakes \subseteq Item /\ Failures \subseteq {"TIMEOUT", "IO"}

VARIABLES
    work,     \* what the module has received and not processed, oldest first
    stream,   \* lines and PPP frames the module has sent, oldest first
    mode,     \* the module: "command", "suspended" (call kept) or "data"
    junk,     \* bytes sit in the module's command buffer
    flag,     \* _ppp_data_mode
    call,     \* the call in progress
    last      \* the last return, until the next call, for the properties

vars == <<work, stream, mode, junk, flag, call, last>>

NoCall   == [api |-> "none", step |-> "none", lines |-> 0, clean |-> FALSE]
NoResult == [api |-> "none", st |-> "none", clean |-> FALSE]

Idle == call = NoCall

-----------------------------------------------------------------------------
(* The module and its peer (external) *)

Send(line) == stream' = Append(stream, line)
Room == Len(stream) < MaxStream

\* What a command does to a module that reads commands, and its final answer.
Obey(w) ==
    CASE w = "dial"   -> \/ mode = "command" /\ mode' = "data" /\ Send("CONNECT")
                         \/ UNCHANGED mode /\ (Send("NO_CARRIER") \/ Send("ERROR"))
      [] w = "resume" -> \/ mode = "suspended" /\ mode' = "data" /\ Send("CONNECT")
                         \/ mode = "command" /\ UNCHANGED mode
                              /\ (Send("NO_CARRIER") \/ Send("ERROR"))
      [] w = "hangup" -> mode' = "command" /\ Send("OK")
      [] w = "other"  -> UNCHANGED mode /\ (Send("OK") \/ Send("ERROR"))

\* The module gets to the oldest of what it was sent.
ModuleWorks ==
    /\ work # <<>> /\ work' = Tail(work)
    /\ LET w == Head(work) IN
       \/ mode = "data" /\ w = "+++"                     \* escape sequence
            /\ mode' = "suspended" /\ Send("OK") /\ UNCHANGED junk
       \/ mode = "data" /\ w # "+++"                     \* lost in the PPP stream
            /\ UNCHANGED <<stream, mode, junk>>
       \/ mode # "data" /\ w \in {"+++", "part"}         \* no end of line yet
            /\ junk' = TRUE /\ UNCHANGED <<stream, mode>>
       \/ mode # "data" /\ w \notin {"+++", "part"} /\ junk
            /\ Send("ERROR") /\ junk' = FALSE /\ UNCHANGED mode
       \/ mode # "data" /\ w \notin {"+++", "part"} /\ ~junk
            /\ Obey(w) /\ UNCHANGED junk
    /\ UNCHANGED <<flag, call, last>>

FrameArrives ==
    /\ mode = "data" /\ Room /\ Send("FRAME")
    /\ UNCHANGED <<work, mode, junk, flag, call, last>>

\* The data call ends, whether the stream or a command session is active.
PeerHangsUp ==
    /\ mode # "command" /\ Room
    /\ mode' = "command" /\ Send("NO_CARRIER")
    /\ call' = [call EXCEPT !.clean = @ /\ mode = "data"]
    /\ UNCHANGED <<work, junk, flag, last>>

\* Between calls the UART is the host stack's, as long as the flag says so.
HostReads ==
    /\ Idle /\ flag /\ stream # <<>> /\ Head(stream) \in HostTakes
    /\ stream' = Tail(stream)
    /\ UNCHANGED <<work, mode, junk, flag, call, last>>

HostWrites ==
    /\ Idle /\ flag /\ mode # "data" /\ work = <<>>
    /\ junk' = TRUE
    /\ UNCHANGED <<work, stream, mode, flag, call, last>>

-----------------------------------------------------------------------------
(* Calls *)

\* No answer is outstanding, and the flag tells who reads the stream.  Of the
\* session's end the library knows only what it has read.
Unanswered == \A i \in DOMAIN work :
                  work[i] = "part" \/ (work[i] = "+++" /\ mode # "data")
SessionOnly == \A i \in DOMAIN stream :
                   stream[i] = "FRAME" \/ (i = Len(stream) /\ stream[i] = "NO_CARRIER")
InSync ==
    /\ Unanswered
    /\ IF flag THEN SessionOnly /\ mode # "suspended"
               ELSE stream = <<>> /\ mode # "data"

Start(api, step) ==
    /\ Idle /\ Len(work) + 2 <= MaxWork
    /\ call' = [api |-> api, step |-> step, lines |-> 0, clean |-> InSync]
    /\ last' = NoResult

Return(st) ==
    /\ call' = NoCall
    /\ last' = [api |-> call.api, st |-> st, clean |-> call.clean]

\* A call that finds the flag against it returns at once: EC200_ERR_BUSY, or
\* EC200_ERR_PARAM from escape and hangup.
StartDial ==
    /\ ~flag /\ Start("dial", "connect")
    /\ work' = Append(work, "dial")
    /\ UNCHANGED <<stream, mode, junk, flag>>

StartResume ==
    /\ ~flag /\ Start("resume", "connect")
    /\ work' = Append(work, "resume")
    /\ UNCHANGED <<stream, mode, junk, flag>>

StartHangup ==
    /\ ~flag /\ \E api \in {"hangup", "disconnect"} : Start(api, "reply")
    /\ work' = Append(work, "hangup")
    /\ UNCHANGED <<stream, mode, junk, flag>>

\* Any other AT transaction.
StartSend ==
    /\ ~flag /\ Start("send", "reply")
    /\ work' = Append(work, "other")
    /\ UNCHANGED <<stream, mode, junk, flag>>

StartPoll ==
    /\ ~flag /\ Start("poll", "poll")
    /\ UNCHANGED <<work, stream, mode, junk, flag>>

\* The transport fails in the middle of the command line.
StartFails ==
    /\ ~flag /\ Idle /\ Len(work) + 2 <= MaxWork /\ Failures # {}
    /\ work' = Append(work, "part")
    /\ UNCHANGED <<stream, mode, junk, flag, call, last>>

\* The guard silence before "+++"; a disconnect in data mode begins this way.
StartEscape(api) ==
    /\ flag /\ api \in {"escape", "disconnect"} /\ Start(api, "guard")
    /\ UNCHANGED <<work, stream, mode, junk, flag>>

WriteEscape ==
    /\ call.step = "guard"
    /\ call' = [call EXCEPT !.step = "final"]
    /\ work' = Append(work, "+++")
    /\ UNCHANGED <<stream, mode, junk, flag, last>>

WriteEscapeFails ==
    /\ call.step = "guard"
    /\ \E st \in Failures : Return(st)
    /\ work' = Append(work, "part")
    /\ UNCHANGED <<stream, mode, junk, flag>>

-----------------------------------------------------------------------------
(* The ends of the receive loops *)

\* Mutant of ConnectEnds: resume forgets the flag.
ConnectEndsDialOnly(st) ==
    /\ flag' = (flag \/ (st = "OK" /\ call.api = "dial"))
    /\ Return(st)
    /\ UNCHANGED work

\* dial and resume return with the status of send_expect.
ConnectEnds(st) ==
    /\ flag' = (flag \/ st = "OK")
    /\ Return(st)
    /\ UNCHANGED work

\* Which results of wait_final clear the flag in ec200_ppp_escape: an answer
\* of any kind does, EC200_ERR_MODULE, _CME and _CMS being "ERR" here.
LeavesDataMode(st) == st \in {"OK", "ERR"}

\* Mutant of EscapeEnds: disconnect goes on to ATH whatever escape returned.
EscapeEndsUnchecked(st) ==
    /\ flag' = (flag /\ ~LeavesDataMode(st))
    /\ IF call.api = "disconnect"
       THEN /\ call' = [call EXCEPT !.step = "reply", !.lines = 0]
            /\ work' = Append(work, "hangup")
            /\ UNCHANGED last
       ELSE Return(st) /\ UNCHANGED work

\* ec200_ppp_disconnect goes on to ATH once the flag is cleared.
EscapeEnds(st) ==
    /\ flag' = (flag /\ ~LeavesDataMode(st))
    /\ IF call.api = "disconnect" /\ ~flag'
       THEN /\ call' = [call EXCEPT !.step = "reply", !.lines = 0]
            /\ work' = Append(work, "hangup")
            /\ UNCHANGED last
       ELSE Return(st) /\ UNCHANGED work

ReplyEnds(st) == Return(st) /\ UNCHANGED <<work, flag>>

Ends(st) ==
    \/ call.step = "connect" /\ ConnectEnds(st)
    \/ call.step = "final"   /\ EscapeEnds(st)
    \/ call.step = "reply"   /\ ReplyEnds(st)
    \/ call.step = "poll"    /\ ReplyEnds(IF st = "IO" THEN st ELSE "OK")

\* Mutant of GoesOn: lines are not counted.
GoesOnUncounted == UNCHANGED <<call, work, flag, last>>

GoesOn ==
    /\ call' = [call EXCEPT !.lines = @ + 1]
    /\ UNCHANGED <<work, flag, last>>

\* Mutant of Verdict: dial waits for a final result after CONNECT.
VerdictOnFinal(line) ==
    IF call.step = "poll" THEN "none"
    ELSE IF line = "OK" THEN IF call.step = "connect" THEN "PARSE" ELSE "OK"
    ELSE IF line \in {"ERROR", "NO_CARRIER"} THEN "ERR"
    ELSE "none"

\* The status a line ends the current loop with; "none" if it goes on.
Verdict(line) ==
    IF call.step = "poll" THEN "none"
    ELSE IF line = "CONNECT" /\ call.step = "connect" THEN "OK"
    ELSE IF line = "OK" THEN IF call.step = "connect" THEN "PARSE" ELSE "OK"
    ELSE IF line \in {"ERROR", "NO_CARRIER"} THEN "ERR"
    ELSE "none"

Reading == call.step \in {"connect", "final", "reply", "poll"}

ReadLine ==
    /\ Reading /\ call.lines < MaxLines
    /\ stream # <<>> /\ stream' = Tail(stream)
    /\ LET v == Verdict(Head(stream)) IN
       IF v = "none" THEN GoesOn ELSE Ends(v)
    /\ UNCHANGED <<mode, junk>>

\* The budget is spent: the read callback had nothing to deliver.
ReadTimesOut ==
    /\ Reading /\ call.lines < MaxLines /\ stream = <<>>
    /\ call.step = "poll" \/ "TIMEOUT" \in Failures
    /\ Ends("TIMEOUT")
    /\ UNCHANGED <<stream, mode, junk>>

ReadFails ==
    /\ Reading /\ call.lines < MaxLines /\ Room
    /\ "IO" \in Failures
    /\ Ends("IO")
    /\ UNCHANGED <<stream, mode, junk>>

LineCap ==
    /\ Reading /\ call.lines = MaxLines
    /\ Ends("OVERFLOW")
    /\ UNCHANGED <<stream, mode, junk>>

-----------------------------------------------------------------------------

Init ==
    /\ work = <<>> /\ stream = <<>> /\ mode = "command" /\ junk = FALSE
    /\ flag = FALSE /\ call = NoCall /\ last = NoResult

Environment == ModuleWorks \/ FrameArrives \/ PeerHangsUp \/ HostReads
                 \/ HostWrites

Calls == StartDial \/ StartResume \/ StartHangup \/ StartSend \/ StartPoll
           \/ StartFails \/ StartEscape("escape") \/ StartEscape("disconnect")

Inside == WriteEscape \/ ReadLine \/ ReadTimesOut \/ LineCap

Next == Environment \/ Calls \/ Inside \/ WriteEscapeFails \/ ReadFails

Spec == Init /\ [][Next]_vars

\* A call never pauses of its own accord, and the module gets to its work.
FairSpec == Spec /\ WF_vars(Inside) /\ WF_vars(ModuleWorks)

\* ... and the application does not give up on leaving data mode.
RetrySpec == FairSpec /\ WF_vars(StartEscape("disconnect"))

-----------------------------------------------------------------------------
(* Properties *)

Command == {"dial", "resume", "hangup", "other"}
GaveUp  == {"TIMEOUT", "IO", "OVERFLOW"}

\* A call that starts in sync and does not give up ends in sync: the flag is
\* set exactly if the module was handed to the host stack, and no answer is
\* left behind for a later call to take for its own.
EndsInSync ==
    [][ (~Idle /\ call' = NoCall /\ last'.clean /\ last'.st \notin GaveUp)
            => InSync' ]_vars

\* No command is written into the PPP stream of a module that is in data
\* mode, by a call that starts in sync: nor does the second half of a
\* disconnect write one there.
NoStrayCommand ==
    [][ (work' # work /\ Len(work') > Len(work) /\ call'.clean
            /\ work'[Len(work')] \in Command) => mode # "data" ]_vars

\* The frames after CONNECT are left for the host stack: only escape, which
\* discards them to resynchronise, reads one.
FramesLeftToHost ==
    [][ (stream # <<>> /\ stream' = Tail(stream) /\ Head(stream) = "FRAME"
            /\ call.clean) => call.step = "final" ]_vars

\* Every call returns.
CallReturns == ~Idle ~> Idle

\* A caller that retries gets the handle out of data mode, if the transport
\* works again.
NeverWedged ==
    <>[][~ReadFails /\ ~WriteEscapeFails]_vars => (flag ~> ~flag)
=============================================================================
