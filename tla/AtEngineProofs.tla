--------------------------- MODULE AtEngineProofs ---------------------------
(***************************************************************************)
(* What holds of AtEngine for every set of flows, handlers, prefixes and   *)
(* bounds, in three parts.                                                 *)
(*                                                                         *)
(* Types and lines.  The call stack, the URC table and the line counters   *)
(* stay within their bounds, whatever the module sends.  The error status  *)
(* of a call is that of the line that ended it, unless a handler's call    *)
(* came in between, and no line with a registered prefix is ever filed as  *)
(* response data.  One lemma for each operator of the actions.             *)
(*                                                                         *)
(* Replies.  A call made on a quiet channel, and not interrupted by a      *)
(* handler's call, is answered by its own reply and leaves the channel     *)
(* quiet.  The argument follows the script the module plays for the        *)
(* command: at every step of the call the stream holds exactly the rest    *)
(* of the script (CleanInStep).                                            *)
(*                                                                         *)
(* The channel.  AtEngine implements CommandChannel: whatever a step does, *)
(* it does one of four things to the stack of calls (the running call goes *)
(* on, it returns, another call begins, or nothing happens to the stack),  *)
(* and the invariant of the second part says what each means to the        *)
(* channel.                                                                *)
(***************************************************************************)
EXTENDS AtEngine, TLAPS, FiniteSetTheorems, SequenceTheorems

USE DEF AllFlows

Call(f) == f \in FrameType /\ f.flow # "none" /\ f.step <= Steps(f.flow)

PhaseType == [loop : {"recv", "exact", "prefix", "final", "prompt", "write",
                      "poll"},
              pfx : {"none", "RESULT", "CONNECT"}, stop : BOOLEAN]

\* The phases of every flow are between one and four loops.
LEMMA PhasesType ==
    ASSUME NEW flow \in AllFlows \cup {"poll"}
    PROVE  /\ Steps(flow) \in 1..4
           /\ Phases(flow) \in Seq(PhaseType)
           /\ flow = "poll" => Steps(flow) = 1
           /\ flow = "await" => Steps(flow) = 3
<1>1. /\ Recv \in PhaseType /\ RecvResult \in PhaseType
      /\ RecvHeader \in PhaseType /\ Exact \in PhaseType
      /\ Write \in PhaseType /\ Final \in PhaseType /\ Prompt \in PhaseType
      /\ Prefix \in PhaseType /\ Connect \in PhaseType /\ PollLoop \in PhaseType
  BY DEF PhaseType, Loop, Recv, RecvResult, RecvHeader, Exact, Write, Final,
         Prompt, Prefix, Connect, PollLoop
<1> DEFINE Fits(s, n) == s \in Seq(PhaseType) /\ Len(s) = n
<1>2. Fits(SendPhases, 1) /\ Fits(QueryPhases, 1)
  BY <1>1 DEF SendPhases, QueryPhases
<1>3. Fits(DataPhases, 3) /\ Fits(AwaitPhases, 3)
  BY <1>1 DEF DataPhases, AwaitPhases
<1>4. Fits(SubmitPhases, 4) /\ Fits(SocketPhases, 3) /\ Fits(PublishPhases, 3)
  BY <1>1 DEF SubmitPhases, SocketPhases, PublishPhases
<1>5. Fits(UrlPhases, 3) /\ Fits(PostPhases, 4) /\ Fits(UploadPhases, 4)
  BY <1>1 DEF UrlPhases, PostPhases, UploadPhases
<1>6. Fits(PollPhases, 1)
  BY <1>1 DEF PollPhases
<1>7. /\ Phases("send") = SendPhases /\ Phases("query") = QueryPhases
      /\ Phases("data") = DataPhases /\ Phases("await") = AwaitPhases
      /\ Phases("submit") = SubmitPhases /\ Phases("socket") = SocketPhases
      /\ Phases("publish") = PublishPhases /\ Phases("url") = UrlPhases
      /\ Phases("post") = PostPhases /\ Phases("upload") = UploadPhases
      /\ Phases("poll") = PollPhases
  BY DEF Phases, FlowTable
<1> DEFINE Goal(fl) == /\ Phases(fl) \in Seq(PhaseType)
                       /\ Len(Phases(fl)) \in 1..4
                       /\ fl = "poll" => Len(Phases(fl)) = 1
                       /\ fl = "await" => Len(Phases(fl)) = 3
<1>8. Goal("send") /\ Goal("query") /\ Goal("data") /\ Goal("await")
  BY <1>2, <1>3, <1>7
<1>9. Goal("submit") /\ Goal("socket") /\ Goal("publish")
  BY <1>4, <1>7
<1>10. Goal("url") /\ Goal("post") /\ Goal("upload")
  BY <1>5, <1>7
<1>11. Goal("poll")
  BY <1>6, <1>7
<1> HIDE DEF Goal
<1>12. Goal(flow)
  BY <1>8, <1>9, <1>10, <1>11
<1> QED
  BY <1>12 DEF Goal, Steps

\* The next loop of a call is one its flow has, or none.
LEMMA NextStepType ==
    ASSUME NEW f, Call(f), NEW st \in Status
    PROVE  NextStep(f, st) \in 0..Steps(f.flow)
<1>1. f.flow \in AllFlows \cup {"poll"} /\ f.step \in 1..4
  BY FlowsAssumption DEF Call, FrameType
<1>2. Steps(f.flow) \in 1..4 /\ (f.flow = "await" => Steps(f.flow) = 3)
  BY <1>1, PhasesType
<1> QED
  BY <1>1, <1>2 DEF Call, NextStep

\* Ending a loop keeps the stack and the last result well typed.
LEMMA DoneType ==
    ASSUME StackType, depth > 0,
           NEW f, Call(f), NEW st \in Status, NEW by \in Lines,
           Done(f, st, by)
    PROVE  StackType'
<1>1. /\ frame \in [1..MaxDepth -> FrameType] /\ depth \in 1..MaxDepth
      /\ MaxDepth \in Nat /\ last \in ResultType
  BY BoundsAssumption DEF StackType
<1>2. f.flow \in AllFlows \cup {"poll"} /\ f.step \in 1..4
  BY FlowsAssumption DEF Call, FrameType
<1> DEFINE g == [f EXCEPT !.ignored = @ \/ (Ignored(f) /\ st # "OK")]
           n == NextStep(f, st)
<1>3. g \in FrameType /\ g.flow = f.flow
  BY DEF Call, FrameType, Ignored
<1> HIDE DEF g, n
<1>4. CASE n = 0
  <2>1. Return(g, IF Ignored(f) THEN "OK" ELSE st, by)
    BY <1>4 DEF Done, g, n
  <2>2. NoFrame \in FrameType
    BY BoundsAssumption DEF NoFrame, Frame, FrameType, Lines, NoLine, Line
  <2>3. last' \in ResultType
    BY <2>1, <1>3 DEF Return, Result, ResultType, FrameType, Status
  <2> QED
    BY <1>1, <2>1, <2>2, <2>3 DEF StackType, Return
<1>5. CASE n # 0
  <2> DEFINE k == [g EXCEPT !.step = n, !.lines = 0]
  <2>1. /\ frame' = [frame EXCEPT ![depth] = k]
        /\ UNCHANGED <<depth, last>>
    BY <1>5 DEF Done, g, n
  <2>2. n \in 1..4 /\ n <= Steps(f.flow)
    <3>1. n \in 0..Steps(f.flow)
      BY NextStepType DEF n
    <3>2. Steps(f.flow) \in 1..4
      BY <1>2, PhasesType
    <3> QED
      BY <1>5, <3>1, <3>2
  <2>3. 0 \in 0..MaxLines
    BY BoundsAssumption
  <2>4. k \in FrameType /\ k.flow = f.flow /\ k.step = n
    BY <1>3, <2>2, <2>3 DEF FrameType
  <2> HIDE DEF k
  <2> QED
    BY <1>1, <2>1, <2>2, <2>4 DEF StackType, Call
<1> QED
  BY <1>4, <1>5

\* The running call is a call, at one of the loops of its flow.
LEMMA TopType ==
    ASSUME StackType, depth > 0
    PROVE  Call(top) /\ loop \in PhaseType /\ depth \in 1..MaxDepth
<1>1. depth \in 1..MaxDepth /\ MaxDepth \in Nat
  BY BoundsAssumption DEF StackType
<1>2. Call(top)
  BY <1>1 DEF StackType, Call, top
<1>3. top.flow \in AllFlows \cup {"poll"} /\ top.step \in 1..Steps(top.flow)
  <2>1. top.step \in 1..4 /\ top.flow \in AllFlows \cup {"poll"}
    BY <1>2, FlowsAssumption DEF Call, FrameType
  <2>2. Steps(top.flow) \in 1..4
    BY <2>1, PhasesType
  <2> QED
    BY <1>2, <2>1, <2>2 DEF Call
<1>4. loop \in PhaseType
  <2> DEFINE phases == Phases(top.flow)
  <2>1. phases \in Seq(PhaseType) /\ top.step \in 1..Len(phases)
    BY <1>3, PhasesType DEF Steps
  <2>2. loop = phases[top.step]
    BY DEF loop
  <2> HIDE DEF phases
  <2> QED
    BY <2>1, <2>2
<1> QED
  BY <1>1, <1>2, <1>4

\* Going on with a loop keeps the stack well typed.
LEMMA ContinueType ==
    ASSUME StackType, depth > 0, NEW f, Call(f),
           loop.loop # "prompt" => f.lines < MaxLines,
           NEW handler \in BOOLEAN, Continue(f, handler)
    PROVE  StackType'
<1>1. depth \in 1..MaxDepth /\ MaxLines \in Nat
  BY BoundsAssumption, TopType
<1> DEFINE n == IF loop.loop = "prompt" THEN 0 ELSE f.lines + 1
           g == [f EXCEPT !.inHandler = handler, !.lines = n]
<1>2. n \in 0..MaxLines
  BY <1>1 DEF Call, FrameType
<1>3. frame' = [frame EXCEPT ![depth] = g] /\ UNCHANGED <<depth, last>>
  BY DEF Continue
<1> HIDE DEF n
<1>4. g \in FrameType /\ g.flow = f.flow /\ g.step = f.step
  BY <1>2 DEF Call, FrameType
<1> HIDE DEF g
<1> QED
  BY <1>1, <1>3, <1>4 DEF StackType, Call

ErrKindType == errKind \in {"none", "CME", "CMS"}

\* An error line ends the loop with an error status.
LEMMA ErrorTerminalType ==
    ASSUME StackType, ErrKindType, depth > 0, NEW l \in Lines, ErrorTerminal(l)
    PROVE  StackType' /\ ErrKindType'
<1>1. ErrKindType' /\ Mapped \in Status
  BY DEF ErrKindType, ErrorTerminal, RecordError, Mapped, Status
<1>2. Call(top) /\ Done(top, Mapped, l)
  BY TopType DEF ErrorTerminal
<1> QED
  BY <1>1, <1>2, DoneType

\* A loop's step on one line keeps the stack and _last_err_kind well typed.
LEMMA HandleType ==
    ASSUME StackType, ErrKindType, depth > 0, NEW l \in Lines, Handle(l)
    PROVE  StackType' /\ ErrKindType'
<1> DEFINE got == [top EXCEPT !.resp = l]
<1>1. Call(top) /\ loop \in PhaseType
  BY TopType
<1>2. /\ Call(got) /\ got.lines = top.lines
  BY <1>1 DEF Call, FrameType
<1> HIDE DEF got
<1>3. loop.loop # "prompt" => top.lines < MaxLines
  BY DEF Handle, Capped
<1>4. ASSUME NEW h \in BOOLEAN, Continue(top, h), UNCHANGED errKind
      PROVE  StackType' /\ ErrKindType'
  BY <1>1, <1>3, <1>4, ContinueType DEF ErrKindType
<1>5. ASSUME NEW st \in {"OK", "PARSE"}, Done(top, st, l), UNCHANGED errKind
      PROVE  StackType' /\ ErrKindType'
  BY <1>1, <1>5, DoneType DEF ErrKindType, Status
<1>6. CASE Skip(l)
  BY <1>4, <1>6 DEF Skip
<1>7. CASE ErrorTerminal(l)
  BY <1>7, ErrorTerminalType
<1> DEFINE listens == l.kind \in registered
<1>a. listens \in BOOLEAN
  OBVIOUS
<1> HIDE DEF listens
<1>b. ASSUME Continue(top, listens), UNCHANGED errKind
      PROVE  StackType' /\ ErrKindType'
  BY <1>4, <1>a, <1>b
<1>8. CASE Dispatch(l)
  <2>1. Continue(top, listens) /\ UNCHANGED errKind
    BY <1>8 DEF Dispatch, listens
  <2> QED
    BY <1>b, <2>1
<1>9. ASSUME Continue(got, FALSE), UNCHANGED errKind
      PROVE  StackType' /\ ErrKindType'
  BY <1>2, <1>3, <1>9, ContinueType DEF ErrKindType
<1>10. ASSUME Done(got, "OK", l), UNCHANGED errKind
       PROVE  StackType' /\ ErrKindType'
  BY <1>2, <1>10, DoneType DEF ErrKindType, Status
<1>11. CASE RecvLine(l)
  <2>1. \/ Skip(l)
        \/ Done(got, "OK", l) /\ UNCHANGED errKind
        \/ Continue(got, FALSE) /\ UNCHANGED errKind
        \/ Done(top, "PARSE", l) /\ UNCHANGED errKind
        \/ Done(top, "OK", l) /\ UNCHANGED errKind
        \/ ErrorTerminal(l)
        \/ Continue(top, listens) /\ UNCHANGED errKind
    BY <1>11 DEF RecvLine, got, listens
  <2> QED
    BY <1>5, <1>6, <1>7, <1>9, <1>10, <1>b, <2>1
<1>12. CASE PrefixLine(l)
  BY <1>4, <1>6, <1>7, <1>8, <1>10, <1>12 DEF PrefixLine, got
<1>13. CASE FinalLine(l)
  BY <1>5, <1>6, <1>7, <1>8, <1>13 DEF FinalLine
<1>14. CASE PromptLine(l)
  BY <1>5, <1>6, <1>7, <1>8, <1>14 DEF PromptLine
<1>15. CASE PollLine(l)
  BY <1>4, <1>6, <1>15 DEF PollLine
<1> QED
  BY <1>11, <1>12, <1>13, <1>14, <1>15 DEF Handle

\* Scripts stamped with a number are sequences of lines.
LEMMA StampType ==
    ASSUME NEW s \in Seq(ReplyKind), NEW id \in Nat
    PROVE  /\ Stamp(s, id) \in Seq(Lines)
           /\ Len(Stamp(s, id)) = Len(s)
           /\ \A i \in 1..Len(s) : Stamp(s, id)[i] = Line(s[i], id)
<1>1. \A i \in 1..Len(s) : Line(s[i], id) \in Lines
  BY DEF Line, Lines
<1> QED
  BY <1>1 DEF Stamp

\* The answers of the module are sequences of the lines a reply is made of.
LEMMA AnswersType ==
    ASSUME NEW flow \in AllFlows
    PROVE  /\ Answers(flow) \subseteq Seq(ReplyKind)
           /\ flow \in Gated => PayloadAnswers(flow) \subseteq Seq(ReplyKind)
<1>1. Errors \subseteq Seq(ReplyKind)
  <2>1. \A k \in ErrorKind : k \in ReplyKind
    BY DEF ReplyKind
  <2>2. \A k \in ReplyKind : <<k>> \in Seq(ReplyKind)
    OBVIOUS
  <2> QED
    BY <2>1, <2>2 DEF Errors
<1>2. AtPrompt \subseteq Seq(ReplyKind) /\ AtConnect \subseteq Seq(ReplyKind)
  BY DEF AtPrompt, AtConnect, ReplyKind
<1>3. /\ AnswerTable["send"] \subseteq Seq(ReplyKind)
      /\ AnswerTable["query"] \subseteq Seq(ReplyKind)
      /\ AnswerTable["data"] \subseteq Seq(ReplyKind)
      /\ AnswerTable["await"] \subseteq Seq(ReplyKind)
  BY DEF AnswerTable, ReplyKind
<1>4. /\ AnswerTable["submit"] = AtPrompt /\ AnswerTable["socket"] = AtPrompt
      /\ AnswerTable["publish"] = AtPrompt /\ AnswerTable["url"] = AtConnect
      /\ AnswerTable["post"] = AtConnect /\ AnswerTable["upload"] = AtConnect
  BY DEF AnswerTable
<1>5. AnswerTable[flow] \subseteq Seq(ReplyKind)
  BY <1>2, <1>3, <1>4
<1>6. flow \in Gated => PayloadAnswerTable[flow] \subseteq Seq(ReplyKind)
  <2>1. /\ PayloadAnswerTable["submit"] \subseteq Seq(ReplyKind)
        /\ PayloadAnswerTable["socket"] \subseteq Seq(ReplyKind)
        /\ PayloadAnswerTable["publish"] \subseteq Seq(ReplyKind)
        /\ PayloadAnswerTable["url"] \subseteq Seq(ReplyKind)
        /\ PayloadAnswerTable["post"] \subseteq Seq(ReplyKind)
        /\ PayloadAnswerTable["upload"] \subseteq Seq(ReplyKind)
    BY DEF PayloadAnswerTable, ReplyKind
  <2> QED
    BY <2>1 DEF Gated
<1> QED
  BY <1>1, <1>5, <1>6 DEF Answers, PayloadAnswers

\* Starting a call keeps the stack well typed.
LEMMA PushType ==
    ASSUME StackType, NEW f, Call(f), Push(f)
    PROVE  StackType'
<1>1. /\ depth \in 0..MaxDepth /\ depth < MaxDepth /\ MaxDepth \in Nat
      /\ depth' = depth + 1 /\ last' = NoResult
  BY BoundsAssumption DEF StackType, Push
<1> DEFINE g == [frame[depth] EXCEPT !.mayCall = FALSE, !.clean = FALSE,
                                     !.nested = TRUE]
<1>2. frame' = [d \in 1..MaxDepth |-> IF d = depth + 1 THEN f
                                      ELSE IF d = depth THEN g ELSE frame[d]]
  BY DEF Push
<1>3. depth \in 1..MaxDepth =>
         /\ g \in FrameType /\ g.flow = frame[depth].flow
         /\ g.step = frame[depth].step
  BY DEF StackType, FrameType
<1> HIDE DEF g
<1>4. \A d \in 1..MaxDepth : frame'[d] \in FrameType
  BY <1>1, <1>2, <1>3 DEF StackType, Call
<1>5. frame' \in [1..MaxDepth -> FrameType]
  BY <1>2, <1>4
<1>6. ASSUME NEW d \in 1..depth'
      PROVE  frame'[d].flow # "none" /\ frame'[d].step <= Steps(frame'[d].flow)
  <2>1. d \in 1..MaxDepth /\ d \in 1..(depth + 1)
    BY <1>1
  <2>2. CASE d = depth + 1
    BY <1>2, <2>1, <2>2 DEF Call
  <2>3. CASE d = depth
    BY <1>1, <1>2, <1>3, <2>1, <2>3 DEF StackType
  <2>4. CASE d \in 1..depth /\ d # depth
    BY <1>1, <1>2, <2>1, <2>4 DEF StackType
  <2> QED
    BY <1>1, <2>1, <2>2, <2>3, <2>4
<1>7. NoResult \in ResultType
  BY DEF NoResult, Result, ResultType, NoFrame, Frame, Lines, NoLine, Line,
         Unasked
<1> QED
  BY <1>1, <1>5, <1>6, <1>7 DEF StackType

\* The initial state is well typed: no call, an empty URC table.
LEMMA InitType == Init => TypeOK
<1> SUFFICES ASSUME Init PROVE TypeOK
  OBVIOUS
<1>1. NoLine \in Lines
  BY DEF NoLine, Line, Lines
<1>2. NoFrame \in FrameType
  BY <1>1, BoundsAssumption DEF NoFrame, Frame, FrameType
<1>3. NoResult \in ResultType
  BY <1>1 DEF NoResult, Result, ResultType, NoFrame, Frame
<1>4. StackType
  BY <1>2, <1>3, BoundsAssumption DEF Init, StackType
<1>5. TableType
  BY BoundsAssumption, FS_EmptySet DEF Init, TableType
<1>6. ChannelType
  BY DEF Init, ChannelType, CommandMode
<1> QED
  BY <1>4, <1>5, <1>6 DEF Init, TypeOK

\* Only a gated command is answered by a gate.
LEMMA GateAnswers ==
    ASSUME NEW flow \in AllFlows,
           NEW s \in Answers(flow), s \in {<<"PROMPT">>, <<"CONNECT">>}
    PROVE  flow \in Gated
<1>1. \A t \in Errors : t # <<"PROMPT">> /\ t # <<"CONNECT">>
  BY DEF Errors, ErrorKind
<1>2. s \in AnswerTable[flow]
  BY <1>1 DEF Answers
<1> QED
  BY <1>2 DEF AnswerTable, Gated

\* Every step of a call, a handler, the application or the module keeps the
\* types; one case for each action.
LEMMA NextType == TypeOK /\ [Next]_vars => TypeOK'
<1> SUFFICES ASSUME TypeOK, [Next]_vars PROVE TypeOK'
  OBVIOUS
<1>1. ChannelType /\ StackType /\ TableType /\ ErrKindType /\ nextId \in Nat \ {0}
  BY DEF TypeOK, ErrKindType
<1>2. NoLine \in Lines
  BY DEF NoLine, Line, Lines
<1>3. ASSUME StackType', ErrKindType', ChannelType',
             UNCHANGED <<registered, nextId>>
      PROVE  TypeOK'
  BY <1>1, <1>3 DEF TypeOK, ErrKindType, TableType
<1>4. ASSUME replies # <<>>
      PROVE  Head(replies) \in Lines /\ Tail(replies) \in Seq(Lines)
  BY <1>1, <1>4 DEF ChannelType
<1>5. ASSUME NEW st \in Status, NEW by \in Lines, Running, Done(top, st, by),
             UNCHANGED <<registered, errKind, nextId>>, ChannelType'
      PROVE  TypeOK'
  <2>1. StackType'
    BY <1>1, <1>5, DoneType, TopType DEF Running
  <2> QED
    BY <1>1, <1>3, <1>5, <2>1 DEF ErrKindType
<1>6. ASSUME UNCHANGED <<replies, modem>> PROVE ChannelType'
  BY <1>1, <1>6 DEF ChannelType
<1>7. ASSUME NEW s \in Seq(ReplyKind), NEW id \in Nat,
             replies' = replies \o Stamp(s, id)
      PROVE  replies' \in Seq(Lines)
  <2>1. Stamp(s, id) \in Seq(Lines)
    BY StampType
  <2> QED
    BY <1>1, <1>7, <2>1 DEF ChannelType
<1>8. ASSUME modem.mode = "payload"
      PROVE  /\ modem.id \in Nat /\ modem.flow \in Gated
             /\ PayloadAnswers(modem.flow) \subseteq Seq(ReplyKind)
  <2>1. modem.id \in Nat /\ modem.flow \in Gated
    BY <1>1, <1>8 DEF ChannelType
  <2>2. modem.flow \in AllFlows
    BY <2>1 DEF Gated
  <2> QED
    BY <2>1, <2>2, AnswersType
<1>9. CommandMode \in [mode : {"command", "payload"}, id : Nat,
                       flow : Flows \cup {"none"}] /\ CommandMode.mode = "command"
  BY DEF CommandMode
<1>10. CASE RxReply
  <2>1. StackType' /\ ErrKindType'
    BY <1>1, <1>4, <1>10, HandleType DEF RxReply, Running
  <2>2. ChannelType'
    BY <1>1, <1>4, <1>10 DEF RxReply, ChannelType
  <2> QED
    BY <1>3, <1>10, <2>1, <2>2 DEF RxReply
<1>11. CASE RxUnasked
  <2>1. PICK k \in Unasked : Handle(Line(k, 0))
    BY <1>11 DEF RxUnasked
  <2>2. Line(k, 0) \in Lines
    BY DEF Line, Lines
  <2>3. StackType' /\ ErrKindType'
    BY <1>1, <1>11, <2>1, <2>2, HandleType DEF RxUnasked, Running
  <2> QED
    BY <1>3, <1>6, <1>11, <2>3 DEF RxUnasked
<1>12. CASE RxPayload
  <2>1. ChannelType'
    BY <1>1, <1>4, <1>12 DEF RxPayload, ChannelType
  <2> QED
    BY <1>4, <1>5, <1>12, <2>1 DEF RxPayload, Status
<1>13. CASE RxTimeout
  BY <1>2, <1>5, <1>6, <1>13 DEF RxTimeout, Status
<1>14. CASE RxIoError
  BY <1>2, <1>5, <1>6, <1>14 DEF RxIoError, Status
<1>15. CASE LineCap
  BY <1>2, <1>5, <1>6, <1>15 DEF LineCap, Status
<1>16. CASE WritePayload
  <2>1. ChannelType'
    <3>1. CASE modem.mode = "payload"
      BY <1>1, <1>7, <1>8, <1>9, <1>16, <3>1 DEF WritePayload, ChannelType
    <3>2. CASE modem.mode # "payload"
      <4>1. <<>> \in Seq(ReplyKind) /\ <<"ERROR">> \in Seq(ReplyKind)
        BY DEF ReplyKind, ErrorKind
      <4> QED
        BY <1>1, <1>7, <1>9, <1>16, <3>2, <4>1 DEF WritePayload, ChannelType
    <3> QED
      BY <3>1, <3>2
  <2> QED
    BY <1>2, <1>5, <1>16, <2>1 DEF WritePayload, Status
<1>17. CASE WritePayloadFails
  BY <1>2, <1>5, <1>6, <1>17 DEF WritePayloadFails, Status
<1>18. ASSUME NEW flow \in Flows, Transmit(flow) PROVE TypeOK'
  <2> DEFINE f == Frame(flow, nextId, Quiet /\ AtRest)
  <2>1. flow \in AllFlows /\ Answers(flow) \subseteq Seq(ReplyKind)
    BY FlowsAssumption, AnswersType
  <2>2. Call(f) /\ f.id = nextId /\ f.flow = flow
    <3>1. f \in FrameType /\ f.flow = flow /\ f.step = 1 /\ f.id = nextId
      BY <1>1, <1>2, BoundsAssumption DEF Frame, FrameType
    <3>2. Steps(flow) \in 1..4
      BY <2>1, PhasesType
    <3> QED
      BY <2>1, <3>1, <3>2 DEF Call
  <2>3. /\ Push(f) /\ errKind' = "none" /\ nextId' = nextId + 1
        /\ UNCHANGED registered
    BY <1>18 DEF Transmit
  <2> HIDE DEF f
  <2>4. StackType'
    BY <1>1, <2>2, <2>3, PushType
  <2>5. ChannelType'
    <3>1. CASE /\ modem.mode = "command"
               /\ \E s \in Answers(flow) :
                    /\ replies' = replies \o Stamp(s, nextId)
                    /\ modem' = IF s \in {<<"PROMPT">>, <<"CONNECT">>}
                                THEN PayloadMode(flow, nextId) ELSE modem
      <4>1. PICK s \in Answers(flow) :
                    /\ replies' = replies \o Stamp(s, nextId)
                    /\ modem' = IF s \in {<<"PROMPT">>, <<"CONNECT">>}
                                THEN PayloadMode(flow, nextId) ELSE modem
        BY <3>1
      <4>2. replies' \in Seq(Lines)
        BY <1>1, <1>7, <2>1, <4>1
      <4>3. CASE s \in {<<"PROMPT">>, <<"CONNECT">>}
        <5>1. flow \in Gated
          BY <2>1, <4>3, GateAnswers
        <5> QED
          BY <1>1, <2>2, <4>1, <4>2, <4>3, <5>1 DEF ChannelType, PayloadMode
      <4>4. CASE s \notin {<<"PROMPT">>, <<"CONNECT">>}
        BY <1>1, <4>1, <4>2, <4>4 DEF ChannelType
      <4> QED
        BY <4>3, <4>4
    <3>2. CASE modem.mode = "payload" /\ UNCHANGED <<replies, modem>>
      BY <1>6, <3>2
    <3>3. CASE /\ modem.mode = "payload" /\ modem' = CommandMode
               /\ \E s \in PayloadAnswers(modem.flow) :
                     replies' = replies \o Stamp(s, modem.id)
      BY <1>1, <1>7, <1>8, <1>9, <3>3 DEF ChannelType
    <3> QED
      BY <1>18, <3>1, <3>2, <3>3 DEF Transmit, f
  <2> QED
    BY <1>1, <2>3, <2>4, <2>5 DEF TypeOK, TableType
<1>19. CASE TransmitFails
  <2>1. NoResult \in ResultType
    BY <1>2 DEF NoResult, Result, ResultType, NoFrame, Frame
  <2> QED
    BY <1>1, <1>3, <1>6, <1>19, <2>1 DEF TransmitFails, StackType, ErrKindType
<1>20. CASE Poll
  <2> DEFINE f == Frame("poll", 0, FALSE)
  <2>1. f \in FrameType /\ f.flow = "poll" /\ f.step = 1
    BY <1>2, BoundsAssumption DEF Frame, FrameType
  <2>2. Steps("poll") \in 1..4
    BY PhasesType
  <2>3. Push(f)
    BY <1>20 DEF Poll
  <2> HIDE DEF f
  <2>4. StackType'
    BY <1>1, <2>1, <2>2, <2>3, PushType DEF Call
  <2> QED
    BY <1>1, <1>3, <1>6, <1>20, <2>4 DEF Poll, ErrKindType
<1>21. ASSUME NEW u \in UrcPrefix, RegisterUrc(u) \/ UnregisterUrc(u)
       PROVE  TypeOK'
  <2>1. TableType'
    <3>1. CASE RegisterUrc(u)
      <4>1. /\ IsFiniteSet(registered') /\ Cardinality(registered) \in Nat
            /\ Cardinality(registered') =
                 IF u \in registered THEN Cardinality(registered)
                                     ELSE Cardinality(registered) + 1
        BY <1>1, <3>1, FS_AddElement, FS_CardinalityType
           DEF RegisterUrc, TableType
      <4>2. u \in registered => registered' = registered
        BY <3>1 DEF RegisterUrc
      <4> QED
        BY <1>1, <3>1, <4>1, <4>2, BoundsAssumption DEF RegisterUrc, TableType
    <3>2. CASE UnregisterUrc(u)
      <4>1. /\ IsFiniteSet(registered') /\ Cardinality(registered) \in Nat
            /\ Cardinality(registered') = Cardinality(registered) - 1
        BY <1>1, <3>2, FS_RemoveElement, FS_CardinalityType
           DEF UnregisterUrc, TableType
      <4> QED
        BY <1>1, <3>2, <4>1, BoundsAssumption DEF UnregisterUrc, TableType
    <3> QED
      BY <1>21, <3>1, <3>2
  <2>2. StackType' /\ ErrKindType'
    BY <1>1, <1>21 DEF RegisterUrc, UnregisterUrc, StackType, ErrKindType
  <2> QED
    BY <1>1, <1>6, <1>21, <2>1, <2>2
       DEF RegisterUrc, UnregisterUrc, TypeOK, ErrKindType
<1>22. CASE HandlerReturns
  <2> DEFINE f == [top EXCEPT !.inHandler = FALSE, !.mayCall = TRUE]
  <2>1. Call(top) /\ depth \in 1..MaxDepth
    BY <1>1, <1>22, TopType DEF HandlerReturns
  <2>2. f \in FrameType /\ f.flow = top.flow /\ f.step = top.step
    BY <2>1 DEF Call, FrameType
  <2>3. frame' = [frame EXCEPT ![depth] = f] /\ UNCHANGED <<depth, last>>
    BY <1>22 DEF HandlerReturns
  <2> HIDE DEF f
  <2>4. StackType'
    BY <1>1, <2>1, <2>2, <2>3 DEF StackType, Call
  <2> QED
    BY <1>1, <1>3, <1>6, <1>22, <2>4 DEF HandlerReturns, ErrKindType
<1>23. CASE UNCHANGED vars
  BY <1>1, <1>3, <1>6, <1>23 DEF vars, StackType, ErrKindType
<1> QED
  BY <1>10, <1>11, <1>12, <1>13, <1>14, <1>15, <1>16, <1>17, <1>18, <1>19,
     <1>20, <1>21, <1>22, <1>23 DEF Next, LibraryStep

\* Every variable of the engine keeps its type, the stack never outgrows its
\* bound and the URC table never its slots, for every choice of constants.
THEOREM TypeCorrect == Spec => []TypeOK
<1>1. Init => TypeOK
  BY InitType
<1>2. TypeOK /\ [Next]_vars => TypeOK'
  BY NextType
<1> QED
  BY <1>1, <1>2, PTL DEF Spec

-----------------------------------------------------------------------------
(* The error status of a call is its own *)

Failure == {"CME", "CMS", "MODULE"}

\* A command that no handler's call has disturbed is the running one, and its
\* error state is still as at_transmit left it.
ErrorStateFresh ==
    \A d \in 1..depth :
        (frame[d].flow # "poll" /\ ~frame[d].nested) =>
            d = depth /\ errKind = "none"

ErrorInv == ErrorStateFresh /\ ErrorKindIsOwn

\* f is the running call, up to its response.
SameCall(f) == Call(f) /\ f.flow = top.flow /\ f.nested = top.nested

-----------------------------------------------------------------------------

\* A loop that ends without an error line keeps the invariant.
LEMMA DoneKeepsErrors ==
    ASSUME StackType, ErrorInv, depth > 0, NEW f, SameCall(f),
           NEW st \in Status \ Failure, NEW by, Done(f, st, by), UNCHANGED errKind
    PROVE  ErrorInv'
<1>1. depth \in 1..MaxDepth /\ MaxDepth \in Nat /\ top = frame[depth]
      /\ DOMAIN frame = 1..MaxDepth
  BY TopType, BoundsAssumption DEF StackType, top
<1> DEFINE g == [f EXCEPT !.ignored = @ \/ (Ignored(f) /\ st # "OK")]
           n == NextStep(f, st)
<1>2. g.flow = top.flow /\ g.nested = top.nested /\ g \in FrameType
  BY DEF SameCall, Call, FrameType, Ignored
<1> HIDE DEF g, n
<1>3. CASE n = 0
  <2>1. Return(g, IF Ignored(f) THEN "OK" ELSE st, by)
    BY <1>3 DEF Done, g, n
  <2>2. last'.st \notin Failure
    BY <2>1 DEF Return, Result, Failure
  <2>3. ErrorKindIsOwn'
    BY <2>2 DEF ErrorKindIsOwn, Failure
  <2>4. ASSUME NEW d \in 1..depth'
        PROVE  d \in 1..depth /\ d # depth /\ frame'[d] = frame[d]
    BY <1>1, <2>1 DEF Return
  <2>5. ErrorStateFresh'
    BY <2>4 DEF ErrorInv, ErrorStateFresh
  <2> QED
    BY <2>3, <2>5 DEF ErrorInv
<1>4. CASE n # 0
  <2> DEFINE k == [g EXCEPT !.step = n, !.lines = 0]
  <2>1. frame' = [frame EXCEPT ![depth] = k] /\ UNCHANGED <<depth, last>>
    BY <1>4 DEF Done, g, n
  <2>2. k.flow = top.flow /\ k.nested = top.nested
    BY <1>2 DEF FrameType
  <2> HIDE DEF k
  <2>3. \A d \in 1..depth : /\ frame'[d].flow = frame[d].flow
                            /\ frame'[d].nested = frame[d].nested
    BY <1>1, <2>1, <2>2
  <2> QED
    BY <2>1, <2>3 DEF ErrorInv, ErrorStateFresh, ErrorKindIsOwn
<1> QED
  BY <1>3, <1>4

\* A loop that goes on keeps it.
LEMMA ContinueKeepsErrors ==
    ASSUME StackType, ErrorInv, depth > 0, NEW f, SameCall(f),
           NEW handler, Continue(f, handler), UNCHANGED errKind
    PROVE  ErrorInv'
<1>1. depth \in 1..MaxDepth /\ DOMAIN frame = 1..MaxDepth /\ top = frame[depth]
  BY TopType DEF StackType, top
<1> DEFINE g == [f EXCEPT !.inHandler = handler,
                          !.lines = IF loop.loop = "prompt" THEN 0 ELSE @ + 1]
<1>2. frame' = [frame EXCEPT ![depth] = g] /\ UNCHANGED <<depth, last>>
  BY DEF Continue
<1>3. g.flow = top.flow /\ g.nested = top.nested
  BY DEF SameCall, Call, FrameType
<1> HIDE DEF g
<1>4. \A d \in 1..depth : /\ frame'[d].flow = frame[d].flow
                          /\ frame'[d].nested = frame[d].nested
  BY <1>1, <1>2, <1>3
<1> QED
  BY <1>2, <1>4 DEF ErrorInv, ErrorStateFresh, ErrorKindIsOwn

\* An error line ends the call, with its own status if nothing came between.
LEMMA ErrorEndsCall ==
    ASSUME StackType, ErrKindType, ErrorInv, depth > 0, top.flow # "poll",
           NEW l \in Lines, ErrorTerminal(l)
    PROVE  ErrorInv'
<1>1. depth \in 1..MaxDepth /\ DOMAIN frame = 1..MaxDepth /\ top = frame[depth]
      /\ Call(top) /\ MaxDepth \in Nat
  BY TopType, BoundsAssumption DEF StackType, top
<1>2. Mapped \in Failure /\ l.kind \in ErrorKind
  BY DEF ErrKindType, ErrorTerminal, RecordError, Mapped, Failure
<1> DEFINE g == [top EXCEPT !.ignored = @ \/ (Ignored(top) /\ Mapped # "OK")]
<1>3. NextStep(top, Mapped) = 0
  BY <1>2 DEF NextStep, Failure
<1>4. Return(g, IF Ignored(top) THEN "OK" ELSE Mapped, l)
  BY <1>3 DEF ErrorTerminal, Done
<1>5. g.nested = top.nested
  BY <1>1 DEF Call, FrameType
<1> HIDE DEF g
<1>6. ASSUME NEW d \in 1..depth'
      PROVE  d \in 1..depth /\ d # depth /\ frame'[d] = frame[d]
  BY <1>1, <1>4 DEF Return
<1>7. ErrorStateFresh'
  BY <1>6 DEF ErrorInv, ErrorStateFresh
<1>8. ErrorKindIsOwn'
  <2>1. /\ last'.st = IF Ignored(top) THEN "OK" ELSE Mapped
        /\ last'.by = l /\ last'.nested = top.nested
    BY <1>4, <1>5 DEF Return, Result
  <2>2. CASE ~Ignored(top) /\ ~top.nested
    <3>1. errKind = "none"
      BY <1>1, <2>2 DEF ErrorInv, ErrorStateFresh
    <3>2. Mapped = IF l.kind = "ERROR" THEN "MODULE" ELSE l.kind
      BY <1>2, <3>1 DEF ErrorTerminal, RecordError, Mapped, ErrorKind
    <3> QED
      BY <2>1, <2>2, <3>2 DEF ErrorKindIsOwn
  <2>3. CASE Ignored(top) \/ top.nested
    BY <2>1, <2>3 DEF ErrorKindIsOwn
  <2> QED
    BY <2>2, <2>3
<1> QED
  BY <1>7, <1>8 DEF ErrorInv

\* The loop of a poll has no error lines.
LEMMA PollLoopOnly ==
    ASSUME StackType, depth > 0, top.flow = "poll"
    PROVE  loop.loop = "poll"
<1>1. Call(top) /\ top.flow = "poll"
  BY TopType
<1>2. Phases("poll") = << PollLoop >> /\ Steps("poll") = 1
  BY DEF Phases, FlowTable, PollPhases, Steps
<1>3. top.step = 1
  BY <1>1, <1>2 DEF Call, FrameType
<1> QED
  BY <1>1, <1>2, <1>3 DEF loop, PollLoop, Loop

\* One line, in any loop, keeps the invariant.
LEMMA HandleKeepsErrors ==
    ASSUME StackType, ErrKindType, ErrorInv, depth > 0,
           NEW l \in Lines, Handle(l)
    PROVE  ErrorInv'
<1> DEFINE got == [top EXCEPT !.resp = l]
<1>1. SameCall(top) /\ loop \in PhaseType
  BY TopType DEF SameCall
<1>2. SameCall(got)
  BY <1>1 DEF SameCall, Call, FrameType
<1> HIDE DEF got
<1>3. ASSUME NEW h, Continue(top, h), UNCHANGED errKind PROVE ErrorInv'
  BY <1>1, <1>3, ContinueKeepsErrors
<1>4. ASSUME NEW st \in {"OK", "PARSE"}, Done(top, st, l), UNCHANGED errKind
      PROVE  ErrorInv'
  BY <1>1, <1>4, DoneKeepsErrors DEF Status, Failure
<1>5. ASSUME Continue(got, FALSE), UNCHANGED errKind PROVE ErrorInv'
  BY <1>2, <1>5, ContinueKeepsErrors
<1>6. ASSUME Done(got, "OK", l), UNCHANGED errKind PROVE ErrorInv'
  BY <1>2, <1>6, DoneKeepsErrors DEF Status, Failure
<1>7. CASE Skip(l)
  BY <1>3, <1>7 DEF Skip
<1>8. ASSUME ErrorTerminal(l), loop.loop # "poll" PROVE ErrorInv'
  BY <1>8, PollLoopOnly, ErrorEndsCall
<1> DEFINE listens == l.kind \in registered
<1>9. CASE Dispatch(l)
  BY <1>3, <1>9 DEF Dispatch
<1>10. CASE loop.loop = "recv" /\ RecvLine(l)
  <2>1. \/ Skip(l)
        \/ Done(got, "OK", l) /\ UNCHANGED errKind
        \/ Continue(got, FALSE) /\ UNCHANGED errKind
        \/ Done(top, "PARSE", l) /\ UNCHANGED errKind
        \/ Done(top, "OK", l) /\ UNCHANGED errKind
        \/ ErrorTerminal(l)
        \/ Continue(top, listens) /\ UNCHANGED errKind
    BY <1>10 DEF RecvLine, got, listens
  <2> HIDE DEF listens
  <2> QED
    BY <1>3, <1>4, <1>5, <1>6, <1>7, <1>8, <1>10, <2>1
<1> HIDE DEF listens
<1>11. CASE loop.loop = "prefix" /\ PrefixLine(l)
  BY <1>3, <1>6, <1>7, <1>8, <1>9, <1>11 DEF PrefixLine, got
<1>12. CASE loop.loop = "final" /\ FinalLine(l)
  BY <1>4, <1>7, <1>8, <1>9, <1>12 DEF FinalLine
<1>13. CASE loop.loop = "prompt" /\ PromptLine(l)
  BY <1>4, <1>7, <1>8, <1>9, <1>13 DEF PromptLine
<1>14. CASE loop.loop = "poll" /\ PollLine(l)
  BY <1>3, <1>7, <1>14 DEF PollLine
<1> QED
  BY <1>10, <1>11, <1>12, <1>13, <1>14 DEF Handle

\* A call starts with a fresh error state, or does not touch it (a poll); what
\* it interrupts is marked.
LEMMA PushKeepsErrors ==
    ASSUME StackType, ErrorInv, NEW f, Push(f), f.nested = FALSE,
           f.flow = "poll" \/ errKind' = "none"
    PROVE  ErrorInv'
<1>1. /\ depth \in 0..MaxDepth /\ depth < MaxDepth /\ MaxDepth \in Nat
      /\ depth' = depth + 1 /\ last' = NoResult
  BY BoundsAssumption DEF StackType, Push
<1> DEFINE g == [frame[depth] EXCEPT !.mayCall = FALSE, !.clean = FALSE,
                                     !.nested = TRUE]
<1>2. frame' = [d \in 1..MaxDepth |-> IF d = depth + 1 THEN f
                                      ELSE IF d = depth THEN g ELSE frame[d]]
  BY DEF Push
<1>3. depth \in 1..MaxDepth => g.nested
  BY DEF StackType, FrameType
<1> HIDE DEF g
<1>4. ErrorStateFresh'
  <2> SUFFICES ASSUME NEW d \in 1..depth', frame'[d].flow # "poll", ~frame'[d].nested
               PROVE  d = depth' /\ errKind' = "none"
    BY DEF ErrorStateFresh
  <2>1. d \in 1..MaxDepth
    BY <1>1
  <2>2. CASE d = depth + 1
    BY <1>1, <1>2, <2>1, <2>2
  <2>3. CASE d = depth
    BY <1>1, <1>2, <1>3, <2>1, <2>3
  <2>4. CASE d < depth
    <3>1. frame'[d] = frame[d] /\ d \in 1..depth
      BY <1>1, <1>2, <2>1, <2>4
    <3> QED
      BY <1>1, <2>4, <3>1 DEF ErrorInv, ErrorStateFresh
  <2> QED
    BY <1>1, <2>2, <2>3, <2>4
<1>5. ErrorKindIsOwn'
  BY <1>1 DEF ErrorKindIsOwn, NoResult, Result
<1> QED
  BY <1>4, <1>5 DEF ErrorInv

\* Every step keeps the invariant; one case for each action.
LEMMA NextKeepsErrors == TypeOK /\ ErrorInv /\ [Next]_vars => ErrorInv'
<1> SUFFICES ASSUME TypeOK, ErrorInv, [Next]_vars PROVE ErrorInv'
  OBVIOUS
<1>1. StackType /\ ErrKindType /\ ChannelType
  BY DEF TypeOK, ErrKindType
<1>2. ASSUME NEW st \in Status \ Failure, NEW by, Running, Done(top, st, by),
             UNCHANGED errKind
      PROVE  ErrorInv'
  <2>1. SameCall(top) /\ depth > 0
    BY <1>1, <1>2, TopType DEF SameCall, Running
  <2> QED
    BY <1>1, <1>2, <2>1, DoneKeepsErrors
<1>3. CASE RxReply
  <2>1. Head(replies) \in Lines
    BY <1>1, <1>3 DEF RxReply, ChannelType
  <2> QED
    BY <1>1, <1>3, <2>1, HandleKeepsErrors DEF RxReply, Running
<1>4. CASE RxUnasked
  <2>1. PICK k \in Unasked : Handle(Line(k, 0))
    BY <1>4 DEF RxUnasked
  <2>2. Line(k, 0) \in Lines
    BY DEF Line, Lines
  <2> QED
    BY <1>1, <1>4, <2>1, <2>2, HandleKeepsErrors DEF RxUnasked, Running
<1>5. CASE RxPayload
  BY <1>2, <1>5 DEF RxPayload, Status, Failure
<1>6. CASE RxTimeout
  BY <1>2, <1>6 DEF RxTimeout, Status, Failure
<1>7. CASE RxIoError
  BY <1>2, <1>7 DEF RxIoError, Status, Failure
<1>8. CASE LineCap
  BY <1>2, <1>8 DEF LineCap, Status, Failure
<1>9. CASE WritePayload
  BY <1>2, <1>9 DEF WritePayload, Status, Failure
<1>10. CASE WritePayloadFails
  BY <1>2, <1>10 DEF WritePayloadFails, Status, Failure
<1>11. ASSUME NEW flow \in Flows, Transmit(flow) PROVE ErrorInv'
  <2> DEFINE f == Frame(flow, nextId, Quiet /\ AtRest)
  <2>1. Push(f) /\ errKind' = "none" /\ f.nested = FALSE
    BY <1>11 DEF Transmit, Frame
  <2> HIDE DEF f
  <2> QED
    BY <1>1, <2>1, PushKeepsErrors
<1>12. CASE TransmitFails
  BY <1>12 DEF TransmitFails, ErrorInv, ErrorStateFresh, ErrorKindIsOwn,
               NoResult, Result
<1>13. CASE Poll
  <2> DEFINE f == Frame("poll", 0, FALSE)
  <2>1. Push(f) /\ f.nested = FALSE /\ f.flow = "poll"
    BY <1>13 DEF Poll, Frame
  <2> HIDE DEF f
  <2> QED
    BY <1>1, <2>1, PushKeepsErrors
<1>14. ASSUME NEW u \in UrcPrefix, RegisterUrc(u) \/ UnregisterUrc(u)
       PROVE  ErrorInv'
  BY <1>14 DEF RegisterUrc, UnregisterUrc, ErrorInv, ErrorStateFresh, ErrorKindIsOwn
<1>15. CASE HandlerReturns
  <2> DEFINE f == [top EXCEPT !.inHandler = FALSE, !.mayCall = TRUE]
  <2>1. Call(top) /\ depth \in 1..MaxDepth /\ DOMAIN frame = 1..MaxDepth
        /\ top = frame[depth]
    BY <1>1, <1>15, TopType DEF HandlerReturns, StackType, top
  <2>2. f.flow = top.flow /\ f.nested = top.nested
    BY <2>1 DEF Call, FrameType
  <2>3. frame' = [frame EXCEPT ![depth] = f] /\ UNCHANGED <<depth, last, errKind>>
    BY <1>15 DEF HandlerReturns
  <2> HIDE DEF f
  <2>4. \A d \in 1..depth : /\ frame'[d].flow = frame[d].flow
                            /\ frame'[d].nested = frame[d].nested
    BY <2>1, <2>2, <2>3
  <2> QED
    BY <2>3, <2>4 DEF ErrorInv, ErrorStateFresh, ErrorKindIsOwn
<1>16. CASE UNCHANGED vars
  BY <1>16 DEF vars, ErrorInv, ErrorStateFresh, ErrorKindIsOwn
<1> QED
  BY <1>3, <1>4, <1>5, <1>6, <1>7, <1>8, <1>9, <1>10, <1>11, <1>12, <1>13,
     <1>14, <1>15, <1>16 DEF Next, LibraryStep

\* map_error_terminal: a call ends with the status of its own error line, for
\* every set of flows, handlers and bounds, unless a handler's call disturbed it.
THEOREM ErrorKindIsOwnHolds == Spec => []ErrorKindIsOwn
<1>1. Init => ErrorInv
  BY DEF Init, ErrorInv, ErrorStateFresh, ErrorKindIsOwn, NoResult, Result
<1>2. TypeOK /\ ErrorInv /\ [Next]_vars => ErrorInv'
  BY NextKeepsErrors
<1>3. ErrorInv => ErrorKindIsOwn
  BY DEF ErrorInv
<1> QED
  BY <1>1, <1>2, <1>3, TypeCorrect, PTL DEF Spec

-----------------------------------------------------------------------------
(* Registered lines are not response data *)

Filed(d) == LET r == frame'[d].resp IN
            (r # frame[d].resp /\ r.id = 0) => r.kind \notin registered
NothingFiled == \A d \in 1..MaxDepth : Filed(d)

\* Registered prefixes are those of unsolicited lines.
LEMMA RegisteredKinds ==
    ASSUME TypeOK, "RESULT" \notin UrcPrefix
    PROVE  {"none", "RESULT", "CONNECT"} \cap registered = {}
  BY UrcAssumption DEF TypeOK, TableType, ReplyKind

\* A step that changes the response of the running call only.
LEMMA OneResponse ==
    ASSUME TypeOK, "RESULT" \notin UrcPrefix, depth > 0,
           NEW g \in FrameType, frame' = [frame EXCEPT ![depth] = g],
           \/ g.resp = top.resp
           \/ g.resp.kind \notin registered
    PROVE  NothingFiled
<1>1. depth \in 1..MaxDepth /\ DOMAIN frame = 1..MaxDepth /\ top = frame[depth]
  BY TopType DEF TypeOK, StackType, top
<1> QED
  BY <1>1 DEF NothingFiled, Filed

\* A loop that ends, of the running call with or without a response of its own.
LEMMA DoneFiles ==
    ASSUME TypeOK, "RESULT" \notin UrcPrefix, depth > 0, NEW f, Call(f),
           f.resp = top.resp \/ f.resp.kind \notin registered,
           NEW st \in Status, NEW by, Done(f, st, by)
    PROVE  NothingFiled
<1> DEFINE g == [f EXCEPT !.ignored = @ \/ (Ignored(f) /\ st # "OK")]
           n == NextStep(f, st)
<1>1. g \in FrameType /\ g.resp = f.resp
  BY DEF Call, FrameType, Ignored
<1> HIDE DEF g, n
<1>2. CASE n = 0
  <2>1. frame' = [frame EXCEPT ![depth] = NoFrame]
    BY <1>2 DEF Done, Return, n, g
  <2>2. NoFrame \in FrameType /\ NoFrame.resp.kind = "none"
    BY BoundsAssumption DEF NoFrame, Frame, FrameType, Lines, NoLine, Line
  <2> QED
    BY <2>1, <2>2, OneResponse, RegisteredKinds
<1>3. CASE n # 0
  <2> DEFINE k == [g EXCEPT !.step = n, !.lines = 0]
  <2>1. frame' = [frame EXCEPT ![depth] = k]
    BY <1>3 DEF Done, n, g
  <2>2. n \in 1..4
    <3>1. n \in 0..Steps(f.flow)
      BY NextStepType DEF n
    <3>2. f.flow \in AllFlows \cup {"poll"}
      BY FlowsAssumption DEF Call, FrameType
    <3> QED
      BY <1>3, <3>1, <3>2, PhasesType
  <2>3. 0 \in 0..MaxLines
    BY BoundsAssumption
  <2>4. k \in FrameType /\ k.resp = f.resp
    BY <1>1, <2>2, <2>3 DEF FrameType
  <2> HIDE DEF k
  <2> QED
    BY <2>1, <2>4, OneResponse
<1> QED
  BY <1>2, <1>3

\* A loop that goes on.
LEMMA ContinueFiles ==
    ASSUME TypeOK, "RESULT" \notin UrcPrefix, depth > 0, NEW f, Call(f),
           f.resp = top.resp \/ f.resp.kind \notin registered,
           loop.loop # "prompt" => f.lines < MaxLines,
           NEW handler \in BOOLEAN, Continue(f, handler)
    PROVE  NothingFiled
<1> DEFINE n == IF loop.loop = "prompt" THEN 0 ELSE f.lines + 1
           g == [f EXCEPT !.inHandler = handler, !.lines = n]
<1>1. n \in 0..MaxLines
  BY BoundsAssumption DEF Call, FrameType
<1>2. frame' = [frame EXCEPT ![depth] = g]
  BY DEF Continue
<1> HIDE DEF n
<1>3. g \in FrameType /\ g.resp = f.resp
  BY <1>1 DEF Call, FrameType
<1> HIDE DEF g
<1> QED
  BY <1>2, <1>3, OneResponse

\* One line, in any loop: it is filed if it has the prefix that is waited for,
\* or in a loop that waits for none if no handler is registered for it.
LEMMA HandleFiles ==
    ASSUME TypeOK, "RESULT" \notin UrcPrefix, depth > 0, NEW l \in Lines, Handle(l)
    PROVE  NothingFiled
<1> DEFINE got == [top EXCEPT !.resp = l]
           listens == l.kind \in registered
<1>1. Call(top) /\ loop \in PhaseType
  BY TopType DEF TypeOK
<1>2. Call(got) /\ got.resp = l /\ got.lines = top.lines
  BY <1>1 DEF Call, FrameType
<1>3. loop.loop # "prompt" => top.lines < MaxLines
  BY DEF Handle, Capped
<1>4. listens \in BOOLEAN
  OBVIOUS
<1>5. l.kind = loop.pfx => l.kind \notin registered
  BY <1>1, RegisteredKinds DEF PhaseType
<1> HIDE DEF got, listens
<1>6. ASSUME NEW h \in BOOLEAN, Continue(top, h) PROVE NothingFiled
  BY <1>1, <1>3, <1>6, ContinueFiles
<1>7. ASSUME NEW st \in Status, Done(top, st, l) PROVE NothingFiled
  BY <1>1, <1>7, DoneFiles
<1>8. ASSUME l.kind \notin registered, Continue(got, FALSE) PROVE NothingFiled
  BY <1>2, <1>3, <1>8, ContinueFiles
<1>9. ASSUME l.kind = loop.pfx, Done(got, "OK", l) PROVE NothingFiled
  BY <1>2, <1>5, <1>9, DoneFiles DEF Status
<1>10. CASE ErrorTerminal(l)
  <2>1. Mapped \in Status
    BY <1>10 DEF TypeOK, ErrorTerminal, RecordError, Mapped, Status
  <2> QED
    BY <1>7, <1>10, <2>1 DEF ErrorTerminal
<1>11. CASE Skip(l)
  BY <1>6, <1>11 DEF Skip
<1>12. ASSUME Continue(top, listens) PROVE NothingFiled
  BY <1>4, <1>6, <1>12
<1>13. CASE Dispatch(l)
  BY <1>12, <1>13 DEF Dispatch, listens
<1>14. CASE RecvLine(l)
  <2>1. \/ Skip(l)
        \/ l.kind = loop.pfx /\ Done(got, "OK", l)
        \/ l.kind = loop.pfx /\ Continue(got, FALSE)
        \/ \E st \in {"OK", "PARSE"} : Done(top, st, l)
        \/ ErrorTerminal(l)
        \/ l.kind \notin registered /\ Continue(got, FALSE)
        \/ Continue(top, listens)
    BY <1>14 DEF RecvLine, Accumulates, got, listens
  <2>2. {"OK", "PARSE"} \subseteq Status
    BY DEF Status
  <2> QED
    BY <1>5, <1>7, <1>8, <1>9, <1>10, <1>11, <1>12, <2>1, <2>2
<1>15. CASE PrefixLine(l)
  <2>1. \/ Skip(l) \/ ErrorTerminal(l) \/ Dispatch(l)
        \/ l.kind = loop.pfx /\ Done(got, "OK", l)
        \/ Continue(top, FALSE)
    BY <1>15 DEF PrefixLine, got
  <2> QED
    BY <1>6, <1>9, <1>10, <1>11, <1>13, <2>1
<1>16. CASE FinalLine(l)
  BY <1>7, <1>10, <1>11, <1>13, <1>16 DEF FinalLine, Status
<1>17. CASE PromptLine(l)
  BY <1>7, <1>10, <1>11, <1>13, <1>17 DEF PromptLine, Status
<1>18. CASE PollLine(l)
  BY <1>6, <1>11, <1>18 DEF PollLine
<1> QED
  BY <1>14, <1>15, <1>16, <1>17, <1>18 DEF Handle

\* A call that starts has no response yet, and those below keep theirs.
LEMMA PushFiles ==
    ASSUME TypeOK, "RESULT" \notin UrcPrefix, NEW f, f.resp = NoLine, Push(f)
    PROVE  NothingFiled
<1>1. DOMAIN frame = 1..MaxDepth /\ frame \in [1..MaxDepth -> FrameType]
  BY DEF TypeOK, StackType
<1>2. ASSUME NEW d \in 1..MaxDepth
      PROVE  frame'[d].resp = NoLine \/ frame'[d].resp = frame[d].resp
  BY <1>1, <1>2 DEF Push, FrameType
<1>3. "none" \notin registered /\ NoLine.kind = "none"
  BY RegisteredKinds DEF NoLine, Line
<1> QED
  BY <1>2, <1>3 DEF NothingFiled, Filed

\* Every step; one case for each action.
LEMMA NextFiles ==
    ASSUME TypeOK, "RESULT" \notin UrcPrefix, Next
    PROVE  NothingFiled
<1>1. StackType /\ ChannelType
  BY DEF TypeOK
<1>2. ASSUME NEW st \in Status, NEW by, Running, Done(top, st, by)
      PROVE  NothingFiled
  BY <1>1, <1>2, TopType, DoneFiles DEF Running
<1>3. ASSUME UNCHANGED frame PROVE NothingFiled
  BY <1>3 DEF NothingFiled, Filed
<1>4. CASE RxReply
  <2>1. Head(replies) \in Lines
    BY <1>1, <1>4 DEF RxReply, ChannelType
  <2> QED
    BY <1>4, <2>1, HandleFiles DEF RxReply, Running
<1>5. CASE RxUnasked
  <2>1. PICK k \in Unasked : Handle(Line(k, 0))
    BY <1>5 DEF RxUnasked
  <2>2. Line(k, 0) \in Lines
    BY DEF Line, Lines
  <2> QED
    BY <1>5, <2>1, <2>2, HandleFiles DEF RxUnasked, Running
<1>6. CASE RxPayload
  BY <1>2, <1>6 DEF RxPayload, Status
<1>7. CASE RxTimeout
  BY <1>2, <1>7 DEF RxTimeout, Status
<1>8. CASE RxIoError
  BY <1>2, <1>8 DEF RxIoError, Status
<1>9. CASE LineCap
  BY <1>2, <1>9 DEF LineCap, Status
<1>10. CASE WritePayload
  BY <1>2, <1>10 DEF WritePayload, Status
<1>11. CASE WritePayloadFails
  BY <1>2, <1>11 DEF WritePayloadFails, Status
<1>12. ASSUME NEW flow \in Flows, Transmit(flow) PROVE NothingFiled
  <2> DEFINE f == Frame(flow, nextId, Quiet /\ AtRest)
  <2>1. Push(f) /\ f.resp = NoLine
    BY <1>12 DEF Transmit, Frame
  <2> HIDE DEF f
  <2> QED
    BY <2>1, PushFiles
<1>13. CASE TransmitFails
  BY <1>3, <1>13 DEF TransmitFails
<1>14. CASE Poll
  <2> DEFINE f == Frame("poll", 0, FALSE)
  <2>1. Push(f) /\ f.resp = NoLine
    BY <1>14 DEF Poll, Frame
  <2> HIDE DEF f
  <2> QED
    BY <2>1, PushFiles
<1>15. ASSUME NEW u \in UrcPrefix, RegisterUrc(u) \/ UnregisterUrc(u)
       PROVE  NothingFiled
  BY <1>3, <1>15 DEF RegisterUrc, UnregisterUrc
<1>16. CASE HandlerReturns
  <2> DEFINE f == [top EXCEPT !.inHandler = FALSE, !.mayCall = TRUE]
  <2>1. Call(top) /\ depth > 0
    BY <1>1, <1>16, TopType DEF HandlerReturns
  <2>2. f \in FrameType /\ f.resp = top.resp
    BY <2>1 DEF Call, FrameType
  <2>3. frame' = [frame EXCEPT ![depth] = f]
    BY <1>16 DEF HandlerReturns
  <2> HIDE DEF f
  <2> QED
    BY <2>1, <2>2, <2>3, OneResponse
<1> QED
  BY <1>4, <1>5, <1>6, <1>7, <1>8, <1>9, <1>10, <1>11, <1>12, <1>13, <1>14,
     <1>15, <1>16 DEF Next, LibraryStep

\* dispatch_registered_urc: an unsolicited line with a registered prefix is never
\* stored as a response, if no such prefix is one a command waits for.
THEOREM UrcNeverFiledHolds ==
    ASSUME "RESULT" \notin UrcPrefix PROVE Spec => UrcNeverFiled
<1>1. TypeOK /\ [Next]_vars =>
         [\A d \in 1..MaxDepth :
             LET r == frame'[d].resp IN
             (r # frame[d].resp /\ r.id = 0) => r.kind \notin registered]_vars
  BY NextFiles DEF NothingFiled, Filed
<1> QED
  BY <1>1, TypeCorrect, PTL DEF Spec, UrcNeverFiled

-----------------------------------------------------------------------------
(* Replies *)

\* No unsolicited prefix is one a command waits for.
UrcsApart == "RESULT" \notin UrcPrefix

-----------------------------------------------------------------------------
(* Scripts *)

\* Reading one line of a stamped script leaves the rest of it, stamped.
LEMMA StampTail ==
    ASSUME NEW s \in Seq(ReplyKind), NEW id \in Nat, s # <<>>
    PROVE  /\ Stamp(s, id) # <<>>
           /\ Head(Stamp(s, id)) = Line(Head(s), id)
           /\ Tail(Stamp(s, id)) = Stamp(Tail(s), id)
           /\ Tail(s) \in Seq(ReplyKind)
<1>1. /\ Stamp(s, id) \in Seq(Lines) /\ Len(Stamp(s, id)) = Len(s)
      /\ \A i \in 1..Len(s) : Stamp(s, id)[i] = Line(s[i], id)
  BY StampType
<1>2. Len(s) \in Nat /\ Len(s) >= 1
  BY EmptySeq, LenProperties
<1>3. Stamp(s, id) # <<>> /\ Head(Stamp(s, id)) = Line(Head(s), id)
  BY <1>1, <1>2, HeadTailProperties
<1>4. /\ Tail(s) \in Seq(ReplyKind) /\ Len(Tail(s)) = Len(s) - 1
      /\ \A i \in 1..Len(Tail(s)) : Tail(s)[i] = s[i + 1]
  BY <1>2, HeadTailProperties
<1>5. /\ Tail(Stamp(s, id)) \in Seq(Lines)
      /\ Len(Tail(Stamp(s, id))) = Len(s) - 1
      /\ \A i \in 1..Len(Tail(Stamp(s, id))) :
            Tail(Stamp(s, id))[i] = Stamp(s, id)[i + 1]
  BY <1>1, <1>3, HeadTailProperties
<1>6. /\ Stamp(Tail(s), id) \in Seq(Lines)
      /\ Len(Stamp(Tail(s), id)) = Len(s) - 1
      /\ \A i \in 1..Len(Tail(s)) : Stamp(Tail(s), id)[i] = Line(Tail(s)[i], id)
  BY <1>4, StampType
<1>7. \A i \in 1..(Len(s) - 1) :
         Tail(Stamp(s, id))[i] = Stamp(Tail(s), id)[i]
  BY <1>1, <1>2, <1>4, <1>5, <1>6
<1>8. Tail(Stamp(s, id)) = Stamp(Tail(s), id)
  BY <1>5, <1>6, <1>7, SeqEqual
<1> QED
  BY <1>3, <1>4, <1>8

\* An empty script stamps to an empty stream, and only it does.
LEMMA StampEmpty ==
    ASSUME NEW id \in Nat
    PROVE  /\ Stamp(<<>>, id) = <<>>
           /\ \A s \in Seq(ReplyKind) : Stamp(s, id) = <<>> => s = <<>>
           /\ \A s \in Seq(ReplyKind) : <<>> \o Stamp(s, id) = Stamp(s, id)
<1>1. Stamp(<<>>, id) = <<>>
  BY StampType, EmptySeq
<1>2. ASSUME NEW s \in Seq(ReplyKind), Stamp(s, id) = <<>> PROVE s = <<>>
  BY <1>2, StampTail
<1>3. ASSUME NEW s \in Seq(ReplyKind) PROVE <<>> \o Stamp(s, id) = Stamp(s, id)
  BY StampType
<1> QED
  BY <1>1, <1>2, <1>3

\* Whatever a call may still be owed is a script of reply lines.
LEMMA OwedType ==
    ASSUME NEW flow \in AllFlows, NEW step \in 1..4, NEW resp
    PROVE  Owed(flow, step, resp) \subseteq Seq(ReplyKind)
<1>1. /\ {<<"OK">>} \subseteq Seq(ReplyKind)
      /\ {<<"RESULT">>} \subseteq Seq(ReplyKind)
      /\ {<<"DATA", "OK">>} \subseteq Seq(ReplyKind)
      /\ {<<>>} \subseteq Seq(ReplyKind)
  BY DEF ReplyKind
<1> QED
  BY <1>1, AnswersType DEF Owed

-----------------------------------------------------------------------------
(* Which loop runs at which step of which flow *)

\* The table of flows spelled out: how many loops each flow has, and which.
LEMMA LoopTable ==
    ASSUME NEW flow \in AllFlows
    PROVE  LET p == Phases(flow) IN
      /\ flow = "send"  => Steps(flow) = 1 /\ p[1] = Recv
      /\ flow = "query" => Steps(flow) = 1 /\ p[1] = RecvResult
      /\ flow = "data"  => /\ Steps(flow) = 3
                           /\ p[1] = RecvHeader /\ p[2] = Exact /\ p[3] = Final
      /\ flow = "await" => /\ Steps(flow) = 3
                           /\ p[1] = RecvHeader /\ p[2] = Prefix /\ p[3] = Final
      /\ flow = "submit" => /\ Steps(flow) = 4 /\ p[1] = Prompt /\ p[2] = Write
                            /\ p[3] = Prefix /\ p[4] = Final
      /\ flow \in {"socket", "publish"} =>
            Steps(flow) = 3 /\ p[1] = Prompt /\ p[2] = Write /\ p[3] = Prefix
      /\ flow = "url" =>
            Steps(flow) = 3 /\ p[1] = Connect /\ p[2] = Write /\ p[3] = Final
      /\ flow = "post" => /\ Steps(flow) = 4 /\ p[1] = Connect /\ p[2] = Write
                          /\ p[3] = Final /\ p[4] = Prefix
      /\ flow = "upload" => /\ Steps(flow) = 4 /\ p[1] = Connect /\ p[2] = Write
                            /\ p[3] = Prefix /\ p[4] = Final
<1>1. /\ Phases("send") = <<Recv>> /\ Phases("query") = <<RecvResult>>
      /\ Phases("data") = <<RecvHeader, Exact, Final>>
      /\ Phases("await") = <<RecvHeader, Prefix, Final>>
      /\ Phases("submit") = <<Prompt, Write, Prefix, Final>>
      /\ Phases("socket") = <<Prompt, Write, Prefix>>
      /\ Phases("publish") = <<Prompt, Write, Prefix>>
      /\ Phases("url") = <<Connect, Write, Final>>
      /\ Phases("post") = <<Connect, Write, Final, Prefix>>
      /\ Phases("upload") = <<Connect, Write, Prefix, Final>>
  BY DEF Phases, FlowTable, SendPhases, QueryPhases, DataPhases, AwaitPhases,
         SubmitPhases, SocketPhases, PublishPhases, UrlPhases, PostPhases,
         UploadPhases
<1> QED
  BY <1>1 DEF Steps

-----------------------------------------------------------------------------
(* One line of the script *)

IsLoop(p, name, pfx, stop) == p.loop = name /\ p.pfx = pfx /\ p.stop = stop

\* The parameters of each loop spelled out.
LEMMA LoopFields ==
    /\ IsLoop(Recv, "recv", "none", FALSE)
    /\ IsLoop(RecvResult, "recv", "RESULT", FALSE)
    /\ IsLoop(RecvHeader, "recv", "RESULT", TRUE)
    /\ IsLoop(Connect, "recv", "CONNECT", TRUE)
    /\ IsLoop(Exact, "exact", "none", FALSE)
    /\ IsLoop(Prefix, "prefix", "RESULT", FALSE)
    /\ IsLoop(Final, "final", "none", FALSE)
    /\ IsLoop(Prompt, "prompt", "none", FALSE)
    /\ IsLoop(Write, "write", "none", FALSE)
BY DEF IsLoop, Recv, RecvResult, RecvHeader, Connect, Exact, Prefix, Final,
       Prompt, Write, Loop

\* What one line of the script `s' of the running call may lead to: the loop
\* goes on with the rest of the script, the call moves to a loop that takes
\* the rest, or the call returns and nothing is left.
GoesOn(g, s) ==
    /\ \E h \in BOOLEAN : Continue(g, h)
    /\ Tail(s) \in Owed(top.flow, top.step, g.resp)
    /\ ~AtGate(top.flow, top.step, s)
    /\ ~AtGate(top.flow, top.step, Tail(s))

MovesOn(g, s, st, by) ==
    /\ Done(g, st, by)
    /\ NextStep(top, st) # 0
    /\ Tail(s) \in Owed(top.flow, NextStep(top, st), g.resp)
    /\ AtGate(top.flow, top.step, s)
          <=> AtGate(top.flow, NextStep(top, st), Tail(s))

Ends(g, s, st, by) ==
    /\ Done(g, st, by)
    /\ st \in Status \ GaveUp
    /\ NextStep(top, st) = 0
    /\ Tail(s) = <<>>
    /\ ~AtGate(top.flow, top.step, s)

Follows(g, s, by) ==
    \/ GoesOn(g, s)
    \/ \E st \in {"OK", "PARSE"} : MovesOn(g, s, st, by)
    \/ \E st \in Status : Ends(g, s, st, by)

\* An error line is the last one of its script, and ends the call.
LEMMA ErrorFollows ==
    ASSUME StackType, ErrKindType, depth > 0,
           ~(top.step = 2 /\ top.flow \in Gated),
           NEW l \in Lines, ErrorTerminal(l),
           NEW s, s = <<l.kind>>
    PROVE  Follows(top, s, l)
<1>1. Mapped \in {"CME", "CMS", "MODULE"} /\ Done(top, Mapped, l)
  BY DEF ErrorTerminal, RecordError, Mapped, ErrKindType
<1> DEFINE m == Mapped
<1> HIDE DEF m
<1>2. m \in {"CME", "CMS", "MODULE"} /\ Done(top, m, l)
  BY <1>1 DEF m
<1>3. NextStep(top, m) = 0
  BY <1>2 DEF NextStep
<1>4. Tail(s) = <<>> /\ s # <<>>
  OBVIOUS
<1>5. l.kind \in ErrorKind
  BY DEF ErrorTerminal
<1>6. ~AtGate(top.flow, top.step, s)
  BY <1>5 DEF AtGate, ErrorKind
<1> QED
  BY <1>2, <1>3, <1>4, <1>6 DEF Follows, Ends, Status, GaveUp

\* The receive loop of receive_transaction follows the script.
LEMMA RecvFollows ==
    ASSUME StackType, ErrKindType, depth > 0, top.flow \in AllFlows,
           top.step = 1, loop.loop = "recv",
           NEW s \in Owed(top.flow, 1, top.resp),
           NEW l \in Lines, l.kind = Head(s), RecvLine(l)
    PROVE  Follows(top, s, l) \/ Follows([top EXCEPT !.resp = l], s, l)
<1> DEFINE got == [top EXCEPT !.resp = l]
<1>1. loop.pfx \in {"none", "RESULT", "CONNECT"} /\ loop.stop \in BOOLEAN
  BY TopType DEF PhaseType
<1>2. Call(top)
  BY TopType
<1>3. got.flow = top.flow /\ got.step = top.step /\ got.resp = l
  BY <1>2 DEF Call, FrameType
<1>4. loop = Phases(top.flow)[1]
  BY DEF loop
<1> DEFINE Goal == Follows(top, s, l) \/ Follows(got, s, l)
<1> SUFFICES Goal
  OBVIOUS
<1> HIDE DEF got, Goal
<1>c. top.resp # NoLine => top.flow = "query" \/ top.flow = "send"
  BY DEF Owed
<1>e. ~(top.step = 2 /\ top.flow \in Gated)
  OBVIOUS
<1>5. CASE s \in Errors
  <2>1. l.kind \in ErrorKind /\ s = <<l.kind>>
    BY <1>5 DEF Errors
  <2>2. ErrorTerminal(l)
    BY <1>1, <2>1 DEF RecvLine, Skip, IsOther, ErrorKind
  <2>3. Follows(top, s, l)
    BY <2>1, <2>2, <1>e, ErrorFollows
  <2> QED
    BY <2>3 DEF Goal
<1> DEFINE listens == l.kind \in registered
           unmatched == loop.pfx # "none" /\ top.resp = NoLine
           hit == unmatched /\ l.kind = loop.pfx
<1>a. listens \in BOOLEAN
  OBVIOUS
<1> HIDE DEF listens, unmatched, hit
<1>b. \/ l.kind = "BLANK"
      \/ hit /\ loop.stop /\ Done(got, "OK", l)
      \/ hit /\ ~loop.stop /\ Continue(got, FALSE)
      \/ l.kind = "OK" /\ unmatched /\ Done(top, "PARSE", l)
      \/ l.kind = "OK" /\ ~unmatched /\ Done(top, "OK", l)
      \/ l.kind \in ErrorKind
      \/ ~hit /\ IsOther(l) /\ loop.pfx = "none" /\ Continue(got, FALSE)
      \/ ~hit /\ IsOther(l) /\ \E h \in BOOLEAN : Continue(top, h)
  <2>1. \/ Skip(l)
        \/ hit /\ IF loop.stop THEN Done(got, "OK", l) ELSE Continue(got, FALSE)
        \/ l.kind = "OK" /\ Done(top, IF unmatched THEN "PARSE" ELSE "OK", l)
        \/ ErrorTerminal(l)
        \/ ~hit /\ IsOther(l) /\ loop.pfx = "none" /\ Continue(got, FALSE)
        \/ ~hit /\ IsOther(l) /\ Continue(top, listens)
    BY DEF RecvLine, Accumulates, hit, unmatched, listens, got
  <2> QED
    BY <1>a, <2>1 DEF Skip, ErrorTerminal
<1>6. CASE top.flow = "send" /\ s \notin Errors
  <2>1. IsLoop(loop, "recv", "none", FALSE)
    BY <1>4, <1>6, LoopTable, LoopFields
  <2>2. s \in {<<"OK">>, <<"TEXT", "OK">>}
    BY <1>6 DEF Owed, Answers, AnswerTable
  <2>3. ~unmatched /\ ~hit
    BY <2>1 DEF IsLoop, unmatched, hit
  <2>4. CASE s = <<"OK">>
    <3>0. l.kind = "OK"
      BY <2>4
    <3>1. Done(top, "OK", l)
      BY <1>b, <2>3, <3>0 DEF IsOther, ErrorKind
    <3>2. NextStep(top, "OK") = 0
      BY <1>6, LoopTable DEF NextStep
    <3> QED
      BY <2>4, <3>1, <3>2 DEF Follows, Ends, AtGate, Status, GaveUp, Goal
  <2>5. CASE s = <<"TEXT", "OK">>
    <3>0. l.kind = "TEXT"
      BY <2>5
    <3>1. Continue(got, FALSE) \/ \E h \in BOOLEAN : Continue(top, h)
      BY <1>b, <2>3, <3>0 DEF IsOther, ErrorKind
    <3>2. Tail(s) = <<"OK">>
      BY <2>5
    <3>3. \A r : <<"OK">> \in Owed("send", 1, r)
      BY DEF Owed, Answers, AnswerTable
    <3>4. ~AtGate(top.flow, top.step, s) /\ ~AtGate(top.flow, top.step, Tail(s))
      BY <2>5, <3>2 DEF AtGate
    <3>5. \A r : Tail(s) \in Owed(top.flow, top.step, r)
      BY <1>6, <3>2, <3>3
    <3>6. GoesOn(top, s) \/ GoesOn(got, s)
      BY <3>1, <3>4, <3>5 DEF GoesOn
    <3> QED
      BY <3>6 DEF Follows, Goal
  <2> QED
    BY <2>2, <2>4, <2>5
<1>7. CASE top.flow = "query" /\ s \notin Errors
  <2>1. IsLoop(loop, "recv", "RESULT", FALSE)
    BY <1>4, <1>7, LoopTable, LoopFields
  <2>2. s \in {<<"OK">>, <<"RESULT", "OK">>}
    BY <1>7 DEF Owed, Answers, AnswerTable
  <2>4. CASE s = <<"OK">>
    <3>0. l.kind = "OK"
      BY <2>4
    <3>1. Done(top, "OK", l) \/ Done(top, "PARSE", l)
      BY <1>b, <2>1, <3>0 DEF IsLoop, IsOther, ErrorKind, hit
    <3>2. NextStep(top, "OK") = 0 /\ NextStep(top, "PARSE") = 0
      BY <1>7, LoopTable DEF NextStep
    <3> QED
      BY <2>4, <3>1, <3>2 DEF Follows, Ends, AtGate, Status, GaveUp, Goal
  <2>5. CASE s = <<"RESULT", "OK">>
    <3>0. l.kind = "RESULT"
      BY <2>5
    <3>1. top.resp = NoLine
      BY <1>7, <2>5 DEF Owed
    <3>2. Continue(got, FALSE)
      BY <1>b, <2>1, <3>0, <3>1 DEF IsLoop, IsOther, ErrorKind, hit, unmatched
    <3>3. Tail(s) = <<"OK">>
      BY <2>5
    <3>4. \A r : <<"OK">> \in Owed("query", 1, r)
      BY DEF Owed, Answers, AnswerTable
    <3>5. ~AtGate(top.flow, top.step, s) /\ ~AtGate(top.flow, top.step, Tail(s))
      BY <2>5, <3>3 DEF AtGate
    <3>6. \A r : Tail(s) \in Owed(top.flow, top.step, r)
      BY <1>7, <3>3, <3>4
    <3>7. GoesOn(got, s)
      BY <3>2, <3>5, <3>6 DEF GoesOn
    <3> QED
      BY <3>7 DEF Follows, Goal
  <2> QED
    BY <2>2, <2>4, <2>5
<1>8. CASE top.flow \in {"data", "await"} /\ s \notin Errors
  <2>1. IsLoop(loop, "recv", "RESULT", TRUE) /\ top.resp = NoLine
    BY <1>4, <1>8, <1>c, LoopTable, LoopFields
  <2>2. unmatched /\ (hit <=> l.kind = "RESULT")
    BY <2>1 DEF IsLoop, hit, unmatched
  <2>3. \/ s = <<"RESULT", "DATA", "OK">> /\ top.flow = "data"
        \/ s = <<"OK">> /\ top.flow = "data"
        \/ s = <<"OK", "RESULT">> /\ top.flow = "await"
        \/ s = <<"RESULT", "OK">> /\ top.flow = "await"
    BY <1>8 DEF Owed, Answers, AnswerTable
  <2>4. CASE s = <<"RESULT", "DATA", "OK">> /\ top.flow = "data"
    <3>0. l.kind = "RESULT"
      BY <2>4
    <3>1. Done(got, "OK", l)
      BY <1>b, <2>1, <2>2, <3>0 DEF IsLoop, IsOther, ErrorKind
    <3>2. NextStep(top, "OK") = 2 /\ Tail(s) = <<"DATA", "OK">>
      BY <2>4, LoopTable DEF NextStep
    <3>3. \A r : <<"DATA", "OK">> \in Owed("data", 2, r)
      BY DEF Owed, Gated
    <3>4. MovesOn(got, s, "OK", l)
      BY <2>4, <3>1, <3>2, <3>3 DEF MovesOn, AtGate, Gated
    <3> QED
      BY <3>4 DEF Follows, Goal
  <2>5. CASE s = <<"OK">> /\ top.flow = "data"
    <3>0. l.kind = "OK"
      BY <2>5
    <3>1. Done(top, "PARSE", l)
      BY <1>b, <2>2, <3>0 DEF IsOther, ErrorKind
    <3>2. NextStep(top, "PARSE") = 0
      BY <2>5 DEF NextStep
    <3> QED
      BY <2>5, <3>1, <3>2 DEF Follows, Ends, AtGate, Status, GaveUp, Goal
  <2>6. CASE s = <<"OK", "RESULT">> /\ top.flow = "await"
    <3>0. l.kind = "OK"
      BY <2>6
    <3>1. Done(top, "PARSE", l)
      BY <1>b, <2>2, <3>0 DEF IsOther, ErrorKind
    <3>2. NextStep(top, "PARSE") = 2 /\ Tail(s) = <<"RESULT">>
      BY <2>6 DEF NextStep
    <3>3. \A r : <<"RESULT">> \in Owed("await", 2, r)
      BY DEF Owed, Gated
    <3>4. MovesOn(top, s, "PARSE", l)
      BY <2>6, <3>1, <3>2, <3>3 DEF MovesOn, AtGate, Gated
    <3> QED
      BY <3>4 DEF Follows, Goal
  <2>7. CASE s = <<"RESULT", "OK">> /\ top.flow = "await"
    <3>0. l.kind = "RESULT"
      BY <2>7
    <3>1. Done(got, "OK", l)
      BY <1>b, <2>1, <2>2, <3>0 DEF IsLoop, IsOther, ErrorKind
    <3>2. NextStep(top, "OK") = 3 /\ Tail(s) = <<"OK">>
      BY <2>7 DEF NextStep
    <3>3. \A r : <<"OK">> \in Owed("await", 3, r)
      BY DEF Owed, Gated
    <3>4. MovesOn(got, s, "OK", l)
      BY <2>7, <3>1, <3>2, <3>3 DEF MovesOn, AtGate, Gated
    <3> QED
      BY <3>4 DEF Follows, Goal
  <2> QED
    BY <2>3, <2>4, <2>5, <2>6, <2>7
<1>9. CASE top.flow \in {"url", "post", "upload"} /\ s \notin Errors
  <2>1. IsLoop(loop, "recv", "CONNECT", TRUE) /\ top.resp = NoLine
    BY <1>4, <1>9, <1>c, LoopTable, LoopFields
  <2>2. unmatched /\ (hit <=> l.kind = "CONNECT")
    BY <2>1 DEF IsLoop, hit, unmatched
  <2>3. s \in {<<"CONNECT">>, <<"OK">>}
    BY <1>9 DEF Owed, Answers, AnswerTable, AtConnect
  <2>4. CASE s = <<"CONNECT">>
    <3>0. l.kind = "CONNECT"
      BY <2>4
    <3>1. Done(got, "OK", l)
      BY <1>b, <2>1, <2>2, <3>0 DEF IsLoop, IsOther, ErrorKind
    <3>2. NextStep(top, "OK") = 2 /\ Tail(s) = <<>>
      BY <1>9, <2>4, LoopTable DEF NextStep
    <3>3. \A r : <<>> \in Owed(top.flow, 2, r)
      BY <1>9 DEF Owed, Gated
    <3>4. MovesOn(got, s, "OK", l)
      BY <1>9, <2>4, <3>1, <3>2, <3>3 DEF MovesOn, AtGate, Gated
    <3> QED
      BY <3>4 DEF Follows, Goal
  <2>5. CASE s = <<"OK">>
    <3>0. l.kind = "OK"
      BY <2>5
    <3>1. Done(top, "PARSE", l)
      BY <1>b, <2>2, <3>0 DEF IsOther, ErrorKind
    <3>2. NextStep(top, "PARSE") = 0
      BY <1>9 DEF NextStep
    <3> QED
      BY <2>5, <3>1, <3>2 DEF Follows, Ends, AtGate, Status, GaveUp, Goal
  <2> QED
    BY <2>3, <2>4, <2>5
<1>10. top.flow \notin {"submit", "socket", "publish"}
  BY <1>4, LoopTable, LoopFields DEF IsLoop
<1> QED
  BY <1>5, <1>6, <1>7, <1>8, <1>9, <1>10 DEF AllFlows, Goal

\* The two ways a line beyond the first loop is followed.
LEMMA LastLine ==
    ASSUME NEW g, NEW by, NEW st \in Status \ GaveUp, Done(g, st, by),
           NextStep(top, st) = 0, NEW s, NEW k, s = <<k>>,
           k \notin {"PROMPT", "CONNECT"}, ~(top.step = 2 /\ top.flow \in Gated)
    PROVE  Follows(g, s, by)
<1>1. Tail(s) = <<>> /\ ~AtGate(top.flow, top.step, s)
  BY DEF AtGate
<1> QED
  BY <1>1 DEF Follows, Ends

\* A loop that is followed by another one leaves the rest of the script to it.
LEMMA NextLoop ==
    ASSUME NEW g, NEW by, Done(g, "OK", by), top.step = 3,
           NextStep(top, "OK") = top.step + 1,
           NEW s, NEW k, NEW j, s = <<k, j>>,
           <<j>> \in Owed(top.flow, top.step + 1, g.resp)
    PROVE  Follows(g, s, by)
<1>1. Tail(s) = <<j>>
  OBVIOUS
<1>2. \A q : ~AtGate(top.flow, 3, q) /\ ~AtGate(top.flow, 4, q)
  BY DEF AtGate
<1>3. NextStep(top, "OK") = 4 /\ Tail(s) \in Owed(top.flow, 4, g.resp)
  BY <1>1
<1>4. MovesOn(g, s, "OK", by)
  BY <1>2, <1>3 DEF MovesOn
<1> QED
  BY <1>4 DEF Follows

\* wait_prefix follows the script.
LEMMA PrefixFollows ==
    ASSUME StackType, ErrKindType, depth > 0, top.flow \in AllFlows,
           top.step \in 2..4, loop.loop = "prefix",
           NEW s \in Owed(top.flow, top.step, top.resp), s # <<>>,
           NEW l \in Lines, l.kind = Head(s), PrefixLine(l)
    PROVE  Follows(top, s, l) \/ Follows([top EXCEPT !.resp = l], s, l)
<1> DEFINE got == [top EXCEPT !.resp = l]
           Goal == Follows(top, s, l) \/ Follows(got, s, l)
<1> SUFFICES Goal
  OBVIOUS
<1>1. loop = Phases(top.flow)[top.step]
  BY DEF loop
<1>2. \/ top.flow = "await" /\ top.step = 2
      \/ top.flow \in {"submit", "socket", "publish", "upload"} /\ top.step = 3
      \/ top.flow = "post" /\ top.step = 4
  <2>1. top.step \in 1..Steps(top.flow)
    BY TopType DEF Call, StackType
  <2> QED
    BY <1>1, <2>1, LoopTable, LoopFields DEF IsLoop, AllFlows
<1>3. loop.pfx = "RESULT"
  BY <1>1, <1>2, LoopTable, LoopFields DEF IsLoop, AllFlows
<1>4. ~(top.step = 2 /\ top.flow \in Gated)
  BY <1>2 DEF Gated
<1> HIDE DEF got, Goal
<1>5. \/ l.kind = "BLANK"
      \/ l.kind = "RESULT" /\ Done(got, "OK", l)
      \/ ErrorTerminal(l) /\ l.kind \in ErrorKind
      \/ l.kind = "OK" /\ Continue(top, FALSE)
      \/ IsOther(l) /\ l.kind # "RESULT"
  BY <1>3 DEF PrefixLine, Skip, ErrorTerminal, got
<1>6. CASE s \in Errors
  <2>1. l.kind \in ErrorKind /\ s = <<l.kind>>
    BY <1>6 DEF Errors
  <2>2. ErrorTerminal(l)
    BY <1>5, <2>1 DEF IsOther, ErrorKind
  <2> QED
    BY <1>4, <2>1, <2>2, ErrorFollows DEF Goal
<1>7. CASE s = <<"RESULT">>
  <2>1. l.kind = "RESULT"
    BY <1>7
  <2>2. Done(got, "OK", l)
    BY <1>5, <2>1 DEF ErrorKind, IsOther
  <2>3. top.flow \in {"await", "socket", "publish"} \/ top.step = 4
    BY <1>2, <1>7 DEF Owed, PayloadAnswers, PayloadAnswerTable, Errors, ErrorKind, Gated
  <2>4. NextStep(top, "OK") = 0
    BY <1>2, <2>3, LoopTable DEF NextStep, AllFlows
  <2> QED
    BY <1>4, <1>7, <2>2, <2>4, LastLine DEF Goal, Status, GaveUp
<1>8. CASE s = <<"RESULT", "OK">>
  <2>1. l.kind = "RESULT"
    BY <1>8
  <2>2. Done(got, "OK", l)
    BY <1>5, <2>1 DEF ErrorKind, IsOther
  <2>3. top.flow \in {"submit", "upload"} /\ top.step = 3
    BY <1>2, <1>8 DEF Owed, PayloadAnswers, PayloadAnswerTable, Errors, ErrorKind, Gated
  <2>4. NextStep(top, "OK") = top.step + 1
    BY <2>3, LoopTable DEF NextStep, AllFlows
  <2>5. <<"OK">> \in Owed(top.flow, top.step + 1, got.resp)
    BY <2>3 DEF Owed
  <2> QED
    BY <1>8, <2>2, <2>3, <2>4, <2>5, NextLoop DEF Goal
<1>9. CASE s = <<"OK", "RESULT">>
  <2>1. l.kind = "OK"
    BY <1>9
  <2>2. Continue(top, FALSE)
    BY <1>5, <2>1 DEF ErrorKind, IsOther
  <2>3. top.flow = "publish" /\ top.step = 3
    BY <1>2, <1>9 DEF Owed, PayloadAnswers, PayloadAnswerTable, Errors, ErrorKind, Gated
  <2>4. Tail(s) = <<"RESULT">>
    BY <1>9
  <2>5. <<"RESULT">> \in Owed("publish", 3, top.resp)
    BY DEF Owed, PayloadAnswers, PayloadAnswerTable, Gated
  <2>6. ~AtGate(top.flow, top.step, s) /\ ~AtGate(top.flow, top.step, Tail(s))
    BY <2>3 DEF AtGate
  <2> QED
    BY <2>2, <2>3, <2>4, <2>5, <2>6 DEF GoesOn, Follows, Goal
<1>10. s \in Errors \cup {<<"RESULT">>, <<"RESULT", "OK">>, <<"OK", "RESULT">>}
  BY <1>2 DEF Owed, PayloadAnswers, PayloadAnswerTable, Gated
<1> QED
  BY <1>6, <1>7, <1>8, <1>9, <1>10

\* wait_final follows the script.
LEMMA FinalFollows ==
    ASSUME StackType, ErrKindType, depth > 0, top.flow \in AllFlows,
           top.step \in 2..4, loop.loop = "final",
           NEW s \in Owed(top.flow, top.step, top.resp), s # <<>>,
           NEW l \in Lines, l.kind = Head(s), FinalLine(l)
    PROVE  Follows(top, s, l)
<1>1. loop = Phases(top.flow)[top.step]
  BY DEF loop
<1>2. \/ top.flow \in {"data", "await", "url", "post"} /\ top.step = 3
      \/ top.flow \in {"submit", "upload"} /\ top.step = 4
  <2>1. top.step \in 1..Steps(top.flow)
    BY TopType DEF Call, StackType
  <2> QED
    BY <1>1, <2>1, LoopTable, LoopFields DEF IsLoop, AllFlows
<1>3. ~(top.step = 2 /\ top.flow \in Gated)
  BY <1>2
<1>4. \/ l.kind = "BLANK"
      \/ ErrorTerminal(l) /\ l.kind \in ErrorKind
      \/ l.kind = "OK" /\ Done(top, "OK", l)
      \/ IsOther(l)
  BY DEF FinalLine, Skip, ErrorTerminal
<1>5. CASE s \in Errors
  <2>1. l.kind \in ErrorKind /\ s = <<l.kind>>
    BY <1>5 DEF Errors
  <2>2. ErrorTerminal(l)
    BY <1>4, <2>1 DEF IsOther, ErrorKind
  <2> QED
    BY <1>3, <2>1, <2>2, ErrorFollows
<1>6. ASSUME s \notin Errors PROVE s = <<"OK">> \/ s = <<"OK", "RESULT">>
  BY <1>2, <1>6 DEF Owed, PayloadAnswers, PayloadAnswerTable, Gated
<1>7. ASSUME s \notin Errors PROVE Done(top, "OK", l)
  <2>1. l.kind = "OK"
    BY <1>6, <1>7
  <2> QED
    BY <1>4, <2>1 DEF IsOther, ErrorKind
<1>8. CASE s = <<"OK">>
  <2>1. top.flow # "post"
    BY <1>2, <1>8 DEF Owed, PayloadAnswers, PayloadAnswerTable, Errors, ErrorKind, Gated
  <2>2. NextStep(top, "OK") = 0
    BY <1>2, <2>1, LoopTable DEF NextStep, AllFlows
  <2> QED
    BY <1>3, <1>7, <1>8, <2>2, LastLine DEF Status, GaveUp, Errors, ErrorKind
<1>9. CASE s = <<"OK", "RESULT">>
  <2>1. top.flow = "post" /\ top.step = 3
    BY <1>2, <1>9 DEF Owed, PayloadAnswers, PayloadAnswerTable, Errors, ErrorKind, Gated
  <2>2. NextStep(top, "OK") = top.step + 1
    BY <2>1, LoopTable DEF NextStep, AllFlows
  <2>3. <<"RESULT">> \in Owed(top.flow, top.step + 1, top.resp)
    BY <2>1 DEF Owed
  <2>4. s \notin Errors
    BY <1>9 DEF Errors
  <2> QED
    BY <1>7, <1>9, <2>1, <2>2, <2>3, <2>4, NextLoop
<1> QED
  BY <1>5, <1>6, <1>8, <1>9

\* ec200_at_send_prompt follows the script.
LEMMA PromptFollows ==
    ASSUME StackType, ErrKindType, depth > 0, top.flow \in AllFlows,
           top.step = 1, loop.loop = "prompt",
           NEW s \in Owed(top.flow, 1, top.resp),
           NEW l \in Lines, l.kind = Head(s), PromptLine(l)
    PROVE  Follows(top, s, l)
<1>1. loop = Phases(top.flow)[1]
  BY DEF loop
<1>2. top.flow \in {"submit", "socket", "publish"}
  BY <1>1, LoopTable, LoopFields DEF IsLoop, AllFlows
<1>3. s \in Errors \cup {<<"PROMPT">>, <<"OK">>}
  BY <1>2 DEF Owed, Answers, AnswerTable, AtPrompt
<1>4. \/ l.kind = "BLANK"
      \/ l.kind = "PROMPT" /\ Done(top, "OK", l)
      \/ ErrorTerminal(l) /\ l.kind \in ErrorKind
      \/ l.kind = "OK" /\ Done(top, "PARSE", l)
      \/ IsOther(l) /\ l.kind # "PROMPT"
  BY DEF PromptLine, Skip, ErrorTerminal
<1>5. CASE s \in Errors
  <2>1. l.kind \in ErrorKind /\ s = <<l.kind>>
    BY <1>5 DEF Errors
  <2>2. ErrorTerminal(l)
    BY <1>4, <2>1 DEF IsOther, ErrorKind
  <2> QED
    BY <2>1, <2>2, ErrorFollows
<1>6. CASE s = <<"OK">>
  <2>1. l.kind = "OK"
    BY <1>6
  <2>2. Done(top, "PARSE", l) /\ NextStep(top, "PARSE") = 0
    BY <1>2, <1>4, <2>1 DEF IsOther, ErrorKind, NextStep
  <2> QED
    BY <1>6, <2>2, LastLine DEF Status, GaveUp
<1>7. CASE s = <<"PROMPT">>
  <2>1. l.kind = "PROMPT"
    BY <1>7
  <2>2. Done(top, "OK", l)
    BY <1>4, <2>1 DEF IsOther, ErrorKind
  <2>3. NextStep(top, "OK") = 2 /\ Tail(s) = <<>>
    BY <1>2, <1>7, LoopTable DEF NextStep, AllFlows
  <2>4. <<>> \in Owed(top.flow, 2, top.resp)
    BY <1>2 DEF Owed, Gated
  <2>5. AtGate(top.flow, 1, s) /\ AtGate(top.flow, 2, <<>>)
    BY <1>2, <1>7 DEF AtGate, Gated
  <2>6. /\ Tail(s) \in Owed(top.flow, NextStep(top, "OK"), top.resp)
        /\ AtGate(top.flow, top.step, s)
        /\ AtGate(top.flow, NextStep(top, "OK"), Tail(s))
    BY <2>3, <2>4, <2>5
  <2>7. MovesOn(top, s, "OK", l)
    BY <2>2, <2>3, <2>6 DEF MovesOn
  <2> QED
    BY <2>7 DEF Follows
<1> QED
  BY <1>3, <1>5, <1>6, <1>7

-----------------------------------------------------------------------------
(* What a step of the running call leaves behind *)

QuietStep ==
    (depth' < depth /\ last'.clean /\ last'.st \notin GaveUp
        /\ ~last'.ignored) => Quiet'

Kept == CleanInStep' /\ OwnReply' /\ QuietStep

\* In the next state the stream holds what the module owes to frame k.
InStepNext(k) ==
    \E s \in Owed(k.flow, k.step, k.resp) :
        /\ replies' = Stamp(s, k.id)
        /\ modem' = IF AtGate(k.flow, k.step, s)
                    THEN PayloadMode(k.flow, k.id) ELSE CommandMode

\* The running call goes on as frame k.
LEMMA KeptGoes ==
    ASSUME StackType, CleanInStep, OwnReply, depth > 0,
           NEW k \in FrameType, ~k.ignored,
           k.clean => k.flow # "poll" /\ InStepNext(k) /\ OwnResponse(k),
           frame' = [frame EXCEPT ![depth] = k], UNCHANGED <<depth, last>>
    PROVE  Kept
<1>1. depth \in 1..MaxDepth /\ frame \in [1..MaxDepth -> FrameType]
  BY TopType DEF StackType
<1>2. OwnReply' /\ QuietStep
  BY <1>1 DEF OwnReply, QuietStep, OwnResponse
<1>3. ASSUME NEW d \in 1..depth, d # depth
      PROVE  ~frame'[d].ignored /\ ~frame'[d].clean
  BY <1>1, <1>3 DEF CleanInStep
<1>4. frame'[depth] = k
  BY <1>1
<1>5. k.clean => InStep(frame[depth])' /\ OwnResponse(frame'[depth])
  BY <1>4 DEF InStepNext, InStep, Owes
<1> QED
  BY <1>2, <1>3, <1>4, <1>5 DEF Kept, CleanInStep

\* The running call returns.
LEMMA KeptReturns ==
    ASSUME StackType, CleanInStep, depth > 0,
           depth' = depth - 1, frame' = [frame EXCEPT ![depth] = NoFrame],
           OwnReply', QuietStep
    PROVE  Kept
<1>1. depth \in 1..MaxDepth /\ frame \in [1..MaxDepth -> FrameType]
  BY TopType DEF StackType
<1>2. ASSUME NEW d \in 1..depth'
      PROVE  ~frame'[d].ignored /\ ~frame'[d].clean
  <2>1. d \in 1..depth /\ d # depth /\ frame'[d] = frame[d]
    BY <1>1
  <2> QED
    BY <2>1 DEF CleanInStep
<1> QED
  BY <1>2 DEF Kept, CleanInStep

\* A return or a move to the next loop, field by field.
LEMMA DoneFields ==
    ASSUME StackType, depth > 0, NEW f, Call(f), NEW st \in Status,
           NEW by \in Lines, Done(f, st, by)
    PROVE  /\ NextStep(f, st) = 0 =>
                /\ depth' = depth - 1
                /\ frame' = [frame EXCEPT ![depth] = NoFrame]
                /\ last'.clean = f.clean /\ last'.flow = f.flow
                /\ last'.id = f.id /\ last'.resp = f.resp /\ last'.by = by
                /\ last'.st = IF Ignored(f) THEN "OK" ELSE st
                /\ last'.ignored <=> f.ignored \/ (Ignored(f) /\ st # "OK")
           /\ NextStep(f, st) # 0 =>
                /\ UNCHANGED <<depth, last>>
                /\ \E k \in FrameType :
                     /\ frame' = [frame EXCEPT ![depth] = k]
                     /\ k.flow = f.flow /\ k.step = NextStep(f, st)
                     /\ k.id = f.id /\ k.resp = f.resp /\ k.clean = f.clean
                     /\ k.ignored <=> f.ignored
<1> DEFINE n == NextStep(f, st)
           ig == f.ignored \/ (Ignored(f) /\ st # "OK")
           g == [f EXCEPT !.ignored = ig]
           k == [g EXCEPT !.step = n, !.lines = 0]
<1>1. f.flow \in AllFlows \cup {"poll"} /\ f \in FrameType /\ f.step \in 1..4
  BY FlowsAssumption DEF Call, FrameType
<1>2. n # 0 => n \in 1..4 /\ ~Ignored(f)
  <2>1. n \in 0..Steps(f.flow) /\ Steps(f.flow) \in 1..4
    BY <1>1, NextStepType, PhasesType
  <2> QED
    BY <2>1 DEF NextStep, Ignored
<1>3. IF n = 0 THEN Return(g, IF Ignored(f) THEN "OK" ELSE st, by)
      ELSE frame' = [frame EXCEPT ![depth] = k] /\ UNCHANGED <<depth, last>>
  BY <1>1 DEF Done, FrameType
<1>4. ig \in BOOLEAN /\ 0 \in 0..MaxLines
  BY <1>1, BoundsAssumption DEF Ignored, FrameType
<1> HIDE DEF n, ig
<1>5. /\ g.flow = f.flow /\ g.id = f.id /\ g.resp = f.resp
      /\ g.clean = f.clean /\ g.ignored = ig /\ g \in FrameType
  BY <1>1, <1>4 DEF FrameType
<1>6. n # 0 => /\ k \in FrameType /\ k.flow = f.flow /\ k.step = n
               /\ k.id = f.id /\ k.resp = f.resp /\ k.clean = f.clean
               /\ k.ignored = ig
  BY <1>1, <1>2, <1>4 DEF FrameType
<1> HIDE DEF g, k
<1>7. CASE n = 0
  <2>1. Return(g, IF Ignored(f) THEN "OK" ELSE st, by)
    BY <1>3, <1>7
  <2>2. last' = Result(g, IF Ignored(f) THEN "OK" ELSE st, by)
    BY <2>1 DEF Return
  <2>3. /\ last'.clean = f.clean /\ last'.flow = f.flow
        /\ last'.id = f.id /\ last'.resp = f.resp /\ last'.by = by
        /\ last'.st = IF Ignored(f) THEN "OK" ELSE st
        /\ last'.ignored = ig
    BY <2>2, <1>5 DEF Result
  <2> QED
    BY <1>7, <2>1, <2>3 DEF Return, n, ig
<1>8. CASE n # 0
  <2>1. ig <=> f.ignored
    BY <1>2, <1>8 DEF ig
  <2> QED
    BY <1>3, <1>6, <1>8, <2>1 DEF n
<1> QED
  BY <1>7, <1>8

\* Going on with a loop, field by field.
LEMMA ContinueFields ==
    ASSUME StackType, depth > 0, NEW f, Call(f),
           loop.loop # "prompt" => f.lines < MaxLines,
           NEW h \in BOOLEAN, Continue(f, h)
    PROVE  /\ UNCHANGED <<depth, last>>
           /\ \E k \in FrameType :
                /\ frame' = [frame EXCEPT ![depth] = k]
                /\ k.flow = f.flow /\ k.step = f.step
                /\ k.id = f.id /\ k.resp = f.resp /\ k.clean = f.clean
                /\ k.ignored <=> f.ignored
<1> DEFINE n == IF loop.loop = "prompt" THEN 0 ELSE f.lines + 1
           k == [f EXCEPT !.inHandler = h, !.lines = n]
<1>1. n \in 0..MaxLines
  BY BoundsAssumption DEF Call, FrameType
<1>2. frame' = [frame EXCEPT ![depth] = k] /\ UNCHANGED <<depth, last>>
  BY DEF Continue
<1> HIDE DEF n
<1>3. /\ k \in FrameType /\ k.flow = f.flow /\ k.step = f.step
      /\ k.id = f.id /\ k.resp = f.resp /\ k.clean = f.clean
      /\ k.ignored = f.ignored
  BY <1>1 DEF Call, FrameType
<1> HIDE DEF k
<1> QED
  BY <1>2, <1>3

\* A frame whose loop took a line: the fields that matter are the running
\* call's, but for a response that is a line of its own.
Took(g) == /\ Call(g) /\ g.flow = top.flow /\ g.step = top.step
           /\ g.id = top.id /\ g.clean = top.clean /\ g.lines = top.lines
           /\ g.ignored <=> top.ignored

\* The running call is typed, has ignored no status, and if it is clean it is
\* in step with the module.
LEMMA TopIsCall ==
    ASSUME StackType, CleanInStep, depth > 0
    PROVE  /\ Took(top) /\ ~top.ignored
           /\ top.clean => /\ top.flow \in AllFlows \ {"poll"}
                           /\ OwnResponse(top)
                           /\ InStep(top)
<1>1. depth \in 1..depth /\ Call(top)
  BY TopType
<1>2. /\ ~top.ignored
      /\ top.clean => top.flow # "poll" /\ OwnResponse(top) /\ InStep(top)
  BY <1>1 DEF CleanInStep, top
<1>3. top.flow # "poll" => top.flow \in AllFlows
  BY <1>1, FlowsAssumption DEF Call, FrameType
<1> QED
  BY <1>1, <1>2, <1>3 DEF Took

\* A disturbed call promises nothing.
LEMMA DisturbedContinue ==
    ASSUME StackType, CleanInStep, OwnReply, depth > 0, ~top.clean,
           NEW g, Took(g), loop.loop # "prompt" => g.lines < MaxLines,
           NEW h \in BOOLEAN, Continue(g, h)
    PROVE  Kept
<1>1. Call(g) /\ ~g.clean /\ ~g.ignored
  BY TopIsCall DEF Took
<1>2. PICK k \in FrameType :
            /\ frame' = [frame EXCEPT ![depth] = k]
            /\ k.clean = g.clean
            /\ k.ignored <=> g.ignored
  BY <1>1, ContinueFields
<1>3. UNCHANGED <<depth, last>>
  BY <1>1, ContinueFields
<1>4. ~k.clean /\ ~k.ignored
  BY <1>1, <1>2
<1> QED
  BY <1>2, <1>3, <1>4, KeptGoes

\* The end of a loop of a call that is not clean keeps the invariant.
LEMMA DisturbedDone ==
    ASSUME StackType, CleanInStep, OwnReply, depth > 0, ~top.clean,
           NEW g, Took(g), NEW st \in Status, NEW by \in Lines, Done(g, st, by)
    PROVE  Kept
<1>1. Call(g) /\ ~g.clean /\ ~g.ignored
  BY TopIsCall DEF Took
<1>2. CASE NextStep(g, st) = 0
  <2>1. /\ depth' = depth - 1 /\ frame' = [frame EXCEPT ![depth] = NoFrame]
        /\ ~last'.clean
    BY <1>1, <1>2, DoneFields
  <2> QED
    BY <2>1, KeptReturns DEF OwnReply, QuietStep
<1>3. CASE NextStep(g, st) # 0
  <2>1. PICK k \in FrameType :
            /\ frame' = [frame EXCEPT ![depth] = k]
            /\ k.clean = g.clean
            /\ k.ignored <=> g.ignored
    BY <1>1, <1>3, DoneFields
  <2>2. UNCHANGED <<depth, last>>
    BY <1>1, <1>3, DoneFields
  <2>3. ~k.clean /\ ~k.ignored
    BY <1>1, <2>1
  <2> QED
    BY <2>1, <2>2, <2>3, KeptGoes
<1> QED
  BY <1>2, <1>3

\* A call that gives up promises nothing, but for the trailing wait of
\* send_await_urc, whose failure the call does not report.
LEMMA GaveUpKept ==
    ASSUME StackType, CleanInStep, OwnReply, depth > 0,
           NEW st \in GaveUp, Done(top, st, NoLine)
    PROVE  Kept
<1>1. st \in Status /\ st # "OK" /\ NoLine \in Lines
  BY DEF GaveUp, Status, NoLine, Line, Lines
<1>2. Call(top) /\ ~top.ignored
  BY TopIsCall DEF Took
<1>3. NextStep(top, st) = 0
  BY DEF NextStep, GaveUp
<1>4. /\ depth' = depth - 1 /\ frame' = [frame EXCEPT ![depth] = NoFrame]
      /\ last'.clean = top.clean /\ last'.flow = top.flow
      /\ last'.id = top.id /\ last'.resp = top.resp /\ last'.by = NoLine
      /\ last'.st = IF Ignored(top) THEN "OK" ELSE st
      /\ last'.ignored <=> Ignored(top)
  BY <1>1, <1>2, <1>3, DoneFields
<1>5. last'.clean => OwnResponse(last')
  BY <1>4, TopIsCall DEF OwnResponse
<1>6. OwnReply'
  BY <1>4, <1>5 DEF OwnReply, OwnResponse
<1>7. QuietStep
  BY <1>4 DEF QuietStep
<1> QED
  BY <1>4, <1>6, <1>7, KeptReturns

\* The running call is clean and owed script `s'.
Awaits(s) ==
    /\ top.clean /\ s \in Owed(top.flow, top.step, top.resp) /\ s # <<>>
    /\ Owes(top.flow, top.step, top.resp, top.id, s)
    /\ replies' = Tail(replies) /\ modem' = modem

\* A clean call that reads the head of its script leaves its tail in the stream.
LEMMA AwaitsRest ==
    ASSUME StackType, CleanInStep, depth > 0, NEW s, Awaits(s)
    PROVE  /\ s \in Seq(ReplyKind) /\ top.id \in Nat
           /\ replies # <<>> /\ Head(replies) = Line(Head(s), top.id)
           /\ replies' = Stamp(Tail(s), top.id)
           /\ modem' = IF AtGate(top.flow, top.step, s)
                       THEN PayloadMode(top.flow, top.id) ELSE CommandMode
<1>1. top.flow \in AllFlows /\ top.step \in 1..4 /\ top.id \in Nat
  BY TopIsCall DEF Took, Call, FrameType, Awaits
<1>2. s \in Seq(ReplyKind)
  BY <1>1, OwedType DEF Awaits
<1>3. replies = Stamp(s, top.id) /\ s # <<>> /\ replies' = Tail(replies)
  BY Zenon DEF Awaits, Owes
<1>4. /\ Stamp(s, top.id) # <<>> /\ Head(Stamp(s, top.id)) = Line(Head(s), top.id)
      /\ Tail(Stamp(s, top.id)) = Stamp(Tail(s), top.id)
  BY <1>1, <1>2, <1>3, StampTail
<1>5. modem' = IF AtGate(top.flow, top.step, s)
               THEN PayloadMode(top.flow, top.id) ELSE CommandMode
  BY Zenon DEF Awaits, Owes
<1> QED
  BY <1>1, <1>2, <1>3, <1>4, <1>5, Zenon

\* A clean call whose loop goes on after a line of its script stays in step.
LEMMA ScriptGoes ==
    ASSUME StackType, CleanInStep, OwnReply, depth > 0, NEW s, Awaits(s),
           NEW g, Took(g), OwnResponse(g),
           loop.loop # "prompt" => g.lines < MaxLines, GoesOn(g, s)
    PROVE  Kept
<1>1. PICK h \in BOOLEAN : Continue(g, h)
  BY DEF GoesOn
<1>2. Call(g) /\ ~g.ignored /\ g.flow # "poll"
  BY TopIsCall DEF Took, Awaits
<1>3. PICK k \in FrameType :
            /\ frame' = [frame EXCEPT ![depth] = k]
            /\ k.flow = g.flow /\ k.step = g.step
            /\ k.id = g.id /\ k.resp = g.resp /\ k.clean = g.clean
            /\ k.ignored <=> g.ignored
  BY <1>1, <1>2, ContinueFields
<1>4. UNCHANGED <<depth, last>>
  BY <1>1, <1>2, ContinueFields
<1>5. InStepNext(k)
  BY <1>3, AwaitsRest DEF InStepNext, GoesOn, Took
<1>6. OwnResponse(k)
  BY <1>3 DEF OwnResponse
<1> QED
  BY <1>2, <1>3, <1>4, <1>5, <1>6, KeptGoes

\* A clean call that enters its next loop is in step with the module there.
LEMMA ScriptMoves ==
    ASSUME StackType, CleanInStep, OwnReply, depth > 0, NEW s, Awaits(s),
           NEW g, Took(g), OwnResponse(g),
           NEW st \in Status, NEW by \in Lines, MovesOn(g, s, st, by)
    PROVE  Kept
<1>1. Call(g) /\ ~g.ignored /\ g.flow # "poll"
  BY TopIsCall DEF Took, Awaits
<1>2. NextStep(g, st) = NextStep(top, st) /\ NextStep(g, st) # 0
  BY DEF Took, NextStep, MovesOn
<1>3. Done(g, st, by)
  BY DEF MovesOn
<1>4. PICK k \in FrameType :
            /\ frame' = [frame EXCEPT ![depth] = k]
            /\ k.flow = g.flow /\ k.step = NextStep(g, st)
            /\ k.id = g.id /\ k.resp = g.resp /\ k.clean = g.clean
            /\ k.ignored <=> g.ignored
  BY <1>1, <1>2, <1>3, DoneFields
<1>5. UNCHANGED <<depth, last>>
  BY <1>1, <1>2, <1>3, DoneFields
<1>6. InStepNext(k)
  BY <1>2, <1>4, AwaitsRest DEF InStepNext, MovesOn, Took
<1>7. OwnResponse(k)
  BY <1>4 DEF OwnResponse
<1> QED
  BY <1>1, <1>4, <1>5, <1>6, <1>7, KeptGoes

\* A clean call that returns on a line of its script was answered by it, and
\* leaves the channel quiet.
LEMMA ScriptEnds ==
    ASSUME StackType, CleanInStep, OwnReply, depth > 0, NEW s, Awaits(s),
           NEW g, Took(g), OwnResponse(g), NEW st \in Status,
           NEW by \in Lines, by.id = top.id, Ends(g, s, st, by)
    PROVE  Kept
<1>1. Call(g) /\ ~g.ignored
  BY TopIsCall DEF Took, Awaits
<1>2. NextStep(g, st) = 0
  BY DEF Took, NextStep, Ends
<1>3. Done(g, st, by)
  BY DEF Ends
<1>4. /\ depth' = depth - 1 /\ frame' = [frame EXCEPT ![depth] = NoFrame]
      /\ last'.clean = g.clean /\ last'.flow = g.flow
      /\ last'.id = g.id /\ last'.resp = g.resp /\ last'.by = by
  BY <1>1, <1>2, <1>3, DoneFields
<1>5. OwnResponse(last')
  BY <1>4 DEF OwnResponse
<1>6. OwnReply'
  BY <1>4, <1>5 DEF OwnReply, OwnResponse, Took
<1>7. Quiet'
  <2>1. replies' = <<>>
    BY AwaitsRest, StampEmpty DEF Ends
  <2>2. modem' = CommandMode
    BY AwaitsRest DEF Ends
  <2> QED
    BY <2>1, <2>2 DEF Quiet, CommandMode
<1> QED
  BY <1>4, <1>6, <1>7, KeptReturns DEF QuietStep

-----------------------------------------------------------------------------
(* Every step of a call *)

\* Storing a line in the response keeps the frame typed; the response is the
\* call's own if the line is.
LEMMA GotTook ==
    ASSUME StackType, CleanInStep, depth > 0, NEW l \in Lines
    PROVE  /\ Took([top EXCEPT !.resp = l])
           /\ OwnResponse([top EXCEPT !.resp = l]) <=>
                 (l # NoLine => l.id = top.id \/ (top.flow = "send" /\ l.id = 0))
BY TopType DEF Took, Call, FrameType, OwnResponse

\* In a call that is not clean a line leads nowhere special.
LEMMA DisturbedHandle ==
    ASSUME StackType, ErrKindType, CleanInStep, OwnReply, depth > 0, ~top.clean,
           NEW l \in Lines, Handle(l)
    PROVE  Kept
<1> DEFINE got == [top EXCEPT !.resp = l]
           listens == l.kind \in registered
<1>1. Took(top) /\ Took(got) /\ got.lines = top.lines
  BY TopIsCall, GotTook DEF Took
<1>2. loop.loop # "prompt" => top.lines < MaxLines
  BY DEF Handle, Capped
<1>3. listens \in BOOLEAN
  OBVIOUS
<1> HIDE DEF got, listens
<1>4. ASSUME NEW h \in BOOLEAN, Continue(top, h) PROVE Kept
  BY <1>1, <1>2, <1>4, DisturbedContinue
<1>5. ASSUME Continue(got, FALSE) PROVE Kept
  BY <1>1, <1>2, <1>5, DisturbedContinue
<1>6. ASSUME NEW st \in Status, Done(top, st, l) PROVE Kept
  BY <1>1, <1>6, DisturbedDone
<1>7. ASSUME Done(got, "OK", l) PROVE Kept
  BY <1>1, <1>7, DisturbedDone DEF Status
<1>8. CASE ErrorTerminal(l)
  <2>1. Mapped \in Status /\ Done(top, Mapped, l)
    BY <1>8 DEF ErrKindType, ErrorTerminal, RecordError, Mapped, Status
  <2> QED
    BY <1>6, <2>1
<1>9. CASE Skip(l) \/ Dispatch(l)
  <2>1. Continue(top, FALSE) \/ Continue(top, listens)
    BY <1>9 DEF Skip, Dispatch, listens
  <2> QED
    BY <1>3, <1>4, <2>1
<1>10. "OK" \in Status /\ "PARSE" \in Status
  BY DEF Status
<1>11. CASE RecvLine(l)
  <2>1. \/ Skip(l) \/ ErrorTerminal(l)
        \/ Done(got, "OK", l) \/ Done(top, "PARSE", l) \/ Done(top, "OK", l)
        \/ Continue(got, FALSE) \/ Continue(top, listens)
    BY <1>11 DEF RecvLine, got, listens
  <2> QED
    BY <1>3, <1>4, <1>5, <1>6, <1>7, <1>8, <1>9, <1>10, <2>1
<1>12. CASE PrefixLine(l)
  BY <1>4, <1>7, <1>8, <1>9, <1>12 DEF PrefixLine, got
<1>13. CASE FinalLine(l)
  BY <1>6, <1>8, <1>9, <1>10, <1>13 DEF FinalLine
<1>14. CASE PromptLine(l)
  BY <1>6, <1>8, <1>9, <1>10, <1>14 DEF PromptLine
<1>15. CASE PollLine(l)
  BY <1>4, <1>9, <1>15 DEF PollLine
<1> QED
  BY <1>11, <1>12, <1>13, <1>14, <1>15 DEF Handle

\* A line of the reply takes a clean call one step further in its script.
LEMMA ReplyKept ==
    ASSUME StackType, ErrKindType, CleanInStep, OwnReply, depth > 0, top.clean,
           replies # <<>>, Handle(Head(replies)),
           replies' = Tail(replies), modem' = modem
    PROVE  Kept
<1>1. PICK s \in Owed(top.flow, top.step, top.resp) :
            Owes(top.flow, top.step, top.resp, top.id, s)
  BY TopIsCall DEF InStep
<1>2. /\ top.flow \in AllFlows \ {"poll"} /\ top.step \in 1..4
      /\ top.id \in Nat /\ top.step <= Steps(top.flow)
  BY TopIsCall DEF Took, Call, FrameType
<1>3. s # <<>>
  BY <1>1, <1>2, StampEmpty DEF Owes
<1>4. Awaits(s)
  BY <1>1, <1>3 DEF Awaits
<1> DEFINE l == Head(replies)
           got == [top EXCEPT !.resp = l]
<1>5. l = Line(Head(s), top.id) /\ s \in Seq(ReplyKind)
  BY <1>4, AwaitsRest
<1>6. l \in Lines /\ l.kind = Head(s) /\ l.id = top.id /\ Handle(l)
  <2>1. Head(s) \in ReplyKind
    BY <1>3, <1>5
  <2> QED
    BY <1>2, <1>5, <2>1 DEF Line, Lines
<1> HIDE DEF l
<1>7. loop.loop # "prompt" => top.lines < MaxLines
  BY <1>6 DEF Handle, Capped
<1>8. /\ Took(top) /\ OwnResponse(top)
      /\ Took(got) /\ OwnResponse(got)
  BY <1>6, TopIsCall, GotTook
<1>9. got.lines = top.lines
  BY <1>8 DEF Took
<1> HIDE DEF got
<1>10. ASSUME NEW g \in {top, got}, Follows(g, s, l) PROVE Kept
  <2>1. Took(g) /\ OwnResponse(g) /\ (loop.loop # "prompt" => g.lines < MaxLines)
    BY <1>7, <1>8, <1>9
  <2>2. CASE GoesOn(g, s)
    BY <1>4, <2>1, <2>2, ScriptGoes
  <2>3. ASSUME NEW st \in {"OK", "PARSE"}, MovesOn(g, s, st, l) PROVE Kept
    <3>1. st \in Status
      BY DEF Status
    <3> QED
      BY <1>4, <1>6, <2>1, <2>3, <3>1, ScriptMoves
  <2>4. ASSUME NEW st \in Status, Ends(g, s, st, l) PROVE Kept
    BY <1>4, <1>6, <2>1, <2>4, ScriptEnds
  <2> QED
    BY <1>10, <2>2, <2>3, <2>4 DEF Follows
<1>11. Follows(top, s, l) \/ Follows(got, s, l)
  <2>1. /\ loop = Phases(top.flow)[top.step]
        /\ top.step \in 1..Steps(top.flow)
    <3>1. Steps(top.flow) \in 1..4
      BY <1>2, PhasesType
    <3> QED
      BY <1>2, <3>1 DEF loop
  <2>2. loop.loop = "recv" => top.step = 1
    BY <1>2, <2>1, LoopTable, LoopFields DEF IsLoop, AllFlows
  <2>3. loop.loop = "prompt" => top.step = 1
    BY <1>2, <2>1, LoopTable, LoopFields DEF IsLoop, AllFlows
  <2>4. loop.loop \in {"prefix", "final"} => top.step \in 2..4
    BY <1>2, <2>1, LoopTable, LoopFields DEF IsLoop, AllFlows
  <2>5. loop.loop # "poll"
    BY <1>2, <2>1, LoopTable, LoopFields DEF IsLoop, AllFlows
  <2>6. CASE loop.loop = "recv" /\ RecvLine(l)
    BY <1>1, <1>2, <1>6, <2>2, <2>6, RecvFollows DEF got
  <2>7. CASE loop.loop = "prefix" /\ PrefixLine(l)
    BY <1>1, <1>2, <1>3, <1>6, <2>4, <2>7, PrefixFollows DEF got
  <2>8. CASE loop.loop = "final" /\ FinalLine(l)
    BY <1>1, <1>2, <1>3, <1>6, <2>4, <2>8, FinalFollows
  <2>9. CASE loop.loop = "prompt" /\ PromptLine(l)
    BY <1>1, <1>2, <1>6, <2>3, <2>9, PromptFollows
  <2> QED
    BY <1>6, <2>5, <2>6, <2>7, <2>8, <2>9 DEF Handle
<1> QED
  BY <1>10, <1>11

\* A line nobody asked for is passed over by a clean call; a plain send takes
\* it for its response.
LEMMA UnaskedGoes ==
    ASSUME UrcsApart, StackType, CleanInStep, depth > 0, top.clean,
           NEW k \in Unasked, Handle(Line(k, 0))
    PROVE  \/ \E h \in BOOLEAN : Continue(top, h)
           \/ /\ top.flow = "send" /\ top.step = 1
              /\ Continue([top EXCEPT !.resp = Line(k, 0)], FALSE)
<1> DEFINE l == Line(k, 0)
           got == [top EXCEPT !.resp = l]
           listens == l.kind \in registered
<1>1. l.kind = k /\ k \notin ReplyKind /\ k # "none"
  BY UrcAssumption DEF Line, Unasked, UrcsApart, ReplyKind, ErrorKind
<1>2. /\ top.flow \in AllFlows \ {"poll"}
      /\ loop = Phases(top.flow)[top.step]
      /\ top.step \in 1..Steps(top.flow)
  <2>1. top.step \in 1..4 /\ top.step <= Steps(top.flow)
    BY TopIsCall DEF Took, Call, FrameType
  <2>2. top.flow \in AllFlows \ {"poll"}
    BY TopIsCall
  <2>3. Steps(top.flow) \in 1..4
    BY <2>2, PhasesType
  <2> QED
    BY <2>1, <2>2, <2>3 DEF loop
<1>3. /\ loop.pfx \in {"none", "RESULT", "CONNECT"}
      /\ loop.loop = "recv" /\ loop.pfx = "none" =>
            top.flow = "send" /\ top.step = 1
      /\ loop.loop = "prefix" => loop.pfx = "RESULT"
  BY <1>2, LoopTable, LoopFields DEF IsLoop, AllFlows
<1>4. loop.loop # "poll"
  BY <1>2, LoopTable, LoopFields DEF IsLoop, AllFlows
<1>5. listens \in BOOLEAN
  OBVIOUS
<1>6. /\ Handle(l) /\ l.kind # loop.pfx /\ l.kind # "OK" /\ l.kind # "PROMPT"
      /\ l.kind \notin ErrorKind
  BY <1>1, <1>3 DEF ReplyKind, ErrorKind
<1> HIDE DEF l, got, listens
<1>7. \/ Skip(l) \/ Dispatch(l) \/ Continue(top, listens)
      \/ loop.loop = "recv" /\ loop.pfx = "none" /\ Continue(got, FALSE)
  <2>1. CASE RecvLine(l) /\ loop.loop = "recv"
    BY <1>6, <2>1 DEF RecvLine, Accumulates, ErrorTerminal, got, listens
  <2>2. CASE PrefixLine(l)
    BY <1>6, <2>2 DEF PrefixLine, ErrorTerminal
  <2>3. CASE FinalLine(l)
    BY <1>6, <2>3 DEF FinalLine, ErrorTerminal
  <2>4. CASE PromptLine(l)
    BY <1>6, <2>4 DEF PromptLine, ErrorTerminal
  <2> QED
    BY <1>4, <1>6, <2>1, <2>2, <2>3, <2>4 DEF Handle
<1>8. \/ \E h \in BOOLEAN : Continue(top, h)
      \/ /\ top.flow = "send" /\ top.step = 1 /\ Continue(got, FALSE)
  BY <1>3, <1>5, <1>7 DEF Skip, Dispatch, listens
<1> QED
  BY <1>8 DEF got, l

\* An unsolicited or blank line, in any loop, keeps the invariant.
LEMMA UnaskedKept ==
    ASSUME UrcsApart, StackType, CleanInStep, OwnReply, depth > 0, top.clean,
           NEW k \in Unasked, Handle(Line(k, 0)), UNCHANGED <<replies, modem>>
    PROVE  Kept
<1> DEFINE l == Line(k, 0)
           got == [top EXCEPT !.resp = l]
<1>1. l \in Lines /\ l.id = 0
  BY DEF Line, Lines
<1>2. loop.loop # "prompt" => top.lines < MaxLines
  BY DEF Handle, Capped
<1>3. Took(top) /\ Took(got) /\ top.flow # "poll" /\ OwnResponse(top)
  BY <1>1, TopIsCall, GotTook
<1>4. PICK s \in Owed(top.flow, top.step, top.resp) :
            Owes(top.flow, top.step, top.resp, top.id, s)
  BY TopIsCall DEF InStep
<1>5. top.flow = "send" => OwnResponse(got)
  BY <1>1, GotTook
<1>6. got.resp = l
  BY <1>3 DEF Took, Call, FrameType
<1>7. got.lines = top.lines
  BY <1>3 DEF Took
<1> HIDE DEF l, got
<1>8. ASSUME NEW g, Took(g), OwnResponse(g), g.lines = top.lines,
             s \in Owed(top.flow, top.step, g.resp),
             NEW h \in BOOLEAN, Continue(g, h)
      PROVE  Kept
  <2>1. Call(g) /\ ~g.ignored /\ g.flow # "poll"
    BY <1>3, <1>8, TopIsCall DEF Took
  <2>2. PICK j \in FrameType :
            /\ frame' = [frame EXCEPT ![depth] = j]
            /\ j.flow = g.flow /\ j.step = g.step
            /\ j.id = g.id /\ j.resp = g.resp /\ j.clean = g.clean
            /\ j.ignored <=> g.ignored
    BY <1>2, <1>8, <2>1, ContinueFields
  <2>3. UNCHANGED <<depth, last>>
    BY <1>2, <1>8, <2>1, ContinueFields
  <2>4. InStepNext(j)
    BY <1>4, <1>8, <2>2 DEF InStepNext, Owes, Took
  <2>5. OwnResponse(j)
    BY <1>8, <2>2 DEF OwnResponse
  <2> QED
    BY <2>1, <2>2, <2>3, <2>4, <2>5, KeptGoes
<1>9. CASE \E h \in BOOLEAN : Continue(top, h)
  BY <1>3, <1>4, <1>8, <1>9
<1>10. CASE top.flow = "send" /\ top.step = 1 /\ Continue(got, FALSE)
  <2>1. s \in Owed(top.flow, top.step, got.resp)
    BY <1>4, <1>10 DEF Owed
  <2> QED
    BY <1>3, <1>5, <1>7, <1>8, <1>10, <2>1
<1> QED
  BY <1>9, <1>10, UnaskedGoes DEF got, l

\* The payload of ec200_at_read_exact is the one announced.
LEMMA PayloadKept ==
    ASSUME StackType, CleanInStep, OwnReply, depth > 0,
           loop.loop = "exact", replies # <<>>, Head(replies) \in Lines,
           replies' = Tail(replies), modem' = modem,
           Done(top, "OK", Head(replies))
    PROVE  Kept
<1> DEFINE l == Head(replies)
<1>1. "OK" \in Status /\ l \in Lines /\ Done(top, "OK", l) /\ Took(top)
  BY TopIsCall DEF Status
<1> HIDE DEF l
<1>2. CASE ~top.clean
  BY <1>1, <1>2, DisturbedDone
<1>3. CASE top.clean
  <2>1. PICK s \in Owed(top.flow, top.step, top.resp) :
            Owes(top.flow, top.step, top.resp, top.id, s)
    BY <1>3, TopIsCall DEF InStep
  <2>2. top.flow = "data" /\ top.step = 2
    <3>1. top.flow \in AllFlows \ {"poll"} /\ top.step \in 1..4
          /\ top.step <= Steps(top.flow)
      BY <1>3, TopIsCall DEF Took, Call, FrameType
    <3>2. Steps(top.flow) \in 1..4 /\ loop = Phases(top.flow)[top.step]
      BY <3>1, PhasesType DEF loop
    <3>3. top.step \in 1..Steps(top.flow)
      BY <3>1, <3>2
    <3> QED
      BY <3>1, <3>2, <3>3, LoopTable, LoopFields DEF IsLoop, AllFlows
  <2>3. s = <<"DATA", "OK">>
    BY <2>1, <2>2 DEF Owed, Gated
  <2>4. Awaits(s)
    BY <1>3, <2>1, <2>3 DEF Awaits
  <2>5. NextStep(top, "OK") = 3
    BY <2>2, LoopTable DEF NextStep, AllFlows
  <2>6. Tail(s) = <<"OK">> /\ <<"OK">> \in Owed(top.flow, 3, top.resp)
    BY <2>2, <2>3 DEF Owed, Gated
  <2>7. ~AtGate(top.flow, top.step, s) /\ ~AtGate(top.flow, 3, Tail(s))
    BY <2>2 DEF AtGate, Gated
  <2>8. /\ Tail(s) \in Owed(top.flow, NextStep(top, "OK"), top.resp)
        /\ ~AtGate(top.flow, top.step, s)
        /\ ~AtGate(top.flow, NextStep(top, "OK"), Tail(s))
    BY <2>5, <2>6, <2>7
  <2>9. MovesOn(top, s, "OK", l)
    BY <1>1, <2>5, <2>8 DEF MovesOn
  <2> QED
    BY <1>1, <1>3, <2>4, <2>9, TopIsCall, ScriptMoves
<1> QED
  BY <1>2, <1>3

\* A clean call that writes its payload writes it to its own command.
LEMMA AtOwnGate ==
    ASSUME StackType, CleanInStep, depth > 0, top.clean, loop.loop = "write"
    PROVE  /\ top.flow \in Gated /\ top.step = 2 /\ replies = <<>>
           /\ modem = PayloadMode(top.flow, top.id)
<1>1. PICK s \in Owed(top.flow, top.step, top.resp) :
            Owes(top.flow, top.step, top.resp, top.id, s)
  BY TopIsCall DEF InStep
<1>2. top.flow \in Gated /\ top.step = 2 /\ top.id \in Nat
  <2>1. /\ top.flow \in AllFlows \ {"poll"} /\ top.step \in 1..4
        /\ top.step <= Steps(top.flow) /\ top.id \in Nat
    BY TopIsCall DEF Took, Call, FrameType
  <2>2. Steps(top.flow) \in 1..4 /\ loop = Phases(top.flow)[top.step]
    BY <2>1, PhasesType DEF loop
  <2>3. top.step \in 1..Steps(top.flow)
    BY <2>1, <2>2
  <2> QED
    BY <2>1, <2>2, <2>3, LoopTable, LoopFields DEF IsLoop, AllFlows, Gated
<1>3. s = <<>>
  BY <1>1, <1>2 DEF Owed
<1>4. AtGate(top.flow, top.step, s)
  BY <1>2 DEF AtGate
<1> QED
  BY <1>1, <1>2, <1>3, <1>4, StampEmpty DEF Owes

\* The answer to the payload of a clean call is what it waits for next.
LEMMA WriteKept ==
    ASSUME ChannelType, StackType, CleanInStep, OwnReply, WritePayload
    PROVE  Kept
<1>1. /\ depth > 0 /\ loop.loop = "write" /\ Done(top, "OK", NoLine)
      /\ Took(top) /\ "OK" \in Status /\ NoLine \in Lines /\ Call(top)
  BY TopIsCall DEF WritePayload, Running, Took, Status, NoLine, Line, Lines
<1>2. CASE ~top.clean
  BY <1>1, <1>2, DisturbedDone
<1>3. CASE top.clean
  <2>1. /\ top.flow \in Gated /\ top.step = 2 /\ replies = <<>>
        /\ modem = PayloadMode(top.flow, top.id) /\ top.id \in Nat
    BY <1>1, <1>3, AtOwnGate DEF Call, FrameType
  <2>2. PICK s \in PayloadAnswers(top.flow) : replies' = replies \o Stamp(s, top.id)
    BY <2>1 DEF WritePayload, PayloadMode
  <2>3. replies' = Stamp(s, top.id) /\ modem' = CommandMode
    <3>1. s \in Seq(ReplyKind)
      BY <2>1, AnswersType DEF Gated, AllFlows
    <3> QED
      BY <2>1, <2>2, <3>1, StampEmpty DEF WritePayload
  <2>4. NextStep(top, "OK") = 3
    BY <2>1, LoopTable DEF NextStep, AllFlows, Gated
  <2>5. PICK k \in FrameType :
            /\ frame' = [frame EXCEPT ![depth] = k]
            /\ k.flow = top.flow /\ k.step = 3
            /\ k.id = top.id /\ k.resp = top.resp /\ k.clean = top.clean
            /\ k.ignored <=> top.ignored
    BY <1>1, <2>4, DoneFields
  <2>6. UNCHANGED <<depth, last>>
    BY <1>1, <2>4, DoneFields
  <2>7. InStepNext(k)
    <3>1. s \in Owed(k.flow, k.step, k.resp)
      BY <2>1, <2>2, <2>5 DEF Owed
    <3>2. ~AtGate(k.flow, k.step, s)
      BY <2>5 DEF AtGate
    <3> QED
      BY <2>3, <2>5, <3>1, <3>2 DEF InStepNext
  <2>8. OwnResponse(k) /\ ~k.ignored /\ k.flow # "poll"
    BY <1>1, <1>3, <2>5, TopIsCall DEF OwnResponse
  <2> QED
    BY <1>1, <2>5, <2>6, <2>7, <2>8, KeptGoes
<1> QED
  BY <1>2, <1>3

\* A command sent on a quiet channel starts a script.
LEMMA PushKept ==
    ASSUME StackType, CleanInStep, NEW f \in FrameType, ~f.ignored,
           f.clean => f.flow # "poll" /\ InStepNext(f) /\ OwnResponse(f),
           Push(f)
    PROVE  Kept
<1>1. /\ depth \in 0..MaxDepth /\ depth < MaxDepth /\ MaxDepth \in Nat
      /\ depth' = depth + 1 /\ last' = NoResult
  BY BoundsAssumption DEF StackType, Push
<1>2. ~last'.clean
  BY <1>1 DEF NoResult, Result, NoFrame, Frame
<1> DEFINE g == [frame[depth] EXCEPT !.mayCall = FALSE, !.clean = FALSE,
                                     !.nested = TRUE]
<1>a. frame' = [d \in 1..MaxDepth |-> IF d = depth + 1 THEN f
                                      ELSE IF d = depth THEN g ELSE frame[d]]
  BY DEF Push
<1>b. depth > 0 => ~g.ignored /\ ~g.clean
  <2>1. depth > 0 => /\ depth \in 1..MaxDepth /\ frame[depth] \in FrameType
                     /\ ~frame[depth].ignored
    BY <1>1 DEF StackType, CleanInStep
  <2> QED
    BY <2>1 DEF FrameType
<1> HIDE DEF g
<1>3. frame'[depth'] = f
  BY <1>1, <1>a
<1>4. ASSUME NEW d \in 1..depth PROVE ~frame'[d].ignored /\ ~frame'[d].clean
  <2>1. d \in 1..MaxDepth /\ d # depth + 1 /\ depth > 0
    BY <1>1
  <2>2. CASE d = depth
    BY <1>a, <1>b, <2>1, <2>2
  <2>3. CASE d # depth
    <3>1. frame'[d] = frame[d]
      BY <1>a, <2>1, <2>3
    <3> QED
      BY <2>3, <3>1 DEF CleanInStep
  <2> QED
    BY <2>2, <2>3
<1>5. f.clean => InStep(frame[depth])' /\ OwnResponse(frame'[depth'])
  BY <1>3 DEF InStepNext, InStep, Owes
<1>6. CleanInStep'
  <2>1. ASSUME NEW d \in 1..depth', d # depth' PROVE d \in 1..depth
    BY <1>1, <2>1
  <2> QED
    BY <1>3, <1>4, <1>5, <2>1 DEF CleanInStep
<1>7. OwnReply' /\ QuietStep
  BY <1>2 DEF OwnReply, QuietStep
<1> QED
  BY <1>6, <1>7 DEF Kept

\* A command sent on a quiet channel starts a call that is in step; any other
\* is not clean.
LEMMA TransmitKept ==
    ASSUME ChannelType, StackType, CleanInStep, nextId \in Nat,
           NEW flow \in Flows, Transmit(flow)
    PROVE  Kept
<1> DEFINE c == Quiet /\ AtRest
           f == Frame(flow, nextId, c)
<1>1. c \in BOOLEAN /\ flow \in AllFlows \ {"poll"}
  BY FlowsAssumption DEF AllFlows, Quiet
<1>2. c => replies = <<>> /\ modem = CommandMode
  BY DEF Quiet
<1>3. Push(f)
  BY DEF Transmit
<1> HIDE DEF c
<1>4. /\ f \in FrameType /\ f.flow = flow /\ f.id = nextId /\ f.clean = c
      /\ f.step = 1 /\ f.resp = NoLine /\ ~f.ignored
  <2>1. NoLine \in Lines
    BY DEF NoLine, Line, Lines
  <2> QED
    BY <1>1, <2>1, BoundsAssumption DEF Frame, FrameType
<1> HIDE DEF f
<1>5. ASSUME c PROVE InStepNext(f)
  <2>1. modem.mode = "command"
    BY <1>2, <1>5 DEF CommandMode
  <2>2. PICK s \in Answers(flow) :
            /\ replies' = replies \o Stamp(s, nextId)
            /\ modem' = IF s \in {<<"PROMPT">>, <<"CONNECT">>}
                        THEN PayloadMode(flow, nextId) ELSE modem
    BY <2>1 DEF Transmit
  <2>3. replies' = Stamp(s, nextId)
    <3>1. s \in Seq(ReplyKind)
      BY <1>1, AnswersType
    <3> QED
      BY <1>2, <1>5, <2>2, <3>1, StampEmpty
  <2>4. s \in Owed(flow, 1, NoLine)
    BY DEF Owed
  <2>5. AtGate(flow, 1, s) <=> s \in {<<"PROMPT">>, <<"CONNECT">>}
    BY DEF AtGate
  <2> QED
    BY <1>2, <1>4, <1>5, <2>2, <2>3, <2>4, <2>5 DEF InStepNext
<1>6. OwnResponse(f)
  BY <1>4 DEF OwnResponse
<1> QED
  BY <1>1, <1>3, <1>4, <1>5, <1>6, PushKept

-----------------------------------------------------------------------------
(* The theorems *)

ReplyInv == TypeOK /\ CleanInStep /\ OwnReply

\* Every step keeps the invariant, and a call that returns undisturbed leaves
\* the channel quiet.
LEMMA StepKept == UrcsApart /\ ReplyInv /\ [Next]_vars => Kept
<1> SUFFICES ASSUME UrcsApart, ReplyInv, [Next]_vars PROVE Kept
  OBVIOUS
<1>1. /\ ChannelType /\ StackType /\ ErrKindType /\ CleanInStep /\ OwnReply
      /\ nextId \in Nat
  BY DEF ReplyInv, TypeOK, ErrKindType
<1>2. ASSUME depth > 0, NEW st \in GaveUp, Done(top, st, NoLine) PROVE Kept
  BY <1>1, <1>2, GaveUpKept
<1>3. ASSUME depth > 0, Done(top, "OK", NoLine), loop.loop = "poll" PROVE Kept
  <2>1. ~top.clean
    <3>1. ASSUME top.flow \in AllFlows PROVE FALSE
      <4>1. /\ top.step \in 1..4 /\ top.step <= Steps(top.flow)
            /\ Steps(top.flow) \in 1..4 /\ loop = Phases(top.flow)[top.step]
        BY <1>1, <1>3, <3>1, TopIsCall, PhasesType
           DEF Took, Call, FrameType, loop
      <4>2. top.step \in 1..Steps(top.flow)
        BY <4>1
      <4> QED
        BY <1>3, <3>1, <4>1, <4>2, LoopTable, LoopFields DEF IsLoop, AllFlows
    <3> QED
      BY <1>1, <1>3, <3>1, TopIsCall
  <2>2. Took(top) /\ "OK" \in Status /\ NoLine \in Lines
    BY <1>1, <1>3, TopIsCall DEF Status, NoLine, Line, Lines
  <2> QED
    BY <1>1, <1>3, <2>1, <2>2, DisturbedDone
<1>4. ASSUME NEW k \in FrameType, frame' = [frame EXCEPT ![depth] = k],
             depth > 0, UNCHANGED <<replies, modem, depth, last>>,
             k.flow = top.flow, k.step = top.step, k.id = top.id,
             k.resp = top.resp, k.clean = top.clean, k.ignored = top.ignored
      PROVE  Kept
  <2>1. ~k.ignored
    BY <1>1, <1>4, TopIsCall
  <2>2. k.clean => k.flow # "poll" /\ InStepNext(k) /\ OwnResponse(k)
    <3>1. k.clean => top.flow # "poll" /\ OwnResponse(top) /\ InStep(top)
      BY <1>1, <1>4, TopIsCall
    <3> QED
      BY <1>4, <3>1 DEF InStepNext, InStep, Owes, OwnResponse
  <2> QED
    BY <1>1, <1>4, <2>1, <2>2, KeptGoes
<1>5. ASSUME UNCHANGED <<replies, modem, frame, depth>>,
             UNCHANGED last \/ last' = NoResult
      PROVE  Kept
  <2>1. CleanInStep'
    BY <1>1, <1>5 DEF CleanInStep, InStep, Owes, OwnResponse
  <2>2. OwnReply'
    BY <1>1, <1>5 DEF OwnReply, OwnResponse, NoResult, Result, NoFrame, Frame
  <2>3. QuietStep
    <3>1. ~(depth' < depth)
      BY <1>1, <1>5 DEF StackType
    <3> QED
      BY <3>1 DEF QuietStep
  <2> QED
    BY <2>1, <2>2, <2>3 DEF Kept
<1>6. CASE RxReply
  <2>1. depth > 0 /\ replies # <<>> /\ Head(replies) \in Lines
    BY <1>1, <1>6 DEF RxReply, Running, ChannelType
  <2>2. CASE top.clean
    BY <1>1, <1>6, <2>1, <2>2, ReplyKept DEF RxReply
  <2>3. CASE ~top.clean
    BY <1>1, <1>6, <2>1, <2>3, DisturbedHandle DEF RxReply
  <2> QED
    BY <2>2, <2>3
<1>7. CASE RxUnasked
  <2>1. PICK k \in Unasked : Handle(Line(k, 0))
    BY <1>7 DEF RxUnasked
  <2>2. Line(k, 0) \in Lines /\ depth > 0
    BY <1>7 DEF Line, Lines, RxUnasked, Running
  <2>3. CASE top.clean
    BY <1>1, <1>7, <2>1, <2>2, <2>3, UnaskedKept DEF RxUnasked
  <2>4. CASE ~top.clean
    BY <1>1, <2>1, <2>2, <2>4, DisturbedHandle
  <2> QED
    BY <2>3, <2>4
<1>8. CASE RxPayload
  <2>1. Head(replies) \in Lines
    BY <1>1, <1>8 DEF RxPayload, ChannelType
  <2> QED
    BY <1>1, <1>8, <2>1, PayloadKept DEF RxPayload, Running
<1>9. CASE RxTimeout
  BY <1>2, <1>3, <1>9 DEF RxTimeout, Running, GaveUp
<1>10. CASE RxIoError
  BY <1>2, <1>10 DEF RxIoError, Running, GaveUp
<1>11. CASE LineCap
  BY <1>2, <1>3, <1>11 DEF LineCap, Running, GaveUp
<1>12. CASE WritePayload
  BY <1>1, <1>12, WriteKept
<1>13. CASE WritePayloadFails
  BY <1>2, <1>13 DEF WritePayloadFails, Running, GaveUp
<1>14. ASSUME NEW flow \in Flows, Transmit(flow) PROVE Kept
  BY <1>1, <1>14, TransmitKept
<1>15. CASE TransmitFails
  BY <1>5, <1>15 DEF TransmitFails
<1>16. CASE Poll
  <2> DEFINE f == Frame("poll", 0, FALSE)
  <2>1. Push(f)
    BY <1>16 DEF Poll
  <2>2. f \in FrameType /\ ~f.clean /\ ~f.ignored
    BY BoundsAssumption DEF Frame, FrameType, NoLine, Line, Lines
  <2> HIDE DEF f
  <2> QED
    BY <1>1, <2>1, <2>2, PushKept
<1>17. ASSUME NEW u \in UrcPrefix, RegisterUrc(u) \/ UnregisterUrc(u) PROVE Kept
  BY <1>5, <1>17 DEF RegisterUrc, UnregisterUrc
<1>18. CASE HandlerReturns
  <2> DEFINE k == [top EXCEPT !.inHandler = FALSE, !.mayCall = TRUE]
  <2>1. Call(top) /\ depth > 0
    BY <1>1, <1>18, TopType DEF HandlerReturns, StackType
  <2>2. /\ k \in FrameType
        /\ k.flow = top.flow /\ k.step = top.step /\ k.id = top.id
        /\ k.resp = top.resp /\ k.clean = top.clean /\ k.ignored = top.ignored
    BY <2>1 DEF Call, FrameType
  <2>3. frame' = [frame EXCEPT ![depth] = k]
    BY <1>18 DEF HandlerReturns
  <2> HIDE DEF k
  <2> QED
    BY <1>4, <1>18, <2>1, <2>2, <2>3 DEF HandlerReturns
<1>19. CASE UNCHANGED vars
  BY <1>5, <1>19 DEF vars
<1> QED
  BY <1>6, <1>7, <1>8, <1>9, <1>10, <1>11, <1>12, <1>13, <1>14, <1>15, <1>16,
     <1>17, <1>18, <1>19 DEF Next, LibraryStep

\* CleanInStep and OwnReply, with the types, form an inductive invariant.
LEMMA ReplyInvariant ==
    ASSUME UrcsApart PROVE Spec => []ReplyInv
<1>1. Init => ReplyInv
  <2>1. Init => CleanInStep /\ OwnReply
    BY DEF Init, CleanInStep, OwnReply, NoResult, Result, NoFrame, Frame
  <2> QED
    BY <2>1, InitType DEF ReplyInv
<1>2. ReplyInv /\ [Next]_vars => ReplyInv'
  BY StepKept, NextType DEF ReplyInv, Kept
<1> QED
  BY <1>1, <1>2, PTL DEF Spec

\* A call made on a quiet channel and not disturbed by a handler's call is
\* decided by a line of its own reply, whatever earlier commands did.
THEOREM OwnReplyHolds ==
    ASSUME UrcsApart PROVE Spec => []OwnReply
<1>1. ReplyInv => OwnReply
  BY DEF ReplyInv
<1> QED
  BY <1>1, ReplyInvariant, PTL

\* Such a call leaves the channel quiet for the next one.
THEOREM StaysQuietHolds ==
    ASSUME UrcsApart PROVE Spec => StaysQuiet
<1>1. ReplyInv /\ [Next]_vars
         => [(depth' < depth /\ last'.clean /\ last'.st \notin GaveUp
                /\ ~last'.ignored) => Quiet']_vars
  BY StepKept DEF Kept, QuietStep
<1> QED
  BY <1>1, ReplyInvariant, PTL DEF Spec, StaysQuiet

\* Its payload goes to the command it belongs to.
THEOREM PayloadToOwnCommandHolds ==
    ASSUME UrcsApart PROVE Spec => PayloadToOwnCommand
<1>1. ReplyInv => ((Running /\ loop.loop = "write" /\ top.clean) =>
                      modem = PayloadMode(top.flow, top.id))
  BY AtOwnGate DEF ReplyInv, TypeOK, Running
<1> QED
  BY <1>1, ReplyInvariant, PTL DEF PayloadToOwnCommand

-----------------------------------------------------------------------------
(* The abstract channel *)

GoesOnAs(k) == /\ k.clean = top.clean
               /\ frame' = [frame EXCEPT ![depth] = k]
               /\ UNCHANGED <<depth, last>>
Goes    == \E k \in FrameType : GoesOnAs(k)
Returns == /\ depth' = depth - 1 /\ frame' = [frame EXCEPT ![depth] = NoFrame]
           /\ last'.clean = top.clean /\ last'.st \in Status
Moves   == Goes \/ Returns
Pushes  == \E f \in FrameType : Push(f) /\ (f.clean => Quiet /\ AtRest)
Still   == UNCHANGED <<replies, modem, frame, depth>>
             /\ (UNCHANGED last \/ last' = NoResult)

\* Going on with a loop, and ending it, move the running call.
LEMMA ContinueMoves ==
    ASSUME StackType, depth > 0, NEW g, Took(g),
           loop.loop # "prompt" => g.lines < MaxLines,
           NEW h \in BOOLEAN, Continue(g, h)
    PROVE  Moves
BY ContinueFields DEF Took, Moves, Goes, GoesOnAs

LEMMA DoneMoves ==
    ASSUME StackType, depth > 0, NEW g, Took(g),
           NEW st \in Status, NEW by \in Lines, Done(g, st, by)
    PROVE  Moves
<1>1. Call(g) /\ g.clean = top.clean
  BY DEF Took
<1>2. CASE NextStep(g, st) = 0
  <2>1. /\ depth' = depth - 1 /\ frame' = [frame EXCEPT ![depth] = NoFrame]
        /\ last'.clean = g.clean /\ last'.st = IF Ignored(g) THEN "OK" ELSE st
    BY <1>1, <1>2, DoneFields
  <2>2. last'.st \in Status
    BY <2>1 DEF Status
  <2> QED
    BY <1>1, <2>1, <2>2 DEF Moves, Returns
<1>3. CASE NextStep(g, st) # 0
  BY <1>1, <1>3, DoneFields DEF Moves, Goes, GoesOnAs
<1> QED
  BY <1>2, <1>3

\* Whatever a loop does with a line moves the running call.
LEMMA HandleMoves ==
    ASSUME StackType, ErrKindType, CleanInStep, depth > 0,
           NEW l \in Lines, Handle(l)
    PROVE  Moves
<1> DEFINE got == [top EXCEPT !.resp = l]
           listens == l.kind \in registered
<1>1. Took(top) /\ Took(got) /\ got.lines = top.lines
  BY TopIsCall, GotTook DEF Took
<1>2. loop.loop # "prompt" => top.lines < MaxLines
  BY DEF Handle, Capped
<1>3. listens \in BOOLEAN
  OBVIOUS
<1> HIDE DEF got, listens
<1>4. ASSUME NEW h \in BOOLEAN, Continue(top, h) PROVE Moves
  BY <1>1, <1>2, <1>4, ContinueMoves
<1>5. ASSUME Continue(got, FALSE) PROVE Moves
  BY <1>1, <1>2, <1>5, ContinueMoves
<1>6. ASSUME NEW st \in Status, Done(top, st, l) PROVE Moves
  BY <1>1, <1>6, DoneMoves
<1>7. ASSUME Done(got, "OK", l) PROVE Moves
  BY <1>1, <1>7, DoneMoves DEF Status
<1>8. CASE ErrorTerminal(l)
  <2>1. Mapped \in Status /\ Done(top, Mapped, l)
    BY <1>8 DEF ErrKindType, ErrorTerminal, RecordError, Mapped, Status
  <2> QED
    BY <1>6, <2>1
<1>9. CASE Skip(l) \/ Dispatch(l)
  <2>1. Continue(top, FALSE) \/ Continue(top, listens)
    BY <1>9 DEF Skip, Dispatch, listens
  <2> QED
    BY <1>3, <1>4, <2>1
<1>10. "OK" \in Status /\ "PARSE" \in Status
  BY DEF Status
<1>11. CASE RecvLine(l)
  <2>1. \/ Skip(l) \/ ErrorTerminal(l)
        \/ Done(got, "OK", l) \/ Done(top, "PARSE", l) \/ Done(top, "OK", l)
        \/ Continue(got, FALSE) \/ Continue(top, listens)
    BY <1>11 DEF RecvLine, got, listens
  <2> QED
    BY <1>3, <1>4, <1>5, <1>6, <1>7, <1>8, <1>9, <1>10, <2>1
<1>12. CASE PrefixLine(l)
  BY <1>4, <1>7, <1>8, <1>9, <1>12 DEF PrefixLine, got
<1>13. CASE FinalLine(l)
  BY <1>6, <1>8, <1>9, <1>10, <1>13 DEF FinalLine
<1>14. CASE PromptLine(l)
  BY <1>6, <1>8, <1>9, <1>10, <1>14 DEF PromptLine
<1>15. CASE PollLine(l)
  BY <1>4, <1>9, <1>15 DEF PollLine
<1> QED
  BY <1>11, <1>12, <1>13, <1>14, <1>15 DEF Handle

\* What a step does to the stack of calls.
LEMMA StepShape ==
    ASSUME TypeOK, CleanInStep, [Next]_vars
    PROVE  (depth > 0 /\ Moves) \/ Pushes \/ Still
<1>1. StackType /\ ErrKindType /\ ChannelType
  BY DEF TypeOK, ErrKindType
<1>2. ASSUME depth > 0, NEW st \in Status, Done(top, st, NoLine) PROVE Moves
  <2>1. Took(top) /\ NoLine \in Lines
    BY <1>1, <1>2, TopIsCall DEF NoLine, Line, Lines
  <2> QED
    BY <1>1, <1>2, <2>1, DoneMoves
<1>3. {"OK", "TIMEOUT", "IO", "OVERFLOW"} \subseteq Status
  BY DEF Status
<1>4. CASE RxReply
  <2>1. depth > 0 /\ Head(replies) \in Lines /\ Handle(Head(replies))
    BY <1>1, <1>4 DEF RxReply, Running, ChannelType
  <2> QED
    BY <1>1, <2>1, HandleMoves
<1>5. CASE RxUnasked
  <2>1. PICK k \in Unasked : Handle(Line(k, 0))
    BY <1>5 DEF RxUnasked
  <2>2. Line(k, 0) \in Lines /\ depth > 0
    BY <1>5 DEF Line, Lines, RxUnasked, Running
  <2> QED
    BY <1>1, <2>1, <2>2, HandleMoves
<1>6. CASE RxPayload
  <2>1. depth > 0 /\ Head(replies) \in Lines /\ Done(top, "OK", Head(replies))
    BY <1>1, <1>6 DEF RxPayload, Running, ChannelType
  <2>2. Took(top)
    BY <1>1, <2>1, TopIsCall
  <2> QED
    BY <1>1, <1>3, <2>1, <2>2, DoneMoves
<1>7. CASE RxTimeout
  BY <1>2, <1>3, <1>7 DEF RxTimeout, Running
<1>8. CASE RxIoError
  BY <1>2, <1>3, <1>8 DEF RxIoError, Running
<1>9. CASE LineCap
  BY <1>2, <1>3, <1>9 DEF LineCap, Running
<1>10. CASE WritePayload
  BY <1>2, <1>3, <1>10 DEF WritePayload, Running
<1>11. CASE WritePayloadFails
  BY <1>2, <1>3, <1>11 DEF WritePayloadFails, Running
<1>12. ASSUME NEW flow \in Flows, Transmit(flow) PROVE Pushes
  <2> DEFINE f == Frame(flow, nextId, Quiet /\ AtRest)
  <2>1. Push(f)
    BY <1>12 DEF Transmit
  <2>2. f \in FrameType /\ (f.clean => Quiet /\ AtRest)
    <3>1. nextId \in Nat /\ (Quiet /\ AtRest) \in BOOLEAN /\ 0 \in 0..MaxLines
      BY BoundsAssumption DEF TypeOK, Quiet, AtRest
    <3>2. NoLine \in Lines
      BY DEF NoLine, Line, Lines
    <3> DEFINE c == Quiet /\ AtRest
    <3>3. f = Frame(flow, nextId, c)
      OBVIOUS
    <3>4. c \in BOOLEAN
      BY <3>1
    <3> HIDE DEF f, c
    <3>5. f \in FrameType /\ f.clean = c
      BY <3>1, <3>2, <3>3, <3>4 DEF Frame, FrameType
    <3> QED
      BY <3>5 DEF c
  <2> HIDE DEF f
  <2> QED
    BY <2>1, <2>2 DEF Pushes
<1>13. CASE Poll
  <2> DEFINE f == Frame("poll", 0, FALSE)
  <2>1. Push(f)
    BY <1>13 DEF Poll
  <2>2. f \in FrameType /\ ~f.clean
    BY BoundsAssumption DEF Frame, FrameType, NoLine, Line, Lines
  <2> HIDE DEF f
  <2> QED
    BY <2>1, <2>2 DEF Pushes
<1>14. CASE TransmitFails
  BY <1>14 DEF TransmitFails, Still
<1>15. ASSUME NEW u \in UrcPrefix, RegisterUrc(u) \/ UnregisterUrc(u) PROVE Still
  BY <1>15 DEF RegisterUrc, UnregisterUrc, Still
<1>16. CASE HandlerReturns
  <2> DEFINE k == [top EXCEPT !.inHandler = FALSE, !.mayCall = TRUE]
  <2>1. Call(top) /\ depth > 0
    BY <1>1, <1>16, TopType DEF HandlerReturns, StackType
  <2>2. k \in FrameType /\ k.clean = top.clean
    BY <2>1 DEF Call, FrameType
  <2>3. frame' = [frame EXCEPT ![depth] = k] /\ UNCHANGED <<depth, last>>
    BY <1>16 DEF HandlerReturns
  <2> HIDE DEF k
  <2> QED
    BY <2>1, <2>2, <2>3 DEF Moves, Goes, GoesOnAs
<1>17. CASE UNCHANGED vars
  BY <1>17 DEF vars, Still
<1>18. depth > 0 \/ ~(LibraryStep \/ HandlerReturns)
  BY DEF LibraryStep, RxReply, RxUnasked, RxPayload, RxTimeout, RxIoError,
     LineCap, WritePayload, WritePayloadFails, Running, HandlerReturns
<1> QED
  BY <1>4, <1>5, <1>6, <1>7, <1>8, <1>9, <1>10, <1>11, <1>12, <1>13, <1>14,
     <1>15, <1>16, <1>17, <1>18 DEF Next, LibraryStep

\* An undisturbed command is the running call, and has not returned yet.
OwnIsRunning == OwnCall => last.st = "none"
ChannelInv   == ReplyInv /\ OwnIsRunning

\* An own command is the top of the stack.
LEMMA OwnIsTop ==
    ASSUME StackType, CleanInStep
    PROVE  OwnCall <=> depth > 0 /\ top.clean
<1>1. depth > 0 => depth \in 1..depth
  BY TopType
<1> QED
  BY <1>1 DEF OwnCall, CleanInStep, top

\* The effect of each shape on the channel.
LEMMA GoesOwn ==
    ASSUME StackType, CleanInStep, depth > 0, Goes
    PROVE  (OwnCall' <=> OwnCall) /\ last' = last
<1>1. PICK k \in FrameType : GoesOnAs(k)
  BY DEF Goes
<1>2. depth \in 1..MaxDepth /\ depth \in 1..depth
      /\ frame \in [1..MaxDepth -> FrameType] /\ MaxDepth \in Nat
  BY TopType, BoundsAssumption DEF StackType
<1>3. frame'[depth] = k /\ depth' = depth /\ k.clean = frame[depth].clean
  BY <1>1, <1>2 DEF GoesOnAs, top
<1>4. \A d \in 1..depth : d # depth => frame'[d] = frame[d]
  BY <1>1, <1>2 DEF GoesOnAs
<1> QED
  BY <1>1, <1>2, <1>3, <1>4 DEF OwnCall, GoesOnAs

LEMMA ReturnsOwn ==
    ASSUME StackType, CleanInStep, depth > 0, Returns
    PROVE  ~OwnCall' /\ last'.st # "none"
<1>1. depth \in 1..MaxDepth /\ frame \in [1..MaxDepth -> FrameType]
      /\ MaxDepth \in Nat
  BY TopType, BoundsAssumption DEF StackType
<1>2. ASSUME NEW d \in 1..depth' PROVE ~frame'[d].clean
  <2>1. d \in 1..depth /\ d # depth /\ frame'[d] = frame[d]
    BY <1>1 DEF Returns
  <2> QED
    BY <2>1 DEF CleanInStep
<1> QED
  BY <1>2 DEF OwnCall, Returns, Status

LEMMA PushesOwn ==
    ASSUME StackType, CleanInStep, Pushes
    PROVE  /\ last' = NoResult
           /\ OwnCall' => ~OwnCall /\ Quiet
<1>1. PICK f \in FrameType : Push(f) /\ (f.clean => Quiet /\ AtRest)
  BY DEF Pushes
<1>2. depth \in 0..MaxDepth /\ depth < MaxDepth /\ MaxDepth \in Nat
      /\ depth' = depth + 1 /\ last' = NoResult
      /\ frame \in [1..MaxDepth -> FrameType]
  BY <1>1, BoundsAssumption DEF StackType, Push
<1>3. ASSUME NEW d \in 1..depth', frame'[d].clean PROVE d = depth + 1
  <2>1. d \in 1..MaxDepth
    BY <1>2
  <2>2. d # depth
    <3>1. d = depth => frame[d] \in FrameType
      BY <1>2, <2>1
    <3> DEFINE g == [frame[d] EXCEPT !.mayCall = FALSE, !.clean = FALSE,
                                     !.nested = TRUE]
    <3>2. d = depth => frame'[d] = g
      <4>1. d = depth => d # depth + 1
        BY <1>2
      <4>2. frame'[d] = IF d = depth + 1 THEN f
                        ELSE IF d = depth THEN g ELSE frame[d]
        BY <1>1, <2>1, Zenon DEF Push
      <4> QED
        BY <4>1, <4>2
    <3>3. d = depth => g.clean = FALSE
      BY <3>1 DEF FrameType
    <3> QED
      BY <1>3, <3>2, <3>3
  <2>3. d \in 1..depth => frame'[d] = frame[d]
    <3>1. d \in 1..depth => d # depth + 1 /\ d # depth
      BY <1>2, <2>2
    <3> QED
      BY <1>1, <2>1, <3>1 DEF Push
  <2>4. ~(d \in 1..depth)
    BY <1>3, <2>2, <2>3 DEF CleanInStep
  <2> QED
    BY <1>2, <2>4
<1>4. frame'[depth + 1] = f
  <2>1. depth + 1 \in 1..MaxDepth
    BY <1>2
  <2> QED
    BY <1>1, <2>1 DEF Push
<1>5. OwnCall' => f.clean
  BY <1>3, <1>4 DEF OwnCall
<1>6. AtRest => ~OwnCall
  BY DEF AtRest, OwnCall, CleanInStep
<1> QED
  BY <1>1, <1>2, <1>5, <1>6

\* A step of the engine is a step of the channel, or none.
LEMMA ChannelStep ==
    ASSUME UrcsApart, ChannelInv, [Next]_vars
    PROVE  OwnIsRunning' /\ [Channel!Next]_(Channel!vars)
<1>1. TypeOK /\ StackType /\ CleanInStep /\ OwnIsRunning
  BY DEF ChannelInv, ReplyInv, TypeOK
<1>2. OwnReply' /\ QuietStep
  BY StepKept DEF ChannelInv, Kept
<1>3. StackType' /\ last \in ResultType /\ last' \in ResultType
  BY <1>1, NextType DEF TypeOK, StackType
<1>4. NoResult.st = "none"
  BY DEF NoResult, Result
<1>5. ChannelState \in {"own", "in step", "adrift"}
      /\ (ChannelState = "own" <=> OwnCall)
      /\ (ChannelState = "in step" <=> ~OwnCall /\ Quiet)
  BY DEF ChannelState
<1>6. ChannelState' \in {"own", "in step", "adrift"}
      /\ (ChannelState' = "own" <=> OwnCall')
      /\ (ChannelState' = "in step" <=> ~OwnCall' /\ Quiet')
  BY DEF ChannelState
<1>7. last.st = "none" => Outcome = "none"
  BY DEF Outcome
<1>8. last'.st = "none" => Outcome' = "none"
  BY DEF Outcome
<1> DEFINE s == ChannelState
           t == ChannelState'
           o == Outcome
           p == Outcome'
<1>9. CASE depth > 0 /\ Goes
  <2>1. (OwnCall' <=> OwnCall) /\ last' = last
    BY <1>1, <1>9, GoesOwn
  <2>2. Outcome' = Outcome
    BY <2>1 DEF Outcome, ByOwnReply, OwnResponse
  <2> QED
    BY <1>1, <1>5, <1>6, <2>1, <2>2
       DEF OwnIsRunning, Channel!Next, Channel!Otherwise, Channel!vars
<1>10. CASE depth > 0 /\ Returns
  <2>1. ~OwnCall' /\ last'.st # "none" /\ last'.clean = top.clean
    BY <1>1, <1>10, ReturnsOwn DEF Returns
  <2>2. OwnCall <=> last'.clean
    BY <1>1, <1>10, <2>1, OwnIsTop
  <2>3. CASE ~last'.clean
    <3>1. Outcome' = "any"
      BY <2>1, <2>3 DEF Outcome
    <3> QED
      BY <1>5, <1>6, <2>1, <2>2, <2>3, <3>1
         DEF OwnIsRunning, Channel!Next, Channel!Otherwise
  <2>4. CASE last'.clean /\ (last'.st \in GaveUp \/ last'.ignored)
    <3>1. Outcome' = "gave up"
      BY <2>1, <2>4 DEF Outcome
    <3> QED
      BY <1>5, <1>6, <2>1, <2>2, <2>4, <3>1
         DEF OwnIsRunning, Channel!Next, Channel!GivesUp
  <2>5. CASE last'.clean /\ last'.st \notin GaveUp /\ ~last'.ignored
    <3>1. ByOwnReply'
      BY <1>2, <2>5 DEF OwnReply, ByOwnReply, OwnResponse
    <3>2. Outcome' = "own reply"
      BY <2>1, <2>5, <3>1 DEF Outcome
    <3>3. depth' < depth
      BY <1>10, <1>1 DEF Returns, StackType
    <3>4. Quiet'
      BY <1>2, <2>5, <3>3 DEF QuietStep
    <3> QED
      BY <1>5, <1>6, <2>1, <2>2, <2>5, <3>2, <3>4
         DEF OwnIsRunning, Channel!Next, Channel!Answered
  <2> QED
    BY <2>3, <2>4, <2>5
<1>11. CASE Pushes
  <2>1. last' = NoResult /\ (OwnCall' => ~OwnCall /\ Quiet)
    BY <1>1, <1>11, PushesOwn
  <2>2. last'.st = "none" /\ Outcome' = "none"
    BY <1>4, <1>8, <2>1
  <2> QED
    BY <1>5, <1>6, <2>1, <2>2
       DEF OwnIsRunning, Channel!Next, Channel!Command, Channel!Disturbed,
           Channel!Otherwise
<1>12. CASE Still
  <2>1. (OwnCall' <=> OwnCall) /\ (Quiet' <=> Quiet)
    BY <1>12 DEF Still, OwnCall, Quiet
  <2>2. last'.st = "none" \/ last' = last
    BY <1>4, <1>12 DEF Still
  <2>3. Outcome' \in {Outcome, "none"}
    BY <1>8, <2>2 DEF Outcome, ByOwnReply, OwnResponse
  <2>4. OwnCall => Outcome = "none" /\ Outcome' = "none"
    BY <1>1, <1>7, <1>8, <2>2 DEF OwnIsRunning
  <2> QED
    BY <1>1, <1>5, <1>6, <2>1, <2>2, <2>3, <2>4
       DEF OwnIsRunning, Channel!Next, Channel!Otherwise, Channel!vars
<1> QED
  BY <1>1, <1>9, <1>10, <1>11, <1>12, StepShape DEF Moves

\* The engine implements the channel that the other files rely on, for every
\* set of flows, handlers and bounds.
THEOREM ImplementsChannelHolds ==
    ASSUME UrcsApart PROVE Spec => ImplementsChannel
<1>1. Init => OwnIsRunning /\ Channel!Init
  <2>1. Init => ~OwnCall /\ Quiet
    BY DEF Init, OwnCall, Quiet
  <2>2. Init => last.st = "none"
    BY DEF Init, NoResult, Result
  <2>3. Init => ChannelState = "in step" /\ Outcome = "none"
    BY <2>1, <2>2 DEF ChannelState, Outcome
  <2> QED
    BY <2>1, <2>3 DEF OwnIsRunning, Channel!Init
<1>2. ReplyInv /\ OwnIsRunning /\ [Next]_vars
         => OwnIsRunning' /\ [Channel!Next]_(Channel!vars)
  BY ChannelStep DEF ChannelInv
<1> QED
  BY <1>1, <1>2, ReplyInvariant, PTL DEF Spec, ImplementsChannel, Channel!Spec
=============================================================================
