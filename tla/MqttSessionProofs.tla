-------------------------- MODULE MqttSessionProofs --------------------------
(***************************************************************************)
(* The MQTT calls for any number of clients and configurations and any     *)
(* number of commands and lines a call may find owed: what a successful    *)
(* open and connect mean, and what an answered call leaves behind.         *)
(*                                                                         *)
(* The invariant says of a call that started with nothing owed what is     *)
(* under way at each of its steps, and of every opened configuration that  *)
(* nothing under way can give its client another transport.                *)
(***************************************************************************)
EXTENDS MqttSession, TLAPS, SequenceTheorems

Transports == {"closed", "plain", "tls"}
CmdType == [op : Asynchronous \cup {"cfg"}, id : Ids, tls : BOOLEAN]
CallType == [api : Asynchronous, cfg : Configs, by : Lines, clean : BOOLEAN,
             step : {"setting", "first", "result", "final"}]

Types ==
    /\ wire \in Seq(CmdType) /\ stream \in Seq(Lines)
    /\ jobs \subseteq {j \in CmdType : j.op \in Asynchronous}
    /\ ssl \in [Ids -> BOOLEAN] /\ sock \in [Ids -> Transports]
    /\ session \subseteq Ids /\ opened \subseteq Configs
    /\ call \in CallType \cup {NoCall}
    /\ call.step = "setting" => call.api = "open"

\* The examples and tests give both identifiers of a client the same value.
SameClients == \A d \in Configs : d.tcp = d.client

\* r is the result line of the call in progress.
IsResult(r) ==
    /\ r \in Lines /\ r.kind = call.api /\ r.id = Client(call.api, call.cfg)
    /\ (r.good /\ call.api = "open") =>
           /\ r.on = Transport(call.cfg.tls)
           /\ sock[call.cfg.tcp] \in {"closed", r.on}
    /\ (r.good /\ SameClients /\ call.api = "conn" /\ call.cfg \in opened) =>
           r.on = Transport(call.cfg.tls)

\* j is its command, acknowledged.
IsJob(j) ==
    /\ j \in CmdType /\ j.op = call.api /\ j.id = Client(call.api, call.cfg)
    /\ call.api = "open" => j.tls = call.cfg.tls

InSetting ==
    /\ jobs = {} /\ call.api = "open"
    /\ \/ wire = <<Cmd("cfg", call.cfg.tcp, call.cfg.tls)>> /\ stream = <<>>
       \/ wire = <<>> /\ stream = <<Error>>
       \/ wire = <<>> /\ stream = <<Ok>> /\ ssl[call.cfg.tcp] = call.cfg.tls

InFirst ==
    \/ /\ wire = <<Cmd(call.api, Client(call.api, call.cfg), FALSE)>>
       /\ jobs = {} /\ stream = <<>>
       /\ call.api = "open" => ssl[call.cfg.tcp] = call.cfg.tls
    \/ wire = <<>> /\ jobs = {} /\ stream = <<Error>>
    \/ wire = <<>> /\ stream = <<Ok>> /\ \E j : IsJob(j) /\ jobs = {j}
    \/ /\ wire = <<>> /\ jobs = {}
       /\ \E r : IsResult(r) /\ stream \in {<<Ok, r>>, <<r, Ok>>}

InResult ==
    \/ wire = <<>> /\ stream = <<>> /\ \E j : IsJob(j) /\ jobs = {j}
    \/ wire = <<>> /\ jobs = {} /\ \E r : IsResult(r) /\ stream = <<r>>

InFinal == wire = <<>> /\ jobs = {} /\ stream = <<Ok>> /\ IsResult(call.by)

CleanInv ==
    call.clean =>
        \/ call.step = "setting" /\ InSetting
        \/ call.step = "first" /\ InFirst
        \/ call.step = "result" /\ InResult
        \/ call.step = "final" /\ InFinal

\* Nothing under way opens the client of d.
NotOpening(d) ==
    /\ \A i \in 1..Len(wire) : wire[i].op = "open" => wire[i].id # d.tcp
    /\ \A j \in jobs : j.op = "open" => j.id # d.tcp
    /\ call.api = "open" => call.cfg.tcp # d.tcp

OpenedInv ==
    \A d \in opened : sock[d.tcp] \in {"closed", Transport(d.tls)} /\ NotOpening(d)

LastInv == OpenedAsAsked /\ (SameClients => ConnectedAsOpened)

Inv == Types /\ CleanInv /\ OpenedInv /\ LastInv

-----------------------------------------------------------------------------
(* Queues, lines, calls *)

LEMMA TailFacts ==
    ASSUME NEW S, NEW s \in Seq(S), s # <<>>
    PROVE  /\ Tail(s) \in Seq(S) /\ Len(s) \in Nat \ {0}
           /\ Len(Tail(s)) = Len(s) - 1 /\ Head(s) = s[1] /\ s[1] \in S
           /\ \A i \in 1..(Len(s) - 1) : Tail(s)[i] = s[i + 1]
<1>1. Len(s) \in Nat \ {0}
  BY EmptySeq
<1>2. Tail(s) \in Seq(S) /\ Len(Tail(s)) = Len(s) - 1 /\ Head(s) = s[1]
        /\ \A i \in 1..(Len(s) - 1) : Tail(s)[i] = s[i + 1]
  BY <1>1, HeadTailProperties
<1>3. s[1] \in S
  BY <1>1, ElementOfSeq
<1> QED
  BY <1>1, <1>2, <1>3

LEMMA AppendFacts ==
    ASSUME NEW S, NEW s \in Seq(S), NEW x \in S
    PROVE  /\ Append(s, x) \in Seq(S) /\ Len(s) \in Nat
           /\ Len(Append(s, x)) = Len(s) + 1
           /\ \A i \in 1..Len(s) : Append(s, x)[i] = s[i]
           /\ Append(s, x)[Len(s) + 1] = x
OBVIOUS

LEMMA ShortQueues ==
    /\ Len(<<>>) = 0
    /\ \A x : /\ <<x>> # <<>> /\ Head(<<x>>) = x /\ Tail(<<x>>) = <<>>
              /\ Append(<<>>, x) = <<x>> /\ Len(<<x>>) = 1 /\ <<x>>[1] = x
    /\ \A x, y : /\ <<x, y>> # <<>> /\ Head(<<x, y>>) = x /\ Tail(<<x, y>>) = <<y>>
                 /\ Append(<<x>>, y) = <<x, y>> /\ <<>> \o <<x, y>> = <<x, y>>
<1>1. \A x : /\ <<x>> # <<>> /\ Head(<<x>>) = x /\ Tail(<<x>>) = <<>>
             /\ Append(<<>>, x) = <<x>> /\ Len(<<x>>) = 1 /\ <<x>>[1] = x
  OBVIOUS
<1>2. ASSUME NEW x, NEW y
      PROVE  /\ <<x, y>> # <<>> /\ Head(<<x, y>>) = x
             /\ Tail(<<x, y>>) = <<y>>
  OBVIOUS
<1>3. ASSUME NEW x, NEW y PROVE Append(<<x>>, y) = <<x, y>>
  <2> DEFINE S == {x, y}
  <2>1. <<x>> \in Seq(S) /\ <<x, y>> \in Seq(S) /\ y \in S
    OBVIOUS
  <2>2. /\ Append(<<x>>, y) \in Seq(S) /\ Len(Append(<<x>>, y)) = 2
        /\ Append(<<x>>, y)[1] = x /\ Append(<<x>>, y)[2] = y
    BY <2>1
  <2>3. \A i \in 1..2 : Append(<<x>>, y)[i] = <<x, y>>[i]
    BY <2>2
  <2> HIDE DEF S
  <2> QED
    BY <2>1, <2>2, <2>3, SeqEqual
<1>4. ASSUME NEW x, NEW y PROVE <<>> \o <<x, y>> = <<x, y>>
  <2>1. <<x, y>> \in Seq({x, y})
    OBVIOUS
  <2> QED
    BY <2>1
<1> QED
  BY <1>1, <1>2, <1>3, <1>4

LEMMA LineFacts ==
    /\ Ok \in Lines /\ Error \in Lines /\ NoLine \in Lines
    /\ Ok.kind = "OK" /\ Error.kind = "ERROR" /\ Ok # Error
    /\ \A op \in Asynchronous, c \in Ids, good \in BOOLEAN, on \in Transports :
           ResultLine(op, c, good, on) \in Lines
    /\ \A op \in Asynchronous : op \notin {"OK", "ERROR", "cfg", "none"}
    /\ \A r : r.kind \in Asynchronous => r # Ok /\ r # Error
BY DEF Lines, Ok, Error, NoLine, Final, ResultLine, Asynchronous, Transports

LEMMA CallFacts ==
    ASSUME Types
    PROVE  /\ Idle => ~call.clean /\ call.step = "none" /\ call.api = "none"
           /\ (call.clean \/ call.step # "none" \/ ~Idle) => call \in CallType
           /\ call \in CallType =>
                 /\ call.cfg \in Configs /\ call.api \in Asynchronous
                 /\ call.cfg.tcp \in Ids /\ call.cfg.tls \in BOOLEAN
                 /\ Client(call.api, call.cfg) \in Ids
                 /\ call.clean \in BOOLEAN /\ call.by \in Lines
<1>1. CASE call = NoCall
  <2>1. ~call.clean /\ call.step = "none" /\ call.api = "none"
    BY <1>1 DEF NoCall
  <2>2. call \notin CallType
    BY <2>1 DEF CallType
  <2> QED
    BY <1>1, <2>1, <2>2 DEF Idle
<1>2. CASE call \in CallType
  <2>1. /\ call.cfg \in Configs /\ call.api \in Asynchronous
        /\ call.clean \in BOOLEAN /\ call.by \in Lines
        /\ call.step \in {"setting", "first", "result", "final"}
    BY <1>2 DEF CallType
  <2>2. call.cfg \in [tcp : Ids, client : Ids, tls : BOOLEAN]
    BY <2>1, ConfigAssumption DEF ConfigAssumption
  <2>3. NoCall.step = "none"
    BY DEF NoCall
  <2> QED
    BY <1>2, <2>1, <2>2, <2>3 DEF Idle, Client
<1> QED
  BY <1>1, <1>2 DEF Types

LEMMA CmdIn ==
    ASSUME NEW op \in Asynchronous \cup {"cfg"}, NEW c \in Ids, NEW t \in BOOLEAN
    PROVE  /\ Cmd(op, c, t) \in CmdType /\ Cmd(op, c, t).op = op
           /\ Cmd(op, c, t).id = c /\ Cmd(op, c, t).tls = t
BY DEF Cmd, CmdType

LEMMA ConfigIn ==
    ASSUME NEW d \in Configs
    PROVE  d.tcp \in Ids /\ d.client \in Ids /\ d.tls \in BOOLEAN
BY ConfigAssumption DEF ConfigAssumption

-----------------------------------------------------------------------------
(* The module *)

\* What was returned stands as long as nobody calls.
LEMMA LastStands ==
    ASSUME LastInv, UNCHANGED <<opened, last>>
    PROVE  LastInv'
BY DEF LastInv, OpenedAsAsked, ConnectedAsOpened, SameClients

\* The result of the call in progress is what its caller may believe.
LEMMA FinishLine ==
    ASSUME Types, OpenedInv, call.clean, NEW job, IsJob(job), Finish(job),
           UNCHANGED <<call, opened>>
    PROVE  \E r : stream' = Append(stream, r) /\ IsResult(r)'
<1>0. /\ call \in CallType /\ call.api \in Asynchronous /\ call.cfg \in Configs
      /\ call.cfg.tcp \in Ids /\ call.cfg.tls \in BOOLEAN
      /\ job.id \in Ids /\ job.id = Client(call.api, call.cfg) /\ job.op = call.api
  BY CallFacts DEF IsJob
<1>1. CASE /\ stream' = Append(stream, ResultLine(job.op, job.id, FALSE, sock[job.id]))
           /\ UNCHANGED <<sock, session>>
  <2>0. PICK r : r = ResultLine(job.op, job.id, FALSE, sock[job.id])
    OBVIOUS
  <2>1. sock[job.id] \in Transports
    BY <1>0 DEF Types
  <2>2. r \in Lines
    BY <1>0, <2>0, <2>1, LineFacts
  <2>3. r.kind = job.op /\ r.id = job.id /\ ~r.good
    BY <2>0 DEF ResultLine
  <2>4. IsResult(r)'
    BY <1>0, <2>2, <2>3 DEF IsResult
  <2> QED
    BY <1>1, <2>0, <2>4
<1>2. CASE /\ \/ job.op = "open" /\ sock[job.id] = "closed"
              \/ job.op = "conn" /\ sock[job.id] # "closed"
              \/ job.op \in {"disc", "sub", "close"}
           /\ sock' = CASE job.op = "open" ->
                             [sock EXCEPT ![job.id] = Transport(job.tls)]
                        [] job.op \in {"disc", "close"} ->
                             [sock EXCEPT ![job.id] = "closed"]
                        [] OTHER -> sock
           /\ stream' = Append(stream, ResultLine(job.op, job.id, TRUE, sock'[job.id]))
  <2>0. PICK r : r = ResultLine(job.op, job.id, TRUE, sock'[job.id])
    OBVIOUS
  <2>1. sock'[job.id] \in Transports
    BY <1>0, <1>2 DEF Types, Transports, Transport
  <2>2. r \in Lines
    BY <1>0, <2>0, <2>1, LineFacts
  <2>3. r.kind = job.op /\ r.id = job.id /\ r.on = sock'[job.id]
    BY <2>0 DEF ResultLine
  <2>4. ASSUME call.api = "open"
        PROVE  r.on = Transport(call.cfg.tls) /\ sock'[call.cfg.tcp] = r.on
    <3>1. job.id = call.cfg.tcp /\ job.tls = call.cfg.tls
      BY <1>0, <2>4 DEF IsJob, Client
    <3> QED
      BY <1>0, <1>2, <2>3, <2>4, <3>1 DEF Types
  <2>5. ASSUME SameClients, call.api = "conn", call.cfg \in opened
        PROVE  r.on = Transport(call.cfg.tls)
    <3>1. job.id = call.cfg.tcp
      BY <1>0, <2>5 DEF SameClients, Client
    <3>2. sock[job.id] \in {"closed", Transport(call.cfg.tls)}
      BY <2>5, <3>1 DEF OpenedInv
    <3>3. sock[job.id] # "closed" /\ sock' = sock
      BY <1>0, <1>2, <2>5
    <3> QED
      BY <2>3, <3>2, <3>3
  <2>6. IsResult(r)'
    BY <1>0, <2>2, <2>3, <2>4, <2>5 DEF IsResult, SameClients
  <2> QED
    BY <1>2, <2>0, <2>6
<1> QED
  BY <1>1, <1>2 DEF Finish

\* What no step of the module or the peer does.
LEMMA OpeningOnlyByCall ==
    ASSUME Types, OpenedInv, UNCHANGED <<call, opened>>,
           wire' = wire \/ (wire # <<>> /\ wire' = Tail(wire)),
           \A j \in jobs' : j \in jobs \/
               (/\ wire # <<>> /\ j.op = Head(wire).op /\ j.id = Head(wire).id),
           \A d \in opened : sock'[d.tcp] \in {sock[d.tcp], "closed"}
    PROVE  OpenedInv'
<1> SUFFICES ASSUME NEW d \in opened
             PROVE  sock'[d.tcp] \in {"closed", Transport(d.tls)} /\ NotOpening(d)'
  BY DEF OpenedInv
<1>1. NotOpening(d) /\ sock[d.tcp] \in {"closed", Transport(d.tls)}
  BY DEF OpenedInv
<1>2. \A i \in 1..Len(wire') : wire'[i].op = "open" => wire'[i].id # d.tcp
  <2>1. CASE wire' = wire
    BY <1>1, <2>1 DEF NotOpening
  <2>2. CASE wire # <<>> /\ wire' = Tail(wire)
    <3>1. /\ Len(wire) \in Nat /\ Len(wire') = Len(wire) - 1
          /\ \A i \in 1..(Len(wire) - 1) : wire'[i] = wire[i + 1]
      BY <2>2, TailFacts DEF Types
    <3>2. \A i \in 1..Len(wire') : i + 1 \in 1..Len(wire) /\ wire'[i] = wire[i + 1]
      BY <3>1
    <3> QED
      BY <1>1, <3>2 DEF NotOpening
  <2> QED
    BY <2>1, <2>2
<1>3. \A j \in jobs' : j.op = "open" => j.id # d.tcp
  <2>1. wire # <<>> => 1 \in 1..Len(wire) /\ Head(wire) = wire[1]
    BY TailFacts DEF Types
  <2> QED
    BY <1>1, <2>1 DEF NotOpening
<1> QED
  BY <1>1, <1>2, <1>3 DEF NotOpening

LEMMA ObeyInv ==
    ASSUME Inv, Obey
    PROVE  Inv'
<1>0. /\ Types /\ CleanInv /\ OpenedInv /\ LastInv
      /\ wire # <<>> /\ wire' = Tail(wire) /\ UNCHANGED <<call, opened, last>>
      /\ UNCHANGED <<sock, session>>
      /\ wire \in Seq(CmdType) /\ stream \in Seq(Lines)
  BY DEF Inv, Types, Obey, module
<1>1. PICK w : w = Head(wire) /\ w \in CmdType
  BY <1>0, TailFacts
<1>2. /\ \/ stream' = Append(stream, Error) /\ UNCHANGED <<jobs, ssl>>
         \/ /\ w.op = "cfg" /\ ssl' = [ssl EXCEPT ![w.id] = w.tls]
            /\ stream' = Append(stream, Ok) /\ UNCHANGED jobs
         \/ /\ w.op \in Asynchronous
            /\ jobs' = jobs \cup {Cmd(w.op, w.id, ssl[w.id])}
            /\ stream' = Append(stream, Ok) /\ UNCHANGED ssl
      /\ w.id \in Ids /\ w.tls \in BOOLEAN /\ ssl[w.id] \in BOOLEAN
  BY <1>0, <1>1 DEF Obey, module, CmdType, Types
<1>3. ASSUME w.op \in Asynchronous
      PROVE  /\ Cmd(w.op, w.id, ssl[w.id]) \in CmdType
             /\ Cmd(w.op, w.id, ssl[w.id]).op = w.op
             /\ Cmd(w.op, w.id, ssl[w.id]).id = w.id
             /\ Cmd(w.op, w.id, ssl[w.id]).tls = ssl[w.id]
  BY <1>2, <1>3, CmdIn
<1>4. Types'
  <2>1. wire' \in Seq(CmdType)
    BY <1>0, TailFacts
  <2>2. stream' \in Seq(Lines)
    <3>1. Append(stream, Ok) \in Seq(Lines) /\ Append(stream, Error) \in Seq(Lines)
      BY <1>0, AppendFacts, LineFacts
    <3> QED
      BY <1>2, <3>1
  <2>3. /\ ssl' \in [Ids -> BOOLEAN]
        /\ jobs' \subseteq {j \in CmdType : j.op \in Asynchronous}
    BY <1>0, <1>2, <1>3 DEF Types
  <2> QED
    BY <1>0, <2>1, <2>2, <2>3 DEF Types
<1>5. OpenedInv'
  <2>1. \A j \in jobs' : j \in jobs \/ (j.op = w.op /\ j.id = w.id)
    BY <1>2, <1>3
  <2> QED
    BY <1>0, <1>1, <2>1, OpeningOnlyByCall
<1>6. ASSUME call.clean PROVE CleanInv'
  <2>0. /\ call \in CallType /\ call.api \in Asynchronous /\ call.cfg.tcp \in Ids
        /\ call.cfg.tls \in BOOLEAN /\ Client(call.api, call.cfg) \in Ids
    BY <1>0, <1>6, CallFacts
  <2>1. CASE call.step = "setting" /\ InSetting
    <3>1. /\ wire = <<Cmd("cfg", call.cfg.tcp, call.cfg.tls)>> /\ stream = <<>>
          /\ jobs = {} /\ call.api = "open"
      BY <1>0, <2>1 DEF InSetting
    <3>2. wire' = <<>> /\ w = Cmd("cfg", call.cfg.tcp, call.cfg.tls)
      BY <1>0, <1>1, <3>1, ShortQueues
    <3>3. w.op = "cfg" /\ w.id = call.cfg.tcp /\ w.tls = call.cfg.tls
      BY <2>0, <3>2, CmdIn
    <3>4. \/ stream' = <<Error>> /\ jobs' = {}
          \/ /\ stream' = <<Ok>> /\ jobs' = {}
             /\ ssl'[call.cfg.tcp] = call.cfg.tls
      BY <1>0, <1>2, <2>0, <3>1, <3>3, ShortQueues, LineFacts DEF Types
    <3> QED
      BY <1>0, <2>1, <3>1, <3>2, <3>4 DEF CleanInv, InSetting
  <2>2. CASE call.step = "first" /\ InFirst
    <3>1. /\ wire = <<Cmd(call.api, Client(call.api, call.cfg), FALSE)>>
          /\ jobs = {} /\ stream = <<>>
          /\ call.api = "open" => ssl[call.cfg.tcp] = call.cfg.tls
      BY <1>0, <2>2 DEF InFirst
    <3>2. wire' = <<>> /\ w = Cmd(call.api, Client(call.api, call.cfg), FALSE)
      BY <1>0, <1>1, <3>1, ShortQueues
    <3>3. w.op = call.api /\ w.id = Client(call.api, call.cfg)
      BY <2>0, <3>2, CmdIn
    <3>4. w.op # "cfg"
      BY <2>0, <3>3, LineFacts
    <3>5. CASE stream' = Append(stream, Error) /\ UNCHANGED <<jobs, ssl>>
      BY <1>0, <2>2, <3>1, <3>2, <3>5, ShortQueues DEF CleanInv, InFirst
    <3>6. CASE /\ w.op \in Asynchronous
               /\ jobs' = jobs \cup {Cmd(w.op, w.id, ssl[w.id])}
               /\ stream' = Append(stream, Ok)
      <4>1. PICK j : j = Cmd(w.op, w.id, ssl[w.id])
        OBVIOUS
      <4>2. jobs' = {j} /\ stream' = <<Ok>>
        BY <3>1, <3>6, <4>1, ShortQueues
      <4>3. IsJob(j)'
        BY <1>0, <1>3, <3>1, <3>3, <3>6, <4>1 DEF IsJob, Client
      <4> QED
        BY <1>0, <2>2, <3>2, <4>2, <4>3 DEF CleanInv, InFirst
    <3> QED
      BY <1>2, <3>4, <3>5, <3>6
  <2>3. ~(call.step = "result" /\ InResult) /\ ~(call.step = "final" /\ InFinal)
    BY <1>0 DEF InResult, InFinal
  <2> QED
    BY <1>0, <1>6, <2>1, <2>2, <2>3 DEF CleanInv
<1>7. CleanInv'
  BY <1>0, <1>6 DEF CleanInv
<1> QED
  BY <1>0, <1>4, <1>5, <1>7, LastStands DEF Inv

\* What a finished command does to the module.
LEMMA FinishFacts ==
    ASSUME Types, NEW job \in jobs, Finish(job)
    PROVE  /\ stream' \in Seq(Lines) /\ session' \subseteq Ids
           /\ sock' \in [Ids -> Transports]
           /\ \A c \in Ids : (job.op = "open" => job.id # c) =>
                                 sock'[c] \in {sock[c], "closed"}
<1>0. /\ job.op \in Asynchronous /\ job.id \in Ids /\ job.tls \in BOOLEAN
      /\ sock[job.id] \in Transports /\ stream \in Seq(Lines)
  BY DEF Types, CmdType
<1>1. /\ session' \subseteq Ids /\ sock' \in [Ids -> Transports]
      /\ \A c \in Ids : (job.op = "open" => job.id # c) =>
                            sock'[c] \in {sock[c], "closed"}
  <2>1. CASE UNCHANGED <<sock, session>>
    BY <2>1 DEF Types
  <2>2. CASE /\ sock' = CASE job.op = "open" ->
                               [sock EXCEPT ![job.id] = Transport(job.tls)]
                          [] job.op \in {"disc", "close"} ->
                               [sock EXCEPT ![job.id] = "closed"]
                          [] OTHER -> sock
             /\ session' = CASE job.op = "conn" -> session \cup {job.id}
                             [] job.op \in {"disc", "close"} -> session \ {job.id}
                             [] OTHER -> session
    <3>1. session' \subseteq Ids
      BY <1>0, <2>2 DEF Types
    <3>2. CASE job.op = "open"
      <4>1. sock' = [sock EXCEPT ![job.id] = Transport(job.tls)]
        BY <2>2, <3>2
      <4> QED
        BY <1>0, <3>1, <3>2, <4>1 DEF Types, Transports, Transport
    <3>3. CASE job.op \in {"disc", "close"}
      <4>1. sock' = [sock EXCEPT ![job.id] = "closed"]
        BY <2>2, <3>3
      <4> QED
        BY <1>0, <3>1, <4>1 DEF Types, Transports
    <3>4. CASE job.op \notin {"open", "disc", "close"}
      BY <1>0, <2>2, <3>1, <3>4 DEF Types
    <3> QED
      BY <3>2, <3>3, <3>4
  <2> QED
    BY <2>1, <2>2 DEF Finish
<1>2. stream' \in Seq(Lines)
  <2>1. sock'[job.id] \in Transports
    BY <1>0, <1>1
  <2>2. PICK good \in BOOLEAN, on \in Transports :
            stream' = Append(stream, ResultLine(job.op, job.id, good, on))
    BY <1>0, <2>1 DEF Finish
  <2>3. ResultLine(job.op, job.id, good, on) \in Lines
    BY <1>0, LineFacts
  <2> QED
    BY <1>0, <2>2, <2>3, AppendFacts
<1> QED
  BY <1>1, <1>2

LEMMA FinishJobInv ==
    ASSUME Inv, FinishJob
    PROVE  Inv'
<1>0. /\ Types /\ CleanInv /\ OpenedInv /\ LastInv
      /\ UNCHANGED <<wire, ssl, call, opened, last>>
  BY DEF Inv, FinishJob
<1>1. PICK job \in jobs : Finish(job) /\ jobs' = jobs \ {job}
  BY DEF FinishJob
<1>2. Types'
  BY <1>0, <1>1, FinishFacts DEF Types
<1>3. OpenedInv'
  <2>1. ASSUME NEW d \in opened PROVE sock'[d.tcp] \in {sock[d.tcp], "closed"}
    <3>1. d.tcp \in Ids
      BY <1>0, ConfigIn DEF Types
    <3>2. job.op = "open" => job.id # d.tcp
      BY <1>0 DEF OpenedInv, NotOpening
    <3> QED
      BY <1>0, <1>1, <3>1, <3>2, FinishFacts
  <2> QED
    BY <1>0, <1>1, <2>1, OpeningOnlyByCall
<1>4. ASSUME call.clean PROVE CleanInv'
  <2>1. ASSUME IsJob(job) PROVE \E r : stream' = Append(stream, r) /\ IsResult(r)'
    BY <1>0, <1>1, <1>4, <2>1, FinishLine
  <2>2. CASE call.step = "first" /\ InFirst
    <3>1. wire = <<>> /\ stream = <<Ok>> /\ IsJob(job) /\ jobs = {job}
      BY <2>2 DEF InFirst
    <3>2. PICK r : stream' = Append(stream, r) /\ IsResult(r)'
      BY <2>1, <3>1
    <3>3. wire' = <<>> /\ jobs' = {} /\ stream' = <<Ok, r>>
      BY <1>0, <1>1, <3>1, <3>2, ShortQueues
    <3> QED
      BY <1>0, <2>2, <3>2, <3>3 DEF CleanInv, InFirst
  <2>3. CASE call.step = "result" /\ InResult
    <3>1. wire = <<>> /\ stream = <<>> /\ IsJob(job) /\ jobs = {job}
      BY <2>3 DEF InResult
    <3>2. PICK r : stream' = Append(stream, r) /\ IsResult(r)'
      BY <2>1, <3>1
    <3>3. wire' = <<>> /\ jobs' = {} /\ stream' = <<r>>
      BY <1>0, <1>1, <3>1, <3>2, ShortQueues
    <3> QED
      BY <1>0, <2>3, <3>2, <3>3 DEF CleanInv, InResult
  <2>4. ~InSetting /\ ~InFinal
    BY DEF InSetting, InFinal
  <2> QED
    BY <1>0, <1>4, <2>2, <2>3, <2>4 DEF CleanInv
<1>5. CleanInv'
  BY <1>0, <1>4 DEF CleanInv
<1> QED
  BY <1>0, <1>2, <1>3, <1>5, LastStands DEF Inv

LEMMA ObeyAtOnceInv ==
    ASSUME Inv, ObeyAtOnce
    PROVE  Inv'
<1>0. /\ Types /\ CleanInv /\ OpenedInv /\ LastInv
      /\ wire # <<>> /\ wire' = Tail(wire)
      /\ UNCHANGED <<jobs, ssl, session, call, opened, last>>
      /\ wire \in Seq(CmdType) /\ stream \in Seq(Lines)
  BY DEF Inv, Types, ObeyAtOnce
<1>1. PICK w \in CmdType : w = Head(wire)
  BY <1>0, TailFacts
<1>2. PICK r : /\ w.op = "open" /\ sock[w.id] = "closed"
               /\ sock' = [sock EXCEPT ![w.id] = Transport(ssl[w.id])]
               /\ r = ResultLine("open", w.id, TRUE, sock'[w.id])
               /\ stream' = stream \o <<r, Ok>>
  BY <1>1 DEF ObeyAtOnce
<1>3. /\ w.id \in Ids /\ ssl[w.id] \in BOOLEAN /\ Transport(ssl[w.id]) \in Transports
      /\ sock'[w.id] = Transport(ssl[w.id]) /\ sock' \in [Ids -> Transports]
  BY <1>0, <1>2 DEF Types, CmdType, Transport, Transports
<1>4. /\ r \in Lines /\ r.kind = "open" /\ r.id = w.id /\ r.good
      /\ r.on = Transport(ssl[w.id])
  <2>1. r \in Lines
    BY <1>2, <1>3, LineFacts DEF Asynchronous
  <2> QED
    BY <1>2, <1>3, <2>1 DEF ResultLine
<1>5. Types'
  <2>1. wire' \in Seq(CmdType)
    BY <1>0, TailFacts
  <2>2. stream' \in Seq(Lines)
    <3>1. <<r, Ok>> \in Seq(Lines)
      BY <1>4, LineFacts
    <3> QED
      BY <1>0, <1>2, <3>1, ConcatProperties
  <2> QED
    BY <1>0, <1>3, <2>1, <2>2 DEF Types
<1>6. OpenedInv'
  <2>1. ASSUME NEW d \in opened PROVE sock'[d.tcp] = sock[d.tcp]
    <3>1. 1 \in 1..Len(wire) /\ wire[1] = w
      BY <1>0, <1>1, TailFacts
    <3>2. w.id # d.tcp
      BY <1>0, <1>2, <3>1 DEF OpenedInv, NotOpening
    <3>3. d.tcp \in Ids
      BY <1>0, ConfigIn DEF Types
    <3> QED
      BY <1>0, <1>2, <3>2, <3>3 DEF Types
  <2> QED
    BY <1>0, <2>1, OpeningOnlyByCall
<1>7. ASSUME call.clean PROVE CleanInv'
  <2>0. /\ call \in CallType /\ call.api \in Asynchronous /\ call.cfg.tcp \in Ids
        /\ call.cfg.tls \in BOOLEAN /\ Client(call.api, call.cfg) \in Ids
    BY <1>0, <1>7, CallFacts
  <2>1. ~InSetting
    <3>1. ASSUME wire = <<Cmd("cfg", call.cfg.tcp, call.cfg.tls)>> PROVE FALSE
      <4>1. w = Cmd("cfg", call.cfg.tcp, call.cfg.tls)
        BY <1>1, <3>1, ShortQueues
      <4> QED
        BY <1>2, <4>1 DEF Cmd
    <3> QED
      BY <1>0, <3>1 DEF InSetting
  <2>2. ~InResult /\ ~InFinal
    BY <1>0 DEF InResult, InFinal
  <2>3. call.step = "first" /\ InFirst
    BY <1>0, <1>7, <2>1, <2>2 DEF CleanInv
  <2>4. /\ wire = <<Cmd(call.api, Client(call.api, call.cfg), FALSE)>>
        /\ jobs = {} /\ stream = <<>>
        /\ call.api = "open" => ssl[call.cfg.tcp] = call.cfg.tls
    BY <1>0, <2>3 DEF InFirst
  <2>5. w = Cmd(call.api, Client(call.api, call.cfg), FALSE) /\ wire' = <<>>
    BY <1>0, <1>1, <2>4, ShortQueues
  <2>6. call.api = "open" /\ w.id = Client(call.api, call.cfg) /\ w.id = call.cfg.tcp
    BY <1>2, <2>5 DEF Cmd, Client
  <2>7. IsResult(r)'
    BY <1>0, <1>3, <1>4, <2>4, <2>6 DEF IsResult, SameClients
  <2>8. jobs' = {} /\ stream' = <<r, Ok>>
    BY <1>0, <1>2, <2>4, ShortQueues
  <2> QED
    BY <1>0, <2>3, <2>5, <2>7, <2>8 DEF CleanInv, InFirst
<1>8. CleanInv'
  BY <1>0, <1>7 DEF CleanInv
<1> QED
  BY <1>0, <1>5, <1>6, <1>8, LastStands DEF Inv

LEMMA DropInv ==
    ASSUME Inv, NEW c \in Ids, Drop(c)
    PROVE  Inv'
<1>0. /\ Types /\ CleanInv /\ OpenedInv /\ LastInv
      /\ sock' = [sock EXCEPT ![c] = "closed"] /\ session' = session \ {c}
      /\ UNCHANGED <<wire, jobs, stream, ssl, call, opened, last>>
  BY DEF Inv, Drop
<1>1. Types'
  BY <1>0 DEF Types, Transports
<1>2. \A b \in Ids : sock'[b] \in {sock[b], "closed"}
  BY <1>0 DEF Types
<1>3. OpenedInv'
  BY <1>0, <1>2, ConfigIn, OpeningOnlyByCall DEF Types
<1>4. ASSUME call.clean PROVE CleanInv'
  <2>1. call.cfg.tcp \in Ids
    BY <1>0, <1>4, CallFacts
  <2>2. \A r : IsResult(r) => IsResult(r)'
    BY <1>0, <1>2, <2>1 DEF IsResult, SameClients
  <2>3. \A j : IsJob(j) => IsJob(j)'
    BY <1>0 DEF IsJob
  <2>4. (InSetting => InSetting') /\ (InFirst => InFirst') /\ (InFinal => InFinal')
    BY <1>0, <2>2, <2>3 DEF InSetting, InFirst, InFinal
  <2>5. InResult => InResult'
    BY <1>0, <2>2, <2>3 DEF InResult
  <2> QED
    BY <1>0, <1>4, <2>4, <2>5 DEF CleanInv
<1>5. CleanInv'
  BY <1>0, <1>4 DEF CleanInv
<1> QED
  BY <1>0, <1>1, <1>3, <1>5, LastStands DEF Inv

\* Between calls nothing is expected.
LEMMA PollInv ==
    ASSUME Inv, Poll
    PROVE  Inv'
<1>0. /\ Types /\ OpenedInv /\ LastInv /\ ~call.clean
      /\ stream # <<>> /\ stream' = Tail(stream)
      /\ UNCHANGED <<wire, jobs, ssl, sock, session, call, opened, last>>
  BY CallFacts DEF Inv, Poll, module
<1>1. stream' \in Seq(Lines)
  BY <1>0, TailFacts DEF Types
<1>2. Types' /\ CleanInv'
  BY <1>0, <1>1 DEF Types, CleanInv
<1>3. OpenedInv'
  BY <1>0 DEF OpenedInv, NotOpening
<1> QED
  BY <1>0, <1>2, <1>3, LastStands DEF Inv

-----------------------------------------------------------------------------
(* The starts of calls *)

LEMMA StartInv ==
    ASSUME Inv, NEW api \in Asynchronous, NEW cfg \in Configs, NEW step,
           NEW op \in Asynchronous \cup {"cfg"}, NEW tls \in BOOLEAN,
           Start(api, cfg, step, op, tls),
           \/ step = "setting" /\ api = "open" /\ op = "cfg" /\ tls = cfg.tls
           \/ step = "first" /\ api # "open" /\ op = api /\ tls = FALSE
    PROVE  Inv'
<1>0. /\ Types /\ OpenedInv
      /\ call' = [api |-> api, cfg |-> cfg, step |-> step, by |-> NoLine,
                  clean |-> Quiet]
      /\ wire' = Append(wire, Cmd(op, Client(api, cfg), tls))
      /\ opened' = IF api \in {"open", "disc", "close"}
                   THEN {d \in opened : ~Uses(d, Client(api, cfg))} ELSE opened
      /\ last' = NoResult /\ UNCHANGED <<jobs, ssl, sock, session, stream>>
  BY DEF Inv, Start, module
<1>1. /\ cfg.tcp \in Ids /\ cfg.client \in Ids /\ cfg.tls \in BOOLEAN
      /\ Client(api, cfg) \in Ids
  BY ConfigIn DEF Client
<1>2. PICK w \in CmdType : /\ w = Cmd(op, Client(api, cfg), tls)
                           /\ w.op = op /\ w.id = Client(api, cfg)
  BY <1>1, CmdIn
<1>3. wire' = Append(wire, w) /\ opened' \subseteq opened
  BY <1>0, <1>2
<1>4. /\ call' \in CallType /\ call'.api = api /\ call'.cfg = cfg
      /\ call'.step = step /\ call'.clean = Quiet
  <2>1. Quiet \in BOOLEAN
    BY DEF Quiet
  <2>2. NoLine \in Lines
    BY LineFacts
  <2> HIDE DEF Quiet
  <2> QED
    BY <1>0, <2>1, <2>2 DEF CallType
<1>5. Types'
  <2>1. wire' \in Seq(CmdType)
    BY <1>0, <1>3, AppendFacts DEF Types
  <2> QED
    BY <1>0, <1>3, <1>4, <2>1 DEF Types
<1>6. ASSUME NEW d \in opened'
      PROVE  sock'[d.tcp] \in {"closed", Transport(d.tls)} /\ NotOpening(d)'
  <2>0. d \in opened /\ NotOpening(d) /\ sock[d.tcp] \in {"closed", Transport(d.tls)}
    BY <1>0, <1>3, <1>6 DEF OpenedInv
  <2>1. \A i \in 1..Len(wire') : wire'[i].op = "open" => wire'[i].id # d.tcp
    <3>0. w.op # "open"
      BY <1>2
    <3>1. /\ Len(wire) \in Nat /\ Len(wire') = Len(wire) + 1
          /\ \A i \in 1..Len(wire) : wire'[i] = wire[i]
          /\ wire'[Len(wire) + 1] = w
      BY <1>0, <1>3, AppendFacts DEF Types
    <3>2. \A i \in 1..Len(wire') : i \in 1..Len(wire) \/ i = Len(wire) + 1
      BY <3>1
    <3> QED
      BY <2>0, <3>0, <3>1, <3>2 DEF NotOpening
  <2>2. call'.api = "open" => call'.cfg.tcp # d.tcp
    BY <1>0, <1>4 DEF Uses, Client
  <2> QED
    BY <1>0, <2>0, <2>1, <2>2 DEF NotOpening
<1>7. OpenedInv'
  BY <1>6 DEF OpenedInv
<1>8. ASSUME Quiet PROVE CleanInv'
  <2>1. wire' = <<w>> /\ jobs' = {} /\ stream' = <<>>
    BY <1>0, <1>3, <1>8, ShortQueues DEF Quiet
  <2>2. CASE step = "setting" /\ api = "open" /\ op = "cfg" /\ tls = cfg.tls
    BY <1>2, <1>4, <2>1, <2>2 DEF CleanInv, InSetting, Client
  <2>3. CASE step = "first" /\ api # "open" /\ op = api /\ tls = FALSE
    BY <1>2, <1>4, <2>1, <2>3 DEF CleanInv, InFirst
  <2> QED
    BY <2>2, <2>3
<1>9. CleanInv'
  BY <1>4, <1>8 DEF CleanInv
<1>10. LastInv'
  BY <1>0 DEF LastInv, OpenedAsAsked, ConnectedAsOpened, NoResult, SameClients
<1> QED
  BY <1>5, <1>7, <1>9, <1>10 DEF Inv

-----------------------------------------------------------------------------
(* The ends of calls *)

\* A success that a caller who started with nothing owed may believe.
Proven(by) == IsResult(by) /\ by.good /\ wire = <<>> /\ jobs = {}

LEMMA ReturnInv ==
    ASSUME Inv, NEW st, NEW by, Return(st, by), call \in CallType,
           UNCHANGED module, stream' \in Seq(Lines),
           (call.clean /\ st = "OK") => Proven(by)
    PROVE  Inv'
<1>0. /\ Types /\ OpenedInv /\ LastInv /\ call' = NoCall
      /\ last' = [api |-> call.api, cfg |-> call.cfg, st |-> st, by |-> by,
                  clean |-> call.clean]
      /\ opened' = IF call.api = "open" /\ call.clean /\ st = "OK"
                   THEN opened \cup {call.cfg} ELSE opened
      /\ UNCHANGED <<wire, jobs, ssl, sock, session>>
  BY DEF Inv, Return, module
<1>1. /\ call.cfg \in Configs /\ call.api \in Asynchronous
      /\ call.clean \in BOOLEAN /\ call.cfg.tcp \in Ids
  BY <1>0, CallFacts
<1>2. NoCall.clean = FALSE /\ NoCall.api = "none" /\ NoCall.step = "none"
  BY DEF NoCall
<1>3. Types' /\ CleanInv'
  BY <1>0, <1>1, <1>2 DEF Types, CleanInv
<1>4. /\ last'.api = call.api /\ last'.cfg = call.cfg /\ last'.st = st
      /\ last'.by = by /\ last'.clean = call.clean
  BY <1>0
<1>5. ASSUME NEW d \in opened'
      PROVE  sock'[d.tcp] \in {"closed", Transport(d.tls)} /\ NotOpening(d)'
  <2>1. CASE d \in opened
    BY <1>0, <1>2, <2>1 DEF OpenedInv, NotOpening
  <2>2. CASE d \notin opened
    <3>1. d = call.cfg /\ call.api = "open" /\ Proven(by)
      BY <1>0, <2>2
    <3>2. wire' = <<>> /\ jobs' = {}
      BY <1>0, <3>1 DEF Proven
    <3>3. NotOpening(d)'
      BY <1>0, <1>2, <3>2, ShortQueues DEF NotOpening
    <3> QED
      BY <1>0, <3>1, <3>3 DEF Proven, IsResult
  <2> QED
    BY <2>1, <2>2
<1>6. OpenedInv'
  BY <1>5 DEF OpenedInv
<1>7. LastInv'
  <2>1. OpenedAsAsked'
    BY <1>4 DEF OpenedAsAsked, Proven, IsResult, Client
  <2>2. ASSUME SameClients PROVE ConnectedAsOpened'
    BY <1>0, <1>4, <2>2 DEF ConnectedAsOpened, Proven, IsResult
  <2> QED
    BY <2>1, <2>2 DEF LastInv, SameClients
<1> QED
  BY <1>3, <1>6, <1>7 DEF Inv

LEMMA GivesUpInv ==
    ASSUME Inv, TimesOut \/ ReadFails
    PROVE  Inv'
<1>0. /\ Types /\ CleanInv /\ ~Idle /\ UNCHANGED <<module, stream>>
      /\ stream \in Seq(Lines) /\ call \in CallType
  BY CallFacts DEF Inv, TimesOut, ReadFails, GivesUp, Types
<1>1. CASE call.step = "final" /\ Return(QmtResult(call.by), call.by)
  <2>1. call.clean => InFinal
    BY <1>0, <1>1 DEF CleanInv
  <2>2. (call.clean /\ QmtResult(call.by) = "OK") => Proven(call.by)
    BY <2>1 DEF InFinal, Proven, QmtResult
  <2> QED
    BY <1>0, <1>1, <2>2, ReturnInv
<1>2. CASE \E st \in {"TIMEOUT", "IO"} : Return(st, NoLine)
  BY <1>0, <1>2, ReturnInv
<1> QED
  BY <1>1, <1>2 DEF TimesOut, ReadFails, GivesUp
-----------------------------------------------------------------------------
(* The lines a call reads *)

LEMMA GotoFacts ==
    ASSUME call \in CallType, NEW step \in {"first", "result", "final"},
           NEW by \in Lines, Goto(step, by)
    PROVE  /\ call' \in CallType /\ call'.step = step /\ call'.by = by
           /\ call'.api = call.api /\ call'.cfg = call.cfg
           /\ call'.clean = call.clean /\ UNCHANGED <<opened, last>>
BY DEF Goto, CallType

\* What a call that owed nothing when it started finds in front of it.
LEMMA CleanLine ==
    ASSUME Types, CleanInv, call.clean, stream # <<>>
    PROVE  LET l == Head(stream) IN
           /\ wire = <<>>
           /\ call.step = "setting" => l \in {Ok, Error}
           /\ (call.step = "setting" /\ l = Ok) =>
                  jobs = {} /\ Tail(stream) = <<>> /\ ssl[call.cfg.tcp] = call.cfg.tls
           /\ call.step = "first" => l \in {Ok, Error} \/ l.kind = call.api
           /\ (call.step = "first" /\ l = Ok) =>
                 \/ Tail(stream) = <<>> /\ \E j : IsJob(j) /\ jobs = {j}
                 \/ jobs = {} /\ \E r : IsResult(r) /\ Tail(stream) = <<r>>
           /\ (call.step = "first" /\ l.kind = call.api) =>
                 IsResult(l) /\ jobs = {} /\ Tail(stream) = <<Ok>>
           /\ call.step = "result" => IsResult(l) /\ jobs = {} /\ Tail(stream) = <<>>
           /\ call.step = "final" =>
                 l = Ok /\ IsResult(call.by) /\ jobs = {} /\ Tail(stream) = <<>>
           /\ l = Error => jobs = {} /\ Tail(stream) = <<>>
<1> DEFINE l == Head(stream)
<1>0. /\ call.api \in Asynchronous /\ Ok.kind = "OK" /\ Error.kind = "ERROR"
      /\ Ok # Error /\ call.api \notin {"OK", "ERROR"}
      /\ \A r : IsResult(r) => r.kind = call.api /\ r # Ok /\ r # Error
  <2>1. call.api \in Asynchronous
    BY CallFacts
  <2> QED
    BY <2>1, LineFacts DEF IsResult
<1>1. CASE call.step = "setting" /\ InSetting
  BY <1>0, <1>1, ShortQueues DEF InSetting
<1>2. CASE call.step = "first" /\ InFirst
  <2>1. CASE wire = <<>> /\ jobs = {} /\ stream = <<Error>>
    <3>1. l = Error /\ Tail(stream) = <<>>
      BY <2>1, ShortQueues
    <3> QED
      BY <1>0, <1>2, <2>1, <3>1
  <2>2. CASE wire = <<>> /\ stream = <<Ok>> /\ \E j : IsJob(j) /\ jobs = {j}
    <3>1. l = Ok /\ Tail(stream) = <<>>
      BY <2>2, ShortQueues
    <3> QED
      BY <1>0, <1>2, <2>2, <3>1
  <2>3. ASSUME wire = <<>>, jobs = {}, NEW r, IsResult(r), stream = <<Ok, r>>
        PROVE  l = Ok /\ Tail(stream) = <<r>>
    BY <2>3, ShortQueues
  <2>4. ASSUME wire = <<>>, jobs = {}, NEW r, IsResult(r), stream = <<r, Ok>>
        PROVE  l = r /\ Tail(stream) = <<Ok>>
    BY <2>4, ShortQueues
  <2>5. CASE wire = <<>> /\ jobs = {} /\ \E r : IsResult(r) /\ stream = <<Ok, r>>
    BY <1>0, <1>2, <2>3, <2>5
  <2>6. CASE wire = <<>> /\ jobs = {} /\ \E r : IsResult(r) /\ stream = <<r, Ok>>
    BY <1>0, <1>2, <2>4, <2>6
  <2> QED
    BY <1>2, <2>1, <2>2, <2>5, <2>6 DEF InFirst
<1>3. CASE call.step = "result" /\ InResult
  <2>1. PICK r : wire = <<>> /\ jobs = {} /\ IsResult(r) /\ stream = <<r>>
    BY <1>3 DEF InResult
  <2>2. l = r /\ Tail(stream) = <<>>
    BY <2>1, ShortQueues
  <2> QED
    BY <1>0, <1>3, <2>1, <2>2
<1>4. CASE call.step = "final" /\ InFinal
  <2>1. l = Ok /\ Tail(stream) = <<>>
    BY <1>4, ShortQueues DEF InFinal
  <2> QED
    BY <1>0, <1>4, <2>1 DEF InFinal
<1> QED
  BY <1>1, <1>2, <1>3, <1>4 DEF CleanInv

\* A call that goes on to its next line.
LEMMA GotoInv ==
    ASSUME Inv, call \in CallType, NEW step \in {"result", "final"},
           NEW by \in Lines, Goto(step, by), UNCHANGED <<wire, module>>,
           stream' \in Seq(Lines), CleanInv'
    PROVE  Inv'
<1>0. /\ Types /\ OpenedInv /\ LastInv
      /\ call' \in CallType /\ call'.step = step /\ call'.api = call.api
      /\ call'.cfg = call.cfg /\ UNCHANGED <<opened, last>>
      /\ UNCHANGED <<jobs, ssl, sock, session>>
  BY GotoFacts DEF Inv, module
<1>1. Types'
  BY <1>0 DEF Types
<1>2. OpenedInv'
  BY <1>0 DEF OpenedInv, NotOpening
<1> QED
  BY <1>0, <1>1, <1>2, LastStands DEF Inv

LEMMA SentFacts ==
    ASSUME wire \in Seq(CmdType), NEW w \in CmdType, wire' = Append(wire, w)
    PROVE  /\ wire' \in Seq(CmdType) /\ Len(wire) \in Nat
           /\ Len(wire') = Len(wire) + 1
           /\ \A i \in 1..Len(wire) : wire'[i] = wire[i]
           /\ wire'[Len(wire) + 1] = w
BY AppendFacts

\* The setting is made: the open itself is sent.
LEMMA SettingMadeInv ==
    ASSUME Inv, call \in CallType, call.step = "setting", stream # <<>>,
           stream' = Tail(stream), stream' \in Seq(Lines), Head(stream) = Ok,
           Goto("first", NoLine), wire' = Append(wire, Cmd("open", call.cfg.tcp, FALSE)),
           UNCHANGED module
    PROVE  Inv'
<1>0. /\ Types /\ CleanInv /\ OpenedInv /\ LastInv /\ call.api = "open"
      /\ call' \in CallType /\ call'.step = "first" /\ call'.api = call.api
      /\ call'.cfg = call.cfg /\ call'.clean = call.clean
      /\ UNCHANGED <<opened, last, jobs, ssl, sock, session>>
      /\ call.cfg.tcp \in Ids
  BY GotoFacts, LineFacts, CallFacts DEF Inv, module, Types
<1>1. PICK w \in CmdType : /\ w = Cmd("open", call.cfg.tcp, FALSE)
                           /\ w.id = call.cfg.tcp /\ wire' = Append(wire, w)
  <2>1. "open" \in Asynchronous \cup {"cfg"} /\ FALSE \in BOOLEAN
    BY DEF Asynchronous
  <2>2. PICK w : w = Cmd("open", call.cfg.tcp, FALSE)
    OBVIOUS
  <2>3. w \in CmdType /\ w.id = call.cfg.tcp
    BY <1>0, <2>1, <2>2, CmdIn
  <2> QED
    BY <2>2, <2>3
<1>2. /\ wire' \in Seq(CmdType) /\ Len(wire) \in Nat /\ Len(wire') = Len(wire) + 1
      /\ \A i \in 1..Len(wire) : wire'[i] = wire[i]
      /\ wire'[Len(wire) + 1] = w
  BY <1>0, <1>1, SentFacts DEF Types
<1>3. Types'
  BY <1>0, <1>2 DEF Types
<1>4. ASSUME NEW d \in opened'
      PROVE  sock'[d.tcp] \in {"closed", Transport(d.tls)} /\ NotOpening(d)'
  <2>1. d \in opened /\ NotOpening(d) /\ sock[d.tcp] \in {"closed", Transport(d.tls)}
    BY <1>0, <1>4 DEF OpenedInv
  <2>2. call.cfg.tcp # d.tcp
    BY <1>0, <2>1 DEF NotOpening
  <2>3. \A i \in 1..Len(wire') : i \in 1..Len(wire) \/ i = Len(wire) + 1
    BY <1>2
  <2>4. \A i \in 1..Len(wire') : wire'[i].op = "open" => wire'[i].id # d.tcp
    BY <1>1, <1>2, <2>1, <2>2, <2>3 DEF NotOpening
  <2> QED
    BY <1>0, <2>1, <2>2, <2>4 DEF NotOpening
<1>5. OpenedInv'
  BY <1>4 DEF OpenedInv
<1>6. ASSUME call.clean PROVE CleanInv'
  <2>1. /\ wire = <<>> /\ jobs = {} /\ stream' = <<>>
        /\ ssl[call.cfg.tcp] = call.cfg.tls
    BY <1>0, <1>6, CleanLine
  <2>2. wire' = <<Cmd("open", call.cfg.tcp, FALSE)>>
    BY <2>1, ShortQueues
  <2> QED
    BY <1>0, <2>1, <2>2 DEF CleanInv, InFirst, Client
<1>7. CleanInv'
  BY <1>0, <1>6 DEF CleanInv
<1> QED
  BY <1>0, <1>3, <1>5, <1>7, LastStands DEF Inv

LEMMA ReadLineInv ==
    ASSUME Inv, ReadLine
    PROVE  Inv'
<1>1. /\ Types /\ CleanInv /\ OpenedInv /\ LastInv /\ stream # <<>>
      /\ stream' = Tail(stream) /\ UNCHANGED module /\ call \in CallType
      /\ UNCHANGED <<jobs, ssl, sock, session>>
  BY CallFacts DEF Inv, ReadLine, module
<1>2. PICK l \in Lines : l = Head(stream)
  BY <1>1, TailFacts DEF Types
<1>3. stream' \in Seq(Lines)
  BY <1>1, TailFacts DEF Types
<1>4. ASSUME ~call.clean, UNCHANGED <<call, wire, opened, last>> PROVE Inv'
  <2>1. Types' /\ CleanInv'
    BY <1>1, <1>3, <1>4 DEF Types, CleanInv
  <2>2. OpenedInv'
    BY <1>1, <1>4 DEF OpenedInv, NotOpening
  <2> QED
    BY <1>1, <1>4, <2>1, <2>2, LastStands DEF Inv
<1>5. ASSUME NEW st, st # "OK", NEW by, Return(st, by) PROVE Inv'
  BY <1>1, <1>3, <1>5, ReturnInv
<1>6. CASE call.step = "setting" /\ ReadSetting(l)
  <2>1. CASE l = Ok /\ Goto("first", NoLine)
               /\ wire' = Append(wire, Cmd("open", call.cfg.tcp, FALSE))
    BY <1>1, <1>2, <1>3, <1>6, <2>1, SettingMadeInv
  <2>2. CASE l \notin {Ok, Error} /\ UNCHANGED <<call, wire, opened, last>>
    BY <1>1, <1>2, <1>4, <1>6, <2>2, CleanLine
  <2> QED
    BY <1>5, <1>6, <2>1, <2>2 DEF ReadSetting
<1>7. CASE call.step = "first" /\ ReadFirst(l)
  <2>1. CASE l.kind = call.api /\ Goto("final", l) /\ UNCHANGED wire
    <3>1. /\ call'.step = "final" /\ call'.by = l /\ call'.api = call.api
          /\ call'.cfg = call.cfg /\ call'.clean = call.clean /\ UNCHANGED opened
      BY <1>1, <2>1, GotoFacts
    <3>2. ASSUME call.clean PROVE CleanInv'
      <4>1. IsResult(l) /\ jobs = {} /\ wire = <<>> /\ stream' = <<Ok>>
        BY <1>1, <1>2, <1>7, <2>1, <3>2, CleanLine
      <4>2. IsResult(l)'
        BY <1>1, <3>1, <4>1 DEF IsResult, SameClients
      <4> QED
        BY <1>1, <2>1, <3>1, <4>1, <4>2 DEF CleanInv, InFinal
    <3>3. CleanInv'
      BY <3>1, <3>2 DEF CleanInv
    <3> QED
      BY <1>1, <1>3, <2>1, <3>3, GotoInv
  <2>2. CASE l = Ok /\ Goto("result", NoLine) /\ UNCHANGED wire
    <3>1. /\ call'.step = "result" /\ call'.api = call.api
          /\ call'.cfg = call.cfg /\ call'.clean = call.clean /\ UNCHANGED opened
      BY <1>1, <2>2, GotoFacts, LineFacts
    <3>2. ASSUME call.clean PROVE CleanInv'
      <4>1. /\ wire = <<>>
            /\ \/ stream' = <<>> /\ \E j : IsJob(j) /\ jobs = {j}
               \/ jobs = {} /\ \E r : IsResult(r) /\ stream' = <<r>>
        BY <1>1, <1>2, <1>7, <2>2, <3>2, CleanLine
      <4>2. /\ \A j : IsJob(j) => IsJob(j)'
            /\ \A r : IsResult(r) => IsResult(r)'
        BY <1>1, <3>1 DEF IsJob, IsResult, SameClients
      <4> QED
        BY <1>1, <2>2, <3>1, <4>1, <4>2 DEF CleanInv, InResult
    <3>3. CleanInv'
      BY <3>1, <3>2 DEF CleanInv
    <3> QED
      BY <1>1, <1>3, <2>2, <3>3, GotoInv, LineFacts
  <2>3. CASE /\ l.kind \notin {"OK", "ERROR", call.api}
             /\ UNCHANGED <<call, wire, opened, last>>
    <3>1. l \notin {Ok, Error}
      BY <2>3, LineFacts
    <3> QED
      BY <1>1, <1>2, <1>4, <1>7, <2>3, <3>1, CleanLine
  <2> QED
    BY <1>5, <1>7, <2>1, <2>2, <2>3 DEF ReadFirst
<1>8. CASE call.step = "result" /\ ReadResult(l)
  <2>0. call.clean => IsResult(l) /\ wire = <<>> /\ jobs = {} /\ l.kind = call.api
    BY <1>1, <1>2, <1>8, CleanLine DEF IsResult
  <2>1. CASE Return(QmtResult(l), l)
    <3>1. (call.clean /\ QmtResult(l) = "OK") => Proven(l)
      BY <2>0 DEF Proven, QmtResult
    <3> QED
      BY <1>1, <1>3, <2>1, <3>1, ReturnInv
  <2> QED
    BY <1>4, <1>5, <1>8, <2>0, <2>1 DEF ReadResult
<1>9. CASE call.step = "final" /\ ReadFinal(l)
  <2>0. call.clean => l = Ok /\ IsResult(call.by) /\ wire = <<>> /\ jobs = {}
    BY <1>1, <1>2, <1>9, CleanLine
  <2>1. CASE Return(QmtResult(call.by), call.by)
    <3>1. (call.clean /\ QmtResult(call.by) = "OK") => Proven(call.by)
      BY <2>0 DEF Proven, QmtResult
    <3> QED
      BY <1>1, <1>3, <2>1, <3>1, ReturnInv
  <2> QED
    BY <1>4, <1>9, <2>0, <2>1 DEF ReadFinal
<1> QED
  BY <1>2, <1>6, <1>7, <1>8, <1>9 DEF ReadLine

-----------------------------------------------------------------------------
(* The theorems *)

LEMMA InitInv == Init => Inv
<1> SUFFICES ASSUME Init PROVE Inv
  OBVIOUS
<1>1. /\ NoCall.clean = FALSE /\ NoCall.step = "none"
      /\ NoResult.api = "none"
  BY DEF NoCall, NoResult
<1>2. Types
  BY <1>1 DEF Init, Types, Transports
<1>3. CleanInv /\ OpenedInv /\ LastInv
  BY <1>1 DEF Init, CleanInv, OpenedInv, LastInv, OpenedAsAsked, ConnectedAsOpened
<1> QED
  BY <1>2, <1>3 DEF Inv

LEMMA StepInv == Inv /\ [Next]_vars => Inv'
<1> SUFFICES ASSUME Inv, [Next]_vars PROVE Inv'
  OBVIOUS
<1>1. ASSUME NEW cfg \in Configs, OpenStarts(cfg) PROVE Inv'
  BY <1>1, ConfigIn, StartInv DEF OpenStarts, Asynchronous
<1>2. ASSUME NEW cfg \in Configs, OtherStarts(cfg) PROVE Inv'
  BY <1>2, StartInv DEF OtherStarts
<1>3. CASE UNCHANGED vars
  BY <1>3 DEF vars, module, Inv, Types, CleanInv, InSetting, InFirst, InResult,
              InFinal, IsJob, IsResult, SameClients, OpenedInv, NotOpening,
              LastInv, OpenedAsAsked, ConnectedAsOpened
<1> QED
  BY <1>1, <1>2, <1>3, ObeyInv, FinishJobInv, ObeyAtOnceInv, DropInv,
     ReadLineInv, GivesUpInv, PollInv DEF Next

LEMMA Invariant == Spec => []Inv
  BY InitInv, StepInv, PTL DEF Spec

\* ec200_mqtt_open: whatever the module had been set to before, an open that
\* starts with nothing owed and succeeds has the transport it asks for.
THEOREM OpenedAsAskedHolds == Spec => []OpenedAsAsked
<1>1. Inv => OpenedAsAsked
  BY DEF Inv, LastInv
<1> QED
  BY <1>1, Invariant, PTL

\* ec200_mqtt_connect: a session of an opened configuration runs over its
\* transport, if every configuration uses one identifier for both calls.
THEOREM ConnectedAsOpenedHolds ==
    ASSUME SameClients PROVE Spec => []ConnectedAsOpened
<1>1. Inv => ConnectedAsOpened
  BY DEF Inv, LastInv
<1> QED
  BY <1>1, Invariant, PTL

\* send_await_urc: a call that started with nothing owed and was answered, in
\* either order of its OK and its result line, leaves nothing to read.
THEOREM AnsweredInFullHolds == Spec => AnsweredInFull
<1>1. ASSUME Inv, ReadLine, call' = NoCall, call.clean PROVE Quiet'
  <2>1. /\ Types /\ CleanInv /\ stream # <<>> /\ stream' = Tail(stream)
        /\ UNCHANGED jobs /\ call \in CallType
    BY <1>1, CallFacts DEF Inv, ReadLine, module
  <2>2. PICK l \in Lines : l = Head(stream)
    BY <2>1, TailFacts DEF Types
  <2>3. call \notin {NoCall} /\ NoCall.step = "none"
    BY <1>1, <2>1 DEF NoCall, CallType
  <2>4. ASSUME NEW step, step # "none", NEW by, Goto(step, by) PROVE FALSE
    BY <1>1, <2>1, <2>3, <2>4 DEF Goto, CallType
  <2>5. \/ call.step = "setting" /\ l = Error
        \/ call.step = "first" /\ l = Error
        \/ call.step \in {"result", "final"}
    BY <1>1, <2>2, <2>3, <2>4 DEF ReadLine, ReadSetting, ReadFirst
  <2>6. wire' = wire
    BY <1>1, <2>2, <2>3, <2>4
       DEF ReadLine, ReadSetting, ReadFirst, ReadResult, ReadFinal, Return
  <2>7. wire = <<>> /\ jobs = {} /\ Tail(stream) = <<>>
    BY <1>1, <2>1, <2>2, <2>5, CleanLine
  <2> QED
    BY <2>1, <2>6, <2>7 DEF Quiet
<1>2. Inv /\ [Next]_vars =>
         [(ReadLine /\ call' = NoCall /\ call.clean) => Quiet']_vars
  BY <1>1
<1> QED
  BY <1>2, Invariant, PTL DEF Spec, AnsweredInFull
=============================================================================
