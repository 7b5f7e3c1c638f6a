-------------------------- MODULE PppSessionProofs --------------------------
(***************************************************************************)
(* The safety of the PPP control plane for every storm guard, every bound  *)
(* and every way the transport fails: a call that starts in sync and does  *)
(* not give up ends in sync, writes no command into the PPP stream and     *)
(* takes no frame from the host.                                           *)
(*                                                                         *)
(* The invariant says of such a call, for each of its steps, what is left  *)
(* in the two queues between library and module.                           *)
(***************************************************************************)
EXTENDS PppSession, TLAPS, SequenceTheorems

WorkItem == Command \cup {"+++", "part"}
Apis == {"dial", "resume", "hangup", "disconnect", "send", "poll", "escape"}
CallType == [api : Apis, lines : Nat, clean : BOOLEAN,
             step : {"connect", "reply", "poll", "guard", "final"}]

Types ==
    /\ work \in Seq(WorkItem) /\ stream \in Seq(Item)
    /\ mode \in {"command", "suspended", "data"}
    /\ flag \in BOOLEAN
    /\ call \in CallType \cup {NoCall}

Frames(s) == \A i \in 1..Len(s) : s[i] = "FRAME"
Session(s) ==
    \A i \in 1..Len(s) : s[i] = "FRAME" \/ (i = Len(s) /\ s[i] = "NO_CARRIER")

\* An item the module will not answer.
Silent(x, m) == x = "part" \/ (x = "+++" /\ m # "data")
AllSilent(w, m) == \A i \in 1..Len(w) : Silent(w[i], m)

\* What is to be processed ends with x, and nothing before it is answered.
LastIs(w, m, X) ==
    /\ w # <<>> /\ w[Len(w)] \in X
    /\ \A i \in 1..(Len(w) - 1) : Silent(w[i], m)

\* A module in data mode has said CONNECT after any NO CARRIER.
SaysConnect(s) ==
    \A i \in 1..Len(s) :
        s[i] = "NO_CARRIER" => \E j \in (i + 1)..Len(s) : s[j] = "CONNECT"
Carrier == mode = "data" => SaysConnect(stream)

\* The UART is the host's, and the module knows or has said so.
HostOwns ==
    /\ mode # "suspended" /\ AllSilent(work, mode) /\ Session(stream)
    /\ mode = "data" => Frames(stream)

Replying ==
    /\ mode # "data"
    /\ \/ stream = <<>> /\ LastIs(work, mode, {"hangup", "other"})
       \/ work = <<>> /\ stream \in {<<"OK">>, <<"ERROR">>}

Connecting ==
    \/ /\ mode # "data" /\ stream = <<>> /\ LastIs(work, mode, {"dial", "resume"})
    \/ /\ mode # "data" /\ work = <<>>
       /\ stream \in {<<"ERROR">>, <<"NO_CARRIER">>}
    \/ /\ mode # "suspended" /\ work = <<>>
       /\ stream # <<>> /\ Head(stream) = "CONNECT" /\ Session(Tail(stream))
       /\ mode = "data" => Frames(Tail(stream))

Polling == mode # "data" /\ stream = <<>> /\ AllSilent(work, mode)

Escaping ==
    \/ mode = "data" /\ LastIs(work, mode, {"+++"}) /\ Frames(stream)
    \/ /\ mode = "suspended" /\ work = <<>>
       /\ stream # <<>> /\ stream[Len(stream)] = "OK"
       /\ \A i \in 1..(Len(stream) - 1) : stream[i] = "FRAME"
    \/ mode = "command" /\ AllSilent(work, mode) /\ Session(stream)

CleanInv ==
    call.clean =>
        \/ call.step = "connect" /\ ~flag /\ Connecting
        \/ call.step = "reply" /\ ~flag /\ Replying
        \/ call.step = "poll" /\ ~flag /\ Polling
        \/ call.step = "guard" /\ flag /\ HostOwns
        \/ call.step = "final" /\ flag /\ Escaping

Inv == Types /\ Carrier /\ CleanInv

-----------------------------------------------------------------------------
(* Queues *)

\* A queue that is read, or written to.
LEMMA TailFacts ==
    ASSUME NEW S, NEW s \in Seq(S), s # <<>>
    PROVE  /\ Tail(s) \in Seq(S) /\ Len(s) \in Nat \ {0}
           /\ Len(Tail(s)) = Len(s) - 1 /\ Head(s) = s[1] /\ s[1] \in S
           /\ \A i \in 1..(Len(s) - 1) : Tail(s)[i] = s[i + 1]
           /\ Tail(s) = <<>> <=> Len(s) = 1
<1>1. Len(s) \in Nat \ {0}
  BY EmptySeq
<1>2. Tail(s) \in Seq(S) /\ Len(Tail(s)) = Len(s) - 1 /\ Head(s) = s[1]
        /\ \A i \in 1..(Len(s) - 1) : Tail(s)[i] = s[i + 1]
  BY <1>1, HeadTailProperties
<1>3. s[1] \in S
  BY <1>1, ElementOfSeq
<1>4. Tail(s) = <<>> <=> Len(Tail(s)) = 0
  BY <1>2, EmptySeq
<1> QED
  BY <1>1, <1>2, <1>3, <1>4

LEMMA AppendFacts ==
    ASSUME NEW S, NEW s \in Seq(S), NEW x \in S
    PROVE  /\ Append(s, x) \in Seq(S) /\ Len(s) \in Nat
           /\ Len(Append(s, x)) = Len(s) + 1 /\ Append(s, x) # <<>>
           /\ \A i \in 1..Len(s) : Append(s, x)[i] = s[i]
           /\ Append(s, x)[Len(s) + 1] = x
<1>1. /\ Append(s, x) \in Seq(S) /\ Len(s) \in Nat
      /\ Len(Append(s, x)) = Len(s) + 1
      /\ \A i \in 1..Len(s) : Append(s, x)[i] = s[i]
      /\ Append(s, x)[Len(s) + 1] = x
  OBVIOUS
<1>2. Append(s, x) # <<>>
  BY <1>1, EmptySeq
<1> QED
  BY <1>1, <1>2

\* Reading the stream of a session, or its end.
LEMMA SessionTail ==
    ASSUME NEW s \in Seq(Item), s # <<>>, Session(s)
    PROVE  /\ Head(s) \in {"FRAME", "NO_CARRIER"}
           /\ Head(s) = "NO_CARRIER" => Tail(s) = <<>>
           /\ Session(Tail(s)) /\ (Frames(s) => Frames(Tail(s)))
<1>1. /\ Len(s) \in Nat \ {0} /\ Len(Tail(s)) = Len(s) - 1 /\ Head(s) = s[1]
      /\ \A i \in 1..(Len(s) - 1) : Tail(s)[i] = s[i + 1]
      /\ Tail(s) = <<>> <=> Len(s) = 1
  BY TailFacts
<1>2. s[1] = "FRAME" \/ (1 = Len(s) /\ s[1] = "NO_CARRIER")
  <2>1. 1 \in 1..Len(s)
    BY <1>1
  <2> QED
    BY <2>1 DEF Session
<1>3. \A i \in 1..Len(Tail(s)) : i + 1 \in 1..Len(s) /\ Tail(s)[i] = s[i + 1]
                                   /\ (i + 1 = Len(s) <=> i = Len(Tail(s)))
  BY <1>1
<1>4. Session(Tail(s)) /\ (Frames(s) => Frames(Tail(s)))
  BY <1>3 DEF Session, Frames
<1> QED
  BY <1>1, <1>2, <1>4

\* The module goes on with a session, or ends it.
LEMMA SessionAppend ==
    ASSUME NEW s \in Seq(Item), Frames(s)
    PROVE  /\ Frames(Append(s, "FRAME")) /\ Session(Append(s, "FRAME"))
           /\ Session(Append(s, "NO_CARRIER"))
<1>1. "FRAME" \in Item /\ "NO_CARRIER" \in Item
  BY DEF Item
<1>2. ASSUME NEW x \in {"FRAME", "NO_CARRIER"}
      PROVE  \A i \in 1..Len(Append(s, x)) :
                Append(s, x)[i] = IF i = Len(Append(s, x)) THEN x ELSE "FRAME"
  <2> TAKE i \in 1..Len(Append(s, x))
  <2>0. x \in Item
    BY <1>1, <1>2
  <2>1. /\ Len(s) \in Nat /\ Len(Append(s, x)) = Len(s) + 1
        /\ \A j \in 1..Len(s) : Append(s, x)[j] = s[j]
        /\ Append(s, x)[Len(s) + 1] = x
    BY <2>0
  <2>2. CASE i = Len(s) + 1
    BY <2>1, <2>2
  <2>3. CASE i # Len(s) + 1
    <3>1. i \in 1..Len(s)
      BY <2>1, <2>3
    <3> QED
      BY <2>1, <2>3, <3>1 DEF Frames
  <2> QED
    BY <2>2, <2>3
<1>3. Frames(Append(s, "FRAME"))
  BY <1>2 DEF Frames
<1>4. Session(Append(s, "NO_CARRIER")) /\ Session(Append(s, "FRAME"))
  BY <1>2 DEF Session
<1> QED
  BY <1>3, <1>4

\* A further command behind those that are not answered.
LEMMA SilentAppend ==
    ASSUME NEW w \in Seq(WorkItem), NEW m, NEW x \in WorkItem,
           AllSilent(w, m)
    PROVE  /\ \A X : x \in X => LastIs(Append(w, x), m, X)
           /\ Silent(x, m) => AllSilent(Append(w, x), m)
<1>1. /\ Append(w, x) # <<>> /\ Len(w) \in Nat
      /\ Len(Append(w, x)) = Len(w) + 1
      /\ \A i \in 1..Len(w) : Append(w, x)[i] = w[i]
      /\ Append(w, x)[Len(w) + 1] = x
  BY AppendFacts
<1>2. \A i \in 1..Len(w) : Silent(Append(w, x)[i], m)
  BY <1>1 DEF AllSilent
<1>3. \A X : x \in X => LastIs(Append(w, x), m, X)
  <2>1. Len(Append(w, x)) - 1 = Len(w)
    BY <1>1
  <2> QED
    BY <1>1, <1>2, <2>1 DEF LastIs
<1>4. Silent(x, m) => AllSilent(Append(w, x), m)
  <2> SUFFICES ASSUME Silent(x, m), NEW i \in 1..(Len(w) + 1)
               PROVE  Silent(Append(w, x)[i], m)
    BY <1>1 DEF AllSilent
  <2>1. i \in 1..Len(w) \/ i = Len(w) + 1
    BY <1>1
  <2> QED
    BY <1>1, <1>2, <2>1
<1> QED
  BY <1>3, <1>4

\* The module gets to the oldest one.
LEMMA SilentTail ==
    ASSUME NEW w \in Seq(WorkItem), w # <<>>, NEW m, AllSilent(w, m)
    PROVE  Silent(Head(w), m) /\ AllSilent(Tail(w), m)
<1>1. /\ Len(w) \in Nat \ {0} /\ Len(Tail(w)) = Len(w) - 1 /\ Head(w) = w[1]
      /\ \A i \in 1..(Len(w) - 1) : Tail(w)[i] = w[i + 1]
  BY TailFacts
<1>2. Silent(w[1], m)
  BY <1>1 DEF AllSilent
<1>3. \A i \in 1..Len(Tail(w)) : i + 1 \in 1..Len(w) /\ Tail(w)[i] = w[i + 1]
  BY <1>1
<1> QED
  BY <1>1, <1>2, <1>3 DEF AllSilent

LEMMA LastTail ==
    ASSUME NEW w \in Seq(WorkItem), NEW m, NEW X, LastIs(w, m, X)
    PROVE  \/ Head(w) \in X /\ Tail(w) = <<>>
           \/ Silent(Head(w), m) /\ LastIs(Tail(w), m, X)
<1>1. /\ Len(w) \in Nat \ {0} /\ Len(Tail(w)) = Len(w) - 1 /\ Head(w) = w[1]
      /\ \A i \in 1..(Len(w) - 1) : Tail(w)[i] = w[i + 1]
      /\ Tail(w) = <<>> <=> Len(w) = 1
  BY TailFacts DEF LastIs
<1>2. CASE Len(w) = 1
  BY <1>1, <1>2 DEF LastIs
<1>3. CASE Len(w) # 1
  <2>1. Silent(w[1], m)
    BY <1>1, <1>3 DEF LastIs
  <2>2. Tail(w)[Len(Tail(w))] = w[Len(w)]
    <3>1. Len(Tail(w)) \in 1..(Len(w) - 1) /\ Len(Tail(w)) + 1 = Len(w)
      BY <1>1, <1>3
    <3> QED
      BY <1>1, <3>1
  <2>3. ASSUME NEW i \in 1..(Len(Tail(w)) - 1) PROVE Silent(Tail(w)[i], m)
    <3>1. i \in 1..(Len(w) - 1) /\ i + 1 \in 1..(Len(w) - 1)
      BY <1>1
    <3> QED
      BY <1>1, <3>1 DEF LastIs
  <2> QED
    BY <1>1, <1>3, <2>1, <2>2, <2>3 DEF LastIs
<1> QED
  BY <1>2, <1>3

-----------------------------------------------------------------------------
(* In sync *)

LEMMA InSyncIs ==
    ASSUME Types
    PROVE  InSync <=> /\ AllSilent(work, mode)
                      /\ IF flag THEN Session(stream) /\ mode # "suspended"
                                 ELSE stream = <<>> /\ mode # "data"
<1>1. DOMAIN work = 1..Len(work) /\ DOMAIN stream = 1..Len(stream)
  BY LenProperties DEF Types
<1>2. Unanswered <=> AllSilent(work, mode)
  BY <1>1 DEF Unanswered, AllSilent, Silent
<1>3. SessionOnly <=> Session(stream)
  BY <1>1 DEF SessionOnly, Session
<1> QED
  BY <1>2, <1>3 DEF InSync

\* In data mode there is no NO CARRIER in the stream of a session.
LEMMA InSyncHostOwns ==
    ASSUME Types, Carrier, InSync, flag
    PROVE  HostOwns
<1>1. AllSilent(work, mode) /\ Session(stream) /\ mode # "suspended"
  BY InSyncIs
<1>2. ASSUME mode = "data", NEW i \in 1..Len(stream) PROVE stream[i] = "FRAME"
  <2> SUFFICES ASSUME stream[i] # "FRAME" PROVE FALSE
    OBVIOUS
  <2>1. stream[i] = "NO_CARRIER"
    BY <1>1 DEF Session
  <2>2. PICK j \in (i + 1)..Len(stream) : stream[j] = "CONNECT"
    BY <1>2, <2>1 DEF Carrier, SaysConnect
  <2>3. j \in 1..Len(stream)
    BY LenProperties DEF Types
  <2> QED
    BY <1>1, <2>2, <2>3 DEF Session
<1> QED
  BY <1>1, <1>2 DEF HostOwns, Frames

-----------------------------------------------------------------------------
(* The module *)

\* Reading keeps it, and so does what is sent, but for NO CARRIER.
LEMMA ConnectTail ==
    ASSUME NEW s \in Seq(Item), s # <<>>, SaysConnect(s)
    PROVE  SaysConnect(Tail(s))
<1>1. /\ Len(s) \in Nat \ {0} /\ Len(Tail(s)) = Len(s) - 1
      /\ \A i \in 1..(Len(s) - 1) : Tail(s)[i] = s[i + 1]
  BY TailFacts
<1> SUFFICES ASSUME NEW i \in 1..(Len(s) - 1), Tail(s)[i] = "NO_CARRIER"
             PROVE  \E j \in (i + 1)..(Len(s) - 1) : Tail(s)[j] = "CONNECT"
  BY <1>1 DEF SaysConnect
<1>2. i + 1 \in 1..Len(s) /\ s[i + 1] = "NO_CARRIER"
  BY <1>1
<1>3. PICK k \in ((i + 1) + 1)..Len(s) : s[k] = "CONNECT"
  BY <1>2 DEF SaysConnect
<1>4. k - 1 \in (i + 1)..(Len(s) - 1) /\ k - 1 \in 1..(Len(s) - 1)
        /\ (k - 1) + 1 = k
  BY <1>1, <1>3
<1>5. Tail(s)[k - 1] = "CONNECT"
  BY <1>1, <1>3, <1>4
<1> QED
  BY <1>4, <1>5

LEMMA ConnectAppend ==
    ASSUME NEW s \in Seq(Item), NEW x \in Item,
           x = "CONNECT" \/ (SaysConnect(s) /\ x # "NO_CARRIER")
    PROVE  SaysConnect(Append(s, x))
<1>1. /\ Len(s) \in Nat /\ Len(Append(s, x)) = Len(s) + 1
      /\ \A i \in 1..Len(s) : Append(s, x)[i] = s[i]
      /\ Append(s, x)[Len(s) + 1] = x
  OBVIOUS
<1> SUFFICES ASSUME NEW i \in 1..(Len(s) + 1), Append(s, x)[i] = "NO_CARRIER"
             PROVE  \E j \in (i + 1)..(Len(s) + 1) : Append(s, x)[j] = "CONNECT"
  BY <1>1 DEF SaysConnect
<1>2. i # Len(s) + 1
  BY <1>1
<1>3. i \in 1..Len(s) /\ s[i] = "NO_CARRIER"
  BY <1>1, <1>2
<1>4. CASE x = "CONNECT"
  <2>1. Len(s) + 1 \in (i + 1)..(Len(s) + 1)
    BY <1>1, <1>3
  <2> QED
    BY <1>1, <1>4, <2>1
<1>5. CASE x # "CONNECT"
  <2>1. PICK j \in (i + 1)..Len(s) : s[j] = "CONNECT"
    BY <1>3, <1>5 DEF SaysConnect
  <2>2. j \in 1..Len(s) /\ j \in (i + 1)..(Len(s) + 1)
    BY <1>1, <1>3, <2>1
  <2> QED
    BY <1>1, <2>1, <2>2
<1> QED
  BY <1>4, <1>5

LEMMA CarrierTail ==
    ASSUME Types, Carrier, stream # <<>>, stream' = Tail(stream), mode' = mode
    PROVE  Carrier'
BY ConnectTail DEF Types, Carrier

LEMMA CarrierAppend ==
    ASSUME Types, NEW x \in Item, stream' = Append(stream, x),
           \/ mode' # "data"
           \/ x = "CONNECT"
           \/ Carrier /\ mode = mode' /\ x # "NO_CARRIER"
    PROVE  Carrier'
<1>1. CASE mode' # "data"
  BY <1>1 DEF Carrier
<1>2. CASE x = "CONNECT"
  BY <1>2, ConnectAppend DEF Types, Carrier
<1>3. CASE Carrier /\ mode = mode' /\ x # "NO_CARRIER"
  BY <1>3, ConnectAppend DEF Types, Carrier
<1> QED
  BY <1>1, <1>2, <1>3

\* One step of the module, as what it does to the queues.
LEMMA ModuleDoes ==
    ASSUME Types, ModuleWorks
    PROVE  /\ work # <<>> /\ work' = Tail(work)
           /\ UNCHANGED <<flag, call, last>>
           /\ Head(work) \in WorkItem
           /\ \/ mode = "data" /\ Head(work) = "+++" /\ mode' = "suspended"
                   /\ stream' = Append(stream, "OK")
              \/ mode = "data" /\ Head(work) # "+++"
                   /\ stream' = stream /\ mode' = mode
              \/ mode # "data" /\ Head(work) \in {"+++", "part"}
                   /\ stream' = stream /\ mode' = mode
              \/ mode # "data" /\ Head(work) \in Command
                   /\ \/ mode' = mode /\ stream' = Append(stream, "ERROR")
                      \/ /\ Head(work) \in {"dial", "resume"}
                         /\ \/ mode' = "data"
                                 /\ stream' = Append(stream, "CONNECT")
                            \/ mode' = mode
                                 /\ stream' = Append(stream, "NO_CARRIER")
                      \/ Head(work) \in {"hangup", "other"}
                           /\ mode' \in {mode, "command"}
                           /\ stream' = Append(stream, "OK")
<1>1. work # <<>> /\ work' = Tail(work) /\ UNCHANGED <<flag, call, last>>
  BY DEF ModuleWorks
<1>2. Head(work) \in WorkItem
  BY <1>1, TailFacts DEF Types
<1>3. CASE mode = "data" /\ Head(work) = "+++"
             /\ mode' = "suspended" /\ Send("OK")
  BY <1>1, <1>2, <1>3 DEF Send
<1>4. CASE mode = "data" /\ Head(work) # "+++" /\ UNCHANGED <<stream, mode, junk>>
  BY <1>1, <1>2, <1>4
<1>5. CASE mode # "data" /\ Head(work) \in {"+++", "part"}
             /\ UNCHANGED <<stream, mode>>
  BY <1>1, <1>2, <1>5
<1>6. CASE mode # "data" /\ Head(work) \notin {"+++", "part"}
             /\ Send("ERROR") /\ UNCHANGED mode
  BY <1>1, <1>2, <1>6 DEF Send, WorkItem
<1>7. CASE mode # "data" /\ Head(work) \notin {"+++", "part"} /\ Obey(Head(work))
  <2>1. CASE Head(work) = "dial"
    BY <1>1, <1>2, <1>7, <2>1 DEF Obey, Send, Command
  <2>2. CASE Head(work) = "resume"
    BY <1>1, <1>2, <1>7, <2>2 DEF Obey, Send, Command
  <2>3. CASE Head(work) = "hangup"
    BY <1>1, <1>2, <1>7, <2>3 DEF Obey, Send, Command
  <2>4. CASE Head(work) = "other"
    BY <1>1, <1>2, <1>7, <2>4 DEF Obey, Send, Command
  <2> QED
    BY <1>2, <1>7, <2>1, <2>2, <2>3, <2>4 DEF WorkItem, Command
<1> QED
  BY <1>3, <1>4, <1>5, <1>6, <1>7 DEF ModuleWorks

\* What the module will not answer changes nothing.
LEMMA SilentStays ==
    ASSUME Types, ModuleWorks, Silent(Head(work), mode)
    PROVE  stream' = stream /\ mode' = mode
BY ModuleDoes DEF Silent, Command

LEMMA EmptyQueue ==
    /\ <<>> \in Seq(WorkItem) /\ <<>> \in Seq(Item) /\ Len(<<>>) = 0
    /\ Frames(<<>>) /\ Session(<<>>) /\ SaysConnect(<<>>)
    /\ \A m : AllSilent(<<>>, m)
    /\ \A x : /\ Append(<<>>, x) = <<x>> /\ <<x>> # <<>>
              /\ Head(<<x>>) = x /\ Tail(<<x>>) = <<>>
BY DEF Frames, Session, SaysConnect, AllSilent

LEMMA CallFacts ==
    ASSUME Types
    PROVE  /\ call.clean \in BOOLEAN /\ call.lines \in Nat
           /\ Idle => ~call.clean /\ call.step = "none"
           /\ call.step # "none" => call \in CallType /\ ~Idle
           /\ ~Idle => call \in CallType /\ call.step # "none"
<1>1. CASE call = NoCall
  BY <1>1 DEF Idle, NoCall
<1>2. CASE call \in CallType
  <2>1. /\ call.clean \in BOOLEAN /\ call.lines \in Nat
        /\ call.step \in {"connect", "reply", "poll", "guard", "final"}
    BY <1>2 DEF CallType
  <2>2. NoCall.step = "none"
    BY DEF NoCall
  <2> QED
    BY <1>2, <2>1, <2>2 DEF Idle
<1> QED
  BY <1>1, <1>2 DEF Types

\* The steps of the module and of its peer.
LEMMA ModuleWorksInv ==
    ASSUME Inv, ModuleWorks
    PROVE  Inv'
<1>0. Types /\ Carrier /\ CleanInv
  BY DEF Inv
<1>1. /\ work # <<>> /\ work' = Tail(work) /\ UNCHANGED <<flag, call>>
      /\ Head(work) \in WorkItem
  BY <1>0, ModuleDoes
<1>2. stream' = stream \/ \E x \in Item : stream' = Append(stream, x)
  BY <1>0, ModuleDoes DEF Item
<1>3. Types'
  <2>1. work' \in Seq(WorkItem)
    BY <1>0, <1>1, TailFacts DEF Types
  <2>2. stream' \in Seq(Item)
    BY <1>0, <1>2, AppendFacts DEF Types
  <2>3. mode' \in {"command", "suspended", "data"}
    BY <1>0, ModuleDoes DEF Types
  <2> QED
    BY <1>0, <1>1, <2>1, <2>2, <2>3 DEF Types
<1>4. Carrier'
  <2>1. CASE stream' = stream /\ mode' = mode
    BY <1>0, <2>1 DEF Carrier
  <2>2. CASE \E x \in Item : stream' = Append(stream, x)
                /\ (mode' # "data" \/ x = "CONNECT")
    BY <1>0, <2>2, CarrierAppend
  <2> QED
    BY <1>0, <2>1, <2>2, ModuleDoes DEF Item
<1>5. ASSUME call.step = "connect", Connecting PROVE Connecting'
  <2>1. mode # "data" /\ stream = <<>> /\ LastIs(work, mode, {"dial", "resume"})
    BY <1>1, <1>5 DEF Connecting
  <2>2. CASE Head(work) \in {"dial", "resume"} /\ Tail(work) = <<>>
    <3>1. work' = <<>> /\ Head(work) \in Command
      BY <1>1, <2>2 DEF Command
    <3>2. \/ mode' = mode /\ stream' \in {<<"ERROR">>, <<"NO_CARRIER">>}
          \/ mode' = "data" /\ stream' = <<"CONNECT">>
      BY <1>0, <2>1, <2>2, <3>1, ModuleDoes, EmptyQueue
    <3> QED
      BY <2>1, <3>1, <3>2, EmptyQueue DEF Connecting
  <2>3. CASE Silent(Head(work), mode) /\ LastIs(Tail(work), mode, {"dial", "resume"})
    BY <1>0, <1>1, <2>1, <2>3, SilentStays DEF Connecting
  <2> QED
    BY <1>0, <2>1, <2>2, <2>3, LastTail DEF Types
<1>6. ASSUME call.step = "reply", Replying PROVE Replying'
  <2>1. mode # "data" /\ stream = <<>> /\ LastIs(work, mode, {"hangup", "other"})
    BY <1>1, <1>6 DEF Replying
  <2>2. CASE Head(work) \in {"hangup", "other"} /\ Tail(work) = <<>>
    <3>1. work' = <<>> /\ Head(work) \in Command
      BY <1>1, <2>2 DEF Command
    <3>2. mode' \in {mode, "command"} /\ stream' \in {<<"ERROR">>, <<"OK">>}
      BY <1>0, <2>1, <2>2, <3>1, ModuleDoes, EmptyQueue
    <3> QED
      BY <2>1, <3>1, <3>2 DEF Replying
  <2>3. CASE Silent(Head(work), mode) /\ LastIs(Tail(work), mode, {"hangup", "other"})
    BY <1>0, <1>1, <2>1, <2>3, SilentStays DEF Replying
  <2> QED
    BY <1>0, <2>1, <2>2, <2>3, LastTail DEF Types
<1>7. ASSUME AllSilent(work, mode)
      PROVE  stream' = stream /\ mode' = mode /\ AllSilent(work', mode')
  BY <1>0, <1>1, <1>7, SilentTail, SilentStays DEF Types
<1>8. ASSUME Polling PROVE Polling'
  BY <1>7, <1>8 DEF Polling
<1>9. ASSUME HostOwns PROVE HostOwns'
  BY <1>7, <1>9 DEF HostOwns
<1>10. ASSUME Escaping PROVE Escaping'
  <2>1. CASE mode = "data" /\ LastIs(work, mode, {"+++"}) /\ Frames(stream)
    <3>1. CASE Head(work) \in {"+++"} /\ Tail(work) = <<>>
      <4>1. mode' = "suspended" /\ stream' = Append(stream, "OK") /\ work' = <<>>
        BY <1>0, <1>1, <2>1, <3>1, ModuleDoes
      <4>2. /\ stream' # <<>> /\ stream'[Len(stream')] = "OK"
            /\ \A i \in 1..(Len(stream') - 1) : stream'[i] = "FRAME"
        <5>1. /\ Len(stream) \in Nat /\ Len(stream') = Len(stream) + 1
              /\ stream' # <<>> /\ stream'[Len(stream) + 1] = "OK"
              /\ \A i \in 1..Len(stream) : stream'[i] = stream[i]
          <6>1. stream \in Seq(Item) /\ "OK" \in Item
            BY <1>0 DEF Types, Item
          <6> QED
            BY <4>1, <6>1, AppendFacts
        <5> QED
          BY <2>1, <5>1 DEF Frames
      <4> QED
        BY <4>1, <4>2 DEF Escaping
    <3>2. CASE Silent(Head(work), mode) /\ LastIs(Tail(work), mode, {"+++"})
      BY <1>0, <1>1, <2>1, <3>2, SilentStays DEF Escaping
    <3> QED
      BY <1>0, <2>1, <3>1, <3>2, LastTail DEF Types
  <2>2. CASE mode = "command" /\ AllSilent(work, mode) /\ Session(stream)
    BY <1>7, <2>2 DEF Escaping
  <2> QED
    BY <1>1, <1>10, <2>1, <2>2 DEF Escaping
<1>11. CleanInv'
  BY <1>0, <1>1, <1>5, <1>6, <1>8, <1>9, <1>10 DEF CleanInv
<1> QED
  BY <1>3, <1>4, <1>11 DEF Inv

LEMMA FrameArrivesInv ==
    ASSUME Inv, FrameArrives
    PROVE  Inv'
<1>0. /\ Types /\ Carrier /\ CleanInv /\ mode = "data" /\ "FRAME" \in Item
      /\ stream' = Append(stream, "FRAME") /\ UNCHANGED <<work, mode, flag, call>>
      /\ stream \in Seq(Item)
  BY DEF Inv, FrameArrives, Send, Item, Types
<1>1. Types'
  BY <1>0, AppendFacts DEF Types
<1>2. Carrier'
  BY <1>0, CarrierAppend
<1>3. ASSUME Connecting PROVE Connecting'
  <2>1. /\ work = <<>> /\ stream # <<>> /\ Head(stream) = "CONNECT"
        /\ Frames(Tail(stream))
    BY <1>0, <1>3 DEF Connecting
  <2>2. /\ stream' # <<>> /\ Head(stream') = Head(stream)
        /\ Tail(stream') = Append(Tail(stream), "FRAME")
        /\ Tail(stream) \in Seq(Item)
    <3>1. Tail(stream) \in Seq(Item)
      BY <1>0, <2>1, TailFacts
    <3>2. stream' # <<>> /\ Head(stream') = Head(stream)
      BY <1>0, <2>1, AppendFacts, TailFacts
    <3>3. Tail(Append(stream, "FRAME")) = Append(Tail(stream), "FRAME")
      BY <1>0, <2>1
    <3> QED
      BY <1>0, <3>1, <3>2, <3>3
  <2>3. Frames(Append(Tail(stream), "FRAME")) /\ Session(Append(Tail(stream), "FRAME"))
    BY <2>1, <2>2, SessionAppend
  <2> QED
    BY <1>0, <2>1, <2>2, <2>3 DEF Connecting
<1>4. ASSUME HostOwns PROVE HostOwns'
  BY <1>0, <1>4, SessionAppend DEF HostOwns
<1>5. ASSUME Escaping PROVE Escaping'
  BY <1>0, <1>5, SessionAppend DEF Escaping
<1>6. CleanInv'
  BY <1>0, <1>3, <1>4, <1>5 DEF CleanInv, Replying, Polling
<1> QED
  BY <1>1, <1>2, <1>6 DEF Inv

LEMMA PeerHangsUpInv ==
    ASSUME Inv, PeerHangsUp
    PROVE  Inv'
<1>0. /\ Types /\ Carrier /\ CleanInv /\ mode' = "command" /\ "NO_CARRIER" \in Item
      /\ stream' = Append(stream, "NO_CARRIER") /\ UNCHANGED <<work, flag>>
      /\ stream \in Seq(Item)
      /\ call' = [call EXCEPT !.clean = @ /\ mode = "data"]
  BY DEF Inv, PeerHangsUp, Send, Item, Types
<1>1. Types'
  <2>1. CASE call \in CallType
    <3>1. call' \in CallType
      BY <1>0, <2>1 DEF CallType
    <3> QED
      BY <1>0, <3>1, AppendFacts DEF Types
  <2>2. CASE call = NoCall
    <3>1. call' = NoCall
      BY <1>0, <2>2 DEF NoCall
    <3> QED
      BY <1>0, <3>1, AppendFacts DEF Types
  <2> QED
    BY <1>0, <2>1, <2>2 DEF Types
<1>2. Carrier'
  BY <1>0 DEF Carrier
<1>3. call'.step = call.step /\ (call'.clean => call.clean /\ mode = "data")
  BY <1>0 DEF Types, CallType, NoCall
<1>4. ASSUME mode = "data", Connecting PROVE Connecting'
  <2>1. /\ work = <<>> /\ stream # <<>> /\ Head(stream) = "CONNECT"
        /\ Frames(Tail(stream))
    BY <1>4 DEF Connecting
  <2>2. /\ stream' # <<>> /\ Head(stream') = Head(stream)
        /\ Tail(stream') = Append(Tail(stream), "NO_CARRIER")
        /\ Tail(stream) \in Seq(Item)
    <3>1. Tail(stream) \in Seq(Item)
      BY <1>0, <2>1, TailFacts
    <3>2. stream' # <<>> /\ Head(stream') = Head(stream)
      BY <1>0, <2>1, AppendFacts, TailFacts
    <3>3. Tail(Append(stream, "NO_CARRIER")) = Append(Tail(stream), "NO_CARRIER")
      BY <1>0, <2>1
    <3> QED
      BY <1>0, <3>1, <3>2, <3>3
  <2> QED
    BY <1>0, <2>1, <2>2, SessionAppend DEF Connecting
<1>5. ASSUME mode = "data", HostOwns PROVE HostOwns'
  <2>1. AllSilent(work, "command") /\ Frames(stream)
    BY <1>5 DEF HostOwns, AllSilent, Silent
  <2> QED
    BY <1>0, <2>1, SessionAppend DEF HostOwns
<1>6. ASSUME mode = "data", Escaping PROVE Escaping'
  <2>1. LastIs(work, mode, {"+++"}) /\ Frames(stream)
    BY <1>6 DEF Escaping
  <2>2. AllSilent(work, "command")
    <3> SUFFICES ASSUME NEW i \in 1..Len(work) PROVE Silent(work[i], "command")
      BY DEF AllSilent
    <3>1. Len(work) \in Nat
      BY <1>0, LenProperties DEF Types
    <3>2. CASE i = Len(work)
      BY <2>1, <3>2 DEF LastIs, Silent
    <3>3. CASE i # Len(work)
      BY <2>1, <3>1, <3>3 DEF LastIs, Silent
    <3> QED
      BY <3>2, <3>3
  <2> QED
    BY <1>0, <2>1, <2>2, SessionAppend DEF Escaping
<1>7. CleanInv'
  BY <1>0, <1>3, <1>4, <1>5, <1>6 DEF CleanInv, Replying, Polling
<1> QED
  BY <1>1, <1>2, <1>7 DEF Inv

-----------------------------------------------------------------------------
(* The host, between calls *)

LEMMA HostStepInv ==
    ASSUME Inv, HostReads \/ HostWrites \/ StartFails
    PROVE  Inv'
<1>0. Types /\ Carrier /\ ~call.clean /\ UNCHANGED <<mode, flag, call>>
  BY CallFacts DEF Inv, HostReads, HostWrites, StartFails
<1>1. CleanInv'
  BY <1>0 DEF CleanInv
<1>2. CASE HostReads
  <2>1. stream # <<>> /\ stream' = Tail(stream) /\ work' = work
    BY <1>2 DEF HostReads
  <2>2. stream' \in Seq(Item)
    BY <1>0, <2>1, TailFacts DEF Types
  <2>3. Types' /\ Carrier'
    BY <1>0, <2>1, <2>2, CarrierTail DEF Types
  <2> QED
    BY <1>1, <2>3 DEF Inv
<1>3. CASE HostWrites
  BY <1>0, <1>1, <1>3 DEF Inv, HostWrites, Types, Carrier
<1>4. CASE StartFails
  <2>1. stream' = stream /\ work' = Append(work, "part") /\ "part" \in WorkItem
    BY <1>4 DEF StartFails, WorkItem
  <2>2. work' \in Seq(WorkItem)
    BY <1>0, <2>1, AppendFacts DEF Types
  <2>3. Types' /\ Carrier'
    BY <1>0, <2>1, <2>2 DEF Types, Carrier
  <2> QED
    BY <1>1, <2>3 DEF Inv
<1> QED
  BY <1>2, <1>3, <1>4

-----------------------------------------------------------------------------
(* The starts of calls *)

LEMMA StartFacts ==
    ASSUME Types, NEW api \in Apis,
           NEW step \in {"connect", "reply", "poll", "guard", "final"},
           Start(api, step)
    PROVE  /\ Idle /\ call' \in CallType /\ call'.step = step
           /\ call'.clean = InSync
BY Zenon DEF Start, CallType, InSync

\* A call that writes a command, which is then the last the module will answer.
LEMMA StartCommandInv ==
    ASSUME Inv, StartDial \/ StartResume \/ StartHangup \/ StartSend
    PROVE  /\ Inv'
           /\ call'.clean => mode # "data"
<1>0. Types /\ Carrier /\ UNCHANGED <<stream, mode, flag>> /\ ~flag
  BY DEF Inv, StartDial, StartResume, StartHangup, StartSend
<1>1. PICK api \in Apis, step \in {"connect", "reply"}, w \in Command :
          /\ Start(api, step) /\ work' = Append(work, w)
          /\ step = "connect" => w \in {"dial", "resume"}
          /\ step = "reply" => w \in {"hangup", "other"}
  BY DEF StartDial, StartResume, StartHangup, StartSend, Apis, Command
<1>2. call' \in CallType /\ call'.step = step /\ call'.clean = InSync
  BY <1>0, <1>1, StartFacts
<1>3. w \in WorkItem /\ work \in Seq(WorkItem)
  BY <1>0 DEF WorkItem, Types
<1>4. Types'
  BY <1>0, <1>1, <1>2, <1>3, AppendFacts DEF Types
<1>5. Carrier'
  BY <1>0 DEF Carrier
<1>6. ASSUME call'.clean
      PROVE  /\ mode # "data" /\ stream' = <<>>
             /\ \A X : w \in X => LastIs(work', mode', X)
  BY <1>0, <1>1, <1>2, <1>3, <1>6, InSyncIs, SilentAppend
<1>7. CleanInv'
  BY <1>0, <1>1, <1>2, <1>6 DEF CleanInv, Connecting, Replying
<1> QED
  BY <1>4, <1>5, <1>6, <1>7 DEF Inv

LEMMA StartPollInv ==
    ASSUME Inv, StartPoll
    PROVE  Inv'
<1>0. /\ Types /\ Carrier /\ UNCHANGED <<work, stream, mode, flag>> /\ ~flag
      /\ Start("poll", "poll")
  BY DEF Inv, StartPoll
<1>1. call' \in CallType /\ call'.step = "poll" /\ call'.clean = InSync
  BY <1>0, StartFacts DEF Apis
<1>2. call'.clean => Polling'
  BY <1>0, <1>1, InSyncIs DEF Polling
<1> QED
  BY <1>0, <1>1, <1>2 DEF Inv, Types, Carrier, CleanInv

LEMMA StartEscapeInv ==
    ASSUME Inv, NEW api, StartEscape(api)
    PROVE  Inv'
<1>0. /\ Types /\ Carrier /\ UNCHANGED <<work, stream, mode, flag>> /\ flag
      /\ Start(api, "guard") /\ api \in Apis
  BY DEF Inv, StartEscape, Apis
<1>1. call' \in CallType /\ call'.step = "guard" /\ call'.clean = InSync
  BY <1>0, StartFacts
<1>2. call'.clean => HostOwns'
  BY <1>0, <1>1, InSyncHostOwns DEF HostOwns
<1> QED
  BY <1>0, <1>1, <1>2 DEF Inv, Types, Carrier, CleanInv

LEMMA WriteEscapeInv ==
    ASSUME Inv, WriteEscape
    PROVE  Inv'
<1>0. /\ Types /\ Carrier /\ CleanInv /\ UNCHANGED <<stream, mode, flag>>
      /\ call.step = "guard" /\ call' = [call EXCEPT !.step = "final"]
      /\ work' = Append(work, "+++") /\ "+++" \in WorkItem
      /\ work \in Seq(WorkItem) /\ call \in CallType
  BY CallFacts DEF Inv, WriteEscape, WorkItem, Types
<1>1. call' \in CallType /\ call'.step = "final" /\ call'.clean = call.clean
  BY <1>0 DEF CallType
<1>2. Types'
  BY <1>0, <1>1, AppendFacts DEF Types
<1>3. ASSUME HostOwns PROVE Escaping'
  <2>1. LastIs(work', mode', {"+++"}) /\ (mode # "data" => AllSilent(work', mode'))
    BY <1>0, <1>3, SilentAppend DEF HostOwns, Silent
  <2>2. mode \in {"command", "data"}
    BY <1>0, <1>3 DEF HostOwns, Types
  <2> QED
    BY <1>0, <1>3, <2>1, <2>2 DEF HostOwns, Escaping
<1>4. call.clean => flag /\ HostOwns
  BY <1>0 DEF CleanInv
<1> QED
  BY <1>0, <1>1, <1>2, <1>3, <1>4 DEF Inv, Carrier, CleanInv

LEMMA WriteEscapeFailsInv ==
    ASSUME Inv, WriteEscapeFails
    PROVE  Inv'
<1>0. /\ Types /\ Carrier /\ UNCHANGED <<stream, mode, flag>> /\ call' = NoCall
      /\ work' = Append(work, "part") /\ "part" \in WorkItem
      /\ work \in Seq(WorkItem)
  BY DEF Inv, WriteEscapeFails, Return, WorkItem, Types
<1>1. Types'
  BY <1>0, AppendFacts DEF Types
<1>2. ~call'.clean
  BY <1>0 DEF NoCall
<1> QED
  BY <1>0, <1>1, <1>2 DEF Inv, Carrier, CleanInv

-----------------------------------------------------------------------------
(* The ends of calls *)

\* A loop that ends, returns; but a disconnect that has left data mode goes on.
LEMMA EndsFacts ==
    ASSUME Types, NEW st, Ends(st)
    PROVE  /\ flag' \in BOOLEAN /\ work' \in Seq(WorkItem)
           /\ call' \in CallType \cup {NoCall}
           /\ call.step \in {"connect", "reply", "poll"} => call' = NoCall
           /\ \/ call' = NoCall /\ work' = work
              \/ /\ call.step = "final" /\ (LeavesDataMode(st) \/ ~flag)
                 /\ ~flag' /\ work' = Append(work, "hangup")
                 /\ call'.step = "reply" /\ call'.clean = call.clean
<1>0. work \in Seq(WorkItem) /\ "hangup" \in WorkItem /\ flag \in BOOLEAN
  BY DEF Types, WorkItem, Command
<1>1. CASE call.step = "connect" /\ ConnectEnds(st)
  BY <1>0, <1>1 DEF ConnectEnds, Return
<1>2. CASE call.step \in {"reply", "poll"} /\ \E s : ReplyEnds(s)
  BY <1>0, <1>2 DEF ReplyEnds, Return
<1>3. CASE call.step = "final" /\ EscapeEnds(st)
  <2>1. call \in CallType
    BY <1>3, CallFacts
  <2>2. CASE call.api = "disconnect" /\ ~flag'
    <3>1. /\ call' = [call EXCEPT !.step = "reply", !.lines = 0]
          /\ work' = Append(work, "hangup")
          /\ flag' = (flag /\ ~LeavesDataMode(st))
      BY <1>3, <2>2 DEF EscapeEnds
    <3>2. call' \in CallType /\ call'.step = "reply" /\ call'.clean = call.clean
      BY <2>1, <3>1 DEF CallType
    <3>3. work' \in Seq(WorkItem)
      BY <1>0, <3>1, AppendFacts
    <3> QED
      BY <1>0, <1>3, <2>2, <3>1, <3>2, <3>3
  <2>3. CASE ~(call.api = "disconnect" /\ ~flag')
    BY <1>0, <1>3, <2>3 DEF EscapeEnds, Return, LeavesDataMode
  <2> QED
    BY <2>2, <2>3
<1> QED
  BY <1>1, <1>2, <1>3 DEF Ends

\* Time, the transport or the storm guard ends the loop.
LEMMA GivesUpInv ==
    ASSUME Inv, ReadTimesOut \/ ReadFails \/ LineCap
    PROVE  Inv' /\ (call.clean => call' = NoCall /\ work' = work)
<1>0. /\ Types /\ Carrier /\ CleanInv /\ UNCHANGED <<stream, mode>> /\ Reading
      /\ \E st \in GaveUp : Ends(st)
  BY DEF Inv, ReadTimesOut, ReadFails, LineCap, GaveUp
<1>1. PICK st \in GaveUp : Ends(st)
  BY <1>0
<1>2. /\ Types' /\ Carrier'
  BY <1>0, <1>1, EndsFacts DEF Types, Carrier
<1>3. call.clean => call' = NoCall /\ work' = work
  <2>1. ~LeavesDataMode(st)
    BY DEF GaveUp, LeavesDataMode
  <2>2. call.clean /\ call.step = "final" => flag
    BY <1>0 DEF CleanInv
  <2> QED
    BY <1>0, <1>1, <2>1, <2>2, EndsFacts
<1>4. CleanInv'
  <2>0. NoCall.clean = FALSE /\ NoCall.step = "none"
    BY DEF NoCall
  <2>1. call'.clean => call.clean /\ call' # NoCall
    BY <1>0, <1>1, <2>0, EndsFacts
  <2> QED
    BY <1>3, <2>1 DEF CleanInv
<1> QED
  BY <1>2, <1>3, <1>4 DEF Inv

-----------------------------------------------------------------------------
(* Reading a line *)

LEMMA InSyncNext ==
    ASSUME Types', AllSilent(work', mode'),
           IF flag' THEN Session(stream') /\ mode' # "suspended"
                    ELSE stream' = <<>> /\ mode' # "data"
    PROVE  InSync'
<1>1. DOMAIN work' = 1..Len(work') /\ DOMAIN stream' = 1..Len(stream')
  BY LenProperties DEF Types
<1>2. Unanswered'
  BY <1>1 DEF Unanswered, AllSilent, Silent
<1>3. Session(stream') => SessionOnly'
  BY <1>1 DEF SessionOnly, Session
<1> QED
  BY <1>2, <1>3 DEF InSync

LEMMA ReadLineTypes ==
    ASSUME Inv, ReadLine
    PROVE  /\ Types' /\ Carrier' /\ stream # <<>> /\ stream' = Tail(stream)
           /\ mode' = mode /\ (call'.clean => call.clean)
<1>0. /\ Types /\ Carrier /\ CleanInv /\ stream # <<>> /\ stream' = Tail(stream)
      /\ mode' = mode /\ call.step # "none"
      /\ GoesOn \/ \E st \in {Verdict(Head(stream))} : Ends(st)
  BY DEF Inv, ReadLine, Reading
<1>1. Carrier' /\ stream' \in Seq(Item)
  BY <1>0, CarrierTail, TailFacts DEF Types
<1>2. CASE GoesOn
  <2>1. call \in CallType
    BY <1>0, CallFacts
  <2>2. call' \in CallType /\ call'.clean = call.clean
    BY <1>2, <2>1 DEF GoesOn, CallType
  <2> QED
    BY <1>0, <1>1, <1>2, <2>2 DEF GoesOn, Types
<1>3. CASE \E st \in {Verdict(Head(stream))} : Ends(st)
  <2>1. NoCall.clean = FALSE
    BY DEF NoCall
  <2> QED
    BY <1>0, <1>1, <1>3, <2>1, EndsFacts DEF Types
<1> QED
  BY <1>0, <1>1, <1>2, <1>3

\* A loop that a line ends.
LEMMA LineEnds ==
    ASSUME Inv, ReadLine, NEW st, Verdict(Head(stream)) = st, st # "none"
    PROVE  Ends(st)
BY DEF ReadLine

\* What a call that started in sync does with a line.
LEMMA ReadLineClean ==
    ASSUME Inv, ReadLine, call.clean
    PROVE  \/ /\ call.step = "final" /\ flag /\ GoesOn /\ Escaping'
           \/ /\ Head(stream) # "FRAME" /\ call' = NoCall /\ work' = work
              /\ InSync'
           \/ /\ Head(stream) # "FRAME" /\ mode # "data" /\ ~flag' /\ Replying'
              /\ call'.step = "reply"
<1>0. /\ Types /\ Types' /\ CleanInv /\ stream # <<>> /\ stream' = Tail(stream)
      /\ mode' = mode /\ Reading /\ stream \in Seq(Item)
  BY ReadLineTypes DEF Inv, ReadLine, Types
<1>1. CASE call.step = "connect"
  <2>1. ~flag /\ Connecting
    BY <1>0, <1>1 DEF CleanInv
  <2>2. CASE Head(stream) = "CONNECT"
    <3>1. Verdict(Head(stream)) = "OK"
      BY <1>1, <2>2 DEF Verdict
    <3>2. ConnectEnds("OK")
      BY <1>1, <3>1, LineEnds DEF Ends
    <3>3. flag' /\ work' = work /\ call' = NoCall
      BY <3>2 DEF ConnectEnds, Return
    <3>4. work = <<>> /\ Session(Tail(stream)) /\ mode # "suspended"
      <4>1. ~(stream \in {<<"ERROR">>, <<"NO_CARRIER">>})
        BY <2>2, EmptyQueue
      <4> QED
        BY <1>0, <2>1, <2>2, <4>1 DEF Connecting
    <3>5. AllSilent(work', mode')
      BY <3>3, <3>4, EmptyQueue
    <3> QED
      BY <1>0, <2>2, <3>3, <3>4, <3>5, InSyncNext
  <2>3. CASE Head(stream) # "CONNECT"
    <3>1. /\ mode # "data" /\ work = <<>> /\ Head(stream) \in {"ERROR", "NO_CARRIER"}
          /\ Tail(stream) = <<>>
      BY <1>0, <2>1, <2>3, EmptyQueue DEF Connecting
    <3>2. Verdict(Head(stream)) = "ERR"
      BY <1>1, <3>1 DEF Verdict
    <3>3. ConnectEnds("ERR")
      BY <1>1, <3>2, LineEnds DEF Ends
    <3>4. ~flag' /\ work' = work /\ call' = NoCall
      BY <2>1, <3>3 DEF ConnectEnds, Return
    <3>5. AllSilent(work', mode')
      BY <3>1, <3>4, EmptyQueue
    <3> QED
      BY <1>0, <3>1, <3>4, <3>5, InSyncNext
  <2> QED
    BY <2>2, <2>3
<1>2. CASE call.step = "reply"
  <2>1. ~flag /\ Replying
    BY <1>0, <1>2 DEF CleanInv
  <2>2. /\ mode # "data" /\ work = <<>> /\ Head(stream) \in {"OK", "ERROR"}
        /\ Tail(stream) = <<>>
    BY <1>0, <2>1, EmptyQueue DEF Replying
  <2>3. Verdict(Head(stream)) \in {"OK", "ERR"}
    BY <1>2, <2>2 DEF Verdict
  <2>4. \E st \in {"OK", "ERR"} : ReplyEnds(st)
    BY <1>2, <2>3, LineEnds DEF Ends
  <2>5. ~flag' /\ work' = work /\ call' = NoCall
    BY <2>1, <2>4 DEF ReplyEnds, Return
  <2>6. AllSilent(work', mode')
    BY <2>2, <2>5, EmptyQueue
  <2> QED
    BY <1>0, <2>2, <2>5, <2>6, InSyncNext
<1>3. CASE call.step = "poll"
  BY <1>0, <1>3 DEF CleanInv, Polling
<1>4. CASE call.step = "final"
  <2>1. flag /\ Escaping
    BY <1>0, <1>4 DEF CleanInv
  <2>2. \/ Head(stream) = "FRAME" /\ (work' = work => Escaping')
        \/ /\ Head(stream) \in {"OK", "NO_CARRIER"} /\ Tail(stream) = <<>>
           /\ mode # "data" /\ AllSilent(work, mode)
    <3>1. CASE mode = "data" /\ LastIs(work, mode, {"+++"}) /\ Frames(stream)
      <4>1. Head(stream) = "FRAME" /\ Frames(Tail(stream))
        <5>1. Session(stream)
          BY <3>1 DEF Frames, Session
        <5>2. Len(stream) \in Nat \ {0} /\ Head(stream) = stream[1]
          BY <1>0, TailFacts
        <5>3. Head(stream) = "FRAME"
          BY <3>1, <5>2 DEF Frames
        <5> QED
          BY <1>0, <3>1, <5>1, <5>3, SessionTail
      <4> QED
        BY <1>0, <3>1, <4>1 DEF Escaping
    <3>2. CASE /\ mode = "suspended" /\ work = <<>>
               /\ stream[Len(stream)] = "OK"
               /\ \A i \in 1..(Len(stream) - 1) : stream[i] = "FRAME"
      <4>1. /\ Len(stream) \in Nat \ {0} /\ Len(Tail(stream)) = Len(stream) - 1
            /\ Head(stream) = stream[1]
            /\ \A i \in 1..(Len(stream) - 1) : Tail(stream)[i] = stream[i + 1]
            /\ Tail(stream) = <<>> <=> Len(stream) = 1
        BY <1>0, TailFacts
      <4>2. CASE Len(stream) = 1
        BY <3>2, <4>1, <4>2, EmptyQueue
      <4>3. CASE Len(stream) # 1
        <5>1. Head(stream) = "FRAME" /\ Tail(stream) # <<>>
          BY <3>2, <4>1, <4>3
        <5>2. Tail(stream)[Len(Tail(stream))] = "OK"
          <6>1. /\ Len(Tail(stream)) \in 1..(Len(stream) - 1)
                /\ Len(Tail(stream)) + 1 = Len(stream)
            BY <4>1, <4>3
          <6> QED
            BY <3>2, <4>1, <6>1
        <5>3. ASSUME NEW i \in 1..(Len(Tail(stream)) - 1)
              PROVE  Tail(stream)[i] = "FRAME"
          <6>1. i \in 1..(Len(stream) - 1) /\ i + 1 \in 1..(Len(stream) - 1)
            BY <4>1
          <6> QED
            BY <3>2, <4>1, <6>1
        <5> QED
          BY <1>0, <3>2, <5>1, <5>2, <5>3 DEF Escaping
      <4> QED
        BY <4>2, <4>3
    <3>3. CASE mode = "command" /\ AllSilent(work, mode) /\ Session(stream)
      BY <1>0, <3>3, SessionTail DEF Escaping
    <3> QED
      BY <2>1, <3>1, <3>2, <3>3 DEF Escaping
  <2>3. CASE Head(stream) = "FRAME"
    <3>1. Verdict(Head(stream)) = "none"
      BY <2>3 DEF Verdict
    <3>2. GoesOn
      BY <3>1 DEF ReadLine
    <3>3. work' = work
      BY <3>2 DEF GoesOn
    <3> QED
      BY <1>4, <2>1, <2>2, <2>3, <3>2, <3>3
  <2>4. CASE /\ Head(stream) \in {"OK", "NO_CARRIER"} /\ Tail(stream) = <<>>
             /\ mode # "data" /\ AllSilent(work, mode)
    <3>1. Verdict(Head(stream)) \in {"OK", "ERR"}
      BY <1>4, <2>4 DEF Verdict
    <3>2. PICK st \in {"OK", "ERR"} : Ends(st)
      BY <3>1, LineEnds
    <3>3. EscapeEnds(st)
      BY <1>4, <3>2 DEF Ends
    <3>4. ~flag'
      BY <3>3 DEF EscapeEnds, LeavesDataMode
    <3>5. CASE call' = NoCall /\ work' = work
      BY <1>0, <2>4, <3>4, <3>5, InSyncNext
    <3>6. CASE work' = Append(work, "hangup") /\ call'.step = "reply"
      <4>1. LastIs(work', mode, {"hangup", "other"})
        BY <1>0, <2>4, <3>6, SilentAppend DEF Types, WorkItem, Command
      <4> QED
        BY <1>0, <2>4, <3>4, <3>6, <4>1 DEF Replying
    <3> QED
      BY <1>0, <3>2, <3>5, <3>6, EndsFacts
  <2> QED
    BY <2>2, <2>3, <2>4
<1> QED
  BY <1>0, <1>1, <1>2, <1>3, <1>4 DEF Reading

LEMMA ReadLineInv ==
    ASSUME Inv, ReadLine
    PROVE  Inv'
<1>0. Types' /\ Carrier' /\ (call'.clean => call.clean) /\ Types
  BY ReadLineTypes DEF Inv
<1>1. CASE ~call.clean
  BY <1>0, <1>1 DEF Inv, CleanInv
<1>2. CASE call.clean /\ call.step = "final" /\ flag /\ GoesOn /\ Escaping'
  <2>1. call \in CallType
    BY <1>0, <1>2, CallFacts
  <2>2. call'.step = "final" /\ flag'
    BY <1>2, <2>1 DEF GoesOn, CallType
  <2> QED
    BY <1>0, <1>2, <2>2 DEF Inv, CleanInv
<1>3. CASE call' = NoCall
  BY <1>0, <1>3 DEF Inv, CleanInv, NoCall
<1>4. CASE ~flag' /\ Replying' /\ call'.step = "reply"
  BY <1>0, <1>4 DEF Inv, CleanInv
<1> QED
  BY <1>1, <1>2, <1>3, <1>4, ReadLineClean

-----------------------------------------------------------------------------

LEMMA InitInv == Init => Inv
<1> SUFFICES ASSUME Init PROVE Inv
  OBVIOUS
<1>1. ~call.clean
  BY DEF Init, NoCall
<1> QED
  BY <1>1, EmptyQueue DEF Init, Inv, Types, Carrier, CleanInv

LEMMA StepInv == Inv /\ [Next]_vars => Inv'
<1> SUFFICES ASSUME Inv, [Next]_vars PROVE Inv'
  OBVIOUS
<1>1. CASE UNCHANGED vars
  <2>1. UNCHANGED <<work, stream, mode, flag, call>>
    BY <1>1 DEF vars
  <2> QED
    BY <2>1 DEF Inv, Types, Carrier, CleanInv, Connecting, Replying, Polling,
                HostOwns, Escaping
<1>2. CASE Environment
  BY <1>2, ModuleWorksInv, FrameArrivesInv, PeerHangsUpInv, HostStepInv
     DEF Environment
<1>3. CASE Calls
  BY <1>3, StartCommandInv, StartPollInv, StartEscapeInv, HostStepInv DEF Calls
<1>4. CASE Inside \/ WriteEscapeFails \/ ReadFails
  BY <1>4, WriteEscapeInv, WriteEscapeFailsInv, ReadLineInv, GivesUpInv DEF Inside
<1> QED
  BY <1>1, <1>2, <1>3, <1>4 DEF Next

\* The queues hold, at every step of a call, what the invariant says.
THEOREM QueuesAsExpected == Spec => []Inv
<1> QED
  BY InitInv, StepInv, PTL DEF Spec

-----------------------------------------------------------------------------
(* The promises *)

\* Only these steps of a call that started in sync end it.
LEMMA WhoReturns ==
    ASSUME Inv, [Next]_vars, ~Idle, call' = NoCall, last'.clean
    PROVE  \/ ReadLine /\ call.clean
           \/ call.step = "poll" /\ (ReadTimesOut \/ LineCap) /\ call.clean
           \/ last'.st \in GaveUp
<1>0. Types /\ call \in CallType /\ call.step # "none" /\ NoCall.step = "none"
  BY CallFacts DEF Inv, NoCall
<1>1. ~UNCHANGED call
  BY DEF Idle
<1>2. ~Environment
  <2>1. PeerHangsUp => call'.step = call.step
    BY <1>0 DEF PeerHangsUp, CallType
  <2> QED
    BY <1>0, <1>1, <2>1 DEF Environment, ModuleWorks, FrameArrives, HostReads,
                            HostWrites
<1>3. ~Calls
  BY DEF Calls, StartDial, StartResume, StartHangup, StartSend, StartPoll,
         StartFails, StartEscape, Start
<1>4. ~WriteEscape
  BY <1>0 DEF WriteEscape, CallType
<1>5. CASE WriteEscapeFails
  BY <1>5, PppAssumption DEF WriteEscapeFails, Return, GaveUp, PppAssumption
<1>6. ASSUME NEW st \in GaveUp, Ends(st)
      PROVE  call.clean /\ (call.step = "poll" \/ last'.st \in GaveUp)
  <2>1. CASE call.step = "connect" /\ ConnectEnds(st)
    BY <1>6, <2>1 DEF ConnectEnds, Return
  <2>2. CASE call.step = "final" /\ EscapeEnds(st)
    <3>1. ~(call.api = "disconnect" /\ ~flag')
      <4>1. ASSUME call' = [call EXCEPT !.step = "reply", !.lines = 0] PROVE FALSE
        BY <1>0, <4>1 DEF CallType
      <4> QED
        BY <2>2, <4>1 DEF EscapeEnds
    <3> QED
      BY <1>6, <2>2, <3>1 DEF EscapeEnds, Return
  <2>3. CASE call.step = "reply" /\ ReplyEnds(st)
    BY <1>6, <2>3 DEF ReplyEnds, Return
  <2>4. CASE call.step = "poll" /\ \E s : ReplyEnds(s)
    BY <2>4 DEF ReplyEnds, Return
  <2> QED
    BY <1>6, <2>1, <2>2, <2>3, <2>4 DEF Ends
<1>7. CASE ReadTimesOut \/ LineCap
  BY <1>6, <1>7 DEF ReadTimesOut, LineCap, GaveUp
<1>8. CASE ReadFails
  <2>1. Ends("IO") /\ "IO" \in GaveUp
    BY <1>8 DEF ReadFails, GaveUp
  <2>2. call.step = "poll" => last'.st = "IO"
    BY <2>1 DEF Ends, ReplyEnds, Return
  <2> QED
    BY <1>6, <2>1, <2>2
<1>9. CASE ReadLine
  <2>1. ~GoesOn /\ ~(call' = [call EXCEPT !.step = "reply", !.lines = 0])
    BY <1>0 DEF GoesOn, CallType
  <2>2. PICK st : Ends(st)
    BY <1>9, <2>1 DEF ReadLine
  <2>3. \E s : Return(s)
    <3>1. CASE ConnectEnds(st)
      BY <3>1 DEF ConnectEnds
    <3>2. CASE EscapeEnds(st)
      BY <2>1, <3>2 DEF EscapeEnds
    <3>3. CASE \E s : ReplyEnds(s)
      BY <3>3 DEF ReplyEnds
    <3> QED
      BY <2>2, <3>1, <3>2, <3>3 DEF Ends
  <2>4. last'.clean = call.clean
    <3>1. PICK s : last' = [api |-> call.api, st |-> s, clean |-> call.clean]
      BY <2>3 DEF Return
    <3>2. call.clean \in BOOLEAN
      BY <1>0 DEF CallType
    <3> QED
      BY <3>1, <3>2
  <2> QED
    BY <1>9, <2>4
<1> QED
  BY <1>1, <1>2, <1>3, <1>4, <1>5, <1>7, <1>8, <1>9 DEF Next, Inside, vars

\* A call that starts in sync and does not give up ends in sync.
THEOREM EndsInSyncHolds == Spec => EndsInSync
<1>1. ASSUME Inv, [Next]_vars, ~Idle, call' = NoCall, last'.clean,
             last'.st \notin GaveUp
      PROVE  InSync'
  <2>1. CASE ReadLine /\ call.clean
    <3>1. ~GoesOn /\ call'.step = "none"
      <4>1. call'.step = "none"
        BY <1>1 DEF NoCall
      <4>2. call \in CallType /\ call.step # "none"
        BY <1>1, CallFacts DEF Inv
      <4> QED
        BY <4>1, <4>2 DEF GoesOn, CallType
    <3> QED
      BY <1>1, <2>1, <3>1, ReadLineClean
  <2>2. CASE call.step = "poll" /\ (ReadTimesOut \/ LineCap) /\ call.clean
    <3>1. Polling /\ ~flag
      BY <1>1, <2>2 DEF Inv, CleanInv
    <3>2. UNCHANGED <<stream, mode>> /\ \E s : ReplyEnds(s)
      BY <2>2 DEF ReadTimesOut, LineCap, Ends
    <3>3. UNCHANGED <<work, flag>>
      BY <3>2 DEF ReplyEnds
    <3>4. Types'
      BY <1>1, StepInv DEF Inv
    <3> QED
      BY <3>1, <3>2, <3>3, <3>4, InSyncNext DEF Polling
  <2> QED
    BY <1>1, <2>1, <2>2, WhoReturns
<1>2. Inv /\ [Next]_vars =>
        [ (~Idle /\ call' = NoCall /\ last'.clean /\ last'.st \notin GaveUp)
            => InSync' ]_vars
  BY <1>1
<1> QED
  BY <1>2, QueuesAsExpected, PTL DEF EndsInSync, Spec

\* A call that starts in sync writes no command into the PPP stream.
THEOREM NoStrayCommandHolds == Spec => NoStrayCommand
<1>1. ASSUME Inv, [Next]_vars, work' # work, Len(work') > Len(work),
             call'.clean, work'[Len(work')] \in Command
      PROVE  mode # "data"
  <2>0. /\ Types /\ work \in Seq(WorkItem) /\ Len(work) \in Nat
        /\ "part" \notin Command /\ "+++" \notin Command
        /\ "part" \in WorkItem /\ "+++" \in WorkItem
    BY <1>1, LenProperties DEF Inv, Types, Command, WorkItem
  <2>1. \A x \in WorkItem : work' = Append(work, x) => x \in Command
    BY <1>1, <2>0, AppendFacts
  <2>2. ~ModuleWorks
    BY <1>1, <2>0, TailFacts DEF ModuleWorks
  <2>3. ~UNCHANGED work
    BY <1>1
  <2>4. ~StartFails /\ ~WriteEscape /\ ~WriteEscapeFails
    BY <2>0, <2>1 DEF StartFails, WriteEscape, WriteEscapeFails
  <2>5. CASE StartDial \/ StartResume \/ StartHangup \/ StartSend
    BY <1>1, <2>5, StartCommandInv
  <2>6. CASE ReadLine
    <3>1. call.clean
      BY <1>1, <2>6, ReadLineTypes
    <3> QED
      BY <1>1, <2>3, <2>6, <3>1, ReadLineClean DEF GoesOn, NoCall
  <2>7. CASE ReadTimesOut \/ ReadFails \/ LineCap
    <3>1. PICK st : Ends(st)
      BY <2>7 DEF ReadTimesOut, ReadFails, LineCap
    <3>2. call' # NoCall
      BY <1>1 DEF NoCall
    <3>3. call.clean
      BY <1>1, <2>0, <3>1, <3>2, EndsFacts
    <3> QED
      BY <1>1, <2>3, <2>7, <3>3, GivesUpInv
  <2>8. ~(FrameArrives \/ PeerHangsUp \/ HostReads \/ HostWrites \/ StartPoll)
    BY <2>3 DEF FrameArrives, PeerHangsUp, HostReads, HostWrites, StartPoll
  <2>9. \A api : ~StartEscape(api)
    BY <2>3 DEF StartEscape
  <2> QED
    BY <1>1, <2>2, <2>3, <2>4, <2>5, <2>6, <2>7, <2>8, <2>9
       DEF Next, Environment, Calls, Inside, vars
<1>2. Inv /\ [Next]_vars =>
        [ (work' # work /\ Len(work') > Len(work) /\ call'.clean
            /\ work'[Len(work')] \in Command) => mode # "data" ]_vars
  BY <1>1
<1> QED
  BY <1>2, QueuesAsExpected, PTL DEF NoStrayCommand, Spec

\* The frames after CONNECT are left for the host stack, but for an escape.
THEOREM FramesLeftToHostHolds == Spec => FramesLeftToHost
<1>1. ASSUME Inv, [Next]_vars, stream # <<>>, stream' = Tail(stream),
             Head(stream) = "FRAME", call.clean
      PROVE  call.step = "final"
  <2>0. /\ Types /\ stream \in Seq(Item) /\ Len(stream) \in Nat \ {0}
        /\ Len(stream') = Len(stream) - 1
    BY <1>1, TailFacts DEF Inv, Types
  <2>1. stream' # stream /\ \A x \in Item : stream' # Append(stream, x)
    BY <2>0, AppendFacts
  <2>2. ~ModuleWorks
    BY <2>0, <2>1, ModuleDoes DEF Item
  <2>3. ~FrameArrives /\ ~PeerHangsUp
    BY <2>1 DEF FrameArrives, PeerHangsUp, Send, Item
  <2>4. ~HostReads
    BY <1>1, <2>0, CallFacts DEF HostReads
  <2>5. ~(\/ HostWrites \/ StartDial \/ StartResume \/ StartHangup \/ StartSend
          \/ StartPoll \/ StartFails)
    BY <2>1 DEF HostWrites, StartDial, StartResume, StartHangup, StartSend,
                StartPoll, StartFails
  <2>6. \A api : ~StartEscape(api)
    BY <2>1 DEF StartEscape
  <2>7. ~(WriteEscape \/ WriteEscapeFails \/ ReadTimesOut \/ ReadFails \/ LineCap)
    BY <2>1 DEF WriteEscape, WriteEscapeFails, ReadTimesOut, ReadFails, LineCap
  <2>8. CASE ReadLine
    BY <1>1, <2>8, ReadLineClean
  <2> QED
    BY <1>1, <2>1, <2>2, <2>3, <2>4, <2>5, <2>6, <2>7, <2>8
       DEF Next, Environment, Calls, Inside, vars
<1>2. Inv /\ [Next]_vars =>
        [ (stream # <<>> /\ stream' = Tail(stream) /\ Head(stream) = "FRAME"
            /\ call.clean) => call.step = "final" ]_vars
  BY <1>1
<1> QED
  BY <1>2, QueuesAsExpected, PTL DEF FramesLeftToHost, Spec
=============================================================================
