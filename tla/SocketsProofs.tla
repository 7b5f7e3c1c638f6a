---------------------------- MODULE SocketsProofs ----------------------------
(***************************************************************************)
(* What an application that sees nothing but return codes can rely on, for *)
(* every set of connections and hosts and every amount of data, addresses  *)
(* and unsolicited lines.                                                  *)
(*                                                                         *)
(* Two arguments.  A header of a TLS recv in the stream is followed by as  *)
(* many bytes as it says, of one connection and in order, whatever is      *)
(* before it (Blocks); this never depends on what a call returned.  And    *)
(* during a trusted call the stream, without the unsolicited lines, and    *)
(* the job of the module together are exactly what the call has still to   *)
(* read (ToCome), so that its last line leaves nothing behind.             *)
(***************************************************************************)
EXTENDS Sockets, TLAPS, SequenceTheorems, WellFoundedInduction

Counted   == [first : Nat, third : Int \cup {None}]
Words     == {"error", "header", "address", "reply", "summary", "failed"}
LineType  == [kind : {"QIRD", "SSLRECV"}, about : Conns, val : Counted]
               \cup [kind : {"QIOPEN", "QSSLOPEN", "QISTATE", "SEND"}, about : Conns,
                     val : BOOLEAN]
               \cup [kind : {"DNS", "PING"}, about : Hosts, val : Words]
               \cup [kind : {"DATA"}, about : Conns, val : Nat]
               \cup [kind : {"OK", "ERROR", "TEXT", "PROMPT", "JUNK"}, about : {None},
                     val : {None}]
ConnApis  == {"open", "send", "close", "recv", "state", "avail"}
CmdType   == [api : ConnApis, about : Conns, len : Nat]
               \cup [api : {"dns", "ping"}, about : Hosts, len : {0}]
               \cup {Payload}
JobKinds  == {"QIOPEN", "QSSLOPEN", "DNS", "PING"}
JobType   == {r \in Seq(LineType) : /\ r # <<>>
                                    /\ \A i \in 1..Len(r) : r[i].kind \in JobKinds}

\* The steps of a call, and what it is about.
StepsOf(api) == CASE api \in {"open", "ping"}   -> {"await", "result", "tail"}
                  [] api = "dns"                -> {"await", "result", "tail", "address"}
                  [] api = "recv"               -> {"header", "data", "final"}
                  [] api = "send"               -> {"prompt", "result"}
                  [] api = "close"              -> {"final"}
                  [] api \in {"state", "avail"} -> {"query"}
                  [] OTHER                      -> {"none"}
Steps == {"await", "result", "tail", "address", "header", "data", "final", "prompt",
          "query", "none"}
CallType == {c \in [api : ConnApis \cup {"dns", "ping", "none"},
                    about : Conns \cup Hosts \cup {None}, len : Nat, step : Steps,
                    line : LineType \cup {None}, got : Seq(LineType),
                    seen : Nat, at : Nat, trusted : BOOLEAN, sure : BOOLEAN] :
                /\ c.step \in StepsOf(c.api) /\ (c.api = "none" => c = NoCall)
                /\ c.api \in ConnApis => c.about \in Conns
                /\ c.api \in {"dns", "ping"} => c.about \in Hosts
                /\ c.step = "tail" => c.line \in LineType
                /\ c.step = "header" => c.got = <<>>}

Types ==
    /\ work \in Seq(CmdType) /\ jobs \in SUBSET JobType /\ stream \in Seq(LineType)
    /\ sink \in Conns \cup {None}
    /\ conn \in [Conns -> {"idle", "open", "dead"}]
    /\ sent \in [Conns -> Nat] /\ taken \in [Conns -> Nat]
    /\ \A c \in Conns : taken[c] <= sent[c]
    /\ call \in CallType /\ trusted \in BOOLEAN

-----------------------------------------------------------------------------
(* Sequences *)

LEMMA TailFacts ==
    ASSUME NEW S, NEW s \in Seq(S), s # <<>>
    PROVE  /\ Tail(s) \in Seq(S) /\ Len(s) \in Nat \ {0}
           /\ Len(Tail(s)) = Len(s) - 1 /\ Head(s) = s[1] /\ s[1] \in S
           /\ \A i \in 1..(Len(s) - 1) : Tail(s)[i] = s[i + 1]
<1>1. Len(s) \in Nat \ {0}
  BY EmptySeq
<1>2. Tail(s) \in Seq(S) /\ Len(Tail(s)) = Len(s) - 1 /\ Head(s) = s[1]
        /\ \A i \in 1..(Len(s) - 1) : Tail(s)[i] = s[i + 1]
  BY <1>1, HeadTailProperties
<1>3. s[1] \in S
  BY <1>1, ElementOfSeq
<1> QED
  BY <1>1, <1>2, <1>3

LEMMA AppendFacts ==
    ASSUME NEW S, NEW s \in Seq(S), NEW x \in S
    PROVE  /\ Append(s, x) \in Seq(S) /\ Len(s) \in Nat
           /\ Len(Append(s, x)) = Len(s) + 1
           /\ \A i \in 1..Len(s) : Append(s, x)[i] = s[i]
           /\ Append(s, x)[Len(s) + 1] = x
OBVIOUS

LEMMA ConcatFacts ==
    ASSUME NEW S, NEW s \in Seq(S), NEW t \in Seq(S)
    PROVE  /\ s \o t \in Seq(S) /\ Len(s \o t) = Len(s) + Len(t)
           /\ \A k \in 1..Len(s \o t) :
                 (s \o t)[k] = IF k <= Len(s) THEN s[k] ELSE t[k - Len(s)]
BY ConcatProperties

\* Sequences of a few lines.
LEMMA ShortConcats ==
    ASSUME NEW X, NEW x \in X, NEW y \in X, NEW z \in X
    PROVE  /\ <<x>> \o <<y>> = <<x, y>> /\ <<x>> \o <<y, z>> = <<x, y, z>>
           /\ <<x, y>> \o <<z>> = <<x, y, z>> 
           /\ <<x>> \o <<>> = <<x>> /\ <<x, y>> \o <<>> = <<x, y>>
           /\ {<<>>, <<x>>, <<y>>, <<x, y>>, <<x, y, z>>} \subseteq Seq(X)
<1>1. ASSUME NEW s \in Seq(X), NEW t \in Seq(X), NEW r \in Seq(X), Len(r) = Len(s) + Len(t),
             \A k \in 1..Len(r) : r[k] = IF k <= Len(s) THEN s[k] ELSE t[k - Len(s)]
      PROVE  s \o t = r
  <2> DEFINE q == s \o t
  <2>1. /\ q \in Seq(X) /\ Len(q) = Len(r)
        /\ \A k \in 1..Len(q) : q[k] = r[k]
    BY <1>1, ConcatFacts
  <2> HIDE DEF q
  <2>2. q = r
    BY <2>1, SeqEqual
  <2> QED
    BY <2>2 DEF q
<1>2. {<<>>, <<x>>, <<y>>, <<z>>, <<x, y>>, <<y, z>>, <<x, y, z>>} \subseteq Seq(X)
  OBVIOUS
<1>3. <<x>> \o <<y>> = <<x, y>>
  <2>1. /\ Len(<<x, y>>) = Len(<<x>>) + Len(<<y>>)
        /\ \A k \in 1..Len(<<x, y>>) : <<x, y>>[k] = IF k <= Len(<<x>>) THEN <<x>>[k] ELSE <<y>>[k - Len(<<x>>)]
    OBVIOUS
  <2> QED
    BY <1>1, <1>2, <2>1
<1>4. <<x>> \o <<y, z>> = <<x, y, z>>
  <2>1. /\ Len(<<x, y, z>>) = Len(<<x>>) + Len(<<y, z>>)
        /\ \A k \in 1..Len(<<x, y, z>>) : <<x, y, z>>[k] = IF k <= Len(<<x>>) THEN <<x>>[k] ELSE <<y, z>>[k - Len(<<x>>)]
    OBVIOUS
  <2> QED
    BY <1>1, <1>2, <2>1
<1>5. <<x, y>> \o <<z>> = <<x, y, z>>
  <2>1. /\ Len(<<x, y, z>>) = Len(<<x, y>>) + Len(<<z>>)
        /\ \A k \in 1..Len(<<x, y, z>>) : <<x, y, z>>[k] = IF k <= Len(<<x, y>>) THEN <<x, y>>[k] ELSE <<z>>[k - Len(<<x, y>>)]
    OBVIOUS
  <2> QED
    BY <1>1, <1>2, <2>1
<1>6. <<x>> \o <<>> = <<x>> /\ <<x, y>> \o <<>> = <<x, y>>
  OBVIOUS
<1> QED
  BY <1>2, <1>3, <1>4, <1>5, <1>6

\* Every nonempty set of numbers has a least element.
LEMMA LeastNat ==
    ASSUME NEW T \in SUBSET Nat, T # {}
    PROVE  \E x \in T : \A y \in T : x <= y
<1> DEFINE R == OpToRel(<, Nat)
<1>1. IsWellFoundedOn(R, Nat)
  BY NatLessThanWellFounded
<1>2. \E x \in T : \A y \in T : ~(<<y, x>> \in R)
  <2> HIDE DEF R
  <2> QED
    BY <1>1, WFMin
<1>3. \A x, y \in Nat : <<y, x>> \notin R => x <= y
  BY DEF OpToRel
<1> HIDE DEF R
<1> QED
  BY <1>2, <1>3

\* t is what is left of s after its first d elements.
Drops(s, t, d) ==
    /\ d \in 1..Len(s) /\ Len(t) = Len(s) - d
    /\ \A i \in 1..Len(t) : t[i] = s[i + d]

\* A line reader takes the first line, or all the raw bytes before one.
LEMMA RestFacts ==
    ASSUME NEW S, NEW s \in Seq(S), s # <<>>
    PROVE  /\ RestOf(s) \in Seq(S)
           /\ \E d \in 1..Len(s) :
                 /\ Drops(s, RestOf(s), d)
                 /\ \/ d = 1 /\ RestOf(s) = Tail(s)
                    \/ \A i \in 1..d : s[i].kind = "DATA"
           /\ s[1].kind # "DATA" => RestOf(s) = Tail(s)
<1> DEFINE T == {i \in 1..Len(s) : s[i].kind # "DATA"}
<1>1. RestOf(s) = LET n == IF T # {} THEN Min(T) ELSE 0
                  IN  CASE n = 0 -> <<>>
                        [] n = 1 -> Tail(s)
                        [] OTHER -> SubSeq(s, n, Len(s))
  BY DEF SelectInSeq, RestOf
<1>2. /\ Len(s) \in Nat \ {0} /\ Tail(s) \in Seq(S) /\ Len(Tail(s)) = Len(s) - 1
      /\ \A i \in 1..(Len(s) - 1) : Tail(s)[i] = s[i + 1]
  BY TailFacts
<1>3. 1 \in 1..Len(s) /\ Drops(s, Tail(s), 1)
  BY <1>2 DEF Drops
<1>4. CASE T = {}
  <2>1. RestOf(s) = <<>> /\ \A i \in 1..Len(s) : s[i].kind = "DATA"
    BY <1>1, <1>4
  <2>2. <<>> \in Seq(S) /\ Len(<<>>) = 0
    OBVIOUS
  <2>3. Len(s) \in 1..Len(s) /\ Drops(s, <<>>, Len(s))
    BY <1>2, <2>2 DEF Drops
  <2> QED
    BY <1>3, <2>1, <2>2, <2>3
<1>5. CASE T # {}
  <2>1. T \in SUBSET Nat
    OBVIOUS
  <2>2. PICK x \in T : \A y \in T : x <= y
    <3> HIDE DEF T
    <3> QED
      BY <1>5, <2>1, LeastNat
  <2> DEFINE n == Min(T)
  <2>3. n \in T /\ \A y \in T : n <= y
    BY <2>2 DEF Min
  <2>4. RestOf(s) = CASE n = 0 -> <<>> [] n = 1 -> Tail(s) [] OTHER -> SubSeq(s, n, Len(s))
    BY <1>1, <1>5
  <2> HIDE DEF n
  <2>5. n \in 1..Len(s) /\ \A i \in 1..(n - 1) : s[i].kind = "DATA"
    BY <2>3
  <2>6. CASE n = 1
    <3>1. RestOf(s) = Tail(s)
      BY <2>4, <2>6
    <3> QED
      BY <1>2, <1>3, <3>1
  <2>7. CASE n # 1
    <3> DEFINE r == SubSeq(s, n, Len(s))
    <3>1. RestOf(s) = r
      BY <2>4, <2>5, <2>7
    <3>2. /\ r \in Seq(S) /\ Len(r) = Len(s) - n + 1
          /\ \A i \in 1..Len(r) : r[i] = s[i + (n - 1)]
      BY <1>2, <2>5, SubSeqProperties
    <3> HIDE DEF r
    <3>3. n - 1 \in 1..Len(s) /\ Drops(s, r, n - 1) /\ s[1].kind = "DATA"
      BY <1>2, <2>5, <2>7, <3>2 DEF Drops
    <3> QED
      BY <2>5, <3>1, <3>2, <3>3
  <2> QED
    BY <2>6, <2>7
<1> QED
  BY <1>4, <1>5

-----------------------------------------------------------------------------
(* Lines *)

LEMMA LineFacts ==
    /\ {Ok, Error, Text, Prompt, Junk} \subseteq LineType
    /\ Ok.kind = "OK" /\ Error.kind = "ERROR" /\ Text.kind = "TEXT"
    /\ Prompt.kind = "PROMPT" /\ Junk.kind = "JUNK"
    /\ \A c \in Conns, n \in Nat :
          /\ Data(c, n) \in LineType /\ Data(c, n).kind = "DATA"
          /\ Header(c, n) \in LineType /\ Header(c, n).about = c
          /\ Header(c, n).val.first = n
          /\ Header(c, n).kind = IF c \in Tls THEN "SSLRECV" ELSE "QIRD"
    /\ \A c \in Conns, ok \in BOOLEAN, k \in {"QIOPEN", "QSSLOPEN", "QISTATE", "SEND"} :
          /\ Line(k, c, ok) \in LineType /\ Line(k, c, ok).kind = k
          /\ Line(k, c, ok).about = c /\ Line(k, c, ok).val = ok
    /\ \A h \in Hosts, w \in Words, k \in {"DNS", "PING"} :
          /\ Line(k, h, w) \in LineType /\ Line(k, h, w).kind = k
          /\ Line(k, h, w).about = h /\ Line(k, h, w).val = w
BY DEF Ok, Error, Text, Prompt, Junk, Data, Header, Line, LineType, Counted, Words

LEMMA CountsFacts ==
    ASSUME Types, NEW c \in Conns
    PROVE  Counts(c) \in LineType /\ Counts(c).kind = "QIRD" /\ Counts(c).about = c
<1>1. sent[c] \in Nat /\ taken[c] \in Nat
  BY DEF Types
<1>2. [first |-> sent[c], third |-> sent[c] - taken[c]] \in Counted
  BY <1>1 DEF Counted
<1> QED
  BY <1>2 DEF Counts, Line, LineType

\* The results of a command are about what it is about.
LEMMA ResultFacts ==
    ASSUME NEW w \in CmdType, w.api \in {"open", "dns", "ping"}, NEW r \in Results(w)
    PROVE  /\ r \in JobType /\ Len(r) \in Nat \ {0}
           /\ \A i \in 1..Len(r) :
                 /\ r[i].about = w.about
                 /\ r[i].kind = CASE w.api = "open" -> (IF w.about \in Tls THEN "QSSLOPEN"
                                                        ELSE "QIOPEN")
                                  [] w.api = "dns"  -> "DNS"
                                  [] w.api = "ping" -> "PING"
           /\ w.api = "open" => Len(r) = 1 /\ r[1].val \in BOOLEAN
           /\ w.api = "ping" => /\ Len(r) = 2 /\ r[1].val = "reply"
                                /\ r[2].val \in {"summary", "failed"}
<1>1. CASE w.api = "open"
  <2>1. w.about \in Conns
    BY <1>1 DEF CmdType, ConnApis, Payload, Cmd
  <2>2. PICK ok \in BOOLEAN :
           r = <<Line(IF w.about \in Tls THEN "QSSLOPEN" ELSE "QIOPEN", w.about, ok)>>
    BY <1>1 DEF Results, OpenResults
  <2> DEFINE k == IF w.about \in Tls THEN "QSSLOPEN" ELSE "QIOPEN"
             l == Line(k, w.about, ok)
  <2>3. /\ k \in {"QIOPEN", "QSSLOPEN"} /\ l \in LineType /\ l.kind = k
        /\ l.about = w.about /\ l.val = ok
    BY <2>1, LineFacts
  <2>4. r = <<l>> /\ k = IF w.about \in Tls THEN "QSSLOPEN" ELSE "QIOPEN"
    BY <2>2
  <2> HIDE DEF k, l
  <2>5. r \in Seq(LineType) /\ Len(r) = 1 /\ r[1] = l /\ r # <<>>
    BY <2>3, <2>4
  <2>6. r \in JobType
    <3>1. \A i \in 1..Len(r) : r[i].kind \in JobKinds
      BY <2>3, <2>5 DEF JobKinds
    <3> QED
      BY <2>5, <3>1 DEF JobType
  <2> QED
    BY <1>1, <2>3, <2>4, <2>5, <2>6
<1>2. CASE w.api = "ping"
  <2>1. w.about \in Hosts
    BY <1>2 DEF CmdType, ConnApis, Payload, Cmd
  <2>2. PICK s \in {"summary", "failed"} :
           r = <<Line("PING", w.about, "reply"), Line("PING", w.about, s)>>
    BY <1>2 DEF Results, PingResults
  <2> DEFINE a == Line("PING", w.about, "reply")
             b == Line("PING", w.about, s)
  <2>3. /\ a \in LineType /\ a.kind = "PING" /\ a.about = w.about /\ a.val = "reply"
        /\ b \in LineType /\ b.kind = "PING" /\ b.about = w.about /\ b.val = s
    BY <2>1, LineFacts DEF Words
  <2>4. r = <<a, b>>
    BY <2>2
  <2> HIDE DEF a, b
  <2>5. r \in Seq(LineType) /\ Len(r) = 2 /\ r[1] = a /\ r[2] = b /\ r # <<>>
    BY <2>3, <2>4
  <2>6. r \in JobType
    <3>1. \A i \in 1..Len(r) : r[i].kind \in JobKinds
      BY <2>3, <2>5 DEF JobKinds
    <3> QED
      BY <2>5, <3>1 DEF JobType
  <2> QED
    BY <1>2, <2>3, <2>5, <2>6
<1>3. CASE w.api = "dns"
  <2>1. w.about \in Hosts
    BY <1>3 DEF CmdType, ConnApis, Payload, Cmd
  <2> DEFINE e == Line("DNS", w.about, "error")
             a == Line("DNS", w.about, "header")
             b == Line("DNS", w.about, "address")
             as(n) == [k \in 1..n |-> b]
  <2>2. /\ e \in LineType /\ e.kind = "DNS" /\ e.about = w.about
        /\ a \in LineType /\ a.kind = "DNS" /\ a.about = w.about
        /\ b \in LineType /\ b.kind = "DNS" /\ b.about = w.about
    BY <2>1, LineFacts DEF Words
  <2>3. r = <<e>> \/ \E n \in 1..MaxAddrs : r = <<a>> \o as(n)
    BY <1>3 DEF Results, DnsResults
  <2>4. r \in Seq(LineType) /\ Len(r) \in Nat \ {0} /\ \A i \in 1..Len(r) : r[i] \in {e, a, b}
    <3>1. CASE r = <<e>>
      BY <2>2, <3>1
    <3>2. ASSUME NEW n \in 1..MaxAddrs, r = <<a>> \o as(n)
          PROVE  r \in Seq(LineType) /\ Len(r) \in Nat \ {0}
                   /\ \A i \in 1..Len(r) : r[i] \in {e, a, b}
      <4> DEFINE z == as(n)
                 y == <<a>>
      <4>1. /\ z \in Seq(LineType) /\ Len(z) = n /\ \A i \in 1..n : z[i] = b
            /\ y \in Seq(LineType) /\ Len(y) = 1 /\ y[1] = a
            /\ n \in Nat
        BY <2>2, SocketsAssumption
      <4>2. r = y \o z
        BY <3>2
      <4> HIDE DEF y, z
      <4>3. /\ r \in Seq(LineType) /\ Len(r) = Len(y) + Len(z)
            /\ \A k \in 1..Len(r) : r[k] = IF k <= Len(y) THEN y[k] ELSE z[k - Len(y)]
        BY <4>1, <4>2, ConcatFacts, Zenon
      <4> HIDE DEF e, a, b
      <4> QED
        BY <4>1, <4>3
    <3> QED
      BY <2>3, <3>1, <3>2
  <2> HIDE DEF e, a, b
  <2>5. r \in JobType
    <3>1. (\A i \in 1..Len(r) : r[i].kind \in JobKinds) /\ r # <<>>
      BY <2>2, <2>4 DEF JobKinds
    <3> QED
      BY <2>4, <3>1 DEF JobType
  <2> QED
    BY <1>3, <2>2, <2>4, <2>5
<1> QED
  BY <1>1, <1>2, <1>3

-----------------------------------------------------------------------------
(* What the module does *)

\* A header of a TLS recv is followed by the bytes it announces.
Bytes(s, k, n, a, b) == \A j \in 1..n : k + j <= Len(s) /\ s[k + j] = Data(a, b + j)
Blocked(s) ==
    \A k \in 1..Len(s) : s[k].kind = "SSLRECV" =>
        \E a \in Conns, b \in Nat : Bytes(s, k, s[k].val.first, a, b)

LEMMA CountIsNat ==
    ASSUME NEW l \in LineType, l.kind \in {"SSLRECV", "QIRD"}
    PROVE  l.val.first \in Nat /\ l.about \in Conns /\ l.val.third \in Int \cup {None}
BY DEF LineType, Counted

LEMMA BlockedConcat ==
    ASSUME NEW s \in Seq(LineType), NEW t \in Seq(LineType), Blocked(s), Blocked(t)
    PROVE  Blocked(s \o t)
<1> DEFINE r == s \o t
<1>1. /\ r \in Seq(LineType) /\ Len(r) = Len(s) + Len(t)
      /\ \A k \in 1..Len(r) : r[k] = IF k <= Len(s) THEN s[k] ELSE t[k - Len(s)]
  BY ConcatFacts, Zenon
<1>2. Len(s) \in Nat /\ Len(t) \in Nat
  OBVIOUS
<1> HIDE DEF r
<1>3. ASSUME NEW k \in 1..Len(r), r[k].kind = "SSLRECV"
      PROVE  \E a \in Conns, b \in Nat : Bytes(r, k, r[k].val.first, a, b)
  <2>1. CASE k <= Len(s)
    <3>1. k \in 1..Len(s) /\ r[k] = s[k]
      BY <1>1, <1>2, <2>1
    <3>2. PICK a \in Conns, b \in Nat : Bytes(s, k, s[k].val.first, a, b)
      BY <1>3, <3>1 DEF Blocked
    <3>3. s[k].val.first \in Nat
      BY <1>3, <3>1, CountIsNat, ElementOfSeq
    <3> DEFINE n == s[k].val.first
    <3>4. n \in Nat /\ Bytes(s, k, n, a, b) /\ r[k].val.first = n
      BY <3>1, <3>2, <3>3
    <3> HIDE DEF n
    <3>5. ASSUME NEW j \in 1..n PROVE k + j <= Len(r) /\ r[k + j] = Data(a, b + j)
      <4>1. k + j <= Len(s) /\ s[k + j] = Data(a, b + j)
        BY <3>4 DEF Bytes
      <4>2. k + j \in 1..Len(r) /\ k + j <= Len(r)
        BY <1>1, <1>2, <3>1, <3>4, <4>1
      <4> QED
        BY <1>1, <4>1, <4>2
    <3>6. Bytes(r, k, n, a, b)
      BY <3>5 DEF Bytes
    <3> QED
      BY <3>4, <3>6
  <2>2. CASE k > Len(s)
    <3> DEFINE i == k - Len(s)
    <3>1. i \in 1..Len(t) /\ r[k] = t[i] /\ k = i + Len(s)
      BY <1>1, <1>2, <2>2
    <3> HIDE DEF i
    <3>2. PICK a \in Conns, b \in Nat : Bytes(t, i, t[i].val.first, a, b)
      BY <1>3, <3>1 DEF Blocked
    <3>3. t[i].val.first \in Nat
      BY <1>3, <3>1, CountIsNat, ElementOfSeq
    <3> DEFINE n == t[i].val.first
    <3>4. n \in Nat /\ Bytes(t, i, n, a, b) /\ r[k].val.first = n
      BY <3>1, <3>2, <3>3
    <3> HIDE DEF n
    <3>5. ASSUME NEW j \in 1..n PROVE k + j <= Len(r) /\ r[k + j] = Data(a, b + j)
      <4>1. i + j <= Len(t) /\ t[i + j] = Data(a, b + j)
        BY <3>4 DEF Bytes
      <4>2. /\ k + j \in 1..Len(r) /\ k + j <= Len(r) /\ ~(k + j <= Len(s))
            /\ k + j - Len(s) = i + j
        BY <1>1, <1>2, <3>1, <3>4, <4>1
      <4> QED
        BY <1>1, <4>1, <4>2
    <3>6. Bytes(r, k, n, a, b)
      BY <3>5 DEF Bytes
    <3> QED
      BY <3>4, <3>6
  <2> QED
    BY <1>2, <2>1, <2>2
<1> QED
  BY <1>3 DEF Blocked, r

LEMMA BlockedDrops ==
    ASSUME NEW s \in Seq(LineType), NEW t \in Seq(LineType), NEW d \in 1..Len(s),
           Drops(s, t, d), Blocked(s)
    PROVE  Blocked(t)
<1> SUFFICES ASSUME NEW k \in 1..Len(t), t[k].kind = "SSLRECV"
             PROVE  \E a \in Conns, b \in Nat : Bytes(t, k, t[k].val.first, a, b)
  BY DEF Blocked
<1>1. /\ Len(s) \in Nat /\ Len(t) = Len(s) - d /\ \A i \in 1..Len(t) : t[i] = s[i + d]
      /\ k + d \in 1..Len(s) /\ t[k] = s[k + d]
  BY DEF Drops
<1>2. PICK a \in Conns, b \in Nat : Bytes(s, k + d, t[k].val.first, a, b)
  BY <1>1 DEF Blocked
<1>3. t[k].val.first \in Nat
  BY CountIsNat, ElementOfSeq
<1> DEFINE n == t[k].val.first
<1>4. n \in Nat /\ \A j \in 1..n : k + d + j <= Len(s) /\ s[k + d + j] = Data(a, b + j)
  BY <1>2, <1>3 DEF Bytes
<1> HIDE DEF n
<1>5. ASSUME NEW j \in 1..n PROVE k + j <= Len(t) /\ t[k + j] = Data(a, b + j)
  <2>0. k + d + j <= Len(s) /\ s[k + d + j] = Data(a, b + j)
    BY <1>4
  <2>1. k + j \in 1..Len(t) /\ (k + j) + d = k + d + j /\ k + j <= Len(t)
    <3>1. k + d + j <= Len(s) /\ Len(s) \in Nat /\ Len(t) = Len(s) - d /\ d \in Nat /\ j \in Nat
      BY <1>1, <1>4, <2>0
    <3> QED
      BY <3>1
  <2>2. t[k + j] = s[(k + j) + d]
    BY <1>1, <2>1
  <2> QED
    BY <2>0, <2>1, <2>2
<1>6. Bytes(t, k, n, a, b)
  BY <1>5 DEF Bytes
<1> QED
  BY <1>6 DEF n

LEMMA BlockedOne ==
    ASSUME NEW s \in Seq(LineType), \A i \in 1..Len(s) : s[i].kind # "SSLRECV"
    PROVE  Blocked(s)
BY DEF Blocked

States == {"idle", "open", "dead"}

LEMMA AnnouncedFacts ==
    ASSUME NEW cs \in [Conns -> States], NEW l \in LineType
    PROVE  /\ Announced(cs, l) \in [Conns -> States]
           /\ \A c \in Conns : Announced(cs, l)[c] = "idle" <=> cs[c] = "idle"
<1>1. CASE l.kind \in {"QIOPEN", "QSSLOPEN"}
  <2>1. l.about \in Conns
    BY <1>1 DEF LineType
  <2>2. \/ Announced(cs, l) = cs
        \/ Announced(cs, l) = [cs EXCEPT ![l.about] = "open"] /\ cs[l.about] = "dead"
    BY DEF Announced
  <2> QED
    BY <2>1, <2>2 DEF States
<1>2. CASE l.kind \notin {"QIOPEN", "QSSLOPEN"}
  BY <1>2 DEF Announced
<1> QED
  BY <1>1, <1>2

LEMMA InUseFacts ==
    ASSUME Types, NEW w \in CmdType
    PROVE  /\ InUse(w) \in [Conns -> States]
           /\ w.api = "open" => w.about \in Conns /\ InUse(w)[w.about] # "idle"
<1>1. conn \in [Conns -> States]
  BY DEF Types, States
<1>2. w.api = "open" => w.about \in Conns
  BY DEF CmdType, ConnApis, Payload, Cmd
<1> QED
  BY <1>1, <1>2 DEF InUse, States

\* The answer to a recv.
RecvLines(c, n) == <<Header(c, n)>> \o [k \in 1..n |-> Data(c, taken[c] + k)] \o <<Ok>>

LEMMA RecvLinesFacts ==
    ASSUME Types, NEW c \in Conns, NEW n \in Nat
    PROVE  /\ RecvLines(c, n) \in Seq(LineType) /\ Len(RecvLines(c, n)) = n + 2
           /\ RecvLines(c, n)[1] = Header(c, n)
           /\ \A j \in 1..n : RecvLines(c, n)[1 + j] = Data(c, taken[c] + j)
           /\ RecvLines(c, n)[n + 2] = Ok
           /\ Blocked(RecvLines(c, n))
<1> DEFINE x == <<Header(c, n)>>
           y == [k \in 1..n |-> Data(c, taken[c] + k)]
           z == <<Ok>>
           xy == x \o y
           r == xy \o z
<1>1. taken[c] \in Nat /\ \A k \in 1..n : taken[c] + k \in Nat
  BY DEF Types
<1>2. \A k \in 1..n : Data(c, taken[c] + k) \in LineType
  BY <1>1, LineFacts
<1>3. /\ x \in Seq(LineType) /\ Len(x) = 1 /\ x[1] = Header(c, n)
      /\ y \in Seq(LineType) /\ Len(y) = n /\ \A k \in 1..n : y[k] = Data(c, taken[c] + k)
      /\ z \in Seq(LineType) /\ Len(z) = 1 /\ z[1] = Ok
  BY <1>2, LineFacts
<1>4. RecvLines(c, n) = r
  BY DEF RecvLines
<1> HIDE DEF x, y, z
<1>5. /\ xy \in Seq(LineType) /\ Len(xy) = Len(x) + Len(y)
      /\ \A k \in 1..Len(xy) : xy[k] = IF k <= Len(x) THEN x[k] ELSE y[k - Len(x)]
  BY <1>3, ConcatFacts, Zenon
<1> HIDE DEF xy
<1>6. /\ r \in Seq(LineType) /\ Len(r) = Len(xy) + Len(z)
      /\ \A k \in 1..Len(r) : r[k] = IF k <= Len(xy) THEN xy[k] ELSE z[k - Len(xy)]
  <2>1. xy \in Seq(LineType) /\ z \in Seq(LineType)
    BY <1>3, <1>5
  <2> QED
    BY <2>1, ConcatFacts, Zenon
<1> HIDE DEF r
<1>7. /\ Len(r) = n + 2 /\ r[1] = Header(c, n) /\ r[n + 2] = Ok
      /\ \A j \in 1..n : r[1 + j] = Data(c, taken[c] + j)
  BY <1>3, <1>5, <1>6
<1>8. Blocked(r)
  <2>1. /\ Header(c, n).val.first = n /\ Ok.kind = "OK"
        /\ \A k \in 1..n : Data(c, taken[c] + k).kind = "DATA"
    BY <1>1, LineFacts
  <2>2. ASSUME NEW k \in 1..Len(r), r[k].kind = "SSLRECV"
        PROVE  k = 1
    <3>1. SUFFICES ASSUME k # 1 PROVE FALSE
      OBVIOUS
    <3>2. k = n + 2 \/ \E j \in 1..n : k = 1 + j
      <4>1. k = n + 2 \/ (k - 1 \in 1..n /\ k = 1 + (k - 1))
        BY <1>7, <3>1
      <4> QED
        BY <4>1
    <3> QED
      BY <1>7, <2>1, <2>2, <3>2
  <2>3. Bytes(r, 1, n, c, taken[c])
    BY <1>7 DEF Bytes
  <2> QED
    BY <1>1, <1>7, <2>1, <2>2, <2>3 DEF Blocked
<1> QED
  BY <1>4, <1>6, <1>7, <1>8

LEMMA CmdFacts ==
    ASSUME NEW w \in CmdType
    PROVE  /\ w.api \in ConnApis => w.about \in Conns /\ w.len \in Nat
           /\ w.api \in {"dns", "ping"} => w.about \in Hosts
           /\ w.api \in ConnApis \cup {"dns", "ping", "payload"}
           /\ w.api = "payload" => w = Payload
BY DEF CmdType, ConnApis, Payload, Cmd

\* What the module sends for a command, and what that changes.
Answers(w, m) ==
    \/ m = <<Error>> /\ UNCHANGED <<jobs, module>>
    \/ w = Payload /\ m = <<>> /\ UNCHANGED <<jobs, module>>
    \/ /\ w.api \in {"open", "dns", "ping"} /\ UNCHANGED <<sent, taken, sink>>
       /\ \E r \in Results(w) :
             \/ m = <<Ok>> /\ jobs' = jobs \cup {r} /\ conn' = InUse(w)
             \/ /\ m = <<Head(r), Ok>> /\ conn' = Announced(InUse(w), Head(r))
                /\ jobs' = IF Len(r) = 1 THEN jobs ELSE jobs \cup {Tail(r)}
    \/ /\ w.api = "recv" /\ UNCHANGED <<jobs, conn, sent, sink>>
       /\ \E n \in 0..w.len :
             /\ taken[w.about] + n <= sent[w.about]
             /\ m = RecvLines(w.about, n)
             /\ taken' = [taken EXCEPT ![w.about] = @ + n]
    \/ w.api = "avail" /\ m = <<Counts(w.about), Ok>> /\ UNCHANGED <<jobs, module>>
    \/ /\ w.api = "state" /\ UNCHANGED <<jobs, module>>
       /\ m = <<Ok>> \/ \E b \in BOOLEAN : m = <<Line("QISTATE", w.about, b), Ok>>
    \/ /\ w.api = "send" /\ UNCHANGED <<jobs, conn, sent, taken>>
       /\ m = <<Prompt>> /\ sink' = w.about
    \/ /\ w.api = "close" /\ m = <<Ok>> /\ UNCHANGED <<jobs, sink>>
       /\ conn'  = [conn EXCEPT ![w.about] = "idle"]
       /\ sent'  = [sent EXCEPT ![w.about] = 0]
       /\ taken' = [taken EXCEPT ![w.about] = 0]

Works(m) ==
    /\ work # <<>> /\ work' = Tail(work) /\ stream' = stream \o m
    /\ \/ /\ sink # None /\ sink' = None /\ UNCHANGED <<jobs, conn, sent, taken>>
          /\ \E ok \in BOOLEAN : m = <<Line("SEND", sink, ok)>>
       \/ sink = None /\ Answers(Head(work), m)
    /\ UNCHANGED <<call, trusted>> /\ last' = NoReturn

LEMMA AnswersFacts ==
    ASSUME Types, NEW w \in CmdType, sink = None, Refuses \/ Obeys(w)
    PROVE  \E m : stream' = stream \o m /\ Answers(w, m)
<1>1. CASE Refuses
  BY <1>1 DEF Refuses, Reply, Answers
<1>2. CASE w.api \in {"open", "dns", "ping"} /\ Obeys(w)
  <2>1. PICK r \in Results(w) :
           /\ UNCHANGED <<sent, taken, sink>>
           /\ \/ Reply(<<Ok>>) /\ jobs' = jobs \cup {r} /\ conn' = InUse(w)
              \/ /\ Reply(<<Head(r), Ok>>) /\ conn' = Announced(InUse(w), Head(r))
                 /\ jobs' = IF Len(r) = 1 THEN jobs ELSE jobs \cup {Tail(r)}
    BY <1>2 DEF Obeys
  <2>2. \E m : /\ stream' = stream \o m
               /\ \/ m = <<Ok>> /\ jobs' = jobs \cup {r} /\ conn' = InUse(w)
                  \/ /\ m = <<Head(r), Ok>> /\ conn' = Announced(InUse(w), Head(r))
                     /\ jobs' = IF Len(r) = 1 THEN jobs ELSE jobs \cup {Tail(r)}
    BY <2>1, Zenon DEF Reply
  <2> QED
    BY <1>2, <2>1, <2>2, Zenon DEF Answers
<1>3. CASE w.api = "recv" /\ Obeys(w)
  <2> DEFINE c == w.about
             n == IF sent[c] - taken[c] < w.len THEN sent[c] - taken[c] ELSE w.len
  <2>1. c \in Conns /\ w.len \in Nat
    BY <1>3, CmdFacts DEF ConnApis
  <2>2. sent[c] \in Nat /\ taken[c] \in Nat /\ taken[c] <= sent[c]
    BY <2>1 DEF Types
  <2>3. n \in 0..w.len /\ taken[c] + n <= sent[c]
    BY <2>1, <2>2
  <2>4. /\ stream' = stream \o RecvLines(c, n) /\ taken' = [taken EXCEPT ![c] = @ + n]
        /\ UNCHANGED <<jobs, conn, sent, sink>>
    BY <1>3 DEF Obeys, Reply, RecvLines
  <2> HIDE DEF n
  <2> QED
    BY <1>3, <2>3, <2>4 DEF Answers
<1>4. CASE w.api = "avail" /\ Obeys(w)
  BY <1>4 DEF Obeys, Reply, Answers
<1>5. CASE w.api = "state" /\ Obeys(w)
  <2>1. /\ UNCHANGED <<jobs, module>>
        /\ \/ stream' = stream \o <<Ok>>
           \/ stream' = stream \o <<Line("QISTATE", w.about, conn[w.about] = "open"), Ok>>
    BY <1>5 DEF Obeys, Reply
  <2>2. (conn[w.about] = "open") \in BOOLEAN
    OBVIOUS
  <2> QED
    BY <1>5, <2>1, <2>2, Zenon DEF Answers
<1>6. CASE w.api = "send" /\ Obeys(w)
  BY <1>6 DEF Obeys, Reply, Answers
<1>7. CASE w.api = "close" /\ Obeys(w)
  BY <1>7 DEF Obeys, Reply, Answers
<1>8. Obeys(w) => w.api \in {"open", "dns", "ping", "recv", "avail", "state", "send", "close"}
  BY DEF Obeys
<1> QED
  BY <1>1, <1>2, <1>3, <1>4, <1>5, <1>6, <1>7, <1>8

LEMMA WorksFacts ==
    ASSUME Types, ModuleWorks
    PROVE  work # <<>> /\ Head(work) \in CmdType /\ \E m : Works(m)
<1>1. work # <<>> /\ work' = Tail(work) /\ UNCHANGED <<call, trusted>> /\ last' = NoReturn
  BY DEF ModuleWorks, Elsewhere
<1>2. Head(work) \in CmdType
  BY <1>1, TailFacts DEF Types
<1>3. CASE Swallows
  <2>1. PICK ok \in BOOLEAN : stream' = stream \o <<Line("SEND", sink, ok)>>
    BY <1>3 DEF Swallows, Reply
  <2> QED
    BY <1>1, <1>2, <1>3, <2>1 DEF Swallows, Works
<1>4. CASE sink = None /\ (Refuses \/ Obeys(Head(work)))
  <2>1. PICK m : stream' = stream \o m /\ Answers(Head(work), m)
    BY <1>2, <1>4, AnswersFacts
  <2> QED
    BY <1>1, <1>2, <1>4, <2>1 DEF Works
<1>5. CASE sink = None /\ Head(work) = Payload /\ UNCHANGED <<jobs, stream, module>>
  <2>1. stream' = stream \o <<>>
    BY <1>5 DEF Types
  <2> QED
    BY <1>1, <1>2, <1>5, <2>1 DEF Works, Answers
<1> QED
  BY <1>3, <1>4, <1>5 DEF ModuleWorks

\* The module sends lines; what it does keeps the types of its variables.
LEMMA AnswersTypes ==
    ASSUME Types, NEW w \in CmdType, NEW m, sink = None, Answers(w, m)
    PROVE  /\ m \in Seq(LineType) /\ Blocked(m)
           /\ jobs' \in SUBSET JobType /\ sink' \in Conns \cup {None}
           /\ conn' \in [Conns -> States] /\ sent' \in [Conns -> Nat]
           /\ taken' \in [Conns -> Nat] /\ \A c \in Conns : taken'[c] <= sent'[c]
<1> DEFINE Same == /\ jobs' \in SUBSET JobType /\ sink' \in Conns \cup {None}
                   /\ conn' \in [Conns -> States] /\ sent' \in [Conns -> Nat]
                   /\ taken' \in [Conns -> Nat] /\ \A c \in Conns : taken'[c] <= sent'[c]
           Fine == m \in Seq(LineType) /\ Blocked(m)
<1> SUFFICES Fine /\ Same
  OBVIOUS
<1>1. UNCHANGED <<jobs, module>> => Same
  BY DEF Types, module, States
<1>2. /\ {Ok, Error, Prompt} \subseteq LineType /\ Ok.kind = "OK" /\ Error.kind = "ERROR"
      /\ Prompt.kind = "PROMPT"
  BY LineFacts
<1>3. ASSUME NEW l \in LineType, l.kind # "SSLRECV"
      PROVE  /\ <<l>> \in Seq(LineType) /\ Blocked(<<l>>)
             /\ <<l, Ok>> \in Seq(LineType) /\ Blocked(<<l, Ok>>)
  <2>1. /\ <<l>> \in Seq(LineType) /\ \A i \in 1..Len(<<l>>) : <<l>>[i].kind # "SSLRECV"
        /\ <<l, Ok>> \in Seq(LineType)
        /\ \A i \in 1..Len(<<l, Ok>>) : <<l, Ok>>[i].kind # "SSLRECV"
    BY <1>2, <1>3
  <2> QED
    BY <2>1, BlockedOne
<1>4. CASE m = <<Error>> /\ UNCHANGED <<jobs, module>>
  BY <1>1, <1>2, <1>3, <1>4
<1>5. CASE m = <<>> /\ UNCHANGED <<jobs, module>>
  <2>1. <<>> \in Seq(LineType) /\ Len(<<>>) = 0
    OBVIOUS
  <2>2. m \in Seq(LineType) /\ \A i \in 1..Len(m) : FALSE
    BY <1>5, <2>1
  <2>3. Blocked(m)
    BY <2>2, BlockedOne, Zenon
  <2> QED
    BY <1>1, <1>5, <2>2, <2>3
<1>6. ASSUME w.api \in {"open", "dns", "ping"}, UNCHANGED <<sent, taken, sink>>,
             NEW r \in Results(w),
             \/ m = <<Ok>> /\ jobs' = jobs \cup {r} /\ conn' = InUse(w)
             \/ /\ m = <<Head(r), Ok>> /\ conn' = Announced(InUse(w), Head(r))
                /\ jobs' = IF Len(r) = 1 THEN jobs ELSE jobs \cup {Tail(r)}
      PROVE  Fine /\ Same
  <2>1. r \in JobType /\ Len(r) \in Nat \ {0}
    BY <1>6, ResultFacts
  <2>2. /\ r \in Seq(LineType) /\ r # <<>> /\ Head(r) = r[1] /\ r[1] \in LineType
        /\ r[1].kind \in JobKinds /\ r[1].kind # "SSLRECV"
        /\ Tail(r) \in Seq(LineType) /\ Len(Tail(r)) = Len(r) - 1
        /\ \A i \in 1..(Len(r) - 1) : Tail(r)[i] = r[i + 1]
    BY <2>1, TailFacts DEF JobType, JobKinds
  <2>3. Len(r) # 1 => Tail(r) \in JobType
    <3>1. ASSUME Len(r) # 1 PROVE Tail(r) # <<>>
      BY <2>1, <2>2, <3>1
    <3>2. ASSUME NEW i \in 1..Len(Tail(r)) PROVE Tail(r)[i].kind \in JobKinds
      <4>1. i \in 1..(Len(r) - 1) /\ i + 1 \in 1..Len(r)
        BY <2>1, <2>2
      <4> QED
        BY <2>1, <2>2, <4>1 DEF JobType
    <3> QED
      BY <2>2, <3>1, <3>2 DEF JobType
  <2>4. jobs' \in SUBSET JobType
    BY <1>6, <2>1, <2>3 DEF Types
  <2>5. conn' \in [Conns -> States]
    BY <1>6, <2>2, InUseFacts, AnnouncedFacts
  <2>6. Fine
    BY <1>2, <1>3, <1>6, <2>2
  <2> QED
    BY <1>6, <2>4, <2>5, <2>6 DEF Types
<1>7. ASSUME w.api = "recv", UNCHANGED <<jobs, conn, sent, sink>>, NEW n \in 0..w.len,
             taken[w.about] + n <= sent[w.about], m = RecvLines(w.about, n),
             taken' = [taken EXCEPT ![w.about] = @ + n]
      PROVE  Fine /\ Same
  <2>1. w.about \in Conns /\ w.len \in Nat /\ n \in Nat
    BY <1>7, CmdFacts DEF ConnApis
  <2>2. Fine
    BY <1>7, <2>1, RecvLinesFacts
  <2>3. taken' \in [Conns -> Nat] /\ \A c \in Conns : taken'[c] <= sent'[c]
    BY <1>7, <2>1 DEF Types
  <2> QED
    BY <1>7, <2>2, <2>3 DEF Types, States
<1>8. CASE w.api = "avail" /\ m = <<Counts(w.about), Ok>> /\ UNCHANGED <<jobs, module>>
  <2>1. w.about \in Conns
    BY <1>8, CmdFacts DEF ConnApis
  <2> QED
    BY <1>1, <1>3, <1>8, <2>1, CountsFacts
<1>9. CASE /\ w.api = "state" /\ UNCHANGED <<jobs, module>>
           /\ m = <<Ok>> \/ \E b \in BOOLEAN : m = <<Line("QISTATE", w.about, b), Ok>>
  <2>1. w.about \in Conns
    BY <1>9, CmdFacts DEF ConnApis
  <2>2. \A b \in BOOLEAN : /\ Line("QISTATE", w.about, b) \in LineType
                           /\ Line("QISTATE", w.about, b).kind = "QISTATE"
    BY <2>1, LineFacts
  <2> QED
    BY <1>1, <1>2, <1>3, <1>9, <2>2
<1>10. CASE /\ w.api = "send" /\ UNCHANGED <<jobs, conn, sent, taken>>
            /\ m = <<Prompt>> /\ sink' = w.about
  <2>1. w.about \in Conns
    BY <1>10, CmdFacts DEF ConnApis
  <2>2. Same
    BY <1>10, <2>1 DEF Types, States
  <2> QED
    BY <1>2, <1>3, <1>10, <2>2
<1>11. CASE /\ w.api = "close" /\ m = <<Ok>> /\ UNCHANGED <<jobs, sink>>
            /\ conn'  = [conn EXCEPT ![w.about] = "idle"]
            /\ sent'  = [sent EXCEPT ![w.about] = 0]
            /\ taken' = [taken EXCEPT ![w.about] = 0]
  <2>1. w.about \in Conns
    BY <1>11, CmdFacts DEF ConnApis
  <2>2. Same
    BY <1>11, <2>1 DEF Types, States
  <2> QED
    BY <1>2, <1>3, <1>11, <2>2
<1> HIDE DEF Same, Fine
<1>12. CASE /\ w.api \in {"open", "dns", "ping"} /\ UNCHANGED <<sent, taken, sink>>
            /\ \E r \in Results(w) :
                  \/ m = <<Ok>> /\ jobs' = jobs \cup {r} /\ conn' = InUse(w)
                  \/ /\ m = <<Head(r), Ok>> /\ conn' = Announced(InUse(w), Head(r))
                     /\ jobs' = IF Len(r) = 1 THEN jobs ELSE jobs \cup {Tail(r)}
  BY <1>6, <1>12, Zenon
<1>13. CASE /\ w.api = "recv" /\ UNCHANGED <<jobs, conn, sent, sink>>
            /\ \E n \in 0..w.len :
                  /\ taken[w.about] + n <= sent[w.about]
                  /\ m = RecvLines(w.about, n)
                  /\ taken' = [taken EXCEPT ![w.about] = @ + n]
  BY <1>7, <1>13, Zenon
<1> QED
  BY <1>4, <1>5, <1>8, <1>9, <1>10, <1>11, <1>12, <1>13, Zenon DEF Answers

-----------------------------------------------------------------------------
(* What a call does with a line *)

Apis == ConnApis \cup {"dns", "ping", "none"}

LEMMA CallFacts ==
    ASSUME NEW c \in CallType
    PROVE  /\ c.api \in Apis /\ c.step \in StepsOf(c.api)
           /\ c.len \in Nat /\ c.seen \in Nat /\ c.at \in Nat
           /\ c.line \in LineType \cup {None} /\ c.got \in Seq(LineType)
           /\ c.trusted \in BOOLEAN /\ c.sure \in BOOLEAN
           /\ c.about \in Conns \cup Hosts \cup {None}
           /\ c.api \in ConnApis => c.about \in Conns
           /\ c.api \in {"dns", "ping"} => c.about \in Hosts
           /\ c.step = "tail" => c.line \in LineType
           /\ c.step = "header" => c.got = <<>>
           /\ c.api = "none" => c = NoCall
BY DEF CallType, Apis

LEMMA CallUpdates ==
    ASSUME NEW c \in CallType, c.api # "none"
    PROVE  /\ \A s \in StepsOf(c.api) :
                 (s = "tail" => c.line \in LineType) /\ (s = "header" => c.got = <<>>)
                    => [c EXCEPT !.step = s] \in CallType
           /\ \A l \in LineType : [c EXCEPT !.line = l] \in CallType
           /\ \A n \in Nat : [c EXCEPT !.len = n] \in CallType
           /\ [c EXCEPT !.seen = @ + 1] \in CallType
           /\ [c EXCEPT !.sure = FALSE] \in CallType
           /\ \A g \in Seq(LineType) : c.step # "header" => [c EXCEPT !.got = g] \in CallType
<1> USE DEF CallType
<1>1. ASSUME NEW s \in StepsOf(c.api), s = "tail" => c.line \in LineType,
             s = "header" => c.got = <<>>
      PROVE  [c EXCEPT !.step = s] \in CallType
  <2>1. s \in Steps
    BY DEF StepsOf, Steps
  <2> QED
    BY <1>1, <2>1
<1>2. \A l \in LineType : [c EXCEPT !.line = l] \in CallType
  OBVIOUS
<1>3. \A n \in Nat : [c EXCEPT !.len = n] \in CallType
  OBVIOUS
<1>4. [c EXCEPT !.seen = @ + 1] \in CallType
  OBVIOUS
<1>5. [c EXCEPT !.sure = FALSE] \in CallType
  OBVIOUS
<1>6. \A g \in Seq(LineType) : c.step # "header" => [c EXCEPT !.got = g] \in CallType
  OBVIOUS
<1> QED
  BY <1>1, <1>2, <1>3, <1>4, <1>5, <1>6

LEMMA NoCallType == NoCall \in CallType
<1>1. /\ NoCall.step \in StepsOf(NoCall.api) /\ NoCall.api = "none" /\ NoCall.step = "none"
      /\ NoCall.got = <<>> /\ NoCall.len = 0
  BY DEF NoCall, StepsOf
<1>2. <<>> \in Seq(LineType)
  OBVIOUS
<1>3. NoCall \in [api : ConnApis \cup {"dns", "ping", "none"},
                  about : Conns \cup Hosts \cup {None}, len : Nat, step : Steps,
                  line : LineType \cup {None}, got : Seq(LineType),
                  seen : Nat, at : Nat, trusted : BOOLEAN, sure : BOOLEAN]
  <2>1. NoCall.about = None /\ NoCall.line = None /\ NoCall.api = "none" /\ NoCall.step = "none"
    BY DEF NoCall
  <2> QED
    BY <1>2, <2>1 DEF NoCall, Steps
<1> QED
  BY <1>1, <1>3 DEF CallType, ConnApis

LEMMA PrefixFacts ==
    ASSUME NEW c \in CallType
    PROVE  /\ Prefix(c) \notin {"OK", "ERROR", "TEXT", "PROMPT", "JUNK", "DATA"}
           /\ c.api = "recv" => Prefix(c) \in {"SSLRECV", "QIRD"}
           /\ c.api = "recv" /\ c.about \in Tls => Prefix(c) = "SSLRECV"
BY CallFacts DEF Prefix, Apis, ConnApis

\* The line a reader gets; a line that is waited for is the first of the stream.
LEMMA HeadFacts ==
    ASSUME Types, stream # <<>>
    PROVE  /\ HeadLine \in LineType /\ stream[1] \in LineType /\ Len(stream) \in Nat \ {0}
           /\ \/ HeadLine = stream[1] /\ stream[1].kind # "DATA" /\ RestOf(stream) = Tail(stream)
              \/ HeadLine = Text /\ stream[1].kind = "DATA"
           /\ Tail(stream) \in Seq(LineType) /\ Len(Tail(stream)) = Len(stream) - 1
           /\ \A i \in 1..(Len(stream) - 1) : Tail(stream)[i] = stream[i + 1]
           /\ RestOf(stream) \in Seq(LineType)
           /\ \E d \in 1..Len(stream) : /\ Drops(stream, RestOf(stream), d)
                                        /\ \/ d = 1 /\ RestOf(stream) = Tail(stream)
                                           \/ \A i \in 1..d : stream[i].kind = "DATA"
<1>1. stream \in Seq(LineType)
  BY DEF Types
<1>2. /\ Head(stream) = stream[1] /\ stream[1] \in LineType /\ Len(stream) \in Nat \ {0}
      /\ Tail(stream) \in Seq(LineType) /\ Len(Tail(stream)) = Len(stream) - 1
      /\ \A i \in 1..(Len(stream) - 1) : Tail(stream)[i] = stream[i + 1]
  BY <1>1, TailFacts
<1>3. HeadLine = IF stream[1].kind = "DATA" THEN Text ELSE stream[1]
  BY <1>2 DEF HeadLine
<1>4. Text \in LineType
  BY LineFacts
<1>5. /\ RestOf(stream) \in Seq(LineType)
      /\ \E d \in 1..Len(stream) : /\ Drops(stream, RestOf(stream), d)
                                   /\ \/ d = 1 /\ RestOf(stream) = Tail(stream)
                                      \/ \A i \in 1..d : stream[i].kind = "DATA"
      /\ stream[1].kind # "DATA" => RestOf(stream) = Tail(stream)
  BY <1>1, RestFacts, Zenon
<1> QED
  BY <1>2, <1>3, <1>4, <1>5

\* What a call makes of the line it waited for.
Judged(c) ==
    \/ \E st : /\ Return(c, st)
               /\ c.api = "recv" => st = "PARSE"
               /\ c.api = "ping" /\ st # "TIMEOUT" => c.line.val \in {"summary", "failed"}
    \/ c.api = "dns" /\ Goto(c, "address")
    \/ /\ c.api = "ping" /\ c.line.val \notin {"summary", "failed"}
       /\ Goto([c EXCEPT !.seen = @ + 1], "result")
    \/ c.api = "recv" /\ c.line.val.first = 0 /\ Goto(c, "final")
    \/ /\ c.api = "recv" /\ c.line.val.first \in 1..c.len
       /\ Goto([c EXCEPT !.len = c.line.val.first], "data")

LEMMA JudgeFacts ==
    ASSUME NEW c \in CallType, c.api \in Apis \ {"none", "close"},
           c.api = "recv" => c.line \in LineType /\ c.line.kind \in {"SSLRECV", "QIRD"},
           Judge(c)
    PROVE  Judged(c)
<1>1. CASE c.api = "open"
  BY <1>1 DEF Judge, JudgeOpen, Judged
<1>2. CASE c.api = "dns"
  <2>1. IF c.step = "address" THEN JudgeAddress(c) ELSE JudgeDns(c)
    BY <1>2 DEF Judge
  <2> QED
    BY <1>2, <2>1 DEF JudgeAddress, JudgeDns, Judged
<1>3. CASE c.api = "ping"
  <2>1. JudgePing(c)
    BY <1>3 DEF Judge
  <2>2. CASE c.seen = MaxPings
    BY <1>3, <2>1, <2>2 DEF JudgePing, Judged
  <2>3. CASE c.seen # MaxPings /\ c.line.val = "summary"
    BY <1>3, <2>1, <2>3 DEF JudgePing, Judged
  <2>4. CASE c.seen # MaxPings /\ c.line.val = "failed"
    BY <1>3, <2>1, <2>4 DEF JudgePing, Judged
  <2>5. CASE c.seen # MaxPings /\ c.line.val \notin {"summary", "failed"}
    BY <1>3, <2>1, <2>5 DEF JudgePing, Judged
  <2> QED
    BY <2>2, <2>3, <2>4, <2>5
<1>4. CASE c.api = "recv"
  <2>1. JudgeHeader(c)
    BY <1>4 DEF Judge
  <2> DEFINE n == c.line.val.first
  <2>2. n \in Nat /\ c.len \in Nat
    BY <1>4, CountIsNat, CallFacts
  <2>3. CASE n > c.len
    BY <1>4, <2>1, <2>2, <2>3 DEF JudgeHeader, Judged
  <2>4. CASE n = 0
    BY <1>4, <2>1, <2>2, <2>4 DEF JudgeHeader, Judged
  <2>5. CASE n \in 1..c.len
    <3>1. Goto([c EXCEPT !.len = n], "data")
      BY <2>1, <2>2, <2>5 DEF JudgeHeader
    <3> QED
      BY <1>4, <2>5, <3>1 DEF Judged
  <2> QED
    BY <2>2, <2>3, <2>4, <2>5
<1>5. CASE c.api = "avail"
  BY <1>5 DEF Judge, JudgeCounts, Judged
<1>6. CASE c.api \in {"send", "state"}
  BY <1>6 DEF Judge, Judged
<1> QED
  BY <1>1, <1>2, <1>3, <1>4, <1>5, <1>6 DEF Apis, ConnApis

Finals == {Ok, Error}

\* The outcomes of a line, by the step of the call.
Waits(l) ==
    /\ call' = call /\ trusted' = trusted /\ work' = work /\ last' = NoReturn
    /\ \/ l \notin {Ok, Error, Prompt} /\ ~Matches(l)
       \/ l \notin {Ok, Error} /\ call.step # "await" /\ ~(l = Prompt /\ call.step = "prompt")
            /\ (call.step \in {"result", "address", "header"} => ~Matches(l))
            /\ (call.step = "query" => ~Matches(l) \/ call.line # None)
       \/ l = Ok /\ call.step \in {"result", "address"}
       \/ l = Prompt /\ call.step # "prompt"
Takes(l) ==
    \/ l = Error /\ call.step # "tail" /\ Return(call, "MODULE")
    \/ /\ l = Ok /\ Return(call, "PARSE")
       /\ call.step \in {"header", "prompt"} \/ (call.step = "query" /\ call.line = None)
    \/ call.step = "await" /\ Matches(l) /\ Goto(With(l), "tail")
    \/ call.step = "await" /\ l = Ok /\ Goto(call, "result")
    \/ call.step = "tail" /\ l \in Finals /\ Judged(call)
    \/ call.step \in {"result", "address", "header"} /\ Matches(l) /\ Judged(With(l))
    \/ call.step = "query" /\ call.line = None /\ Matches(l) /\ Goto(With(l), "query")
    \/ call.step = "query" /\ call.line # None /\ l = Ok /\ Judged(call)
    \/ call.step = "final" /\ l = Ok /\ Return(call, "OK")
    \/ /\ call.step = "prompt" /\ l = Prompt /\ call' = [call EXCEPT !.step = "result"]
       /\ work' = Append(work, Payload) /\ last' = NoReturn /\ trusted' = trusted

LEMMA ReadLineFacts ==
    ASSUME Types, ReadLine
    PROVE  /\ ~Idle /\ call.step # "data" /\ stream # <<>> /\ stream' = RestOf(stream)
           /\ UNCHANGED <<jobs, module>>
           /\ Waits(HeadLine) \/ Takes(HeadLine)
<1> DEFINE l == HeadLine
<1>1. /\ ~Idle /\ call.step # "data" /\ stream # <<>> /\ stream' = RestOf(stream)
      /\ UNCHANGED <<jobs, module>>
  BY DEF ReadLine
<1> SUFFICES Waits(l) \/ Takes(l)
  BY <1>1
<1>2. call \in CallType
  BY DEF Types
<1>3. /\ Matches(l) => l \notin {Ok, Error, Prompt}
      /\ Ok # Error /\ Ok # Prompt /\ Error # Prompt
  BY <1>2, PrefixFacts, LineFacts DEF Matches
<1>4. call.step \in {"await", "tail", "result", "address", "query", "header", "final", "prompt"}
  <2>1. call.api # "none"
    <3>1. SUFFICES ASSUME call.api = "none" PROVE FALSE
      OBVIOUS
    <3> QED
      BY <1>1, <1>2, <3>1, CallFacts DEF Idle
  <2> QED
    BY <1>1, <1>2, <2>1, CallFacts DEF StepsOf, Apis, ConnApis
<1>a. l \in LineType /\ call.step \in StepsOf(call.api) /\ call.api \in Apis
  BY <1>1, <1>2, HeadFacts, CallFacts
<1>b. ASSUME Judge(call), call.step \in {"tail", "query"}
      PROVE  Judged(call)
  <2>1. call.api \in Apis \ {"none", "close", "recv"}
    BY <1>a, <1>b DEF StepsOf, Apis, ConnApis
  <2> QED
    BY <1>2, <1>b, <2>1, JudgeFacts
<1>c. ASSUME Judge(With(l)), Matches(l), call.step \in {"result", "address", "header"}
      PROVE  Judged(With(l))
  <2> DEFINE c == With(l)
  <2>1. call.api \in Apis \ {"none", "close"}
    BY <1>a, <1>c DEF StepsOf, Apis, ConnApis
  <2>2. c \in CallType /\ c.api = call.api /\ c.line = l
    BY <1>2, <1>a, <2>1, CallUpdates DEF With, CallType
  <2>3. call.api = "recv" => l.kind \in {"SSLRECV", "QIRD"}
    BY <1>2, <1>c, PrefixFacts DEF Matches
  <2> HIDE DEF c, l
  <2> QED
    BY <1>a, <1>c, <2>1, <2>2, <2>3, JudgeFacts DEF c
<1>5. CASE call.step = "await"
  <2>1. Await(l)
    BY <1>5 DEF ReadLine
  <2> HIDE DEF l
  <2> QED
    BY <1>1, <1>3, <1>5, <2>1 DEF Await, Waits, Takes, Skip, Elsewhere
<1>6. CASE call.step = "tail"
  <2>1. TailLine(l)
    BY <1>6 DEF ReadLine
  <2> HIDE DEF l
  <2> QED
    BY <1>1, <1>3, <1>6, <1>b, <2>1 DEF TailLine, Waits, Takes, Skip, Elsewhere, Finals
<1>7. CASE call.step \in {"result", "address"}
  <2>1. Result(l)
    BY <1>7 DEF ReadLine
  <2> HIDE DEF l
  <2> QED
    BY <1>1, <1>3, <1>7, <1>c, <2>1 DEF Result, Waits, Takes, Skip, Elsewhere
<1>8. CASE call.step = "query"
  <2>1. Query(l)
    BY <1>8 DEF ReadLine
  <2> HIDE DEF l
  <2>2. CASE Matches(l) /\ call.line = None
    <3>1. Goto(With(l), "query")
      BY <1>3, <2>1, <2>2 DEF Query
    <3> QED
      BY <1>8, <2>2, <3>1 DEF Takes
  <2>3. CASE l = Ok /\ call.line = None
    <3>1. Return(call, "PARSE")
      BY <1>3, <2>1, <2>3 DEF Query
    <3> QED
      BY <1>8, <2>3, <3>1 DEF Takes
  <2>4. CASE l = Ok /\ call.line # None
    <3>1. Judge(call)
      BY <1>3, <2>1, <2>4 DEF Query
    <3> QED
      BY <1>8, <1>b, <2>4, <3>1 DEF Takes
  <2>5. CASE l = Error
    <3>1. Return(call, "MODULE")
      BY <1>3, <2>1, <2>5 DEF Query
    <3> QED
      BY <1>8, <2>5, <3>1 DEF Takes
  <2>6. CASE l \notin {Ok, Error} /\ ~(Matches(l) /\ call.line = None)
    <3>1. Skip
      BY <2>1, <2>6 DEF Query
    <3> QED
      BY <1>8, <2>6, <3>1 DEF Waits, Skip, Elsewhere
  <2> QED
    BY <2>2, <2>3, <2>4, <2>5, <2>6
<1>9. CASE call.step = "header"
  <2>1. Expect(l)
    BY <1>9 DEF ReadLine
  <2> HIDE DEF l
  <2> QED
    BY <1>1, <1>3, <1>9, <1>c, <2>1 DEF Expect, Waits, Takes, Skip, Elsewhere
<1>10. CASE call.step = "final"
  <2>1. Final(l)
    BY <1>10 DEF ReadLine
  <2> HIDE DEF l
  <2> QED
    BY <1>1, <1>3, <1>10, <2>1 DEF Final, Waits, Takes, Skip, Elsewhere
<1>11. CASE call.step = "prompt"
  <2>1. Gate(l)
    BY <1>11 DEF ReadLine
  <2> HIDE DEF l
  <2> QED
    BY <1>1, <1>3, <1>11, <2>1 DEF Gate, Waits, Takes, Skip, Elsewhere
<1> QED
  BY <1>1, <1>4, <1>5, <1>6, <1>7, <1>8, <1>9, <1>10, <1>11

\* How the call in progress changes.
CallTyped == call' \in CallType /\ trusted' \in BOOLEAN /\ work' \in Seq(CmdType)

LEMMA ReturnTypes ==
    ASSUME Types, NEW c, NEW st, Return(c, st)
    PROVE  CallTyped
<1>1. trusted' \in BOOLEAN /\ call' = NoCall /\ work' = work
  BY DEF Return
<1> QED
  BY <1>1, NoCallType DEF CallTyped, Types

LEMMA JudgedTypes ==
    ASSUME Types, NEW c \in CallType, c.api # "none", c.line \in LineType,
           c.api = "recv" => c.line.kind \in {"SSLRECV", "QIRD"}, Judged(c)
    PROVE  CallTyped
<1>1. ASSUME NEW d \in CallType, NEW s, Goto(d, s), d.api # "none",
             s \in StepsOf(d.api) \ {"tail", "header"}
      PROVE  CallTyped
  BY <1>1, CallUpdates DEF Goto, CallTyped, Types
<1>2. CASE \E st : Return(c, st)
  BY <1>2, ReturnTypes
<1>3. CASE c.api = "dns" /\ Goto(c, "address")
  <2>1. "address" \in StepsOf(c.api)
    BY <1>3 DEF StepsOf
  <2> QED
    BY <1>1, <1>3, <2>1
<1>4. CASE c.api = "ping" /\ Goto([c EXCEPT !.seen = @ + 1], "result")
  <2> DEFINE d == [c EXCEPT !.seen = @ + 1]
  <2>1. d \in CallType /\ d.api = "ping"
    BY <1>4, CallUpdates DEF CallType
  <2>2. "result" \in StepsOf(d.api)
    BY <2>1 DEF StepsOf
  <2> HIDE DEF d
  <2> QED
    BY <1>1, <1>4, <2>1, <2>2 DEF d
<1>5. CASE c.api = "recv" /\ Goto(c, "final")
  <2>1. "final" \in StepsOf(c.api)
    BY <1>5 DEF StepsOf
  <2> QED
    BY <1>1, <1>5, <2>1
<1>6. CASE c.api = "recv" /\ Goto([c EXCEPT !.len = c.line.val.first], "data")
  <2> DEFINE n == c.line.val.first
             d == [c EXCEPT !.len = n]
  <2>1. n \in Nat
    BY <1>6, CountIsNat
  <2>2. d \in CallType /\ d.api = "recv"
    BY <1>6, <2>1, CallUpdates DEF CallType
  <2>3. "data" \in StepsOf(d.api)
    BY <2>2 DEF StepsOf
  <2>4. Goto(d, "data")
    BY <1>6
  <2> HIDE DEF d
  <2> QED
    BY <1>1, <2>2, <2>3, <2>4
<1> QED
  BY <1>2, <1>3, <1>4, <1>5, <1>6 DEF Judged

-----------------------------------------------------------------------------
(* Every step keeps the types *)

\* Steps of the module and the peers: the stream grows.
Grows == /\ UNCHANGED <<call, trusted>> /\ last' = NoReturn
         /\ \E m \in Seq(LineType) : Blocked(m) /\ stream' = stream \o m

LEMMA WorksTypes ==
    ASSUME Types, ModuleWorks
    PROVE  Types' /\ Grows
<1>1. PICK m : Works(m)
  BY WorksFacts
<1>2. work # <<>> /\ work' \in Seq(CmdType) /\ Head(work) \in CmdType
  BY <1>1, WorksFacts, TailFacts DEF Works, Types
<1>3. /\ m \in Seq(LineType) /\ Blocked(m)
      /\ jobs' \in SUBSET JobType /\ sink' \in Conns \cup {None}
      /\ conn' \in [Conns -> States] /\ sent' \in [Conns -> Nat]
      /\ taken' \in [Conns -> Nat] /\ \A c \in Conns : taken'[c] <= sent'[c]
  <2>1. CASE sink = None /\ Answers(Head(work), m)
    BY <1>2, <2>1, AnswersTypes
  <2>2. ASSUME sink # None, sink' = None, UNCHANGED <<jobs, conn, sent, taken>>,
               NEW ok \in BOOLEAN, m = <<Line("SEND", sink, ok)>>
        PROVE  /\ m \in Seq(LineType) /\ Blocked(m)
               /\ jobs' \in SUBSET JobType /\ sink' \in Conns \cup {None}
               /\ conn' \in [Conns -> States] /\ sent' \in [Conns -> Nat]
               /\ taken' \in [Conns -> Nat] /\ \A c \in Conns : taken'[c] <= sent'[c]
    <3> DEFINE l == Line("SEND", sink, ok)
    <3>1. l \in LineType /\ l.kind = "SEND"
      BY <2>2, LineFacts DEF Types
    <3>2. m = <<l>>
      BY <2>2
    <3> HIDE DEF l
    <3>3. m \in Seq(LineType) /\ \A i \in 1..Len(m) : m[i].kind # "SSLRECV"
      BY <3>1, <3>2
    <3>4. Blocked(m)
      BY <3>3, BlockedOne
    <3> QED
      BY <2>2, <3>3, <3>4 DEF Types, States
  <2> QED
    BY <1>1, <2>1, <2>2 DEF Works
<1>4. stream' = stream \o m /\ UNCHANGED <<call, trusted>> /\ last' = NoReturn
  BY <1>1 DEF Works
<1>5. stream' \in Seq(LineType)
  BY <1>3, <1>4 DEF Types
<1> QED
  BY <1>2, <1>3, <1>4, <1>5 DEF Types, Grows, States

LEMMA AnnounceTypes ==
    ASSUME Types, ModuleAnnounces
    PROVE  Types' /\ Grows
<1>1. PICK job \in jobs :
         /\ stream' = stream \o <<Head(job)>> /\ conn' = Announced(conn, Head(job))
         /\ jobs' = (jobs \ {job}) \cup (IF Len(job) = 1 THEN {} ELSE {Tail(job)})
         /\ UNCHANGED <<work, sent, taken, sink>> /\ UNCHANGED <<call, trusted>>
         /\ last' = NoReturn
  BY DEF ModuleAnnounces, Reply, Elsewhere
<1>2. job \in JobType
  BY DEF Types
<1>3. /\ job \in Seq(LineType) /\ job # <<>> /\ Head(job) = job[1] /\ job[1] \in LineType
      /\ Len(job) \in Nat \ {0} /\ Tail(job) \in Seq(LineType)
      /\ Len(Tail(job)) = Len(job) - 1
      /\ \A i \in 1..(Len(job) - 1) : Tail(job)[i] = job[i + 1]
      /\ \A i \in 1..Len(job) : job[i].kind \in JobKinds
  BY <1>2, TailFacts DEF JobType
<1>4. Len(job) # 1 => Tail(job) \in JobType
  <2>1. ASSUME Len(job) # 1 PROVE Tail(job) # <<>>
    <3>1. Len(Tail(job)) # 0
      BY <1>3, <2>1
    <3>2. Len(<<>>) = 0
      OBVIOUS
    <3> QED
      BY <3>1, <3>2
  <2>2. ASSUME NEW i \in 1..Len(Tail(job)) PROVE Tail(job)[i].kind \in JobKinds
    <3>1. i \in 1..(Len(job) - 1) /\ i + 1 \in 1..Len(job)
      BY <1>3
    <3> QED
      BY <1>3, <3>1
  <2> QED
    BY <1>3, <2>1, <2>2 DEF JobType
<1>5. jobs' \in SUBSET JobType
  BY <1>1, <1>4 DEF Types
<1>6. conn' \in [Conns -> States]
  BY <1>1, <1>3, AnnouncedFacts DEF Types, States
<1>7. <<Head(job)>> \in Seq(LineType) /\ Blocked(<<Head(job)>>)
  <2> DEFINE l == Head(job)
             m == <<l>>
  <2>1. l \in LineType /\ l.kind # "SSLRECV"
    BY <1>3 DEF JobKinds
  <2> HIDE DEF l
  <2>2. m \in Seq(LineType) /\ \A i \in 1..Len(m) : m[i].kind # "SSLRECV"
    BY <2>1
  <2> QED
    BY <2>2, BlockedOne DEF l
<1>8. stream' \in Seq(LineType)
  BY <1>1, <1>7 DEF Types
<1>9. Grows
  BY <1>1, <1>7 DEF Grows
<1> QED
  BY <1>1, <1>5, <1>6, <1>8, <1>9 DEF Types, States

LEMMA PeerTypes ==
    ASSUME Types, PeerActs
    PROVE  Types' /\ Grows /\ stream' \in {stream, Append(stream, Text)}
<1>1. /\ stream' \in {stream, Append(stream, Text)}
      /\ \E c \in Conns : \/ sent' = [sent EXCEPT ![c] = @ + 1] /\ UNCHANGED conn
                          \/ conn' = [conn EXCEPT ![c] = "dead"] /\ UNCHANGED sent
      /\ UNCHANGED <<work, jobs, taken, sink, call, trusted>> /\ last' = NoReturn
  BY DEF PeerActs, Elsewhere
<1>2. Text \in LineType /\ Text.kind = "TEXT"
  BY LineFacts
<1>3. \E m \in Seq(LineType) : /\ \A i \in 1..Len(m) : m[i].kind # "SSLRECV"
                               /\ stream' = stream \o m
  <2>1. CASE stream' = stream
    <3>1. /\ <<>> \in Seq(LineType) /\ stream' = stream \o <<>>
          /\ \A i \in 1..Len(<<>>) : <<>>[i].kind # "SSLRECV"
      BY <2>1 DEF Types
    <3> QED
      BY <3>1, Zenon
  <2>2. CASE stream' = Append(stream, Text)
    <3> DEFINE m == <<Text>>
    <3>1. m \in Seq(LineType) /\ \A i \in 1..Len(m) : m[i].kind # "SSLRECV"
      BY <1>2
    <3>2. stream' = stream \o m
      BY <1>2, <2>2 DEF Types
    <3> QED
      BY <3>1, <3>2
  <2> QED
    BY <1>1, <2>1, <2>2
<1>4. Grows
  BY <1>1, <1>3, BlockedOne DEF Grows
<1>5. stream' \in Seq(LineType)
  <2>1. stream \in Seq(LineType) /\ Append(stream, Text) \in Seq(LineType)
    BY <1>2, AppendFacts DEF Types
  <2> QED
    BY <1>1, <2>1
<1>6. /\ conn' \in [Conns -> States] /\ sent' \in [Conns -> Nat]
      /\ \A c \in Conns : taken'[c] <= sent'[c]
  <2>1. PICK c \in Conns : \/ sent' = [sent EXCEPT ![c] = @ + 1] /\ UNCHANGED conn
                           \/ conn' = [conn EXCEPT ![c] = "dead"] /\ UNCHANGED sent
    BY <1>1
  <2>2. taken' = taken
    BY <1>1
  <2>3. CASE sent' = [sent EXCEPT ![c] = @ + 1] /\ UNCHANGED conn
    BY <2>2, <2>3 DEF Types, States
  <2>4. CASE conn' = [conn EXCEPT ![c] = "dead"] /\ UNCHANGED sent
    BY <2>2, <2>4 DEF Types, States
  <2> QED
    BY <2>1, <2>3, <2>4
<1> QED
  BY <1>1, <1>4, <1>5, <1>6 DEF Types, States

\* The call that starts.
Asks(api, about, len) ==
    /\ call = NoCall /\ trusted' = (trusted \/ Quiet)
    /\ call' = [NoCall EXCEPT !.api = api, !.about = about, !.len = len,
                              !.step = FirstStep(api), !.trusted = trusted',
                              !.at = IF about \in Conns THEN taken[about] ELSE 0]
    /\ work' = Append(work, Cmd(api, about, len)) /\ last' = NoReturn
    /\ UNCHANGED <<jobs, stream, module>>

LEMMA StartFacts ==
    ASSUME Types, StartConn \/ StartQuery \/ StartHost
    PROVE  \E api \in ConnApis \cup {"dns", "ping"}, about \in Conns \cup Hosts, len \in Nat :
              Cmd(api, about, len) \in CmdType /\ Asks(api, about, len)
<1>1. /\ \A api \in ConnApis, c \in Conns, n \in Nat : Cmd(api, c, n) \in CmdType
      /\ \A api \in {"dns", "ping"}, h \in Hosts : Cmd(api, h, 0) \in CmdType
  BY DEF Cmd, CmdType
<1>2. CASE StartConn
  <2>1. PICK c \in Conns : \/ \E api \in {"open", "send", "close"} : Start(api, c, 0)
                           \/ \E n \in Lens : Start("recv", c, n)
    BY <1>2 DEF StartConn
  <2>2. CASE \E api \in {"open", "send", "close"} : Start(api, c, 0)
    BY <1>1, <2>2 DEF Start, Asks, ConnApis, Idle
  <2>3. CASE \E n \in Lens : Start("recv", c, n)
    BY <1>1, <2>3, SocketsAssumption DEF Start, Asks, ConnApis, Idle
  <2> QED
    BY <2>1, <2>2, <2>3
<1>3. CASE StartQuery
  <2>1. PICK c \in Conns, api \in {"state", "avail"} : Start(api, c, 0)
    BY <1>3 DEF StartQuery
  <2> QED
    BY <1>1, <2>1 DEF Start, Asks, ConnApis, Idle
<1>4. CASE StartHost
  <2>1. PICK h \in Hosts, api \in {"dns", "ping"} : Start(api, h, 0)
    BY <1>4 DEF StartHost
  <2> QED
    BY <1>1, <2>1 DEF Start, Asks, Idle
<1> QED
  BY <1>2, <1>3, <1>4

LEMMA AsksTypes ==
    ASSUME Types, NEW api \in ConnApis \cup {"dns", "ping"}, NEW about \in Conns \cup Hosts,
           NEW len \in Nat, Cmd(api, about, len) \in CmdType, Asks(api, about, len)
    PROVE  /\ Types' /\ call'.step # "data"
           /\ call'.api = api /\ call'.about = about /\ call'.len = len
           /\ call'.step = FirstStep(api) /\ call'.line = None /\ call'.got = <<>>
           /\ call'.trusted = trusted' /\ call'.sure = TRUE
           /\ call'.at = IF about \in Conns THEN taken[about] ELSE 0
<1> DEFINE a == IF about \in Conns THEN taken[about] ELSE 0
<1>1. a \in Nat
  BY DEF Types
<1>2. trusted' \in BOOLEAN /\ (trusted' = (trusted \/ Quiet))
  BY DEF Asks
<1>3. call' = [api |-> api, about |-> about, len |-> len, step |-> FirstStep(api),
               line |-> None, got |-> <<>>, seen |-> 0, at |-> a,
               trusted |-> trusted', sure |-> TRUE]
  BY DEF Asks, NoCall
<1> HIDE DEF a
<1>4. /\ FirstStep(api) \in StepsOf(api) /\ FirstStep(api) \in Steps
      /\ FirstStep(api) \notin {"data", "tail"} /\ api # "none"
  BY DEF FirstStep, StepsOf, ConnApis, Steps
<1>5. <<>> \in Seq(LineType)
  OBVIOUS
<1>6. (api \in ConnApis => about \in Conns) /\ (api \in {"dns", "ping"} => about \in Hosts)
  BY DEF Cmd, CmdType, ConnApis, Payload
<1>7. call' \in [api : ConnApis \cup {"dns", "ping", "none"},
                 about : Conns \cup Hosts \cup {None}, len : Nat, step : Steps,
                 line : LineType \cup {None}, got : Seq(LineType),
                 seen : Nat, at : Nat, trusted : BOOLEAN, sure : BOOLEAN]
  BY <1>1, <1>2, <1>3, <1>4, <1>5
<1>8. /\ call'.api = api /\ call'.about = about /\ call'.len = len /\ call'.at = a
      /\ call'.step = FirstStep(api) /\ call'.line = None /\ call'.got = <<>>
      /\ call'.trusted = trusted' /\ call'.sure = TRUE
  BY <1>3
<1>9. call' \in CallType
  BY <1>4, <1>6, <1>7, <1>8 DEF CallType
<1>10. work' \in Seq(CmdType)
  BY DEF Asks, Types
<1> QED
  BY <1>2, <1>4, <1>8, <1>9, <1>10 DEF Types, Asks, a, module

LEMMA TakesTypes ==
    ASSUME Types, ~Idle, NEW l \in LineType, Takes(l)
    PROVE  CallTyped
<1>1. call \in CallType /\ call.api # "none" /\ call.api \in Apis
  BY CallFacts DEF Types, Idle
<1>2. call.step \in StepsOf(call.api)
  BY <1>1, CallFacts
<1>3. With(l) \in CallType /\ With(l).api = call.api /\ With(l).line = l /\ With(l).step = call.step
  BY <1>1, CallUpdates DEF With, CallType
<1>4. ASSUME NEW d \in CallType, NEW s \in StepsOf(d.api), d.api = call.api, Goto(d, s),
             s = "tail" => d.line \in LineType, s # "header"
      PROVE  CallTyped
  BY <1>1, <1>4, CallUpdates DEF Goto, CallTyped, Types
<1>5. ASSUME NEW st, Return(call, st) PROVE CallTyped
  BY <1>5, ReturnTypes
<1>6. CASE call.step = "await" /\ Matches(l) /\ Goto(With(l), "tail")
  <2>1. "tail" \in StepsOf(call.api)
    BY <1>1, <1>2, <1>6 DEF StepsOf, Apis, ConnApis
  <2> QED
    BY <1>3, <1>4, <1>6, <2>1
<1>7. CASE call.step = "await" /\ l = Ok /\ Goto(call, "result")
  <2>1. "result" \in StepsOf(call.api)
    BY <1>1, <1>2, <1>7 DEF StepsOf, Apis, ConnApis
  <2> QED
    BY <1>1, <1>4, <1>7, <2>1
<1>8. CASE call.step = "tail" /\ l \in Finals /\ Judged(call)
  <2>1. call.line \in LineType /\ call.api # "recv"
    BY <1>1, <1>2, <1>8, CallFacts DEF StepsOf
  <2> QED
    BY <1>1, <1>8, <2>1, JudgedTypes
<1>9. CASE call.step \in {"result", "address", "header"} /\ Matches(l) /\ Judged(With(l))
  <2>1. call.api = "recv" => l.kind \in {"SSLRECV", "QIRD"}
    BY <1>1, <1>9, PrefixFacts DEF Matches
  <2> QED
    BY <1>1, <1>3, <1>9, <2>1, JudgedTypes
<1>10. CASE call.step = "query" /\ call.line = None /\ Matches(l) /\ Goto(With(l), "query")
  <2>1. "query" \in StepsOf(call.api)
    BY <1>2, <1>10
  <2> QED
    BY <1>3, <1>4, <1>10, <2>1
<1>11. CASE call.step = "query" /\ call.line # None /\ l = Ok /\ Judged(call)
  <2>1. call.line \in LineType /\ call.api # "recv"
    BY <1>1, <1>2, <1>11, CallFacts DEF StepsOf
  <2> QED
    BY <1>1, <1>11, <2>1, JudgedTypes
<1>12. CASE /\ call.step = "prompt" /\ l = Prompt /\ call' = [call EXCEPT !.step = "result"]
            /\ work' = Append(work, Payload) /\ last' = NoReturn /\ trusted' = trusted
  <2>1. "result" \in StepsOf(call.api)
    BY <1>1, <1>2, <1>12 DEF StepsOf, Apis, ConnApis
  <2>2. call' \in CallType
    BY <1>1, <1>12, <2>1, CallUpdates
  <2>3. Payload \in CmdType
    BY DEF CmdType
  <2> QED
    BY <1>12, <2>2, <2>3 DEF CallTyped, Types
<1> QED
  BY <1>5, <1>6, <1>7, <1>8, <1>9, <1>10, <1>11, <1>12 DEF Takes

LEMMA ReadLineTypes ==
    ASSUME Types, ReadLine
    PROVE  Types'
<1>1. /\ ~Idle /\ stream # <<>> /\ stream' = RestOf(stream) /\ UNCHANGED <<jobs, module>>
      /\ Waits(HeadLine) \/ Takes(HeadLine)
  BY ReadLineFacts
<1>2. HeadLine \in LineType /\ RestOf(stream) \in Seq(LineType)
  BY <1>1, HeadFacts
<1>3. CallTyped
  <2>1. CASE Takes(HeadLine)
    BY <1>1, <1>2, <2>1, TakesTypes
  <2>2. CASE Waits(HeadLine)
    BY <2>2 DEF Waits, CallTyped, Types
  <2> QED
    BY <1>1, <2>1, <2>2
<1> QED
  BY <1>1, <1>2, <1>3 DEF Types, CallTyped, module

LEMMA ReadRawFacts ==
    ASSUME Types, ReadRaw
    PROVE  /\ Types' /\ call.api = "recv" /\ call.step = "data" /\ stream # <<>>
           /\ UNCHANGED <<jobs, module, work, trusted>> /\ last' = NoReturn
           /\ stream' \in {Tail(stream), stream, <<Text>> \o Tail(stream)}
           /\ stream[1].kind = "DATA" => stream' = Tail(stream)
           /\ call'.got = Append(call.got, IF stream[1].kind = "DATA" THEN stream[1] ELSE Junk)
           /\ call'.step = IF Len(call'.got) = call.len THEN "final" ELSE "data"
           /\ call' = [call EXCEPT !.got = call'.got, !.step = call'.step]
<1>1. call \in CallType /\ call.step = "data" /\ stream # <<>> /\ call.got \in Seq(LineType)
  BY CallFacts DEF Types, ReadRaw
<1>2. call.api = "recv"
  BY <1>1, CallFacts DEF StepsOf, Apis, ConnApis
<1> DEFINE x == IF stream[1].kind = "DATA" THEN stream[1] ELSE Junk
           got == Append(call.got, x)
           s == IF Len(got) = call.len THEN "final" ELSE "data"
           c == [call EXCEPT !.got = got]
<1>3. Head(stream) = stream[1] /\ stream[1] \in LineType /\ Tail(stream) \in Seq(LineType)
  BY <1>1, TailFacts DEF Types
<1>4. /\ IF stream[1].kind = "DATA" THEN stream' = Tail(stream)
         ELSE stream' \in {stream, <<Text>> \o Tail(stream)}
      /\ Goto(c, s) /\ UNCHANGED <<jobs, module>>
  <2> DEFINE h == Head(stream)
             g == Append(call.got, IF h.kind = "DATA" THEN h ELSE Junk)
             k == [call EXCEPT !.got = g]
  <2>1. /\ IF h.kind = "DATA" THEN stream' = Tail(stream)
           ELSE stream' \in {stream, <<Text>> \o Tail(stream)}
        /\ Goto(k, IF Len(g) = k.len THEN "final" ELSE "data")
        /\ UNCHANGED <<jobs, module>>
    BY DEF ReadRaw
  <2>2. k.len = call.len
    BY <1>1 DEF CallType
  <2>3. h = stream[1]
    BY <1>3
  <2> HIDE DEF h
  <2> QED
    BY <2>1, <2>2, <2>3
<1>5. x \in LineType /\ Text \in LineType
  BY <1>3, LineFacts
<1>6. got \in Seq(LineType)
  BY <1>1, <1>5, AppendFacts
<1> HIDE DEF got
<1>7. c \in CallType /\ c.api = "recv" /\ c.got = got
  BY <1>1, <1>2, <1>6, CallUpdates DEF CallType
<1>8. s \in StepsOf(c.api) /\ s \notin {"tail", "header"}
  BY <1>7 DEF StepsOf
<1>9. call' = [c EXCEPT !.step = s] /\ UNCHANGED <<work, trusted>> /\ last' = NoReturn
  BY <1>4 DEF Goto
<1>10. call' \in CallType
  <2> HIDE DEF c, s
  <2> QED
    BY <1>7, <1>8, <1>9, CallUpdates
<1>11. call'.got = got /\ call'.step = s /\ call' = [call EXCEPT !.got = got, !.step = s]
  BY <1>1, <1>9 DEF CallType
<1>12. stream' \in Seq(LineType)
  <2>1. <<Text>> \in Seq(LineType)
    BY <1>5
  <2>2. <<Text>> \o Tail(stream) \in Seq(LineType)
    BY <1>3, <2>1, ConcatFacts
  <2> QED
    BY <1>3, <1>4, <2>2 DEF Types
<1>13. Types'
  BY <1>4, <1>9, <1>10, <1>12 DEF Types, module
<1> QED
  BY <1>1, <1>2, <1>4, <1>9, <1>11, <1>13 DEF got

LEMMA TimesOutFacts ==
    ASSUME Types, TimesOut
    PROVE  /\ Types' /\ ~Idle /\ UNCHANGED <<jobs, stream, module>>
           /\ \/ call.step # "tail" /\ Return(call, "TIMEOUT")
              \/ call.step = "tail" /\ Judged([call EXCEPT !.sure = FALSE])
<1>1. ~Idle /\ UNCHANGED <<jobs, stream, module>>
  BY DEF TimesOut
<1>2. call \in CallType /\ call.api # "none"
  BY <1>1, CallFacts DEF Types, Idle
<1>3. CASE call.step # "tail" /\ Return(call, "TIMEOUT")
  <2>1. CallTyped
    BY <1>3, ReturnTypes
  <2> QED
    BY <1>1, <1>3, <2>1 DEF Types, CallTyped, module
<1>4. CASE call.step = "tail" /\ Judge([call EXCEPT !.sure = FALSE])
  <2> DEFINE c == [call EXCEPT !.sure = FALSE]
  <2>0. c.api = call.api /\ c.line = call.line
    BY <1>2 DEF CallType
  <2>1. c \in CallType /\ c.api = call.api /\ c.line = call.line
    BY <1>2, <2>0, CallUpdates
  <2>2. call.line \in LineType /\ call.api \in {"open", "dns", "ping"}
    BY <1>2, <1>4, CallFacts DEF StepsOf, Apis, ConnApis
  <2> HIDE DEF c
  <2>3. Judge(c)
    BY <1>4 DEF c
  <2>4. Judged(c)
    BY <2>1, <2>2, <2>3, JudgeFacts DEF Apis, ConnApis
  <2>5. CallTyped
    BY <2>1, <2>2, <2>4, JudgedTypes
  <2> QED
    BY <1>1, <1>4, <2>4, <2>5 DEF Types, CallTyped, module, c
<1> QED
  BY <1>3, <1>4 DEF TimesOut

LEMMA PollFacts ==
    ASSUME Types, Poll
    PROVE  /\ Types' /\ Idle /\ stream # <<>> /\ stream' = RestOf(stream)
           /\ UNCHANGED <<work, jobs, module, call, trusted>> /\ last' = NoReturn
<1>1. /\ Idle /\ stream # <<>> /\ stream' = RestOf(stream)
      /\ UNCHANGED <<work, jobs, module, call, trusted>> /\ last' = NoReturn
  BY DEF Poll, Elsewhere
<1>2. RestOf(stream) \in Seq(LineType)
  BY <1>1, HeadFacts
<1> QED
  BY <1>1, <1>2 DEF Types, module

LEMMA TypesInit == Init => Types
<1> SUFFICES ASSUME Init PROVE Types
  OBVIOUS
<1>1. /\ work = <<>> /\ jobs = {} /\ stream = <<>> /\ sink = None
      /\ conn = [c \in Conns |-> "idle"]
      /\ sent = [c \in Conns |-> 0] /\ taken = [c \in Conns |-> 0]
      /\ call = NoCall /\ trusted = TRUE
  BY DEF Init
<1>2. <<>> \in Seq(CmdType) /\ <<>> \in Seq(LineType)
  OBVIOUS
<1>3. call \in CallType
  BY <1>1, NoCallType
<1> QED
  BY <1>1, <1>2, <1>3 DEF Types

-----------------------------------------------------------------------------
(* Bytes of a TLS socket *)

\* What a call keeps from one step to the next.
Keeps(c) == /\ call'.api = c.api /\ call'.about = c.about /\ call'.got = c.got
            /\ call'.at = c.at /\ call'.trusted = c.trusted

LEMMA JudgedKeeps ==
    ASSUME NEW c \in CallType, Judged(c)
    PROVE  \/ call' = NoCall
           \/ Keeps(c) /\ call'.step # "data"
           \/ /\ Keeps(c) /\ c.api = "recv" /\ call'.step = "data"
              /\ c.line.val.first \in 1..c.len /\ call'.len = c.line.val.first
<1>1. CASE \E st : Return(c, st)
  BY <1>1 DEF Return
<1>2. CASE \E s \in {"address", "final"} : Goto(c, s)
  BY <1>2 DEF Goto, Keeps, CallType
<1>3. CASE Goto([c EXCEPT !.seen = @ + 1], "result")
  BY <1>3 DEF Goto, Keeps, CallType
<1>4. CASE c.api = "recv" /\ c.line.val.first \in 1..c.len
             /\ Goto([c EXCEPT !.len = c.line.val.first], "data")
  BY <1>4 DEF Goto, Keeps, CallType
<1> QED
  BY <1>1, <1>2, <1>3, <1>4 DEF Judged

LEMMA TakesKeeps ==
    ASSUME Types, ~Idle, NEW l \in LineType, Takes(l)
    PROVE  \/ call' = NoCall
           \/ Keeps(call) /\ call'.step # "data"
           \/ /\ Keeps(call) /\ call.step = "header" /\ Matches(l) /\ call.api = "recv"
              /\ call'.step = "data" /\ l.val.first \in 1..call.len
              /\ call'.len = l.val.first
<1>1. call \in CallType /\ call.api # "none"
  BY CallFacts DEF Types, Idle
<1>2. With(l) \in CallType
  BY <1>1, CallUpdates DEF With
<1>3. /\ With(l).api = call.api /\ With(l).about = call.about /\ With(l).got = call.got
      /\ With(l).at = call.at /\ With(l).trusted = call.trusted /\ With(l).line = l
      /\ With(l).len = call.len
  BY <1>1 DEF With, CallType
<1>4. Keeps(With(l)) => Keeps(call)
  BY <1>3 DEF Keeps
<1>5. ASSUME NEW st, Return(call, st) PROVE call' = NoCall
  BY <1>5 DEF Return
<1>6. ASSUME NEW s \in {"tail", "query"}, Goto(With(l), s)
      PROVE  Keeps(call) /\ call'.step # "data"
  BY <1>2, <1>4, <1>6 DEF Goto, Keeps, CallType
<1>7. ASSUME Goto(call, "result") PROVE Keeps(call) /\ call'.step # "data"
  BY <1>1, <1>7 DEF Goto, Keeps, CallType
<1>8. ASSUME call' = [call EXCEPT !.step = "result"]
      PROVE  Keeps(call) /\ call'.step # "data"
  BY <1>1, <1>8 DEF Keeps, CallType
<1>9. ASSUME Judged(call), call.step \in {"tail", "query"}
      PROVE  call' = NoCall \/ (Keeps(call) /\ call'.step # "data")
  <2>1. call.api # "recv"
    BY <1>1, <1>9, CallFacts DEF StepsOf
  <2> QED
    BY <1>1, <1>9, <2>1, JudgedKeeps
<1>10. ASSUME Judged(With(l)), call.step \in {"result", "address", "header"}, Matches(l)
       PROVE  \/ call' = NoCall
              \/ Keeps(call) /\ call'.step # "data"
              \/ /\ Keeps(call) /\ call.step = "header" /\ Matches(l) /\ call.api = "recv"
                 /\ call'.step = "data" /\ l.val.first \in 1..call.len
                 /\ call'.len = l.val.first
  <2>1. call.api = "recv" => call.step = "header"
    BY <1>1, <1>10, CallFacts DEF StepsOf
  <2> QED
    BY <1>2, <1>3, <1>4, <1>10, <2>1, JudgedKeeps
<1> QED
  BY <1>5, <1>6, <1>7, <1>8, <1>9, <1>10 DEF Takes

\* What a recv on a TLS socket has read and has still to read.
Fetches(c, s, a, b) ==
    /\ \A k \in 1..Len(c.got) : c.got[k] = Data(a, b + k)
    /\ c.step = "data" =>
          /\ Len(c.got) < c.len
          /\ \A j \in 1..(c.len - Len(c.got)) :
                j <= Len(s) /\ s[j] = Data(a, b + Len(c.got) + j)
TlsReads == call.api = "recv" /\ call.about \in Tls =>
               \E a \in Conns, b \in Nat : Fetches(call, stream, a, b)
TlsInv   == Types /\ Blocked(stream) /\ TlsReads

LEMMA GrowsTls ==
    ASSUME TlsInv, Types', Grows
    PROVE  TlsInv'
<1>1. PICK m \in Seq(LineType) : Blocked(m) /\ stream' = stream \o m
  BY DEF Grows
<1>2. call' = call /\ call \in CallType
  BY DEF Grows, TlsInv, Types
<1>3. stream \in Seq(LineType)
  BY DEF TlsInv, Types
<1>4. Blocked(stream)'
  BY <1>1, <1>3, BlockedConcat DEF TlsInv
<1>5. /\ Len(stream') = Len(stream) + Len(m) /\ Len(m) \in Nat /\ Len(stream) \in Nat
      /\ \A k \in 1..Len(stream) : stream'[k] = stream[k]
  BY <1>1, <1>3
<1>6. ASSUME call.api = "recv", call.about \in Tls
      PROVE  \E a \in Conns, b \in Nat : Fetches(call', stream', a, b)
  <2>1. PICK a \in Conns, b \in Nat : Fetches(call, stream, a, b)
    BY <1>6 DEF TlsInv, TlsReads
  <2>2. Len(call.got) \in Nat /\ call.len \in Nat
    BY <1>2, CallFacts
  <2>3. ASSUME call.step = "data", NEW j \in 1..(call.len - Len(call.got))
        PROVE  j <= Len(stream') /\ stream'[j] = Data(a, b + Len(call.got) + j)
    <3>1. j <= Len(stream) /\ stream[j] = Data(a, b + Len(call.got) + j)
      BY <2>1, <2>3 DEF Fetches
    <3> QED
      BY <1>5, <2>2, <3>1
  <2>4. Fetches(call, stream', a, b)
    BY <2>1, <2>3 DEF Fetches
  <2> QED
    BY <1>2, <2>4
<1>7. TlsReads'
  BY <1>2, <1>6 DEF TlsReads
<1> QED
  BY <1>4, <1>7 DEF TlsInv

LEMMA PollTls ==
    ASSUME TlsInv, Poll
    PROVE  TlsInv'
<1>1. /\ Types' /\ Idle /\ stream # <<>> /\ stream' = RestOf(stream) /\ call' = call
  BY PollFacts DEF TlsInv
<1>2. RestOf(stream) \in Seq(LineType) /\ stream \in Seq(LineType)
        /\ \E d \in 1..Len(stream) : Drops(stream, RestOf(stream), d)
  BY <1>1, HeadFacts DEF TlsInv, Types
<1>3. Blocked(stream)'
  BY <1>1, <1>2, BlockedDrops DEF TlsInv
<1>4. call'.api = "none"
  BY <1>1 DEF Idle, NoCall
<1> QED
  BY <1>1, <1>3, <1>4 DEF TlsInv, TlsReads

LEMMA StartTls ==
    ASSUME TlsInv, StartConn \/ StartQuery \/ StartHost
    PROVE  TlsInv'
<1>1. PICK api \in ConnApis \cup {"dns", "ping"}, about \in Conns \cup Hosts, len \in Nat :
         Cmd(api, about, len) \in CmdType /\ Asks(api, about, len)
  BY StartFacts DEF TlsInv
<1>2. Types' /\ call'.step # "data" /\ call'.got = <<>> /\ call'.about = about
  BY <1>1, AsksTypes DEF TlsInv
<1>3. stream' = stream
  BY <1>1 DEF Asks
<1>4. Tls \subseteq Conns /\ Len(<<>>) = 0
  BY SocketsAssumption
<1>5. ASSUME call'.about \in Tls
      PROVE  \E a \in Conns, b \in Nat : Fetches(call', stream', a, b)
  <2>1. Fetches(call', stream', call'.about, 0)
    BY <1>2, <1>4 DEF Fetches
  <2> QED
    BY <1>4, <1>5, <2>1
<1> QED
  BY <1>2, <1>3, <1>5 DEF TlsInv, TlsReads

LEMMA ReadLineTls ==
    ASSUME TlsInv, ReadLine
    PROVE  TlsInv'
<1> DEFINE l == HeadLine
<1>1. /\ Types /\ Types' /\ ~Idle /\ stream # <<>> /\ stream' = RestOf(stream)
      /\ call.step # "data"
      /\ Waits(l) \/ Takes(l)
  BY ReadLineFacts, ReadLineTypes DEF TlsInv
<1>2. /\ l \in LineType /\ stream \in Seq(LineType) /\ RestOf(stream) \in Seq(LineType)
      /\ \/ l = stream[1] /\ RestOf(stream) = Tail(stream)
         \/ l = Text
      /\ Len(Tail(stream)) = Len(stream) - 1 /\ Len(stream) \in Nat \ {0}
      /\ \A i \in 1..(Len(stream) - 1) : Tail(stream)[i] = stream[i + 1]
      /\ \E d \in 1..Len(stream) : Drops(stream, RestOf(stream), d)
  BY <1>1, HeadFacts DEF Types
<1>3. Blocked(stream)'
  BY <1>1, <1>2, BlockedDrops DEF TlsInv
<1>4. call \in CallType
  BY <1>1 DEF Types
<1> HIDE DEF l
<1>5. \/ call' = NoCall
      \/ Keeps(call) /\ call'.step # "data"
      \/ /\ Keeps(call) /\ call.step = "header" /\ Matches(l) /\ call.api = "recv"
         /\ call'.step = "data" /\ l.val.first \in 1..call.len
         /\ call'.len = l.val.first
  <2>1. CASE Takes(l)
    BY <1>1, <1>2, <2>1, TakesKeeps
  <2>2. CASE Waits(l)
    BY <1>1, <2>2 DEF Waits, Keeps
  <2> QED
    BY <1>1, <2>1, <2>2
<1>6. CASE call' = NoCall
  BY <1>1, <1>3, <1>6 DEF TlsInv, TlsReads, NoCall
<1>7. CASE Keeps(call) /\ call'.step # "data"
  <2>1. ASSUME NEW a, NEW b, Fetches(call, stream, a, b) PROVE Fetches(call', stream', a, b)
    BY <1>7, <2>1 DEF Fetches, Keeps
  <2>2. TlsReads'
    BY <1>7, <2>1 DEF TlsInv, TlsReads, Keeps
  <2> QED
    BY <1>1, <1>3, <2>2 DEF TlsInv
<1>8. ASSUME Keeps(call), call.step = "header", Matches(l), call.api = "recv",
             call'.step = "data", l.val.first \in 1..call.len, call'.len = l.val.first,
             call.about \in Tls
      PROVE  \E a \in Conns, b \in Nat : Fetches(call', stream', a, b)
  <2>1. l.kind = "SSLRECV"
    BY <1>4, <1>8, PrefixFacts DEF Matches
  <2>2. l = stream[1] /\ stream' = Tail(stream) /\ 1 \in 1..Len(stream)
    BY <1>1, <1>2, <2>1, LineFacts
  <2> DEFINE n == l.val.first
  <2>3. n \in Nat \ {0}
    BY <1>4, <1>8, CallFacts
  <2>4. PICK a \in Conns, b \in Nat : Bytes(stream, 1, n, a, b)
    BY <2>1, <2>2 DEF TlsInv, Blocked
  <2>5. call'.got = <<>> /\ Len(<<>>) = 0 /\ call'.len = n
    BY <1>4, <1>8, CallFacts DEF Keeps
  <2> HIDE DEF n
  <2>6. ASSUME NEW j \in 1..n PROVE j <= Len(stream') /\ stream'[j] = Data(a, b + 0 + j)
    <3>1. 1 + j <= Len(stream) /\ stream[1 + j] = Data(a, b + j)
      BY <2>4 DEF Bytes
    <3>2. j \in 1..(Len(stream) - 1) /\ j + 1 = 1 + j /\ b + 0 + j = b + j
      BY <1>2, <2>3, <3>1
    <3> QED
      BY <1>2, <2>2, <3>1, <3>2
  <2>7. \A k \in 1..Len(call'.got) : call'.got[k] = Data(a, b + k)
    BY <2>5
  <2>8. Len(call'.got) < call'.len /\ call'.len - Len(call'.got) = n
    BY <2>3, <2>5
  <2>9. Fetches(call', stream', a, b)
    BY <2>5, <2>6, <2>7, <2>8 DEF Fetches
  <2> QED
    BY <2>9
<1>9. CASE /\ Keeps(call) /\ call.step = "header" /\ Matches(l) /\ call.api = "recv"
           /\ call'.step = "data" /\ l.val.first \in 1..call.len
           /\ call'.len = l.val.first
  <2>1. TlsReads'
    BY <1>8, <1>9 DEF TlsReads, Keeps
  <2> QED
    BY <1>1, <1>3, <2>1 DEF TlsInv
<1> QED
  BY <1>5, <1>6, <1>7, <1>9

LEMMA ReadRawTls ==
    ASSUME TlsInv, ReadRaw
    PROVE  TlsInv'
<1>1. /\ Types /\ Types' /\ call.api = "recv" /\ call.step = "data" /\ stream # <<>>
      /\ stream' \in {Tail(stream), stream, <<Text>> \o Tail(stream)}
      /\ stream[1].kind = "DATA" => stream' = Tail(stream)
      /\ call'.got = Append(call.got, IF stream[1].kind = "DATA" THEN stream[1] ELSE Junk)
      /\ call'.step = IF Len(call'.got) = call.len THEN "final" ELSE "data"
      /\ call' = [call EXCEPT !.got = call'.got, !.step = call'.step]
  BY ReadRawFacts DEF TlsInv
<1>2. /\ call \in CallType /\ stream \in Seq(LineType) /\ call.got \in Seq(LineType)
      /\ call.len \in Nat
  BY <1>1, CallFacts DEF Types
<1>3. call'.about = call.about /\ call'.api = call.api /\ call'.len = call.len
  BY <1>1, <1>2 DEF CallType
<1>4. /\ Len(stream) \in Nat \ {0} /\ stream[1] \in LineType
      /\ Tail(stream) \in Seq(LineType) /\ Len(Tail(stream)) = Len(stream) - 1
      /\ \A i \in 1..(Len(stream) - 1) : Tail(stream)[i] = stream[i + 1]
  BY <1>1, <1>2, TailFacts
<1>5. Blocked(Tail(stream))
  <2>1. 1 \in 1..Len(stream) /\ Drops(stream, Tail(stream), 1)
    BY <1>4 DEF Drops
  <2> QED
    BY <1>2, <1>4, <2>1, BlockedDrops DEF TlsInv
<1>6. Blocked(<<Text>> \o Tail(stream))
  <2> DEFINE m == <<Text>>
  <2>1. m \in Seq(LineType) /\ \A i \in 1..Len(m) : m[i].kind # "SSLRECV"
    BY LineFacts
  <2> HIDE DEF m
  <2>2. Blocked(m)
    BY <2>1, BlockedOne
  <2>3. Blocked(m \o Tail(stream))
    BY <1>4, <1>5, <2>1, <2>2, BlockedConcat
  <2> QED
    BY <2>3 DEF m
<1>7. Blocked(stream)'
  BY <1>1, <1>5, <1>6 DEF TlsInv
<1>8. ASSUME call.about \in Tls
      PROVE  \E a \in Conns, b \in Nat : Fetches(call', stream', a, b)
  <2>1. PICK a \in Conns, b \in Nat : Fetches(call, stream, a, b)
    BY <1>1, <1>8 DEF TlsInv, TlsReads
  <2> DEFINE n == Len(call.got)
             r == call.len - n
  <2>2. /\ n \in Nat /\ r \in Nat \ {0}
        /\ \A j \in 1..r : j <= Len(stream) /\ stream[j] = Data(a, b + n + j)
        /\ \A k \in 1..n : call.got[k] = Data(a, b + k)
    <3>1. call.step = "data" /\ n \in Nat /\ call.len \in Nat
      BY <1>1, <1>2
    <3>2. /\ n < call.len
          /\ \A j \in 1..r : j <= Len(stream) /\ stream[j] = Data(a, b + n + j)
          /\ \A k \in 1..n : call.got[k] = Data(a, b + k)
      BY <2>1, <3>1, Zenon DEF Fetches
    <3>3. r \in Nat \ {0}
      BY <3>1, <3>2
    <3> QED
      BY <3>1, <3>2, <3>3
  <2>3. stream[1] = Data(a, b + n + 1) /\ b + n + 1 \in Nat
    BY <2>2
  <2>4. stream[1].kind = "DATA"
    BY <2>3, LineFacts
  <2>5. stream' = Tail(stream) /\ call'.got = Append(call.got, stream[1])
    BY <1>1, <2>4
  <2>6. /\ Len(call'.got) = n + 1 /\ call'.got[n + 1] = stream[1]
        /\ \A i \in 1..n : call'.got[i] = call.got[i]
    BY <1>2, <1>4, <2>5, AppendFacts
  <2> HIDE DEF n
  <2>7. ASSUME NEW k \in 1..Len(call'.got) PROVE call'.got[k] = Data(a, b + k)
    <3>1. k \in 1..n \/ k = n + 1
      BY <2>2, <2>6
    <3>2. b + n + 1 = b + (n + 1)
      BY <2>2
    <3> QED
      BY <2>2, <2>3, <2>6, <3>1, <3>2
  <2>8. ASSUME call'.step = "data"
        PROVE  Len(call'.got) < call'.len /\ r - 1 = call'.len - Len(call'.got)
    <3>1. Len(call'.got) # call.len
      BY <1>1, <2>8
    <3>2. Len(call'.got) = n + 1 /\ call'.len = call.len /\ r = call.len - n
      BY <1>3, <2>6 DEF n
    <3>3. n \in Nat /\ r \in Nat \ {0} /\ call.len \in Nat
      BY <1>2, <2>2
    <3> HIDE DEF r
    <3> QED
      BY <3>1, <3>2, <3>3
  <2>9. ASSUME NEW j \in 1..(r - 1)
        PROVE  j <= Len(stream') /\ stream'[j] = Data(a, b + Len(call'.got) + j)
    <3>1. j + 1 \in 1..r /\ j + 1 <= Len(stream) /\ stream[j + 1] = Data(a, b + n + (j + 1))
      BY <2>2
    <3>2. j \in 1..(Len(stream) - 1) /\ b + n + (j + 1) = b + Len(call'.got) + j
      BY <1>4, <2>2, <2>6, <3>1
    <3> QED
      BY <1>4, <2>5, <3>1, <3>2
  <2> HIDE DEF r
  <2>10. Fetches(call', stream', a, b)
    BY <2>7, <2>8, <2>9 DEF Fetches
  <2> QED
    BY <2>10
<1>9. TlsReads'
  BY <1>3, <1>8 DEF TlsReads
<1> QED
  BY <1>1, <1>7, <1>9 DEF TlsInv

LEMMA TimesOutTls ==
    ASSUME TlsInv, TimesOut
    PROVE  TlsInv'
<1>1. /\ Types /\ Types' /\ ~Idle /\ stream' = stream
      /\ \/ call.step # "tail" /\ Return(call, "TIMEOUT")
         \/ call.step = "tail" /\ Judged([call EXCEPT !.sure = FALSE])
  BY TimesOutFacts DEF TlsInv
<1>2. call \in CallType /\ call.api # "none"
  BY <1>1, CallFacts DEF Types, Idle
<1> DEFINE c == [call EXCEPT !.sure = FALSE]
<1>3. c \in CallType
  BY <1>2, CallUpdates
<1>4. c.api = call.api
  BY <1>2 DEF CallType
<1>5. call' = NoCall \/ call'.api # "recv"
  <2>1. CASE Return(call, "TIMEOUT")
    BY <2>1 DEF Return
  <2>2. CASE call.step = "tail" /\ Judged(c)
    <3>1. call.api # "recv"
      BY <1>2, <2>2, CallFacts DEF StepsOf
    <3> HIDE DEF c
    <3> QED
      BY <1>3, <1>4, <2>2, <3>1, JudgedKeeps DEF Keeps
  <2> QED
    BY <1>1, <2>1, <2>2
<1> QED
  BY <1>1, <1>5 DEF TlsInv, TlsReads, NoCall

LEMMA TlsInvInit == Init => TlsInv
<1> SUFFICES ASSUME Init PROVE TlsInv
  OBVIOUS
<1>1. Types /\ stream = <<>> /\ call = NoCall
  BY TypesInit DEF Init
<1>2. <<>> \in Seq(LineType) /\ \A i \in 1..Len(<<>>) : <<>>[i].kind # "SSLRECV"
  OBVIOUS
<1>3. Blocked(stream)
  BY <1>1, <1>2, BlockedOne
<1> QED
  BY <1>1, <1>3 DEF TlsInv, TlsReads, NoCall

LEMMA TlsInvNext == TlsInv /\ [Next]_vars => TlsInv'
<1> SUFFICES ASSUME TlsInv, [Next]_vars PROVE TlsInv'
  OBVIOUS
<1>1. CASE ModuleWorks
  BY <1>1, WorksTypes, GrowsTls DEF TlsInv
<1>2. CASE ModuleAnnounces
  BY <1>2, AnnounceTypes, GrowsTls DEF TlsInv
<1>3. CASE PeerActs
  BY <1>3, PeerTypes, GrowsTls DEF TlsInv
<1>4. CASE StartConn \/ StartQuery \/ StartHost
  BY <1>4, StartTls
<1>5. CASE Poll
  BY <1>5, PollTls
<1>6. CASE ReadLine
  BY <1>6, ReadLineTls
<1>7. CASE ReadRaw
  BY <1>7, ReadRawTls
<1>8. CASE TimesOut
  BY <1>8, TimesOutTls
<1>9. CASE UNCHANGED vars
  BY <1>9 DEF TlsInv, Types, Blocked, Bytes, TlsReads, Fetches, vars, module
<1> QED
  BY <1>1, <1>2, <1>3, <1>4, <1>5, <1>6, <1>7, <1>8, <1>9 DEF Next

THEOREM TlsInvHolds == Spec => []TlsInv
BY TlsInvInit, TlsInvNext, PTL DEF Spec

\* Whatever went wrong before, a recv on a TLS socket hands out bytes that a
\* peer sent, in order and of one connection: the length in the header is read
\* with it, and is the number of bytes the module puts behind it.
THEOREM TlsBytesAreDataHolds == Spec => []TlsBytesAreData
<1>1. ASSUME TlsInv, call.api = "recv", call.about \in Tls, NEW k \in 1..Len(call.got)
      PROVE  /\ call.got[k].kind = "DATA"
             /\ k > 1 => call.got[k] = Data(call.got[1].about, call.got[1].val + k - 1)
  <2>1. PICK a \in Conns, b \in Nat : \A j \in 1..Len(call.got) : call.got[j] = Data(a, b + j)
    BY <1>1 DEF TlsInv, TlsReads, Fetches
  <2>2. Len(call.got) \in Nat
    BY <1>1, CallFacts DEF TlsInv, Types
  <2>3. 1 \in 1..Len(call.got) /\ b + k = b + 1 + k - 1 /\ b + k \in Nat /\ b + 1 \in Nat
    BY <2>2
  <2>4. call.got[k] = Data(a, b + k) /\ call.got[1] = Data(a, b + 1)
    BY <2>1, <2>3
  <2>5. \A n \in Nat : Data(a, n).kind = "DATA" /\ Data(a, n).about = a /\ Data(a, n).val = n
    BY DEF Data, Line
  <2> QED
    BY <2>3, <2>4, <2>5
<1>2. TlsInv => TlsBytesAreData
  BY <1>1 DEF TlsBytesAreData
<1> QED
  BY <1>2, TlsInvHolds, PTL

-----------------------------------------------------------------------------
(* What a trusted call has still to read *)

\* Without its unsolicited lines, s is xs.
Plays(s, xs) ==
    \E f \in [1..Len(xs) -> 1..Len(s)] :
       /\ \A i, j \in 1..Len(xs) : i < j => f[i] < f[j]
       /\ \A i \in 1..Len(xs) : s[f[i]] = xs[i]
       /\ \A k \in 1..Len(s) : s[k] = Text \/ \E i \in 1..Len(xs) : f[i] = k

NoText(xs) == \A i \in 1..Len(xs) : xs[i].kind \notin {"TEXT", "DATA"}

LEMMA PlaysNothing ==
    ASSUME NEW s \in Seq(LineType)
    PROVE  Plays(s, <<>>) <=> \A k \in 1..Len(s) : s[k] = Text
<1>1. Len(<<>>) = 0 /\ 1..0 = {}
  OBVIOUS
<1>2. ASSUME Plays(s, <<>>) PROVE \A k \in 1..Len(s) : s[k] = Text
  BY <1>1, <1>2 DEF Plays
<1>3. ASSUME \A k \in 1..Len(s) : s[k] = Text PROVE Plays(s, <<>>)
  <2> DEFINE f == [i \in {} |-> 1]
  <2>1. f \in [{} -> 1..Len(s)]
    OBVIOUS
  <2> HIDE DEF f
  <2> QED
    BY <1>1, <1>3, <2>1 DEF Plays
<1> QED
  BY <1>2, <1>3

\* An unsolicited line changes nothing.
LEMMA PlaysText ==
    ASSUME NEW s \in Seq(LineType), NEW xs \in Seq(LineType), Plays(s, xs)
    PROVE  Plays(Append(s, Text), xs)
<1> DEFINE t == Append(s, Text)
<1>1. /\ Len(s) \in Nat /\ Len(t) = Len(s) + 1 /\ t[Len(s) + 1] = Text
      /\ \A i \in 1..Len(s) : t[i] = s[i]
  BY LineFacts, AppendFacts
<1> HIDE DEF t
<1>2. PICK f \in [1..Len(xs) -> 1..Len(s)] :
         /\ \A i, j \in 1..Len(xs) : i < j => f[i] < f[j]
         /\ \A i \in 1..Len(xs) : s[f[i]] = xs[i]
         /\ \A k \in 1..Len(s) : s[k] = Text \/ \E i \in 1..Len(xs) : f[i] = k
  BY DEF Plays
<1>3. 1..Len(s) \subseteq 1..Len(t) /\ \A k \in 1..Len(t) : k \in 1..Len(s) \/ k = Len(s) + 1
  BY <1>1
<1>4. f \in [1..Len(xs) -> 1..Len(t)]
  BY <1>3
<1>5. \A i \in 1..Len(xs) : t[f[i]] = xs[i]
  BY <1>1, <1>2
<1>6. \A k \in 1..Len(t) : t[k] = Text \/ \E i \in 1..Len(xs) : f[i] = k
  BY <1>1, <1>2, <1>3
<1>7. Plays(t, xs)
  BY <1>2, <1>4, <1>5, <1>6 DEF Plays
<1> QED
  BY <1>7 DEF t

LEMMA PlaysMore ==
    ASSUME NEW s \in Seq(LineType), NEW xs \in Seq(LineType), NEW x \in LineType, Plays(s, xs)
    PROVE  Plays(Append(s, x), Append(xs, x))
<1> DEFINE t == Append(s, x)
           ys == Append(xs, x)
<1>1. /\ Len(s) \in Nat /\ Len(t) = Len(s) + 1 /\ t[Len(s) + 1] = x
      /\ \A i \in 1..Len(s) : t[i] = s[i]
      /\ Len(xs) \in Nat /\ Len(ys) = Len(xs) + 1 /\ ys[Len(xs) + 1] = x
      /\ \A i \in 1..Len(xs) : ys[i] = xs[i]
  BY AppendFacts
<1> HIDE DEF t, ys
<1>2. PICK f \in [1..Len(xs) -> 1..Len(s)] :
         /\ \A i, j \in 1..Len(xs) : i < j => f[i] < f[j]
         /\ \A i \in 1..Len(xs) : s[f[i]] = xs[i]
         /\ \A k \in 1..Len(s) : s[k] = Text \/ \E i \in 1..Len(xs) : f[i] = k
  BY DEF Plays
<1> DEFINE n == Len(xs)
           g == [i \in 1..(n + 1) |-> IF i = n + 1 THEN Len(s) + 1 ELSE f[i]]
<1>3. \A i \in 1..(n + 1) : i \in 1..n \/ i = n + 1
  BY <1>1
<1>4. /\ \A i \in 1..n : i \in 1..(n + 1) /\ i # n + 1 /\ i < n + 1
      /\ n + 1 \in 1..(n + 1)
  BY <1>1
<1>5. /\ \A i \in 1..n : g[i] = f[i] /\ g[i] \in 1..Len(s)
      /\ g[n + 1] = Len(s) + 1
  BY <1>4
<1>6. g \in [1..(n + 1) -> 1..Len(t)]
  <2>1. ASSUME NEW i \in 1..(n + 1)
        PROVE  (IF i = n + 1 THEN Len(s) + 1 ELSE f[i]) \in 1..Len(t)
    <3>1. CASE i = n + 1
      BY <1>1, <3>1
    <3>2. CASE i # n + 1
      <4>1. f[i] \in 1..Len(s)
        BY <1>3, <3>2
      <4> QED
        BY <1>1, <3>2, <4>1
    <3> QED
      BY <3>1, <3>2
  <2> QED
    BY <2>1
<1> HIDE DEF g
<1>7. ASSUME NEW i \in 1..(n + 1), NEW j \in 1..(n + 1), i < j PROVE g[i] < g[j]
  <2>1. i \in 1..n
    BY <1>1, <1>7
  <2>2. CASE j \in 1..n
    BY <1>2, <1>5, <1>7, <2>1, <2>2
  <2>3. CASE j = n + 1
    BY <1>1, <1>5, <2>1, <2>3
  <2> QED
    BY <1>3, <2>2, <2>3
<1>8. ASSUME NEW i \in 1..(n + 1) PROVE t[g[i]] = ys[i]
  BY <1>1, <1>2, <1>3, <1>5
<1>9. ASSUME NEW k \in 1..Len(t) PROVE t[k] = Text \/ \E i \in 1..(n + 1) : g[i] = k
  <2>1. CASE k = Len(s) + 1
    BY <1>4, <1>5, <2>1
  <2>2. CASE k \in 1..Len(s)
    BY <1>1, <1>2, <1>4, <1>5, <2>2
  <2> QED
    BY <1>1, <2>1, <2>2
<1>10. Len(ys) = n + 1
  BY <1>1
<1> HIDE DEF n
<1>11. Plays(t, ys)
  BY <1>6, <1>7, <1>8, <1>9, <1>10 DEF Plays
<1> QED
  BY <1>11 DEF t, ys

\* After unsolicited lines only, what the module sends is all there is.
LEMMA PlaysAll ==
    ASSUME NEW s \in Seq(LineType), NEW m \in Seq(LineType), \A k \in 1..Len(s) : s[k] = Text
    PROVE  Plays(s \o m, m)
<1> DEFINE r == s \o m
           n == Len(m)
           f == [i \in 1..n |-> Len(s) + i]
<1>1. /\ Len(r) = Len(s) + n /\ Len(s) \in Nat /\ n \in Nat
      /\ \A k \in 1..Len(r) : r[k] = IF k <= Len(s) THEN s[k] ELSE m[k - Len(s)]
  BY ConcatFacts
<1> HIDE DEF r, n
<1>2. f \in [1..n -> 1..Len(r)] /\ \A i \in 1..n : f[i] = Len(s) + i
  BY <1>1
<1> HIDE DEF f
<1>3. \A i, j \in 1..n : i < j => f[i] < f[j]
  BY <1>1, <1>2
<1>4. ASSUME NEW i \in 1..n PROVE r[f[i]] = m[i]
  <2>1. f[i] \in 1..Len(r) /\ ~(f[i] <= Len(s)) /\ f[i] - Len(s) = i
    BY <1>1, <1>2
  <2> QED
    BY <1>1, <2>1
<1>5. ASSUME NEW k \in 1..Len(r) PROVE r[k] = Text \/ \E i \in 1..n : f[i] = k
  <2>1. CASE k \in 1..Len(s)
    BY <1>1, <2>1
  <2>2. CASE ~(k \in 1..Len(s))
    <3>1. k - Len(s) \in 1..n /\ Len(s) + (k - Len(s)) = k
      BY <1>1, <2>2
    <3> QED
      BY <1>2, <3>1
  <2> QED
    BY <2>1, <2>2
<1>6. Plays(r, m)
  BY <1>2, <1>3, <1>4, <1>5 DEF Plays, n
<1> QED
  BY <1>6 DEF r

\* The first line is unsolicited, or the first of xs.
LEMMA PlaysTail ==
    ASSUME NEW s \in Seq(LineType), NEW xs \in Seq(LineType), Plays(s, xs), NoText(xs), s # <<>>
    PROVE  \/ s[1] = Text /\ Plays(Tail(s), xs)
           \/ xs # <<>> /\ s[1] = xs[1] /\ Plays(Tail(s), Tail(xs))
<1> DEFINE t == Tail(s)
<1>1. /\ Len(s) \in Nat \ {0} /\ Len(t) = Len(s) - 1 /\ \A i \in 1..(Len(s) - 1) : t[i] = s[i + 1]
  BY TailFacts
<1> HIDE DEF t
<1>2. PICK f \in [1..Len(xs) -> 1..Len(s)] :
         /\ \A i, j \in 1..Len(xs) : i < j => f[i] < f[j]
         /\ \A i \in 1..Len(xs) : s[f[i]] = xs[i]
         /\ \A k \in 1..Len(s) : s[k] = Text \/ \E i \in 1..Len(xs) : f[i] = k
  BY DEF Plays
<1>3. Len(xs) \in Nat
  OBVIOUS
<1>4. CASE s[1] = Text
  <2> DEFINE g == [i \in 1..Len(xs) |-> f[i] - 1]
  <2>1. ASSUME NEW i \in 1..Len(xs)
        PROVE  f[i] - 1 \in 1..Len(t) /\ t[f[i] - 1] = xs[i]
    <3>1. f[i] # 1
      <4>1. xs[i].kind # "TEXT" /\ Text.kind = "TEXT"
        BY LineFacts DEF NoText
      <4> QED
        BY <1>2, <1>4, <4>1
    <3>2. f[i] \in 1..Len(s) /\ f[i] - 1 \in 1..(Len(s) - 1) /\ (f[i] - 1) + 1 = f[i]
      BY <1>1, <3>1
    <3> QED
      BY <1>1, <1>2, <3>2
  <2>2. g \in [1..Len(xs) -> 1..Len(t)] /\ \A i \in 1..Len(xs) : g[i] = f[i] - 1
    BY <2>1
  <2> HIDE DEF g
  <2>3. \A i, j \in 1..Len(xs) : i < j => g[i] < g[j]
    <3>1. \A i \in 1..Len(xs) : f[i] \in Nat
      BY <1>1
    <3> QED
      BY <1>2, <2>2, <3>1
  <2>4. ASSUME NEW k \in 1..Len(t) PROVE t[k] = Text \/ \E i \in 1..Len(xs) : g[i] = k
    <3>1. k \in 1..(Len(s) - 1) /\ k + 1 \in 1..Len(s) /\ t[k] = s[k + 1] /\ (k + 1) - 1 = k
      BY <1>1
    <3>2. s[k + 1] = Text \/ \E i \in 1..Len(xs) : f[i] = k + 1
      BY <1>2, <3>1
    <3> QED
      BY <2>2, <3>1, <3>2
  <2>5. \A i \in 1..Len(xs) : t[g[i]] = xs[i]
    BY <2>1, <2>2
  <2>6. Plays(t, xs)
    BY <2>2, <2>3, <2>4, <2>5 DEF Plays
  <2> QED
    BY <1>4, <2>6 DEF t
<1>5. CASE s[1] # Text
  <2>1. PICK p \in 1..Len(xs) : f[p] = 1
    BY <1>1, <1>2, <1>5
  <2>2. p = 1
    <3>1. SUFFICES ASSUME p # 1 PROVE FALSE
      OBVIOUS
    <3>2. 1 \in 1..Len(xs) /\ 1 < p /\ f[1] \in 1..Len(s)
      BY <1>3, <2>1, <3>1
    <3>3. f[1] < 1
      BY <1>2, <2>1, <3>2
    <3> QED
      BY <1>1, <3>2, <3>3
  <2> DEFINE ys == Tail(xs)
             n == Len(xs) - 1
             g == [i \in 1..n |-> f[i + 1] - 1]
  <2>3. xs # <<>> /\ 1 \in 1..Len(xs) /\ s[1] = xs[1]
    BY <1>2, <2>1, <2>2
  <2>4. Len(ys) = n /\ n \in Nat /\ \A i \in 1..n : ys[i] = xs[i + 1]
    BY <2>3, TailFacts
  <2> HIDE DEF ys
  <2>5. ASSUME NEW i \in 1..n
        PROVE  /\ i + 1 \in 1..Len(xs) /\ f[i + 1] \in 1..Len(s) /\ f[i + 1] - 1 \in 1..Len(t)
               /\ t[f[i + 1] - 1] = ys[i]
    <3>1. i + 1 \in 1..Len(xs) /\ 1 < i + 1
      BY <1>3, <2>3
    <3>2. f[1] < f[i + 1] /\ f[1] = 1 /\ f[i + 1] \in 1..Len(s)
      BY <1>2, <2>1, <2>2, <2>3, <3>1
    <3>3. f[i + 1] - 1 \in 1..(Len(s) - 1) /\ (f[i + 1] - 1) + 1 = f[i + 1]
      BY <1>1, <3>2
    <3> QED
      BY <1>1, <1>2, <2>4, <3>1, <3>2, <3>3
  <2>6. g \in [1..n -> 1..Len(t)] /\ \A i \in 1..n : g[i] = f[i + 1] - 1
    BY <2>5
  <2> HIDE DEF g
  <2>7. ASSUME NEW i \in 1..n, NEW j \in 1..n, i < j PROVE g[i] < g[j]
    <3>1. i + 1 < j + 1 /\ i + 1 \in 1..Len(xs) /\ j + 1 \in 1..Len(xs)
      BY <2>4, <2>5, <2>7
    <3>2. f[i + 1] < f[j + 1] /\ f[i + 1] \in 1..Len(s) /\ f[j + 1] \in 1..Len(s)
      BY <1>2, <3>1
    <3> QED
      BY <1>1, <2>6, <3>2
  <2>8. ASSUME NEW k \in 1..Len(t) PROVE t[k] = Text \/ \E i \in 1..n : g[i] = k
    <3>1. /\ k \in 1..(Len(s) - 1) /\ k + 1 \in 1..Len(s) /\ t[k] = s[k + 1]
          /\ (k + 1) - 1 = k /\ k + 1 # 1
      BY <1>1
    <3>2. s[k + 1] = Text \/ \E i \in 1..Len(xs) : f[i] = k + 1
      BY <1>2, <3>1
    <3>3. ASSUME NEW i \in 1..Len(xs), f[i] = k + 1 PROVE \E j \in 1..n : g[j] = k
      <4>1. i # 1
        BY <2>1, <2>2, <3>1, <3>3
      <4>2. i - 1 \in 1..n /\ (i - 1) + 1 = i
        BY <1>3, <4>1
      <4>3. g[i - 1] = k
        BY <2>6, <3>1, <3>3, <4>2
      <4> QED
        BY <4>2, <4>3
    <3> QED
      BY <3>1, <3>2, <3>3
  <2>9. \A i \in 1..n : t[g[i]] = ys[i]
    BY <2>5, <2>6
  <2> HIDE DEF n
  <2>10. Plays(t, ys)
    BY <2>4, <2>6, <2>7, <2>8, <2>9 DEF Plays
  <2> QED
    BY <2>3, <2>10 DEF t, ys
<1> QED
  BY <1>4, <1>5

\* The lines xs, the last of which the module may still have to send, and
\* nothing else.
ToCome(xs) ==
    /\ NoText(xs)
    /\ \E ys, zs \in Seq(LineType) :
          /\ xs = ys \o zs /\ Plays(stream, ys)
          /\ jobs = IF zs = <<>> THEN {} ELSE {zs}

LEMMA ToComeNothing ==
    ASSUME Types
    PROVE  ToCome(<<>>) <=> jobs = {} /\ \A k \in 1..Len(stream) : stream[k] = Text
<1>1. stream \in Seq(LineType) /\ <<>> \in Seq(LineType)
  BY DEF Types
<1>2. ASSUME ToCome(<<>>) PROVE jobs = {} /\ \A k \in 1..Len(stream) : stream[k] = Text
  <2>1. PICK ys \in Seq(LineType), zs \in Seq(LineType) :
           <<>> = ys \o zs /\ Plays(stream, ys) /\ jobs = IF zs = <<>> THEN {} ELSE {zs}
    BY <1>2 DEF ToCome
  <2>2. Len(ys) + Len(zs) = 0 /\ Len(ys) \in Nat /\ Len(zs) \in Nat
    BY <2>1
  <2>3. ys = <<>> /\ zs = <<>>
    BY <2>2
  <2> QED
    BY <1>1, <2>1, <2>3, PlaysNothing
<1>3. ASSUME jobs = {}, \A k \in 1..Len(stream) : stream[k] = Text PROVE ToCome(<<>>)
  <2>1. <<>> = <<>> \o <<>> /\ NoText(<<>>)
    BY DEF NoText
  <2>2. Plays(stream, <<>>)
    BY <1>1, <1>3, PlaysNothing
  <2> QED
    BY <1>1, <1>3, <2>1, <2>2 DEF ToCome
<1> QED
  BY <1>2, <1>3

LEMMA ToComePeer ==
    ASSUME Types, NEW xs, ToCome(xs), stream' \in {stream, Append(stream, Text)}, jobs' = jobs
    PROVE  ToCome(xs)'
<1>1. PICK ys \in Seq(LineType), zs \in Seq(LineType) :
         xs = ys \o zs /\ Plays(stream, ys) /\ jobs = IF zs = <<>> THEN {} ELSE {zs}
  BY DEF ToCome
<1>2. Plays(stream', ys)
  <2>1. Plays(Append(stream, Text), ys)
    BY <1>1, PlaysText DEF Types
  <2> QED
    BY <1>1, <2>1
<1> QED
  BY <1>1, <1>2 DEF ToCome

LEMMA AppendTail ==
    ASSUME NEW ys \in Seq(LineType), NEW zs \in Seq(LineType), zs # <<>>
    PROVE  Append(ys, Head(zs)) \o Tail(zs) = ys \o zs
<1> DEFINE a == Append(ys, Head(zs))
           b == Tail(zs)
           l == a \o b
           r == ys \o zs
<1>1. /\ Len(zs) \in Nat \ {0} /\ b \in Seq(LineType) /\ Len(b) = Len(zs) - 1
      /\ Head(zs) = zs[1] /\ zs[1] \in LineType
      /\ \A i \in 1..(Len(zs) - 1) : b[i] = zs[i + 1]
  BY TailFacts
<1>2. /\ a \in Seq(LineType) /\ Len(ys) \in Nat /\ Len(a) = Len(ys) + 1
      /\ \A i \in 1..Len(ys) : a[i] = ys[i]
      /\ a[Len(ys) + 1] = zs[1]
  BY <1>1, AppendFacts
<1> HIDE DEF a, b
<1>3. /\ l \in Seq(LineType) /\ Len(l) = Len(a) + Len(b)
      /\ \A k \in 1..Len(l) : l[k] = IF k <= Len(a) THEN a[k] ELSE b[k - Len(a)]
  BY <1>1, <1>2, ConcatFacts, Zenon
<1>4. /\ r \in Seq(LineType) /\ Len(r) = Len(ys) + Len(zs)
      /\ \A k \in 1..Len(r) : r[k] = IF k <= Len(ys) THEN ys[k] ELSE zs[k - Len(ys)]
  BY ConcatFacts, Zenon
<1> HIDE DEF l, r
<1>5. Len(l) = Len(r)
  BY <1>1, <1>2, <1>3, <1>4
<1>6. ASSUME NEW k \in 1..Len(l) PROVE l[k] = r[k]
  <2>1. CASE k <= Len(ys)
    <3>1. k \in 1..Len(ys) /\ k <= Len(a) /\ k \in 1..Len(r)
      BY <1>2, <1>3, <1>5, <2>1
    <3>2. l[k] = a[k]
      BY <1>3, <3>1
    <3>3. a[k] = ys[k]
      BY <1>2, <3>1
    <3>4. r[k] = ys[k]
      BY <1>4, <2>1, <3>1
    <3> QED
      BY <3>2, <3>3, <3>4
  <2>2. CASE k = Len(ys) + 1
    <3>1. k <= Len(a) /\ ~(k <= Len(ys)) /\ k \in 1..Len(r) /\ k - Len(ys) = 1
      BY <1>2, <1>3, <1>5, <2>2
    <3>2. l[k] = a[k]
      BY <1>3, <3>1
    <3>3. r[k] = zs[k - Len(ys)]
      BY <1>4, <3>1
    <3>4. a[k] = zs[1]
      BY <1>2, <2>2
    <3>5. k - Len(ys) = 1
      BY <3>1
    <3> QED
      BY <3>2, <3>3, <3>4, <3>5, Zenon
  <2>3. CASE k > Len(ys) + 1
    <3>1. /\ ~(k <= Len(a)) /\ ~(k <= Len(ys)) /\ k \in 1..Len(r)
          /\ k - Len(a) \in 1..(Len(zs) - 1) /\ (k - Len(a)) + 1 = k - Len(ys)
      BY <1>1, <1>2, <1>3, <1>5, <2>3
    <3>2. b[k - Len(a)] = zs[k - Len(ys)]
      BY <1>1, <3>1
    <3> QED
      BY <1>3, <1>4, <3>1, <3>2
  <2> QED
    BY <1>2, <2>1, <2>2, <2>3
<1>7. l = r
  <2>1. l \in Seq(LineType) /\ r \in Seq(LineType) /\ Len(l) = Len(r)
          /\ \A k \in 1..Len(l) : l[k] = r[k]
    BY <1>3, <1>4, <1>5, <1>6
  <2> QED
    BY <2>1, SeqEqual
<1> QED
  BY <1>7 DEF l, r, a, b

LEMMA ToComeAnnounce ==
    ASSUME Types, NEW xs, ToCome(xs), NEW job \in jobs,
           stream' = stream \o <<Head(job)>>,
           jobs' = (jobs \ {job}) \cup (IF Len(job) = 1 THEN {} ELSE {Tail(job)})
    PROVE  ToCome(xs)'
<1>1. PICK ys \in Seq(LineType), zs \in Seq(LineType) :
         xs = ys \o zs /\ Plays(stream, ys) /\ jobs = IF zs = <<>> THEN {} ELSE {zs}
  BY DEF ToCome
<1>2. zs # <<>> /\ job = zs /\ jobs = {zs}
  BY <1>1
<1>3. /\ Len(zs) \in Nat \ {0} /\ Tail(zs) \in Seq(LineType) /\ Len(Tail(zs)) = Len(zs) - 1
      /\ Head(zs) \in LineType
  BY <1>2, TailFacts
<1>4. stream' = Append(stream, Head(zs)) /\ stream \in Seq(LineType)
  BY <1>2, <1>3 DEF Types
<1> DEFINE vs == Append(ys, Head(zs))
           ws == Tail(zs)
<1>5. vs \in Seq(LineType) /\ xs = vs \o ws
  BY <1>1, <1>2, <1>3, AppendTail
<1>6. Plays(stream', vs)
  BY <1>1, <1>3, <1>4, PlaysMore
<1>7. jobs' = IF ws = <<>> THEN {} ELSE {ws}
  <2>1. CASE Len(zs) = 1
    <3>1. Len(ws) = 0
      BY <1>3, <2>1
    <3>2. ws = <<>>
      BY <1>3, <3>1, EmptySeq
    <3> QED
      BY <1>2, <2>1, <3>2
  <2>2. CASE Len(zs) # 1
    <3>1. Len(ws) # 0 /\ Len(<<>>) = 0
      BY <1>3, <2>2
    <3>2. ws # <<>>
      BY <3>1
    <3> QED
      BY <1>2, <2>2, <3>2
  <2> QED
    BY <2>1, <2>2
<1> HIDE DEF vs
<1> QED
  BY <1>3, <1>5, <1>6, <1>7 DEF ToCome

LEMMA TailConcat ==
    ASSUME NEW ys \in Seq(LineType), NEW zs \in Seq(LineType), ys # <<>>
    PROVE  /\ Tail(ys \o zs) = Tail(ys) \o zs /\ (ys \o zs)[1] = ys[1]
           /\ ys \o zs \in Seq(LineType) /\ ys \o zs # <<>>
<1> DEFINE r == ys \o zs
           t == Tail(ys)
           l == t \o zs
           q == Tail(r)
<1>1. /\ Len(ys) \in Nat \ {0} /\ t \in Seq(LineType) /\ Len(t) = Len(ys) - 1
      /\ \A i \in 1..(Len(ys) - 1) : t[i] = ys[i + 1]
  BY TailFacts
<1>2. /\ r \in Seq(LineType) /\ Len(r) = Len(ys) + Len(zs) /\ Len(zs) \in Nat
      /\ \A k \in 1..Len(r) : r[k] = IF k <= Len(ys) THEN ys[k] ELSE zs[k - Len(ys)]
  BY ConcatFacts
<1> HIDE DEF r, t
<1>3. r # <<>> /\ r[1] = ys[1]
  BY <1>1, <1>2
<1>4. /\ q \in Seq(LineType) /\ Len(q) = Len(r) - 1
      /\ \A i \in 1..(Len(r) - 1) : q[i] = r[i + 1]
  BY <1>2, <1>3, TailFacts
<1>5. /\ l \in Seq(LineType) /\ Len(l) = Len(t) + Len(zs)
      /\ \A k \in 1..Len(l) : l[k] = IF k <= Len(t) THEN t[k] ELSE zs[k - Len(t)]
  BY <1>1, ConcatFacts, Zenon
<1> HIDE DEF q, l
<1>6. Len(q) = Len(l)
  BY <1>1, <1>2, <1>4, <1>5
<1>7. ASSUME NEW k \in 1..Len(q) PROVE q[k] = l[k]
  <2>1. /\ k \in 1..Len(l) /\ k \in 1..(Len(r) - 1) /\ k + 1 \in 1..Len(r)
        /\ q[k] = r[k + 1]
    BY <1>2, <1>4, <1>6
  <2>2. CASE k <= Len(t)
    <3>1. k \in 1..(Len(ys) - 1) /\ k + 1 <= Len(ys)
      BY <1>1, <2>1, <2>2
    <3> QED
      BY <1>1, <1>2, <1>5, <2>1, <2>2, <3>1
  <2>3. CASE ~(k <= Len(t))
    <3>1. ~(k + 1 <= Len(ys)) /\ (k + 1) - Len(ys) = k - Len(t)
      BY <1>1, <2>1, <2>3
    <3> QED
      BY <1>2, <1>5, <2>1, <2>3, <3>1
  <2> QED
    BY <2>2, <2>3
<1>8. q = l
  <2>1. q \in Seq(LineType) /\ l \in Seq(LineType) /\ Len(q) = Len(l)
          /\ \A k \in 1..Len(q) : q[k] = l[k]
    BY <1>4, <1>5, <1>6, <1>7
  <2> QED
    BY <2>1, SeqEqual
<1> QED
  BY <1>2, <1>3, <1>8 DEF q, l, r, t

\* Reading takes an unsolicited line, or the first of xs.
LEMMA ToComeRead ==
    ASSUME Types, NEW xs, ToCome(xs), stream # <<>>, stream' = RestOf(stream), jobs' = jobs
    PROVE  \/ HeadLine = Text /\ ToCome(xs)'
           \/ /\ xs \in Seq(LineType) /\ xs # <<>> /\ HeadLine = xs[1] /\ ToCome(Tail(xs))'
<1>1. PICK ys \in Seq(LineType), zs \in Seq(LineType) :
         xs = ys \o zs /\ Plays(stream, ys) /\ jobs = IF zs = <<>> THEN {} ELSE {zs}
  BY DEF ToCome
<1>2. /\ stream \in Seq(LineType) /\ Len(ys) \in Nat /\ Len(zs) \in Nat
      /\ xs \in Seq(LineType) /\ Len(xs) = Len(ys) + Len(zs)
      /\ \A k \in 1..Len(xs) : xs[k] = IF k <= Len(ys) THEN ys[k] ELSE zs[k - Len(ys)]
  <2>1. stream \in Seq(LineType) /\ Len(ys) \in Nat /\ Len(zs) \in Nat
    BY DEF Types
  <2> QED
    BY <1>1, <2>1, ConcatFacts, Zenon
<1>3. NoText(ys)
  <2>1. ASSUME NEW i \in 1..Len(ys) PROVE ys[i].kind \notin {"TEXT", "DATA"}
    <3>1. i \in 1..Len(xs) /\ i <= Len(ys)
      BY <1>2
    <3>2. xs[i] = ys[i]
      BY <1>2, <3>1
    <3> QED
      BY <3>1, <3>2 DEF ToCome, NoText
  <2> QED
    BY <2>1 DEF NoText
<1>4. \/ HeadLine = stream[1] /\ RestOf(stream) = Tail(stream)
      \/ HeadLine = Text /\ stream[1].kind = "DATA"
  BY HeadFacts
<1>5. CASE stream[1] = Text /\ Plays(Tail(stream), ys)
  <2>1. HeadLine = Text /\ stream' = Tail(stream)
    BY <1>4, <1>5, LineFacts
  <2> QED
    BY <1>1, <1>5, <2>1 DEF ToCome
<1>6. CASE ys # <<>> /\ stream[1] = ys[1] /\ Plays(Tail(stream), Tail(ys))
  <2>1. 1 \in 1..Len(ys)
    BY <1>2, <1>6
  <2>2. HeadLine = ys[1] /\ stream' = Tail(stream)
    BY <1>3, <1>4, <1>6, <2>1 DEF NoText
  <2>3. Tail(xs) = Tail(ys) \o zs /\ xs[1] = ys[1] /\ xs # <<>> /\ Tail(ys) \in Seq(LineType)
    BY <1>1, <1>6, TailConcat, TailFacts
  <2>4. NoText(Tail(xs))
    <3>1. /\ Len(Tail(xs)) = Len(xs) - 1 /\ Len(xs) \in Nat
          /\ \A i \in 1..(Len(xs) - 1) : Tail(xs)[i] = xs[i + 1]
      BY <1>2, <2>3, TailFacts
    <3>2. ASSUME NEW i \in 1..Len(Tail(xs)) PROVE Tail(xs)[i].kind \notin {"TEXT", "DATA"}
      <4>1. i \in 1..(Len(xs) - 1) /\ i + 1 \in 1..Len(xs)
        BY <3>1
      <4> QED
        BY <3>1, <4>1 DEF ToCome, NoText
    <3> QED
      BY <3>2 DEF NoText
  <2>5. Plays(stream', Tail(ys)) /\ jobs' = IF zs = <<>> THEN {} ELSE {zs}
    BY <1>1, <1>6, <2>2
  <2>6. ToCome(Tail(xs))'
    BY <2>3, <2>4, <2>5 DEF ToCome
  <2> QED
    BY <1>2, <2>2, <2>3, <2>6
<1> QED
  BY <1>1, <1>2, <1>3, <1>5, <1>6, PlaysTail

\* An answer to a quiet channel.
LEMMA ToComeAnswer ==
    ASSUME Types, ToCome(<<>>), NEW m \in Seq(LineType), NEW r \in Seq(LineType),
           NoText(m \o r), stream' = stream \o m, jobs' = IF r = <<>> THEN {} ELSE {r}
    PROVE  ToCome(m \o r)'
<1>1. /\ stream \in Seq(LineType) /\ \A k \in 1..Len(stream) : stream[k] = Text
  BY ToComeNothing DEF Types
<1>2. Plays(stream', m)
  BY <1>1, PlaysAll
<1> QED
  BY <1>2 DEF ToCome

-----------------------------------------------------------------------------
(* The rest of a call, line by line *)

Own(c, l) == l \in LineType /\ l.kind = Prefix(c) /\ l.about = c.about

LEMMA TakesError ==
    ASSUME Types, ~Idle, Takes(Error) \/ Waits(Error), call.step # "tail"
    PROVE  Return(call, "MODULE")
<1>1. call \in CallType
  BY DEF Types
<1>2. ~Matches(Error) /\ Error # Ok /\ Error # Prompt
  BY <1>1, PrefixFacts, LineFacts DEF Matches
<1>3. ~Waits(Error)
  BY <1>2 DEF Waits
<1> QED
  BY <1>2, <1>3 DEF Takes, Finals

LEMMA TakesOk ==
    ASSUME Types, ~Idle, Takes(Ok) \/ Waits(Ok)
    PROVE  \/ Return(call, "PARSE") /\ call.step \in {"header", "prompt", "query"}
              /\ (call.step = "query" => call.line = None)
           \/ call.step = "await" /\ Goto(call, "result")
           \/ call.step = "tail" /\ Judged(call)
           \/ call.step = "query" /\ call.line # None /\ Judged(call)
           \/ call.step = "final" /\ Return(call, "OK")
           \/ call.step \in {"result", "address"} /\ Waits(Ok)
<1>1. call \in CallType
  BY DEF Types
<1>2. ~Matches(Ok) /\ Error # Ok /\ Ok # Prompt
  BY <1>1, PrefixFacts, LineFacts DEF Matches
<1>3. Waits(Ok) => call.step \in {"result", "address"}
  BY <1>2 DEF Waits
<1>4. ASSUME Takes(Ok)
      PROVE  \/ Return(call, "PARSE") /\ call.step \in {"header", "prompt", "query"}
                /\ (call.step = "query" => call.line = None)
             \/ call.step = "await" /\ Goto(call, "result")
             \/ call.step = "tail" /\ Judged(call)
             \/ call.step = "query" /\ call.line # None /\ Judged(call)
             \/ call.step = "final" /\ Return(call, "OK")
  BY <1>2, <1>4, Zenon DEF Takes
<1> QED
  BY <1>3, <1>4

LEMMA TakesOwn ==
    ASSUME Types, ~Idle, NEW l \in LineType, l.kind = Prefix(call), Takes(l) \/ Waits(l)
    PROVE  \/ call.step = "await" /\ Goto(With(l), "tail")
           \/ call.step \in {"result", "address", "header"} /\ Judged(With(l))
           \/ call.step = "query" /\ call.line = None /\ Goto(With(l), "query")
           \/ call.step \notin {"await", "result", "address", "header"} /\ Waits(l)
              /\ (call.step = "query" => call.line # None)
<1>1. call \in CallType
  BY DEF Types
<1>2. Matches(l) /\ l # Ok /\ l # Error /\ l # Prompt /\ l \notin Finals
  BY <1>1, PrefixFacts, LineFacts DEF Matches, Finals
<1>3. Waits(l) => /\ call.step \notin {"await", "result", "address", "header"}
                  /\ call.step = "query" => call.line # None
  BY <1>2 DEF Waits
<1>4. ASSUME Takes(l)
      PROVE  \/ call.step = "await" /\ Goto(With(l), "tail")
             \/ call.step \in {"result", "address", "header"} /\ Judged(With(l))
             \/ call.step = "query" /\ call.line = None /\ Goto(With(l), "query")
  BY <1>2, <1>4, Zenon DEF Takes
<1> QED
  BY <1>3, <1>4

LEMMA TakesText ==
    ASSUME Types, ~Idle, Takes(Text) \/ Waits(Text)
    PROVE  call' = call /\ trusted' = trusted /\ work' = work /\ last' = NoReturn
<1>1. call \in CallType
  BY DEF Types
<1>2. ~Matches(Text) /\ Text # Ok /\ Text # Error /\ Text # Prompt /\ Text \notin Finals
  BY <1>1, PrefixFacts, LineFacts DEF Matches, Finals
<1>3. ~Takes(Text)
  BY <1>2, Zenon DEF Takes
<1> QED
  BY <1>3 DEF Waits

\* The lines that a call which was answered has still to read.
OpenScript(c, xs) ==
    /\ c.api = "open" /\ conn[c.about] # "idle"
    /\ \E l : /\ Own(c, l)
              /\ \/ c.step = "await"  /\ (xs = <<Ok, l>> \/ xs = <<l, Ok>>)
                 \/ c.step = "tail"   /\ xs = <<Ok>>
                 \/ c.step = "result" /\ xs = <<l>>
PingScript(c, xs) ==
    /\ c.api = "ping"
    /\ \E r, s : /\ Own(c, r) /\ r.val = "reply"
                 /\ Own(c, s) /\ s.val \in {"summary", "failed"}
                 /\ \/ c.step = "await"  /\ (xs = <<Ok, r, s>> \/ xs = <<r, Ok, s>>)
                    \/ c.step = "tail"   /\ xs = <<Ok, s>> /\ c.line.val = "reply"
                    \/ c.step = "result" /\ (xs = <<r, s>> \/ xs = <<s>>)
                    \/ c.step = "result" /\ xs = <<Ok, s>> /\ ~c.sure
QueryScript(c, xs) ==
    /\ c.api \in {"state", "avail"} /\ c.step = "query"
    /\ xs = <<Ok>> \/ \E l : Own(c, l) /\ xs = <<l, Ok>>
SendScript(c, xs) ==
    c.api = "send" /\ c.step = "result" /\ \E l : Own(c, l) /\ xs = <<l>>
FinalScript(c, xs) ==
    /\ c.step = "final" /\ xs = <<Ok>>
    /\ c.api = "recv" => taken[c.about] = c.at + Len(c.got)
Script(c, xs) ==
    \/ xs = <<Error>> /\ c.step = FirstStep(c.api) /\ c.api \in ConnApis \cup {"ping"}
    \/ OpenScript(c, xs) \/ PingScript(c, xs) \/ QueryScript(c, xs)
    \/ SendScript(c, xs) \/ FinalScript(c, xs)

OwnLine(c, d) == d.line # None => d.line \in LineType /\ d.line.about = c.about
Goes(xs) ==
    /\ Keeps(call) /\ work' = work /\ trusted' = trusted /\ last' = NoReturn
    /\ Script(call', xs) /\ OwnLine(call, call')
Ends(xs) ==
    \E c, st : /\ Return(c, st) /\ OwnLine(call, c)
               /\ st \in {"OK", "MODULE"} /\ c.sure /\ c.api # "dns" => xs = <<>>
               /\ st = "OK" /\ call.api = "open" => conn[call.about] # "idle"
               /\ st = "OK" /\ call.api = "recv" =>
                     taken[call.about] = call.at + Len(call.got)

\* One line of xs.
Reads(xs) == /\ Types /\ ~Idle /\ OwnLine(call, call)
             /\ Takes(xs[1]) \/ Waits(xs[1])

LEMMA KeepsOwn ==
    ASSUME Keeps(call)
    PROVE  \A l : Own(call, l) <=> Own(call', l)
BY DEF Keeps, Own, Prefix

LEMMA WithFacts ==
    ASSUME Types, ~Idle, NEW l \in LineType
    PROVE  /\ With(l) \in CallType /\ With(l).api = call.api /\ With(l).about = call.about
           /\ With(l).got = call.got /\ With(l).at = call.at
           /\ With(l).trusted = call.trusted /\ With(l).line = l /\ With(l).step = call.step
           /\ With(l).sure = call.sure
<1>1. call \in CallType /\ call.api # "none"
  BY CallFacts DEF Types, Idle
<1>2. With(l) \in CallType
  BY <1>1, CallUpdates DEF With
<1> QED
  BY <1>1, <1>2 DEF With, CallType

\* Where a Goto leads.
LEMMA GotoFacts ==
    ASSUME NEW c \in CallType, NEW s, Goto(c, s)
    PROVE  /\ call'.step = s /\ call'.api = c.api /\ call'.about = c.about
           /\ call'.got = c.got /\ call'.at = c.at /\ call'.trusted = c.trusted
           /\ call'.line = c.line /\ call'.sure = c.sure
           /\ work' = work /\ trusted' = trusted /\ last' = NoReturn
BY DEF Goto, CallType

LEMMA ReadsError ==
    ASSUME NEW xs, Reads(xs), xs = <<Error>>, call.step = FirstStep(call.api),
           call.api \in ConnApis \cup {"ping"}
    PROVE  Ends(Tail(xs))
<1>1. call.step # "tail"
  BY DEF FirstStep, ConnApis
<1>2. xs[1] = Error /\ Tail(xs) = <<>>
  OBVIOUS
<1>3. Return(call, "MODULE")
  BY <1>1, <1>2, TakesError DEF Reads
<1> QED
  BY <1>2, <1>3 DEF Ends, Reads

LEMMA ReadsOpen ==
    ASSUME NEW xs, Reads(xs), OpenScript(call, xs)
    PROVE  Goes(Tail(xs)) \/ Ends(Tail(xs))
<1>1. PICK l : /\ Own(call, l)
               /\ \/ call.step = "await"  /\ (xs = <<Ok, l>> \/ xs = <<l, Ok>>)
                  \/ call.step = "tail"   /\ xs = <<Ok>>
                  \/ call.step = "result" /\ xs = <<l>>
  BY DEF OpenScript
<1>2. l \in LineType /\ l.kind = Prefix(call) /\ l.about = call.about
  BY <1>1 DEF Own
<1>3. /\ call \in CallType /\ call.api = "open" /\ conn[call.about] # "idle"
      /\ Types /\ ~Idle /\ OwnLine(call, call)
      /\ Takes(xs[1]) \/ Waits(xs[1])
  BY DEF Reads, Types, OpenScript
<1>4. /\ With(l) \in CallType /\ With(l).api = "open" /\ With(l).about = call.about
      /\ With(l).got = call.got /\ With(l).at = call.at
      /\ With(l).trusted = call.trusted /\ With(l).line = l
  BY <1>2, <1>3, WithFacts
<1>5. ASSUME Keeps(call), call'.step = "result", Tail(xs) = <<l>>
      PROVE  Script(call', Tail(xs))
  <2>1. Own(call', l)
    BY <1>1, <1>5, KeepsOwn
  <2>2. OpenScript(call', Tail(xs))
    BY <1>3, <1>5, <2>1 DEF OpenScript, Keeps
  <2> QED
    BY <2>2 DEF Script
<1>6. ASSUME Keeps(call), call'.step = "tail", Tail(xs) = <<Ok>>
      PROVE  Script(call', Tail(xs))
  <2>1. Own(call', l)
    BY <1>1, <1>6, KeepsOwn
  <2>2. OpenScript(call', Tail(xs))
    BY <1>3, <1>6, <2>1 DEF OpenScript, Keeps
  <2> QED
    BY <2>2 DEF Script
<1>7. CASE call.step = "await" /\ xs = <<Ok, l>>
  <2>1. xs[1] = Ok /\ Tail(xs) = <<l>>
    BY <1>7
  <2>2. Goto(call, "result")
    BY <1>3, <1>7, <2>1, TakesOk
  <2>3. Keeps(call) /\ call'.step = "result" /\ call'.line = call.line
          /\ work' = work /\ trusted' = trusted /\ last' = NoReturn
    BY <1>3, <2>2, GotoFacts DEF Keeps
  <2> QED
    BY <1>3, <1>5, <2>1, <2>3 DEF Goes, OwnLine
<1>8. CASE call.step = "await" /\ xs = <<l, Ok>>
  <2>1. xs[1] = l /\ Tail(xs) = <<Ok>>
    BY <1>8
  <2>2. Goto(With(l), "tail")
    BY <1>2, <1>3, <1>8, <2>1, TakesOwn
  <2>3. Keeps(call) /\ call'.step = "tail" /\ call'.line = l
          /\ work' = work /\ trusted' = trusted /\ last' = NoReturn
    BY <1>3, <1>4, <2>2, GotoFacts DEF Keeps
  <2> QED
    BY <1>2, <1>6, <2>1, <2>3 DEF Goes, OwnLine
<1>9. ASSUME NEW c, c.api = "open", OwnLine(call, c), Judged(c), Tail(xs) = <<>>
      PROVE  Ends(Tail(xs))
  <2>1. PICK st : Return(c, st)
    BY <1>9 DEF Judged
  <2> QED
    BY <1>3, <1>9, <2>1 DEF Ends
<1>10. CASE call.step = "tail" /\ xs = <<Ok>>
  <2>1. xs[1] = Ok /\ Tail(xs) = <<>>
    BY <1>10
  <2>2. Judged(call)
    BY <1>3, <1>10, <2>1, TakesOk
  <2> QED
    BY <1>3, <1>9, <2>1, <2>2
<1>11. CASE call.step = "result" /\ xs = <<l>>
  <2>1. xs[1] = l /\ Tail(xs) = <<>>
    BY <1>11
  <2>2. Judged(With(l))
    BY <1>2, <1>3, <1>11, <2>1, TakesOwn
  <2>3. OwnLine(call, With(l))
    BY <1>2, <1>4 DEF OwnLine
  <2> QED
    BY <1>4, <1>9, <2>1, <2>2, <2>3
<1> QED
  BY <1>1, <1>7, <1>8, <1>10, <1>11

LEMMA ReadsQuery ==
    ASSUME NEW xs, Reads(xs), QueryScript(call, xs)
    PROVE  Goes(Tail(xs)) \/ Ends(Tail(xs))
<1>1. /\ call \in CallType /\ call.api \in {"state", "avail"} /\ call.step = "query"
      /\ Types /\ ~Idle /\ OwnLine(call, call)
      /\ Takes(xs[1]) \/ Waits(xs[1])
  BY DEF Reads, Types, QueryScript
<1>2. CASE xs = <<Ok>>
  <2>1. xs[1] = Ok /\ Tail(xs) = <<>>
    BY <1>2
  <2>2. Return(call, "PARSE") \/ Judged(call)
    BY <1>1, <2>1, TakesOk
  <2>3. \E st : Return(call, st)
    BY <1>1, <2>2 DEF Judged
  <2> QED
    BY <1>1, <2>1, <2>3 DEF Ends
<1>3. ASSUME NEW l, Own(call, l), xs = <<l, Ok>>
      PROVE  Goes(Tail(xs))
  <2>1. xs[1] = l /\ Tail(xs) = <<Ok>>
    BY <1>3
  <2>2. l \in LineType /\ l.kind = Prefix(call) /\ l.about = call.about
    BY <1>3 DEF Own
  <2>3. Goto(With(l), "query") \/ Waits(l)
    BY <1>1, <2>1, <2>2, TakesOwn
  <2>4. ASSUME Keeps(call), call'.step = "query" PROVE Script(call', Tail(xs))
    BY <1>1, <2>1, <2>4 DEF Script, QueryScript, Keeps
  <2>5. CASE Goto(With(l), "query")
    <3>1. /\ With(l) \in CallType /\ With(l).api = call.api /\ With(l).about = call.about
          /\ With(l).got = call.got /\ With(l).at = call.at
          /\ With(l).trusted = call.trusted /\ With(l).line = l
      BY <1>1, <2>2, WithFacts
    <3>2. /\ Keeps(call) /\ call'.step = "query" /\ call'.line = l
          /\ work' = work /\ trusted' = trusted /\ last' = NoReturn
      BY <2>5, <3>1, GotoFacts DEF Keeps
    <3> QED
      BY <2>2, <2>4, <3>2 DEF Goes, OwnLine
  <2>6. CASE Waits(l)
    BY <1>1, <2>4, <2>6 DEF Waits, Goes, Keeps, OwnLine
  <2> QED
    BY <2>3, <2>5, <2>6
<1> QED
  BY <1>2, <1>3 DEF QueryScript

LEMMA ReadsSend ==
    ASSUME NEW xs, Reads(xs), SendScript(call, xs)
    PROVE  Ends(Tail(xs))
<1>1. /\ call \in CallType /\ call.api = "send" /\ call.step = "result"
      /\ Types /\ ~Idle
      /\ Takes(xs[1]) \/ Waits(xs[1])
  BY DEF Reads, Types, SendScript
<1>2. PICK l : Own(call, l) /\ xs = <<l>>
  BY DEF SendScript
<1>3. xs[1] = l /\ Tail(xs) = <<>> /\ l \in LineType /\ l.kind = Prefix(call) /\ l.about = call.about
  BY <1>2 DEF Own
<1>4. Judged(With(l))
  BY <1>1, <1>3, TakesOwn
<1>5. With(l).api = "send" /\ With(l).line = l
  BY <1>1, <1>3, WithFacts
<1>6. PICK st : Return(With(l), st)
  BY <1>4, <1>5 DEF Judged
<1> QED
  BY <1>1, <1>3, <1>5, <1>6 DEF Ends, OwnLine

LEMMA ReadsFinal ==
    ASSUME NEW xs, Reads(xs), FinalScript(call, xs)
    PROVE  Ends(Tail(xs))
<1>1. /\ call \in CallType /\ call.step = "final" /\ xs[1] = Ok /\ Tail(xs) = <<>>
      /\ Types /\ ~Idle /\ OwnLine(call, call)
      /\ Takes(xs[1]) \/ Waits(xs[1])
      /\ call.api = "recv" => taken[call.about] = call.at + Len(call.got)
  BY DEF Reads, Types, FinalScript
<1>2. Return(call, "OK")
  BY <1>1, TakesOk
<1>3. call.api # "open"
  BY <1>1, CallFacts DEF StepsOf
<1> QED
  BY <1>1, <1>2, <1>3 DEF Ends

LEMMA ReadsPing ==
    ASSUME NEW xs, Reads(xs), PingScript(call, xs)
    PROVE  Goes(Tail(xs)) \/ Ends(Tail(xs))
<1>1. PICK r, s : /\ Own(call, r) /\ r.val = "reply"
                  /\ Own(call, s) /\ s.val \in {"summary", "failed"}
                  /\ \/ call.step = "await"  /\ (xs = <<Ok, r, s>> \/ xs = <<r, Ok, s>>)
                     \/ call.step = "tail"   /\ xs = <<Ok, s>> /\ call.line.val = "reply"
                     \/ call.step = "result" /\ (xs = <<r, s>> \/ xs = <<s>>)
                     \/ call.step = "result" /\ xs = <<Ok, s>> /\ ~call.sure
  BY DEF PingScript
<1>2. /\ r \in LineType /\ r.kind = Prefix(call) /\ r.about = call.about
      /\ s \in LineType /\ s.kind = Prefix(call) /\ s.about = call.about
  BY <1>1 DEF Own
<1>3. /\ call \in CallType /\ call.api = "ping"
      /\ Types /\ ~Idle /\ OwnLine(call, call)
      /\ Takes(xs[1]) \/ Waits(xs[1])
  BY DEF Reads, Types, PingScript
<1>4. \A l \in {r, s} :
         /\ With(l) \in CallType /\ With(l).api = "ping" /\ With(l).about = call.about
         /\ With(l).got = call.got /\ With(l).at = call.at
         /\ With(l).trusted = call.trusted /\ With(l).line = l
  BY <1>2, <1>3, WithFacts
<1>5. ASSUME Keeps(call), \/ call'.step = "result" /\ (Tail(xs) = <<r, s>> \/ Tail(xs) = <<s>>)
                          \/ /\ call'.step = "tail" /\ Tail(xs) = <<Ok, s>>
                             /\ call'.line.val = "reply"
      PROVE  Script(call', Tail(xs))
  <2>1. Own(call', r) /\ Own(call', s) /\ call'.api = "ping"
    BY <1>1, <1>3, <1>5, KeepsOwn DEF Keeps
  <2>2. PingScript(call', Tail(xs))
    BY <1>1, <1>5, <2>1 DEF PingScript
  <2> QED
    BY <2>2 DEF Script
\* A line that says "reply" is not the last one.
<1>6. ASSUME NEW c \in CallType, c.api = "ping", c.about = call.about, c.got = call.got,
             c.at = call.at, c.trusted = call.trusted, OwnLine(call, c),
             c.line.val = "reply", Judged(c), Tail(xs) = <<s>>
      PROVE  Goes(Tail(xs)) \/ Ends(Tail(xs))
  <2>1. CASE \E st : Return(c, st) /\ (st # "TIMEOUT" => c.line.val \in {"summary", "failed"})
    <3>1. PICK st : Return(c, st) /\ (st # "TIMEOUT" => c.line.val \in {"summary", "failed"})
      BY <2>1
    <3>2. st = "TIMEOUT"
      BY <1>6, <3>1
    <3> QED
      BY <1>3, <1>6, <3>1, <3>2 DEF Ends
  <2>2. CASE Goto([c EXCEPT !.seen = @ + 1], "result")
    <3> DEFINE d == [c EXCEPT !.seen = @ + 1]
    <3>1. d \in CallType
      BY <1>6, CallUpdates
    <3>2. /\ d.api = c.api /\ d.about = c.about /\ d.got = c.got /\ d.at = c.at
          /\ d.trusted = c.trusted /\ d.line = c.line
      BY <1>6 DEF CallType
    <3> HIDE DEF d
    <3>3. Goto(d, "result")
      BY <2>2 DEF d
    <3>4. /\ Keeps(call) /\ call'.step = "result" /\ call'.line = c.line
          /\ work' = work /\ trusted' = trusted /\ last' = NoReturn
      BY <1>3, <1>6, <3>1, <3>2, <3>3, GotoFacts DEF Keeps
    <3> QED
      BY <1>5, <1>6, <3>4 DEF Goes, OwnLine
  <2> QED
    BY <1>6, <2>1, <2>2 DEF Judged
\* Any other line is.
<1>7. ASSUME Judged(With(s)), Tail(xs) = <<>>
      PROVE  Ends(Tail(xs))
  <2>1. With(s).api = "ping" /\ With(s).line = s
    BY <1>4
  <2>2. PICK st : Return(With(s), st)
    BY <1>1, <1>7, <2>1 DEF Judged
  <2> QED
    BY <1>2, <1>3, <1>7, <2>1, <2>2 DEF Ends, OwnLine
<1>8. CASE call.step = "await" /\ xs = <<Ok, r, s>>
  <2>1. xs[1] = Ok /\ Tail(xs) = <<r, s>>
    BY <1>8
  <2>2. Goto(call, "result")
    BY <1>3, <1>8, <2>1, TakesOk
  <2>3. Keeps(call) /\ call'.step = "result" /\ call'.line = call.line
          /\ work' = work /\ trusted' = trusted /\ last' = NoReturn
    BY <1>3, <2>2, GotoFacts DEF Keeps
  <2> QED
    BY <1>3, <1>5, <2>1, <2>3 DEF Goes, OwnLine
<1>9. CASE call.step = "await" /\ xs = <<r, Ok, s>>
  <2>1. xs[1] = r /\ Tail(xs) = <<Ok, s>>
    BY <1>9
  <2>2. Goto(With(r), "tail")
    BY <1>2, <1>3, <1>9, <2>1, TakesOwn
  <2>3. Keeps(call) /\ call'.step = "tail" /\ call'.line = r
          /\ work' = work /\ trusted' = trusted /\ last' = NoReturn
    BY <1>3, <1>4, <2>2, GotoFacts DEF Keeps
  <2> QED
    BY <1>1, <1>2, <1>5, <2>1, <2>3 DEF Goes, OwnLine
<1>10. CASE call.step = "tail" /\ xs = <<Ok, s>> /\ call.line.val = "reply"
  <2>1. xs[1] = Ok /\ Tail(xs) = <<s>>
    BY <1>10
  <2>2. Judged(call)
    BY <1>3, <1>10, <2>1, TakesOk
  <2> QED
    BY <1>3, <1>6, <1>10, <2>1, <2>2
<1>11. CASE call.step = "result" /\ xs = <<r, s>>
  <2>1. xs[1] = r /\ Tail(xs) = <<s>>
    BY <1>11
  <2>2. Judged(With(r))
    BY <1>2, <1>3, <1>11, <2>1, TakesOwn
  <2>3. OwnLine(call, With(r)) /\ With(r).line.val = "reply"
    BY <1>1, <1>2, <1>4 DEF OwnLine
  <2> QED
    BY <1>4, <1>6, <2>1, <2>2, <2>3
<1>12. CASE call.step = "result" /\ xs = <<s>>
  <2>1. xs[1] = s /\ Tail(xs) = <<>>
    BY <1>12
  <2>2. Judged(With(s))
    BY <1>2, <1>3, <1>12, <2>1, TakesOwn
  <2> QED
    BY <1>7, <2>1, <2>2
<1>13. CASE call.step = "result" /\ xs = <<Ok, s>>
  <2>1. xs[1] = Ok /\ Tail(xs) = <<s>>
    BY <1>13
  <2>2. Waits(Ok)
    BY <1>3, <1>13, <2>1, TakesOk
  <2>3. Keeps(call) /\ call'.step = "result" /\ call'.line = call.line
          /\ work' = work /\ trusted' = trusted /\ last' = NoReturn
    BY <1>13, <2>2 DEF Waits, Keeps
  <2> QED
    BY <1>3, <1>5, <2>1, <2>3 DEF Goes, OwnLine
<1> QED
  BY <1>1, <1>8, <1>9, <1>10, <1>11, <1>12, <1>13

LEMMA ReadsScript ==
    ASSUME NEW xs, Reads(xs), Script(call, xs)
    PROVE  Goes(Tail(xs)) \/ Ends(Tail(xs))
BY ReadsError, ReadsOpen, ReadsPing, ReadsQuery, ReadsSend, ReadsFinal DEF Script

-----------------------------------------------------------------------------
(* What a trusted call finds *)

\* n bytes of a from b on, after the first p lines, then OK, then nothing.
Rest(p, n, a, b) ==
    /\ p + n + 1 <= Len(stream)
    /\ \A j \in 1..n : stream[p + j] = Data(a, b + j)
    /\ stream[p + n + 1] = Ok
    /\ \A k \in 1..Len(stream) : k > p + n + 1 => stream[k] = Text

\* The command has not been read yet.
Asked == /\ work = <<Cmd(call.api, call.about, call.len)>> /\ sink = None /\ ToCome(<<>>)
         /\ call.step = FirstStep(call.api)
         /\ call.api = "recv" => call.at = taken[call.about] /\ call.got = <<>>
\* It has been answered, and perhaps a part of the answer read.
Answered == work = <<>> /\ sink = None /\ \E xs \in Seq(LineType) : ToCome(xs) /\ Script(call, xs)
Resolving ==
    LET Fine(l) == l \in {Ok, Error} \/ Own(call, l)
    IN  /\ work = <<>> /\ sink = None /\ call.api = "dns"
        /\ \A k \in 1..Len(stream) : stream[k] = Text \/ Fine(stream[k])
        /\ \A z \in jobs : \A k \in 1..Len(z) : Fine(z[k])
\* A send has to write, or has written, its payload.
Sending == /\ call.api = "send" /\ sink = call.about
           /\ \/ call.step = "prompt" /\ work = <<>> /\ ToCome(<<Prompt>>)
              \/ call.step = "result" /\ work = <<Payload>> /\ ToCome(<<>>)
\* The answer to a recv, from its header on and from a byte on.
HeaderAhead ==
    /\ call.step = "header"
    /\ \E p \in Nat \ {0}, n \in 0..call.len :
          /\ Rest(p, n, call.about, call.at) /\ taken[call.about] = call.at + n
          /\ stream[p] = Header(call.about, n)
          /\ \A k \in 1..(p - 1) : stream[k] = Text
DataAhead ==
    /\ call.step = "data"
    /\ \E n \in Nat \ {0} :
          /\ n = call.len - Len(call.got) /\ taken[call.about] = call.at + call.len
          /\ Rest(0, n, call.about, call.at + Len(call.got))
Receiving == /\ work = <<>> /\ sink = None /\ jobs = {} /\ call.api = "recv"
             /\ HeaderAhead \/ DataAhead

Expects ==
    /\ OwnLine(call, call)
    /\ call.api = "recv" =>
          \A k \in 1..Len(call.got) : call.got[k] = Data(call.about, call.at + k)
    /\ Asked \/ Answered \/ Resolving \/ Sending \/ Receiving
TrustInv ==
    /\ ~Idle => call.trusted = trusted
    /\ Idle /\ trusted => Quiet
    /\ call.trusted => Expects

LEMMA QuietToCome ==
    ASSUME Types
    PROVE  Quiet <=> work = <<>> /\ sink = None /\ ToCome(<<>>)
BY ToComeNothing DEF Quiet

\* The end of a call, the only thing that has to be shown is that nothing is left.
LEMMA ReturnTrust ==
    ASSUME TrustInv, ~Idle, NEW c, NEW st, Return(c, st),
           call.trusted /\ st \in {"OK", "MODULE"} /\ c.sure /\ c.api # "dns" => Quiet'
    PROVE  TrustInv'
<1>1. /\ call' = NoCall /\ trusted' = (trusted /\ st \in {"OK", "MODULE"} /\ c.sure /\ c.api # "dns")
      /\ call.trusted = trusted
  BY DEF Return, TrustInv
<1>2. Idle' /\ call'.trusted = FALSE
  BY <1>1 DEF Idle, NoCall
<1>3. trusted' => Quiet'
  BY <1>1
<1> QED
  BY <1>2, <1>3 DEF TrustInv

\* Steps that leave the call alone.
LEMMA KeptTrust ==
    ASSUME TrustInv, UNCHANGED <<call, trusted>>,
           Idle /\ trusted => Quiet', call.trusted => Expects'
    PROVE  TrustInv'
BY DEF TrustInv, Idle

LEMMA NotIdle ==
    ASSUME Types, call.trusted
    PROVE  ~Idle /\ call \in CallType /\ call.api # "none" /\ call.api \in Apis
BY CallFacts DEF Types, Idle, NoCall

LEMMA RestText ==
    ASSUME Types, NEW p \in Nat, NEW n \in Nat, NEW a, NEW b, Rest(p, n, a, b),
           stream' \in {stream, Append(stream, Text)}
    PROVE  Rest(p, n, a, b)' /\ \A k \in 1..(p + n + 1) : stream'[k] = stream[k]
<1>1. /\ stream \in Seq(LineType) /\ Len(stream) \in Nat
      /\ Len(Append(stream, Text)) = Len(stream) + 1
      /\ Append(stream, Text)[Len(stream) + 1] = Text
      /\ \A i \in 1..Len(stream) : Append(stream, Text)[i] = stream[i]
  BY LineFacts, AppendFacts DEF Types
<1>2. CASE stream' = stream
  BY <1>2 DEF Rest
<1>3. CASE stream' = Append(stream, Text)
  <2>1. /\ Len(stream') = Len(stream) + 1 /\ stream'[Len(stream) + 1] = Text
        /\ \A i \in 1..Len(stream) : stream'[i] = stream[i]
    BY <1>1, <1>3
  <2>2. p + n + 1 <= Len(stream)
    BY DEF Rest
  <2>3. \A k \in 1..(p + n + 1) : k \in 1..Len(stream) /\ stream'[k] = stream[k]
    <3>1. \A k \in 1..(p + n + 1) : k \in 1..Len(stream)
      BY <1>1, <2>2
    <3> QED
      BY <2>1, <3>1
  <2>4. ASSUME NEW j \in 1..n PROVE stream'[p + j] = Data(a, b + j)
    <3>1. p + j \in 1..(p + n + 1)
      OBVIOUS
    <3> QED
      BY <2>3, <3>1 DEF Rest
  <2>5. p + n + 1 <= Len(stream') /\ stream'[p + n + 1] = Ok
    <3>1. p + n + 1 \in 1..(p + n + 1)
      OBVIOUS
    <3> QED
      BY <1>1, <2>1, <2>2, <2>3, <3>1 DEF Rest
  <2>6. ASSUME NEW k \in 1..Len(stream'), k > p + n + 1 PROVE stream'[k] = Text
    <3>1. k \in 1..Len(stream) \/ k = Len(stream) + 1
      BY <1>1, <2>1
    <3> QED
      BY <2>1, <2>6, <3>1 DEF Rest
  <2> QED
    BY <2>3, <2>4, <2>5, <2>6 DEF Rest
<1> QED
  BY <1>2, <1>3

LEMMA RestTail ==
    ASSUME Types, NEW p \in Nat \ {0}, NEW n \in Nat, NEW a, NEW b, Rest(p, n, a, b),
           stream' = Tail(stream)
    PROVE  Rest(p - 1, n, a, b)' /\ \A k \in 1..p : k > 1 => stream'[k - 1] = stream[k]
<1>1. p + n + 1 <= Len(stream) /\ stream \in Seq(LineType) /\ Len(stream) \in Nat
  BY DEF Rest, Types
<1>2. stream # <<>>
  BY <1>1
<1>3. /\ Len(stream') = Len(stream) - 1
      /\ \A i \in 1..(Len(stream) - 1) : stream'[i] = stream[i + 1]
  BY <1>1, <1>2, TailFacts
<1> DEFINE q == p - 1
<1>4. q \in Nat /\ q + 1 = p
  OBVIOUS
<1>5. ASSUME NEW j \in 1..n PROVE stream'[q + j] = Data(a, b + j)
  <2>1. q + j \in 1..(Len(stream) - 1) /\ (q + j) + 1 = p + j
    BY <1>1, <1>4
  <2> QED
    BY <1>3, <2>1 DEF Rest
<1>6. q + n + 1 <= Len(stream') /\ stream'[q + n + 1] = Ok
  <2>1. q + n + 1 \in 1..(Len(stream) - 1) /\ (q + n + 1) + 1 = p + n + 1
    BY <1>1, <1>4
  <2> QED
    BY <1>1, <1>3, <1>4, <2>1 DEF Rest
<1>7. ASSUME NEW k \in 1..Len(stream'), k > q + n + 1 PROVE stream'[k] = Text
  <2>1. k \in 1..(Len(stream) - 1) /\ k + 1 \in 1..Len(stream) /\ k + 1 > p + n + 1
    BY <1>1, <1>3, <1>4, <1>7
  <2> QED
    BY <1>3, <2>1 DEF Rest
<1>8. ASSUME NEW k \in 1..p, k > 1 PROVE stream'[k - 1] = stream[k]
  <2>1. k - 1 \in 1..(Len(stream) - 1) /\ (k - 1) + 1 = k
    BY <1>1, <1>8
  <2> QED
    BY <1>3, <2>1
<1> QED
  BY <1>5, <1>6, <1>7, <1>8 DEF Rest

\* One byte further.
LEMMA RestByte ==
    ASSUME Types, NEW n \in Nat \ {0}, NEW a, NEW b \in Nat, Rest(0, n, a, b),
           stream' = Tail(stream)
    PROVE  Rest(0, n - 1, a, b + 1)' /\ stream[1] = Data(a, b + 1)
<1>1. 0 + n + 1 <= Len(stream) /\ stream \in Seq(LineType) /\ Len(stream) \in Nat
  BY DEF Rest, Types
<1>2. stream # <<>>
  BY <1>1
<1>3. /\ Len(stream') = Len(stream) - 1
      /\ \A i \in 1..(Len(stream) - 1) : stream'[i] = stream[i + 1]
  BY <1>1, <1>2, TailFacts
<1>4. /\ \A j \in 1..n : stream[0 + j] = Data(a, b + j)
      /\ stream[0 + n + 1] = Ok
      /\ \A k \in 1..Len(stream) : k > 0 + n + 1 => stream[k] = Text
  BY DEF Rest
<1>5. stream[1] = Data(a, b + 1)
  <2>1. 1 \in 1..n /\ 0 + 1 = 1
    OBVIOUS
  <2> QED
    BY <1>4, <2>1
<1>6. ASSUME NEW j \in 1..(n - 1) PROVE stream'[0 + j] = Data(a, (b + 1) + j)
  <2>1. /\ j \in 1..(Len(stream) - 1) /\ j + 1 \in 1..n /\ 0 + j = j /\ 0 + (j + 1) = j + 1
        /\ b + (j + 1) = (b + 1) + j
    BY <1>1
  <2> QED
    BY <1>3, <1>4, <2>1
<1>7. 0 + (n - 1) + 1 <= Len(stream') /\ stream'[0 + (n - 1) + 1] = Ok
  <2>1. n \in 1..(Len(stream) - 1) /\ 0 + (n - 1) + 1 = n /\ 0 + n + 1 = n + 1
    BY <1>1
  <2> QED
    BY <1>1, <1>3, <1>4, <2>1
<1>8. ASSUME NEW k \in 1..Len(stream'), k > 0 + (n - 1) + 1 PROVE stream'[k] = Text
  <2>1. k \in 1..(Len(stream) - 1) /\ k + 1 \in 1..Len(stream) /\ k + 1 > 0 + n + 1
    BY <1>1, <1>3, <1>8
  <2> QED
    BY <1>3, <1>4, <2>1
<1> QED
  BY <1>5, <1>6, <1>7, <1>8 DEF Rest

\* Nothing but the OK is left.
LEMMA OkLeft ==
    ASSUME stream' \in Seq(LineType), jobs' = {}, 1 <= Len(stream'), stream'[1] = Ok,
           \A k \in 1..Len(stream') : k > 1 => stream'[k] = Text
    PROVE  ToCome(<<Ok>>)' /\ <<Ok>> \in Seq(LineType)
<1> DEFINE f == [i \in 1..1 |-> 1]
           xs == <<Ok>>
<1>1. Len(stream') \in Nat
  OBVIOUS
<1>2. f \in [1..1 -> 1..Len(stream')] /\ f[1] = 1
  BY <1>1
<1>3. /\ xs \in Seq(LineType) /\ Len(xs) = 1 /\ xs[1] = Ok /\ 1..1 = {1}
      /\ <<>> \in Seq(LineType) /\ xs = xs \o <<>>
  BY LineFacts
<1> HIDE DEF f, xs
<1>4. Plays(stream', xs)
  BY <1>1, <1>2, <1>3 DEF Plays
<1>5. NoText(xs)
  BY <1>3, LineFacts DEF NoText
<1>6. ToCome(xs)'
  BY <1>3, <1>4, <1>5 DEF ToCome
<1> QED
  BY <1>3, <1>6 DEF xs

LEMMA SilentText ==
    ASSUME NEW s \in Seq(LineType), NEW t \in {s, Append(s, Text)},
           \A k \in 1..Len(s) : s[k] = Text
    PROVE  \A k \in 1..Len(t) : t[k] = Text
<1>1. /\ Len(s) \in Nat /\ Len(Append(s, Text)) = Len(s) + 1
      /\ Append(s, Text)[Len(s) + 1] = Text
      /\ \A i \in 1..Len(s) : Append(s, Text)[i] = s[i]
  BY LineFacts, AppendFacts
<1>2. \A k \in 1..(Len(s) + 1) : k \in 1..Len(s) \/ k = Len(s) + 1
  BY <1>1
<1> QED
  BY <1>1, <1>2

LEMMA ScriptKept ==
    ASSUME Types, ~Idle, NEW xs, Script(call, xs), call' = call, taken' = taken,
           \A c \in Conns : conn'[c] = "idle" <=> conn[c] = "idle"
    PROVE  Script(call, xs)'
<1>1. call \in CallType /\ (call.api = "open" => call.about \in Conns)
  BY CallFacts DEF Types, ConnApis
<1>2. OpenScript(call, xs) => OpenScript(call, xs)'
  BY <1>1, Zenon DEF OpenScript, Own, Prefix
<1>3. PingScript(call, xs) => PingScript(call, xs)'
  <2>1. \A l : Own(call, l) => Own(call, l)'
    BY DEF Own, Prefix
  <2> QED
    BY <2>1, Zenon DEF PingScript
<1>4. QueryScript(call, xs) => QueryScript(call, xs)'
  BY Zenon DEF QueryScript, Own, Prefix
<1>5. SendScript(call, xs) => SendScript(call, xs)'
  BY Zenon DEF SendScript, Own, Prefix
<1>6. FinalScript(call, xs) => FinalScript(call, xs)'
  BY Zenon DEF FinalScript
<1> QED
  BY <1>2, <1>3, <1>4, <1>5, <1>6, Zenon DEF Script

LEMMA KeptExpects ==
    ASSUME call.trusted, Expects, call' = call,
           (Asked \/ Answered \/ Resolving \/ Sending \/ Receiving)'
    PROVE  Expects'
BY DEF Expects, OwnLine

\* Nothing, or an unsolicited line.
LEMMA TextTrust ==
    ASSUME TrustInv, Types, Types', stream' \in {stream, Append(stream, Text)},
           UNCHANGED <<work, jobs, taken, sink, call, trusted>>,
           \A c \in Conns : conn'[c] = "idle" <=> conn[c] = "idle"
    PROVE  TrustInv'
<1>1. Types' /\ stream' \in {stream, Append(stream, Text)}
  OBVIOUS
<1>2. UNCHANGED <<work, jobs, taken, sink, call, trusted>>
  OBVIOUS
<1>3. \A c \in Conns : conn'[c] = "idle" <=> conn[c] = "idle"
  OBVIOUS
<1>4. ASSUME NEW xs, ToCome(xs) PROVE ToCome(xs)'
  BY <1>1, <1>2, <1>4, ToComePeer
<1>5. ASSUME Idle, trusted PROVE Quiet'
  <2>1. Quiet
    BY <1>5 DEF TrustInv
  <2>2. \A k \in 1..Len(stream') : stream'[k] = Text
    BY <1>1, <2>1, SilentText DEF Quiet, Types
  <2> QED
    BY <1>2, <2>1, <2>2 DEF Quiet
<1>6. ASSUME call.trusted PROVE Expects'
  <2>1. ~Idle /\ call \in CallType /\ Expects
    BY <1>6, NotIdle DEF TrustInv
  <2>2. CASE Asked
    BY <1>2, <1>4, <1>6, <2>1, <2>2, KeptExpects DEF Asked
  <2>3. CASE Answered
    <3>1. PICK xs \in Seq(LineType) : ToCome(xs) /\ Script(call, xs)
      BY <2>3 DEF Answered
    <3>2. ToCome(xs)' /\ Script(call, xs)'
      BY <1>2, <1>3, <1>4, <2>1, <3>1, ScriptKept
    <3>3. Answered'
      BY <1>2, <2>3, <3>2 DEF Answered
    <3> QED
      BY <1>2, <1>6, <2>1, <3>3, KeptExpects
  <2>4. CASE Resolving
    <3> DEFINE Fine(l) == l \in {Ok, Error} \/ Own(call, l)
    <3>1. /\ work = <<>> /\ sink = None /\ call.api = "dns"
          /\ \A k \in 1..Len(stream) : stream[k] = Text \/ Fine(stream[k])
          /\ \A z \in jobs : \A k \in 1..Len(z) : Fine(z[k])
      BY <2>4 DEF Resolving
    <3>2. \A l : Fine(l) => Fine(l)'
      BY <1>2 DEF Own, Prefix
    <3> HIDE DEF Fine
    <3>3. \A k \in 1..Len(stream') : stream'[k] = Text \/ Fine(stream'[k])
      <4>1. /\ stream \in Seq(LineType) /\ Len(stream) \in Nat
            /\ Len(Append(stream, Text)) = Len(stream) + 1
            /\ Append(stream, Text)[Len(stream) + 1] = Text
            /\ \A i \in 1..Len(stream) : Append(stream, Text)[i] = stream[i]
        BY LineFacts, AppendFacts DEF Types
      <4>2. CASE stream' = stream
        BY <3>1, <4>2
      <4>3. CASE stream' = Append(stream, Text)
        <5>1. ASSUME NEW k \in 1..Len(stream') PROVE stream'[k] = Text \/ Fine(stream'[k])
          <6>1. k \in 1..Len(stream) \/ k = Len(stream) + 1
            BY <4>1, <4>3
          <6> QED
            BY <3>1, <4>1, <4>3, <6>1
        <5> QED
          BY <5>1
      <4> QED
        BY <1>1, <4>2, <4>3
    <3>4. Resolving'
      BY <1>2, <3>1, <3>2, <3>3 DEF Resolving, Fine
    <3> QED
      BY <1>2, <1>6, <2>1, <3>4, KeptExpects
  <2>5. CASE Sending
    <3>1. Sending'
      BY <1>2, <1>4, <2>5 DEF Sending
    <3> QED
      BY <1>2, <1>6, <2>1, <3>1, KeptExpects
  <2>6. CASE Receiving /\ HeaderAhead
    <3>1. PICK p \in Nat \ {0}, n \in 0..call.len :
             /\ Rest(p, n, call.about, call.at) /\ taken[call.about] = call.at + n
             /\ stream[p] = Header(call.about, n)
             /\ \A k \in 1..(p - 1) : stream[k] = Text
      BY <2>6 DEF HeaderAhead
    <3>2. n \in Nat
      BY <2>1, CallFacts
    <3>3. Rest(p, n, call.about, call.at)' /\ \A k \in 1..(p + n + 1) : stream'[k] = stream[k]
      <4> DEFINE a == call.about
                 b == call.at
      <4>1. a' = a /\ b' = b
        BY <1>2
      <4>2. Rest(p, n, a, b)
        BY <3>1
      <4> HIDE DEF a, b
      <4>3. ASSUME NEW x, NEW y, Rest(p, n, x, y)
            PROVE  /\ p + n + 1 <= Len(stream')
                   /\ \A j \in 1..n : stream'[p + j] = Data(x, y + j)
                   /\ stream'[p + n + 1] = Ok
                   /\ \A k \in 1..Len(stream') : k > p + n + 1 => stream'[k] = Text
                   /\ \A k \in 1..(p + n + 1) : stream'[k] = stream[k]
        <5>1. Rest(p, n, x, y)' /\ \A k \in 1..(p + n + 1) : stream'[k] = stream[k]
          BY <1>1, <3>2, <4>3, RestText
        <5> QED
          BY <5>1 DEF Rest
      <4> QED
        BY <4>1, <4>2, <4>3 DEF Rest, a, b
    <3>4. /\ stream'[p] = Header(call.about, n)
          /\ \A k \in 1..(p - 1) : stream'[k] = Text
      <4>1. p \in 1..(p + n + 1) /\ \A k \in 1..(p - 1) : k \in 1..(p + n + 1)
        BY <3>2
      <4> QED
        BY <3>1, <3>3, <4>1
    <3>5. HeaderAhead'
      BY <1>2, <2>6, <3>1, <3>3, <3>4 DEF HeaderAhead, Header
    <3>6. Receiving'
      BY <1>2, <2>6, <3>5 DEF Receiving
    <3> QED
      BY <1>2, <1>6, <2>1, <3>6, KeptExpects
  <2>7. CASE Receiving /\ DataAhead
    <3> DEFINE n == call.len - Len(call.got)
               a == call.about
               b == call.at + Len(call.got)
    <3>1. n \in Nat \ {0} /\ taken[a] = call.at + call.len /\ Rest(0, n, a, b) /\ call.step = "data"
      BY <2>7 DEF DataAhead
    <3>2. n' = n /\ a' = a /\ b' = b
      BY <1>2
    <3> HIDE DEF n, a, b
    <3>3. 0 + n + 1 <= Len(stream') /\ (\A j \in 1..n : stream'[0 + j] = Data(a, b + j))
            /\ stream'[0 + n + 1] = Ok
            /\ (\A k \in 1..Len(stream') : k > 0 + n + 1 => stream'[k] = Text)
      BY <1>1, <3>1, RestText DEF Rest
    <3>4. Rest(0, n, a, b)'
      BY <3>2, <3>3 DEF Rest
    <3>5. DataAhead'
      BY <1>2, <3>1, <3>2, <3>4 DEF DataAhead, n, a, b
    <3>6. Receiving'
      BY <1>2, <2>7, <3>5 DEF Receiving
    <3> QED
      BY <1>2, <1>6, <2>1, <3>6, KeptExpects
  <2> QED
    BY <2>1, <2>2, <2>3, <2>4, <2>5, <2>6, <2>7 DEF Expects, Receiving
<1> QED
  BY <1>2, <1>5, <1>6, KeptTrust

LEMMA PeerTrust ==
    ASSUME TrustInv, Types, PeerActs
    PROVE  TrustInv'
<1>1. Types' /\ stream' \in {stream, Append(stream, Text)}
  BY PeerTypes
<1>2. UNCHANGED <<work, jobs, taken, sink, call, trusted>>
  BY DEF PeerActs, Elsewhere
<1>3. \A c \in Conns : conn'[c] = "idle" <=> conn[c] = "idle"
  <2>1. PICK c \in Conns : /\ conn[c] = "open"
                           /\ UNCHANGED conn \/ conn' = [conn EXCEPT ![c] = "dead"]
    BY DEF PeerActs
  <2> QED
    BY <2>1 DEF Types
<1> QED
  BY <1>1, <1>2, <1>3, TextTrust

LEMMA AnnounceTrust ==
    ASSUME TrustInv, Types, ModuleAnnounces
    PROVE  TrustInv'
<1>1. PICK job \in jobs :
         /\ stream' = stream \o <<Head(job)>> /\ conn' = Announced(conn, Head(job))
         /\ jobs' = (jobs \ {job}) \cup (IF Len(job) = 1 THEN {} ELSE {Tail(job)})
         /\ UNCHANGED <<work, sent, taken, sink>> /\ UNCHANGED <<call, trusted>>
  BY DEF ModuleAnnounces, Reply, Elsewhere
<1>2. /\ job \in Seq(LineType) /\ job # <<>> /\ Head(job) = job[1] /\ job[1] \in LineType
      /\ Len(job) \in Nat \ {0} /\ Tail(job) \in Seq(LineType)
      /\ Len(Tail(job)) = Len(job) - 1
      /\ \A i \in 1..(Len(job) - 1) : Tail(job)[i] = job[i + 1]
  BY TailFacts DEF Types, JobType
<1>3. \A c \in Conns : conn'[c] = "idle" <=> conn[c] = "idle"
  <2>1. conn \in [Conns -> States] /\ Head(job) \in LineType
    BY <1>2 DEF Types, States
  <2>2. \A c \in Conns : Announced(conn, Head(job))[c] = "idle" <=> conn[c] = "idle"
    BY <2>1, AnnouncedFacts, Zenon
  <2> QED
    BY <1>1, <2>2
<1>4. ASSUME NEW xs, ToCome(xs) PROVE ToCome(xs)'
  BY <1>1, <1>4, ToComeAnnounce
<1>5. jobs # {} /\ ~ToCome(<<>>) /\ ~Quiet
  BY <1>1, ToComeNothing DEF Quiet
<1>6. ASSUME call.trusted PROVE Expects'
  <2>1. ~Idle /\ call \in CallType /\ Expects
    BY <1>6, NotIdle DEF TrustInv
  <2>2. CASE Answered
    <3>1. PICK xs \in Seq(LineType) : ToCome(xs) /\ Script(call, xs)
      BY <2>2 DEF Answered
    <3>2. ToCome(xs)' /\ Script(call, xs)'
      BY <1>1, <1>3, <1>4, <2>1, <3>1, ScriptKept
    <3>3. Answered'
      BY <1>1, <2>2, <3>2 DEF Answered
    <3> QED
      BY <1>1, <1>6, <2>1, <3>3, KeptExpects
  <2>3. CASE Resolving
    <3> DEFINE Fine(l) == l \in {Ok, Error} \/ Own(call, l)
    <3>1. /\ work = <<>> /\ sink = None /\ call.api = "dns"
          /\ \A k \in 1..Len(stream) : stream[k] = Text \/ Fine(stream[k])
          /\ \A z \in jobs : \A k \in 1..Len(z) : Fine(z[k])
      BY <2>3 DEF Resolving
    <3>2. \A l : Fine(l) => Fine(l)'
      BY <1>1 DEF Own, Prefix
    <3> HIDE DEF Fine
    <3>3. Fine(job[1]) /\ \A k \in 1..Len(Tail(job)) : Fine(Tail(job)[k])
      <4>1. 1 \in 1..Len(job) /\ \A k \in 1..(Len(job) - 1) : k + 1 \in 1..Len(job)
        BY <1>2
      <4> QED
        BY <1>2, <3>1, <4>1
    <3>4. \A k \in 1..Len(stream') : stream'[k] = Text \/ Fine(stream'[k])
      <4>1. stream' = Append(stream, job[1]) /\ stream \in Seq(LineType)
        BY <1>1, <1>2 DEF Types
      <4>2. /\ Len(stream) \in Nat /\ Len(stream') = Len(stream) + 1
            /\ stream'[Len(stream) + 1] = job[1]
            /\ \A i \in 1..Len(stream) : stream'[i] = stream[i]
        BY <1>2, <4>1, AppendFacts
      <4>3. ASSUME NEW k \in 1..Len(stream') PROVE stream'[k] = Text \/ Fine(stream'[k])
        <5>1. k \in 1..Len(stream) \/ k = Len(stream) + 1
          BY <4>2
        <5> QED
          BY <3>1, <3>3, <4>2, <5>1
      <4> QED
        BY <4>3
    <3>5. \A z \in jobs' : \A k \in 1..Len(z) : Fine(z[k])
      BY <1>1, <3>1, <3>3
    <3>6. Resolving'
      BY <1>1, <3>1, <3>2, <3>4, <3>5 DEF Resolving, Fine
    <3> QED
      BY <1>1, <1>6, <2>1, <3>6, KeptExpects
  <2>4. CASE Sending
    <3>1. Sending'
      BY <1>1, <1>4, <1>5, <2>4 DEF Sending
    <3> QED
      BY <1>1, <1>6, <2>1, <3>1, KeptExpects
  <2>5. ~Asked /\ ~Receiving
    BY <1>5 DEF Asked, Receiving
  <2> QED
    BY <2>1, <2>2, <2>3, <2>4, <2>5 DEF Expects
<1> QED
  BY <1>1, <1>5, <1>6, KeptTrust DEF TrustInv

LEMMA PollTrust ==
    ASSUME TrustInv, Types, Poll
    PROVE  TrustInv'
<1>1. /\ Idle /\ stream # <<>> /\ stream' = RestOf(stream)
      /\ UNCHANGED <<work, jobs, module, call, trusted>>
  BY PollFacts
<1>2. ASSUME trusted PROVE Quiet'
  <2>1. Quiet
    BY <1>1, <1>2 DEF TrustInv
  <2>2. PICK d \in 1..Len(stream) : Drops(stream, RestOf(stream), d)
    BY <1>1, HeadFacts
  <2>3. stream' \in Seq(LineType) /\ Len(stream) \in Nat
    BY <1>1, HeadFacts DEF Types
  <2>4. ASSUME NEW k \in 1..Len(stream') PROVE stream'[k] = Text
    <3>1. Len(stream') = Len(stream) - d /\ stream'[k] = stream[k + d]
      BY <1>1, <2>2 DEF Drops
    <3>2. k + d \in 1..Len(stream)
      BY <2>3, <3>1
    <3> QED
      BY <2>1, <3>1, <3>2 DEF Quiet
  <2> QED
    BY <1>1, <2>1, <2>4 DEF Quiet, module
<1>3. call.trusted = FALSE
  BY <1>1 DEF Idle, NoCall
<1> QED
  BY <1>1, <1>2, <1>3, KeptTrust

LEMMA StartTrust ==
    ASSUME TrustInv, Types, StartConn \/ StartQuery \/ StartHost
    PROVE  TrustInv'
<1>1. PICK api \in ConnApis \cup {"dns", "ping"}, about \in Conns \cup Hosts, len \in Nat :
         Cmd(api, about, len) \in CmdType /\ Asks(api, about, len)
  BY StartFacts
<1>2. /\ Types' /\ call'.api = api /\ call'.about = about /\ call'.len = len
      /\ call'.step = FirstStep(api) /\ call'.line = None /\ call'.got = <<>>
      /\ call'.trusted = trusted'
      /\ call'.at = IF about \in Conns THEN taken[about] ELSE 0
  BY <1>1, AsksTypes
<1>3. /\ Idle /\ trusted' = (trusted \/ Quiet) /\ UNCHANGED <<jobs, stream, module>>
      /\ work' = Append(work, Cmd(api, about, len))
  BY <1>1 DEF Asks, Idle
<1>4. ~Idle'
  BY <1>2 DEF Idle, NoCall, ConnApis
<1>5. ASSUME trusted' PROVE Expects'
  <2>1. Quiet
    BY <1>3, <1>5 DEF TrustInv
  <2>2. ToCome(<<>>) /\ work = <<>> /\ sink = None
    BY <2>1, QuietToCome
  <2>3. work' = <<Cmd(api, about, len)>> /\ sink' = None
    BY <1>3, <2>2 DEF module
  <2>4. ToCome(<<>>)'
    BY <1>3, <2>2 DEF ToCome
  <2>5. api = "recv" => about \in Conns
    BY <1>1 DEF Cmd, CmdType, ConnApis, Payload
  <2>6. Asked'
    BY <1>2, <1>3, <2>3, <2>4, <2>5 DEF Asked, module
  <2>7. OwnLine(call, call)' /\ Len(call'.got) = 0
    BY <1>2 DEF OwnLine
  <2> QED
    BY <2>6, <2>7 DEF Expects
<1> QED
  BY <1>2, <1>4, <1>5 DEF TrustInv

LEMMA ReadRawTrust ==
    ASSUME TrustInv, Types, ReadRaw
    PROVE  TrustInv'
<1>1. /\ call.api = "recv" /\ call.step = "data" /\ stream # <<>>
      /\ UNCHANGED <<jobs, module, work, trusted>>
      /\ stream[1].kind = "DATA" => stream' = Tail(stream)
      /\ call'.got = Append(call.got, IF stream[1].kind = "DATA" THEN stream[1] ELSE Junk)
      /\ call'.step = IF Len(call'.got) = call.len THEN "final" ELSE "data"
      /\ call' = [call EXCEPT !.got = call'.got, !.step = call'.step]
      /\ Types'
  BY ReadRawFacts
<1>2. call \in CallType /\ call.got \in Seq(LineType) /\ call.len \in Nat /\ call.at \in Nat
  BY CallFacts DEF Types
<1>3. /\ call'.api = "recv" /\ call'.about = call.about /\ call'.at = call.at
      /\ call'.len = call.len /\ call'.line = call.line /\ call'.trusted = call.trusted
  BY <1>1, <1>2 DEF CallType
<1>4. ~Idle /\ ~Idle'
  BY <1>1, <1>3 DEF Idle, NoCall
<1>5. ASSUME call.trusted PROVE Expects'
  <2>1. Expects
    BY <1>5 DEF TrustInv
  <2>2. Receiving /\ DataAhead
    <3>1. ~Asked
      BY <1>1 DEF Asked, FirstStep
    <3>2. ~Answered
      BY <1>1 DEF Answered, Script, OpenScript, PingScript, QueryScript, SendScript,
                  FinalScript, FirstStep
    <3>3. ~Resolving /\ ~Sending /\ ~HeaderAhead
      BY <1>1 DEF Resolving, Sending, HeaderAhead
    <3> QED
      BY <2>1, <3>1, <3>2, <3>3 DEF Expects, Receiving
  <2> DEFINE g == Len(call.got)
             n == call.len - g
             a == call.about
             b == call.at + g
  <2>3. n \in Nat \ {0} /\ taken[a] = call.at + call.len /\ Rest(0, n, a, b)
    BY <2>2 DEF DataAhead
  <2>4. g \in Nat /\ b \in Nat
    BY <1>2
  <2>5. stream[1] = Data(a, b + 1)
    <3>1. 1 \in 1..n /\ 0 + 1 = 1
      BY <2>3
    <3> HIDE DEF n, a, b
    <3> QED
      BY <2>3, <3>1 DEF Rest
  <2>6. stream[1].kind = "DATA"
    BY <2>5 DEF Data, Line
  <2>7. stream' = Tail(stream) /\ call'.got = Append(call.got, stream[1])
    BY <1>1, <2>6
  <2>8. stream[1] \in LineType
    BY <1>1, HeadFacts
  <2>9. /\ Len(call'.got) = g + 1 /\ call'.got[g + 1] = stream[1]
        /\ \A i \in 1..g : call'.got[i] = call.got[i]
    BY <1>2, <2>7, <2>8, AppendFacts
  <2>10. \A i \in 1..g : call.got[i] = Data(a, call.at + i)
    BY <1>1, <2>1 DEF Expects
  <2>11. ASSUME NEW k \in 1..Len(call'.got) PROVE call'.got[k] = Data(a, call.at + k)
    <3>1. k \in 1..g \/ k = g + 1
      BY <2>4, <2>9
    <3>2. b + 1 = call.at + (g + 1)
      BY <1>2, <2>4
    <3> HIDE DEF g, a, b
    <3> QED
      BY <2>5, <2>9, <2>10, <3>1, <3>2
  <2>12. /\ 0 + (n - 1) + 1 <= Len(stream')
         /\ \A j \in 1..(n - 1) : stream'[0 + j] = Data(a, (b + 1) + j)
         /\ stream'[0 + (n - 1) + 1] = Ok
         /\ \A k \in 1..Len(stream') : k > 0 + (n - 1) + 1 => stream'[k] = Text
    <3> HIDE DEF n, a, b
    <3> QED
      BY <2>3, <2>4, <2>7, RestByte DEF Rest
  <2>13. OwnLine(call, call)'
    BY <1>3, <2>1 DEF Expects, OwnLine
  <2>14. work' = <<>> /\ sink' = None /\ jobs' = {}
    BY <1>1, <2>2 DEF Receiving, module
  <2>15. CASE Len(call'.got) = call.len
    <3>1. n = 1 /\ call'.step = "final"
      BY <1>1, <1>2, <2>4, <2>9, <2>15
    <3>2. /\ stream' \in Seq(LineType) /\ 1 <= Len(stream') /\ stream'[1] = Ok
          /\ \A k \in 1..Len(stream') : k > 1 => stream'[k] = Text
      <4>1. 0 + (n - 1) + 1 = 1
        BY <3>1
      <4>2. stream' \in Seq(LineType)
        BY <1>1 DEF Types
      <4> HIDE DEF n
      <4> QED
        BY <2>12, <4>1, <4>2
    <3>3. ToCome(<<Ok>>)' /\ <<Ok>> \in Seq(LineType)
      BY <2>14, <3>2, OkLeft
    <3>4. taken'[call'.about] = call'.at + Len(call'.got)
      BY <1>1, <1>3, <2>3, <2>15 DEF module
    <3>5. Script(call, <<Ok>>)'
      BY <3>1, <3>4 DEF Script, FinalScript
    <3>6. Answered'
      BY <2>14, <3>3, <3>5 DEF Answered
    <3> QED
      BY <1>3, <2>11, <2>13, <3>6 DEF Expects
  <2>16. CASE Len(call'.got) # call.len
    <3>1. /\ call'.step = "data" /\ call'.len - Len(call'.got) = n - 1
          /\ n - 1 \in Nat \ {0} /\ call'.at + Len(call'.got) = b + 1
      <4>1. call'.step = "data" /\ call'.len = call.len /\ call'.at = call.at
        BY <1>1, <1>3, <2>16
      <4>2. g + 1 # call.len /\ Len(call'.got) = g + 1
        BY <2>9, <2>16
      <4>3. g \in Nat /\ call.len \in Nat /\ call.at \in Nat /\ n \in Nat \ {0}
        BY <1>2, <2>3, <2>4
      <4>4. n = call.len - g /\ b = call.at + g
        OBVIOUS
      <4> HIDE DEF g, n, b
      <4>5. call.len - (g + 1) = n - 1
        BY <4>3, <4>4
      <4>6. call.at + (g + 1) = b + 1
        BY <4>3, <4>4
      <4>7. n # 1
        BY <4>2, <4>3, <4>4
      <4>8. n - 1 \in Nat \ {0}
        BY <4>3, <4>7
      <4> QED
        BY <4>1, <4>2, <4>5, <4>6, <4>8
    <3>2. taken'[call'.about] = call'.at + call'.len
      BY <1>1, <1>3, <2>3 DEF module
    <3>3. Rest(0, call.len - Len(call.got), call.about, call.at + Len(call.got))'
      <4> DEFINE nn == call.len - Len(call.got)
                 bb == call.at + Len(call.got)
                 aa == call.about
      <4>1. nn' = n - 1 /\ bb' = b + 1 /\ aa' = a
        BY <1>3, <3>1
      <4> HIDE DEF n, a, b, nn, aa, bb
      <4>2. Rest(0, nn, aa, bb)'
        BY <2>12, <4>1 DEF Rest
      <4> QED
        BY <4>2 DEF nn, aa, bb
    <3>4. call'.len - Len(call'.got) \in Nat \ {0}
      BY <3>1
    <3>5. DataAhead'
      BY <3>1, <3>2, <3>3, <3>4 DEF DataAhead
    <3>6. Receiving'
      BY <1>3, <2>14, <3>5 DEF Receiving
    <3> QED
      BY <1>3, <2>11, <2>13, <3>6 DEF Expects
  <2> QED
    BY <2>15, <2>16
<1> QED
  BY <1>1, <1>3, <1>4, <1>5 DEF TrustInv

\* The module answers the command of the call.
Answering(m) == /\ Types /\ ~Idle /\ Types' /\ Asked /\ call' = call /\ work' = <<>>
                /\ m \in Seq(LineType) /\ stream' = stream \o m
                /\ Answers(Cmd(call.api, call.about, call.len), m)

LEMMA AnsweringFacts ==
    ASSUME NEW m, Answering(m)
    PROVE  /\ call \in CallType /\ call.api \in Apis \ {"none"} /\ call.step = FirstStep(call.api)
           /\ Cmd(call.api, call.about, call.len) \in CmdType \ {Payload}
           /\ jobs = {} /\ \A k \in 1..Len(stream) : stream[k] = Text
           /\ sink = None /\ ToCome(<<>>)
           /\ call.api \in ConnApis => call.about \in Conns
           /\ call.api \in {"dns", "ping"} => call.about \in Hosts
<1>1. call \in CallType /\ call.api # "none" /\ call.api \in Apis
  BY CallFacts DEF Answering, Types, Idle
<1>2. /\ call.api \in ConnApis => call.about \in Conns
      /\ call.api \in {"dns", "ping"} => call.about \in Hosts
  BY <1>1, CallFacts
<1>3. /\ sink = None /\ ToCome(<<>>) /\ call.step = FirstStep(call.api)
      /\ work = <<Cmd(call.api, call.about, call.len)>>
  BY DEF Answering, Asked
<1>4. jobs = {} /\ \A k \in 1..Len(stream) : stream[k] = Text
  BY <1>3, ToComeNothing DEF Answering
<1>5. Cmd(call.api, call.about, call.len) \in CmdType
  <2>1. work \in Seq(CmdType) /\ work # <<>>
    BY <1>3 DEF Answering, Types
  <2>2. work[1] \in CmdType
    BY <2>1, TailFacts
  <2> QED
    BY <1>3, <2>2
<1>6. Cmd(call.api, call.about, call.len) # Payload
  BY <1>1 DEF Cmd, Payload, Apis, ConnApis
<1> QED
  BY <1>1, <1>2, <1>3, <1>4, <1>5, <1>6

LEMMA AnsweredWith ==
    ASSUME NEW m, Answering(m), sink' = None, NEW r \in Seq(LineType),
           jobs' = IF r = <<>> THEN {} ELSE {r},
           NEW xs, xs = m \o r, NoText(xs), Script(call, xs)'
    PROVE  Answered'
<1>1. ToCome(<<>>) /\ m \in Seq(LineType) /\ stream' = stream \o m /\ Types /\ work' = <<>>
  BY AnsweringFacts DEF Answering
<1>2. ToCome(m \o r)'
  BY <1>1, ToComeAnswer
<1>3. xs \in Seq(LineType)
  BY <1>1, ConcatFacts
<1>4. ToCome(xs)'
  BY <1>2
<1> QED
  BY <1>1, <1>3, <1>4 DEF Answered

\* Answers of one or two lines, nothing after them.
LEMMA NoTexts ==
    ASSUME NEW c \in CallType, NEW l, NEW k, Own(c, l), Own(c, k)
    PROVE  /\ NoText(<<Ok>>) /\ NoText(<<Error>>) /\ NoText(<<l>>) /\ NoText(<<Ok, l>>)
           /\ NoText(<<l, Ok>>) /\ NoText(<<Ok, l, k>>) /\ NoText(<<l, Ok, k>>)
<1>1. /\ Ok.kind \notin {"TEXT", "DATA"} /\ Error.kind \notin {"TEXT", "DATA"}
      /\ l.kind \notin {"TEXT", "DATA"} /\ k.kind \notin {"TEXT", "DATA"}
  BY PrefixFacts, LineFacts DEF Own
<1> QED
  BY <1>1 DEF NoText

LEMMA OkNoText == NoText(<<Ok>>) /\ NoText(<<Error>>) /\ NoText(<<Prompt>>)
<1>1. /\ Ok.kind \notin {"TEXT", "DATA"} /\ Error.kind \notin {"TEXT", "DATA"}
      /\ Prompt.kind \notin {"TEXT", "DATA"}
  BY LineFacts
<1> QED
  BY <1>1 DEF NoText

LEMMA AnsweringOpen ==
    ASSUME NEW m, Answering(m), call.api = "open", sink' = None,
           NEW r \in Results(Cmd(call.api, call.about, call.len)),
           \/ /\ m = <<Ok>> /\ jobs' = jobs \cup {r}
              /\ conn' = InUse(Cmd(call.api, call.about, call.len))
           \/ /\ m = <<Head(r), Ok>>
              /\ conn' = Announced(InUse(Cmd(call.api, call.about, call.len)), Head(r))
              /\ jobs' = IF Len(r) = 1 THEN jobs ELSE jobs \cup {Tail(r)}
    PROVE  Answered'
<1> DEFINE w == Cmd(call.api, call.about, call.len)
           l == r[1]
<1>1. /\ Types /\ call \in CallType /\ call.about \in Conns /\ jobs = {} /\ call.step = "await"
      /\ call' = call
  BY AnsweringFacts DEF FirstStep, ConnApis, Answering
<1>2. w \in CmdType /\ w.api = "open" /\ w.about = call.about
  BY AnsweringFacts DEF Cmd
<1>3. /\ r \in JobType /\ Len(r) = 1
      /\ \A i \in 1..Len(r) :
            /\ r[i].about = w.about
            /\ r[i].kind = IF w.about \in Tls THEN "QSSLOPEN" ELSE "QIOPEN"
  <2>1. r \in Results(w)
    OBVIOUS
  <2> HIDE DEF w
  <2> QED
    BY <1>2, <2>1, ResultFacts
<1>4. r \in Seq(LineType) /\ l \in LineType /\ r = <<l>> /\ Head(r) = l /\ 1 \in 1..Len(r)
  BY <1>3 DEF JobType
<1>5. Own(call, l)
  BY <1>1, <1>2, <1>3, <1>4 DEF Own, Prefix
<1>6. conn'[call.about] # "idle"
  <2>1. InUse(w) \in [Conns -> States] /\ InUse(w)[call.about] # "idle"
    <3> HIDE DEF w
    <3> QED
      BY <1>1, <1>2, InUseFacts
  <2>2. Announced(InUse(w), l)[call.about] # "idle"
    <3> HIDE DEF w, l
    <3> QED
      BY <1>1, <1>4, <2>1, AnnouncedFacts
  <2> QED
    BY <1>4, <2>1, <2>2
<1>7. Own(call, l)' /\ call'.api = "open" /\ call'.step = "await" /\ conn'[call'.about] # "idle"
  BY <1>1, <1>5, <1>6 DEF Own, Prefix
<1>8. Ok \in LineType /\ <<>> \in Seq(LineType)
  BY LineFacts
<1> HIDE DEF l
<1>9. CASE m = <<Ok>> /\ jobs' = jobs \cup {r}
  <2>1. <<Ok, l>> = m \o r /\ r # <<>> /\ jobs' = {r}
    BY <1>1, <1>4, <1>8, <1>9, ShortConcats
  <2>2. NoText(<<Ok, l>>)
    BY <1>1, <1>5, NoTexts
  <2>3. Script(call, <<Ok, l>>)'
    BY <1>7 DEF Script, OpenScript
  <2> QED
    BY <1>4, <2>1, <2>2, <2>3, AnsweredWith
<1>10. CASE m = <<l, Ok>> /\ jobs' = jobs
  <2>1. <<l, Ok>> = m \o <<>> /\ jobs' = {}
    BY <1>1, <1>4, <1>8, <1>10, ShortConcats
  <2>2. NoText(<<l, Ok>>)
    BY <1>1, <1>5, NoTexts
  <2>3. Script(call, <<l, Ok>>)'
    BY <1>7 DEF Script, OpenScript
  <2> QED
    BY <1>8, <2>1, <2>2, <2>3, AnsweredWith
<1> QED
  BY <1>3, <1>4, <1>9, <1>10

LEMMA AnsweringPing ==
    ASSUME NEW m, Answering(m), call.api = "ping", sink' = None,
           NEW r \in Results(Cmd(call.api, call.about, call.len)),
           \/ m = <<Ok>> /\ jobs' = jobs \cup {r}
           \/ m = <<Head(r), Ok>> /\ jobs' = IF Len(r) = 1 THEN jobs ELSE jobs \cup {Tail(r)}
    PROVE  Answered'
<1> DEFINE w == Cmd(call.api, call.about, call.len)
           l == r[1]
           k == r[2]
<1>1. /\ Types /\ call \in CallType /\ jobs = {} /\ call.step = "await" /\ call' = call
  BY AnsweringFacts DEF FirstStep, ConnApis, Answering
<1>2. w \in CmdType /\ w.api = "ping" /\ w.about = call.about
  BY AnsweringFacts DEF Cmd
<1>3. /\ r \in JobType /\ Len(r) = 2 /\ r[1].val = "reply" /\ r[2].val \in {"summary", "failed"}
      /\ \A i \in 1..Len(r) : r[i].about = w.about /\ r[i].kind = "PING"
  <2>1. r \in Results(w)
    OBVIOUS
  <2> HIDE DEF w
  <2> QED
    BY <1>2, <2>1, ResultFacts
<1>4. /\ r \in Seq(LineType) /\ l \in LineType /\ k \in LineType /\ r = <<l, k>> /\ Head(r) = l
      /\ Tail(r) = <<k>> /\ {1, 2} \subseteq 1..Len(r)
  <2>1. r \in Seq(LineType) /\ {1, 2} \subseteq 1..Len(r)
    BY <1>3 DEF JobType
  <2>2. l \in LineType /\ k \in LineType
    BY <2>1
  <2>3. r = <<l, k>>
    BY <1>3, <2>1
  <2> HIDE DEF l, k
  <2>4. Head(r) = l /\ Tail(r) = <<k>>
    BY <2>3
  <2> QED
    BY <2>1, <2>2, <2>3, <2>4
<1>5. Own(call, l) /\ Own(call, k)
  BY <1>1, <1>2, <1>3, <1>4 DEF Own, Prefix
<1>6. /\ Own(call, l)' /\ Own(call, k)' /\ call'.api = "ping" /\ call'.step = "await"
      /\ l.val = "reply" /\ k.val \in {"summary", "failed"}
  BY <1>1, <1>3, <1>5 DEF Own, Prefix
<1>7. Ok \in LineType /\ <<k>> \in Seq(LineType)
  BY <1>4, LineFacts
<1> HIDE DEF l, k
<1>8. CASE m = <<Ok>> /\ jobs' = jobs \cup {r}
  <2>1. <<Ok, l, k>> = m \o r /\ r # <<>> /\ jobs' = {r}
    BY <1>1, <1>4, <1>7, <1>8, ShortConcats
  <2>2. NoText(<<Ok, l, k>>)
    BY <1>1, <1>5, NoTexts
  <2>3. Script(call, <<Ok, l, k>>)'
    BY <1>6 DEF Script, PingScript
  <2> QED
    BY <1>4, <2>1, <2>2, <2>3, AnsweredWith
<1>9. CASE m = <<l, Ok>> /\ jobs' = jobs \cup {<<k>>}
  <2>1. <<l, Ok, k>> = m \o <<k>> /\ <<k>> # <<>> /\ jobs' = {<<k>>}
    BY <1>1, <1>4, <1>7, <1>9, ShortConcats
  <2>2. NoText(<<l, Ok, k>>)
    BY <1>1, <1>5, NoTexts
  <2>3. Script(call, <<l, Ok, k>>)'
    BY <1>6 DEF Script, PingScript
  <2> QED
    BY <1>7, <2>1, <2>2, <2>3, AnsweredWith
<1> QED
  BY <1>3, <1>4, <1>8, <1>9

LEMMA ResolvingWith ==
    ASSUME NEW m, Answering(m), call.api = "dns", sink' = None,
           \A k \in 1..Len(m) : m[k] \in {Ok, Error} \/ Own(call, m[k]),
           \A z \in jobs' : \A k \in 1..Len(z) : z[k] \in {Ok, Error} \/ Own(call, z[k])
    PROVE  Resolving'
<1> DEFINE Fine(l) == l \in {Ok, Error} \/ Own(call, l)
<1>1. /\ stream \in Seq(LineType) /\ m \in Seq(LineType) /\ stream' = stream \o m
      /\ \A k \in 1..Len(stream) : stream[k] = Text
      /\ call' = call /\ work' = <<>>
  BY AnsweringFacts DEF Answering, Types
<1>2. \A l : Fine(l) <=> Fine(l)'
  BY <1>1 DEF Own, Prefix
<1>3. \A k \in 1..Len(m) : Fine(m[k])
  OBVIOUS
<1>4. \A z \in jobs' : \A k \in 1..Len(z) : Fine(z[k])
  OBVIOUS
<1> HIDE DEF Fine
<1>5. ASSUME NEW k \in 1..Len(stream') PROVE stream'[k] = Text \/ Fine(stream'[k])
  <2>1. /\ Len(stream') = Len(stream) + Len(m) /\ Len(stream) \in Nat /\ Len(m) \in Nat
        /\ stream'[k] = IF k <= Len(stream) THEN stream[k] ELSE m[k - Len(stream)]
    BY <1>1, ConcatFacts
  <2>2. k \in 1..Len(stream) \/ (k - Len(stream) \in 1..Len(m) /\ ~(k <= Len(stream)))
    BY <2>1
  <2> QED
    BY <1>1, <1>3, <2>1, <2>2
<1> QED
  BY <1>1, <1>2, <1>4, <1>5 DEF Resolving, Fine

LEMMA AnsweringDns ==
    ASSUME NEW m, Answering(m), call.api = "dns", sink' = None,
           NEW r \in Results(Cmd(call.api, call.about, call.len)),
           \/ m = <<Ok>> /\ jobs' = jobs \cup {r}
           \/ m = <<Head(r), Ok>> /\ jobs' = IF Len(r) = 1 THEN jobs ELSE jobs \cup {Tail(r)}
    PROVE  Resolving'
<1> DEFINE w == Cmd(call.api, call.about, call.len)
<1>1. call \in CallType /\ jobs = {}
  BY AnsweringFacts
<1>2. w \in CmdType /\ w.api = "dns" /\ w.about = call.about
  BY AnsweringFacts DEF Cmd
<1>3. /\ r \in JobType /\ Len(r) \in Nat \ {0}
      /\ \A i \in 1..Len(r) : r[i].about = w.about /\ r[i].kind = "DNS"
  <2>1. r \in Results(w)
    OBVIOUS
  <2> HIDE DEF w
  <2> QED
    BY <1>2, <2>1, ResultFacts
<1>4. r \in Seq(LineType) /\ r # <<>> /\ \A i \in 1..Len(r) : r[i] \in LineType
  BY <1>3 DEF JobType
<1>5. \A i \in 1..Len(r) : Own(call, r[i])
  BY <1>1, <1>2, <1>3, <1>4 DEF Own, Prefix
<1>6. /\ Head(r) = r[1] /\ 1 \in 1..Len(r) /\ Len(Tail(r)) = Len(r) - 1
      /\ \A i \in 1..(Len(r) - 1) : Tail(r)[i] = r[i + 1] /\ i + 1 \in 1..Len(r)
  BY <1>3, <1>4, TailFacts
<1>7. \A k \in 1..Len(Tail(r)) : Own(call, Tail(r)[k])
  BY <1>5, <1>6
<1>8. \A k \in 1..Len(m) : m[k] \in {Ok, Error} \/ Own(call, m[k])
  <2>1. CASE m = <<Ok>>
    BY <2>1
  <2>2. CASE m = <<Head(r), Ok>>
    <3>1. Len(m) = 2 /\ m[1] = Head(r) /\ m[2] = Ok
      BY <2>2
    <3>2. Own(call, m[1])
      BY <1>5, <1>6, <3>1
    <3>3. \A k \in 1..Len(m) : k = 1 \/ k = 2
      BY <3>1
    <3> QED
      BY <3>1, <3>2, <3>3
  <2> QED
    BY <2>1, <2>2
<1>9. \A z \in jobs' : z = r \/ z = Tail(r)
  BY <1>1
<1>10. \A z \in jobs' : \A k \in 1..Len(z) : z[k] \in {Ok, Error} \/ Own(call, z[k])
  BY <1>5, <1>7, <1>9
<1> QED
  BY <1>8, <1>10, ResolvingWith

LEMMA AnsweringRecv ==
    ASSUME NEW m, Answering(m), call.api = "recv", UNCHANGED <<jobs, sink>>,
           NEW n \in 0..call.len, m = RecvLines(call.about, n),
           taken' = [taken EXCEPT ![call.about] = @ + n]
    PROVE  Receiving'
<1> DEFINE a == call.about
           b == call.at
<1>1. /\ call \in CallType /\ a \in Conns /\ call' = call /\ work' = <<>> /\ sink' = None
      /\ jobs' = {} /\ call.step = "header" /\ n \in Nat /\ call.len \in Nat
      /\ stream \in Seq(LineType) /\ Len(stream) \in Nat
      /\ \A k \in 1..Len(stream) : stream[k] = Text
      /\ taken[a] \in Nat /\ b = taken[a] /\ stream' = stream \o m /\ Types
  <2>1. /\ call \in CallType /\ a \in Conns /\ sink = None /\ jobs = {}
        /\ call.step = "header" /\ \A k \in 1..Len(stream) : stream[k] = Text
    BY AnsweringFacts DEF FirstStep, ConnApis
  <2>2. call.len \in Nat
    BY <2>1, CallFacts
  <2> QED
    BY <2>1, <2>2 DEF Answering, Asked, Types
<1>2. /\ m \in Seq(LineType) /\ Len(m) = n + 2 /\ m[1] = Header(a, n)
      /\ \A j \in 1..n : m[1 + j] = Data(a, b + j)
      /\ m[n + 2] = Ok
  BY <1>1, RecvLinesFacts
<1>3. /\ taken' = [taken EXCEPT ![a] = @ + n] /\ taken \in [Conns -> Nat]
  BY <1>1 DEF Types
<1>4. a' = a /\ b' = b /\ taken'[a] = b + n
  BY <1>1, <1>3
<1> HIDE DEF a, b
<1>5. /\ Len(stream') = Len(stream) + n + 2
      /\ \A k \in 1..Len(stream') :
            stream'[k] = IF k <= Len(stream) THEN stream[k] ELSE m[k - Len(stream)]
  <2>1. /\ Len(stream \o m) = Len(stream) + Len(m)
        /\ \A k \in 1..Len(stream \o m) :
              (stream \o m)[k] = IF k <= Len(stream) THEN stream[k] ELSE m[k - Len(stream)]
    BY <1>1, <1>2, ConcatFacts, Zenon
  <2>2. Len(stream) + Len(m) = Len(stream) + n + 2
    BY <1>1, <1>2
  <2> QED
    BY <1>1, <2>1, <2>2
<1>6. PICK p \in Nat \ {0} : p = Len(stream) + 1
  BY <1>1
<1>7. stream'[p] = Header(a, n)
  <2>1. p \in 1..Len(stream') /\ ~(p <= Len(stream)) /\ p - Len(stream) = 1
    BY <1>1, <1>5, <1>6
  <2> QED
    BY <1>1, <1>2, <1>5, <2>1
<1>8. ASSUME NEW k \in 1..(p - 1) PROVE stream'[k] = Text
  <2>1. k \in 1..Len(stream) /\ k \in 1..Len(stream') /\ k <= Len(stream)
    BY <1>1, <1>5, <1>6
  <2> QED
    BY <1>1, <1>5, <2>1
<1>9. ASSUME NEW j \in 1..n PROVE stream'[p + j] = Data(a, b + j)
  <2>1. p + j \in 1..Len(stream') /\ ~(p + j <= Len(stream)) /\ (p + j) - Len(stream) = 1 + j
    BY <1>1, <1>5, <1>6
  <2> QED
    BY <1>2, <1>5, <2>1
<1>10. p + n + 1 = Len(stream') /\ stream'[p + n + 1] = Ok
  <2>1. /\ p + n + 1 = Len(stream') /\ p + n + 1 \in 1..Len(stream')
        /\ ~(p + n + 1 <= Len(stream)) /\ (p + n + 1) - Len(stream) = n + 2
    BY <1>1, <1>5, <1>6
  <2> QED
    BY <1>2, <1>5, <2>1
<1>11. \A k \in 1..Len(stream') : k > p + n + 1 => stream'[k] = Text
  BY <1>1, <1>5, <1>10
<1>12. Rest(p, n, a, b)'
  <2>1. p + n + 1 <= Len(stream')
    BY <1>1, <1>5, <1>10
  <2> QED
    BY <1>4, <1>9, <1>10, <1>11, <2>1 DEF Rest
<1>13. Receiving'
  BY <1>1, <1>4, <1>7, <1>8, <1>12 DEF Receiving, HeaderAhead, a, b, Header
<1> QED
  BY <1>13

LEMMA AnsweringTrust ==
    ASSUME NEW m, Answering(m)
    PROVE  (Answered \/ Resolving \/ Sending \/ Receiving)'
<1> DEFINE w == Cmd(call.api, call.about, call.len)
           Goal == Answered' \/ Resolving' \/ Sending' \/ Receiving'
<1> SUFFICES Goal
  OBVIOUS
<1>1. /\ call \in CallType /\ call.api \in Apis \ {"none"} /\ call.step = FirstStep(call.api)
      /\ w \in CmdType \ {Payload} /\ jobs = {} /\ sink = None
      /\ call.api \in ConnApis => call.about \in Conns
      /\ Types /\ call' = call /\ work' = <<>>
      /\ w.api = call.api /\ w.about = call.about /\ w.len = call.len
  BY AnsweringFacts DEF Answering, Cmd
<1>2. <<>> \in Seq(LineType) /\ Ok \in LineType /\ Error \in LineType /\ Prompt \in LineType
  BY LineFacts
<1>3. /\ <<Ok>> \o <<>> = <<Ok>> /\ <<Error>> \o <<>> = <<Error>> /\ <<Prompt>> \o <<>> = <<Prompt>>
      /\ {<<Ok>>, <<Error>>, <<Prompt>>} \subseteq Seq(LineType)
  BY <1>2, ShortConcats
<1>4. Answers(w, m)
  BY DEF Answering
<1>5. UNCHANGED <<jobs, module>> => sink' = None /\ jobs' = {} /\ taken' = taken
  BY <1>1 DEF module
<1>6. CASE m = <<Error>> /\ UNCHANGED <<jobs, module>>
  <2>1. CASE call.api = "dns"
    <3>1. \A k \in 1..Len(m) : m[k] \in {Ok, Error} \/ Own(call, m[k])
      BY <1>6
    <3>2. sink' = None /\ jobs' = {}
      BY <1>5, <1>6
    <3> QED
      BY <2>1, <3>1, <3>2, ResolvingWith
  <2>2. CASE call.api # "dns"
    <3>1. Script(call, <<Error>>)'
      BY <1>1, <2>2 DEF Script, Apis
    <3>2. <<Error>> = m \o <<>> /\ sink' = None /\ jobs' = {}
      BY <1>3, <1>5, <1>6
    <3> QED
      BY <1>2, <3>1, <3>2, OkNoText, AnsweredWith
  <2> QED
    BY <2>1, <2>2
<1>7. CASE /\ w.api \in {"open", "dns", "ping"} /\ UNCHANGED <<sent, taken, sink>>
           /\ \E r \in Results(w) :
                 \/ m = <<Ok>> /\ jobs' = jobs \cup {r} /\ conn' = InUse(w)
                 \/ /\ m = <<Head(r), Ok>> /\ conn' = Announced(InUse(w), Head(r))
                    /\ jobs' = IF Len(r) = 1 THEN jobs ELSE jobs \cup {Tail(r)}
  <2>1. PICK r \in Results(w) :
           \/ m = <<Ok>> /\ jobs' = jobs \cup {r} /\ conn' = InUse(w)
           \/ /\ m = <<Head(r), Ok>> /\ conn' = Announced(InUse(w), Head(r))
              /\ jobs' = IF Len(r) = 1 THEN jobs ELSE jobs \cup {Tail(r)}
    BY <1>7
  <2>2. sink' = None
    BY <1>1, <1>7
  <2>3. CASE call.api = "open"
    BY <2>1, <2>2, <2>3, AnsweringOpen
  <2>4. CASE call.api = "ping"
    BY <2>1, <2>2, <2>4, AnsweringPing
  <2>5. CASE call.api = "dns"
    BY <2>1, <2>2, <2>5, AnsweringDns
  <2> QED
    BY <1>1, <1>7, <2>3, <2>4, <2>5
<1>8. CASE /\ w.api = "recv" /\ UNCHANGED <<jobs, conn, sent, sink>>
           /\ \E n \in 0..w.len :
                 /\ taken[w.about] + n <= sent[w.about]
                 /\ m = RecvLines(w.about, n)
                 /\ taken' = [taken EXCEPT ![w.about] = @ + n]
  <2>1. PICK n \in 0..call.len : /\ m = RecvLines(call.about, n)
                                 /\ taken' = [taken EXCEPT ![call.about] = @ + n]
    BY <1>1, <1>8
  <2>2. call.api = "recv" /\ UNCHANGED <<jobs, sink>>
    BY <1>1, <1>8
  <2> QED
    BY <2>1, <2>2, AnsweringRecv
<1>9. ASSUME w.api \in {"state", "avail"}, UNCHANGED <<jobs, module>>,
             m = <<Ok>> \/ \E l : Own(call, l) /\ m = <<l, Ok>>
      PROVE  Goal
  <2>1. call.api \in {"state", "avail"} /\ call.step = "query" /\ sink' = None /\ jobs' = {}
    BY <1>1, <1>5, <1>9 DEF FirstStep
  <2>2. CASE m = <<Ok>>
    <3>1. Script(call, <<Ok>>)'
      BY <1>1, <2>1 DEF Script, QueryScript
    <3>2. <<Ok>> = m \o <<>>
      BY <1>3, <2>2
    <3> QED
      BY <1>2, <2>1, <3>1, <3>2, OkNoText, AnsweredWith
  <2>3. CASE \E l : Own(call, l) /\ m = <<l, Ok>>
    <3>1. PICK l : Own(call, l) /\ m = <<l, Ok>>
      BY <2>3
    <3>2. Own(call, l)' /\ l \in LineType
      BY <1>1, <3>1 DEF Own, Prefix
    <3>3. Script(call, <<l, Ok>>)'
      BY <1>1, <2>1, <3>2 DEF Script, QueryScript
    <3>4. <<l, Ok>> = m \o <<>>
      BY <1>2, <3>1, <3>2, ShortConcats
    <3>5. NoText(<<l, Ok>>)
      BY <1>1, <3>1, NoTexts
    <3> QED
      BY <1>2, <2>1, <3>3, <3>4, <3>5, AnsweredWith
  <2> QED
    BY <1>9, <2>2, <2>3
<1>10. CASE w.api = "avail" /\ m = <<Counts(w.about), Ok>> /\ UNCHANGED <<jobs, module>>
  <2>1. Own(call, Counts(call.about))
    BY <1>1, <1>10, CountsFacts DEF Own, Prefix, ConnApis
  <2> QED
    BY <1>1, <1>9, <1>10, <2>1
<1>11. CASE /\ w.api = "state" /\ UNCHANGED <<jobs, module>>
            /\ m = <<Ok>> \/ \E b \in BOOLEAN : m = <<Line("QISTATE", w.about, b), Ok>>
  <2>1. \A b \in BOOLEAN : Own(call, Line("QISTATE", call.about, b))
    BY <1>1, <1>11, LineFacts DEF Own, Prefix, ConnApis
  <2> QED
    BY <1>1, <1>9, <1>11, <2>1
<1>12. CASE /\ w.api = "send" /\ UNCHANGED <<jobs, conn, sent, taken>>
            /\ m = <<Prompt>> /\ sink' = w.about
  <2>1. ToCome(<<Prompt>> \o <<>>)'
    <3>1. /\ Types /\ ToCome(<<>>) /\ NoText(m \o <<>>) /\ m \in Seq(LineType)
          /\ stream' = stream \o m /\ jobs' = {}
      BY <1>1, <1>3, <1>12, OkNoText, AnsweringFacts DEF Answering
    <3>2. ToCome(m \o <<>>)'
      BY <1>2, <3>1, ToComeAnswer
    <3> QED
      BY <1>12, <3>2
  <2>2. call'.api = "send" /\ sink' = call'.about /\ call'.step = "prompt"
    BY <1>1, <1>12 DEF FirstStep
  <2>3. ToCome(<<Prompt>>)'
    BY <1>3, <2>1
  <2> QED
    BY <1>1, <2>2, <2>3 DEF Sending
<1>13. CASE w.api = "close" /\ m = <<Ok>> /\ UNCHANGED <<jobs, sink>>
  <2>1. Script(call, <<Ok>>)'
    BY <1>1, <1>13 DEF Script, FinalScript, FirstStep
  <2>2. <<Ok>> = m \o <<>> /\ sink' = None /\ jobs' = {}
    BY <1>1, <1>3, <1>13
  <2> QED
    BY <1>2, <2>1, <2>2, OkNoText, AnsweredWith
<1> HIDE DEF w, Goal
<1> QED
  BY <1>1, <1>4, <1>6, <1>7, <1>8, <1>10, <1>11, <1>12, <1>13, Zenon DEF Answers

LEMMA WorksTrust ==
    ASSUME TrustInv, Types, ModuleWorks
    PROVE  TrustInv'
<1>1. PICK m : Works(m)
  BY WorksFacts
<1>2. /\ work # <<>> /\ work' = Tail(work) /\ stream' = stream \o m
      /\ Head(work) \in CmdType /\ UNCHANGED <<call, trusted>> /\ Types'
  BY <1>1, WorksFacts, WorksTypes DEF Works
<1>3. ~Quiet
  BY <1>2 DEF Quiet
<1>4. ASSUME call.trusted PROVE Expects'
  <2>1. ~Idle /\ call \in CallType /\ Expects
    BY <1>4, NotIdle DEF TrustInv
  <2>2. CASE Asked
    <3> DEFINE w == Cmd(call.api, call.about, call.len)
    <3>1. work = <<w>> /\ sink = None
      BY <2>2 DEF Asked
    <3> HIDE DEF w
    <3>2. Head(work) = w /\ work' = <<>>
      BY <1>2, <3>1
    <3>3. Answers(w, m) /\ w \in CmdType
      BY <1>1, <1>2, <3>1, <3>2 DEF Works
    <3>4. m \in Seq(LineType)
      BY <3>1, <3>3, AnswersTypes
    <3>5. Answering(m)
      BY <1>2, <2>1, <2>2, <3>2, <3>3, <3>4 DEF Answering, w
    <3> QED
      BY <1>2, <1>4, <2>1, <3>5, AnsweringTrust, KeptExpects
  <2>3. CASE Sending
    <3>1. call.api = "send" /\ sink = call.about /\ work = <<Payload>> /\ ToCome(<<>>)
            /\ call.step = "result"
      BY <1>2, <2>3 DEF Sending
    <3>2. sink \in Conns /\ sink # None
      BY <2>1, <3>1, CallFacts, SocketsAssumption DEF ConnApis
    <3>3. PICK ok \in BOOLEAN : /\ m = <<Line("SEND", sink, ok)>> /\ sink' = None
                                /\ UNCHANGED <<jobs, conn, sent, taken>>
      BY <1>1, <3>2 DEF Works
    <3>4. /\ Line("SEND", sink, ok) \in LineType /\ Line("SEND", sink, ok).kind = "SEND"
          /\ Line("SEND", sink, ok).about = call.about
      BY <3>1, <3>2, LineFacts
    <3>5. PICK l \in LineType : m = <<l>> /\ l.kind = "SEND" /\ l.about = call.about
      BY <3>3, <3>4
    <3>6. Own(call, l) /\ Own(call, l)'
      BY <1>2, <3>1, <3>5 DEF Own, Prefix
    <3>7. /\ m \in Seq(LineType) /\ <<>> \in Seq(LineType) /\ m \o <<>> = m /\ NoText(m)
          /\ work' = <<>> /\ jobs' = {}
      <4>1. jobs = {}
        BY <3>1, ToComeNothing
      <4>2. NoText(m)
        BY <2>1, <3>5, <3>6, NoTexts
      <4>3. m \in Seq(LineType) /\ <<>> \in Seq(LineType) /\ m \o <<>> = m
        BY <3>5, ShortConcats
      <4>4. work' = <<>>
        BY <1>2, <3>1
      <4> QED
        BY <3>3, <4>1, <4>2, <4>3, <4>4
    <3>8. ToCome(m)'
      <4>1. ToCome(m \o <<>>)'
        BY <1>2, <3>1, <3>7, ToComeAnswer
      <4> QED
        BY <3>7, <4>1
    <3>9. Script(call, m)'
      BY <1>2, <3>1, <3>5, <3>6 DEF Script, SendScript
    <3>10. Answered'
      BY <3>3, <3>7, <3>8, <3>9 DEF Answered
    <3> QED
      BY <1>2, <1>4, <2>1, <3>10, KeptExpects
  <2>4. ~Answered /\ ~Resolving /\ ~Receiving
    BY <1>2 DEF Answered, Resolving, Receiving
  <2> QED
    BY <2>1, <2>2, <2>3, <2>4 DEF Expects
<1> QED
  BY <1>2, <1>3, <1>4, KeptTrust DEF TrustInv

\* How a call that was trusted ends, and how it goes on.
Finishes ==
    \E c, st : /\ Return(c, st) /\ OwnLine(call, c)
               /\ st \in {"OK", "MODULE"} /\ c.sure /\ c.api # "dns" => Quiet'
               /\ st = "OK" /\ call.api = "open" => conn[call.about] # "idle"
               /\ st = "OK" /\ call.api = "recv" =>
                     taken[call.about] = call.at + Len(call.got)
Continues == /\ Keeps(call) /\ trusted' = trusted /\ OwnLine(call, call')
             /\ (Asked \/ Answered \/ Resolving \/ Sending \/ Receiving)'
Trusting  == Types /\ ~Idle /\ call.trusted /\ Expects

LEMMA ContinuesExpects ==
    ASSUME Trusting, Continues
    PROVE  Expects' /\ ~Idle' /\ call'.trusted = call.trusted
<1>1. /\ call'.api = call.api /\ call'.about = call.about /\ call'.got = call.got
      /\ call'.at = call.at /\ call'.trusted = call.trusted
  BY DEF Continues, Keeps
<1>2. call.api # "none"
  BY NotIdle DEF Trusting
<1>3. ~Idle'
  BY <1>1, <1>2 DEF Idle, NoCall
<1>4. OwnLine(call, call)'
  BY <1>1 DEF Continues, OwnLine
<1> QED
  BY <1>1, <1>3, <1>4 DEF Expects, Trusting, Continues

LEMMA SameContinues ==
    ASSUME Trusting, call' = call, trusted' = trusted,
           (Asked \/ Answered \/ Resolving \/ Sending \/ Receiving)'
    PROVE  Continues
BY DEF Continues, Keeps, Trusting, Expects

LEMMA NothingNext ==
    ASSUME Types', ToCome(<<>>)', work' = <<>>, sink' = None
    PROVE  Quiet'
<1>1. stream' \in Seq(LineType) /\ <<>> \in Seq(LineType)
  BY DEF Types
<1>2. PICK ys \in Seq(LineType), zs \in Seq(LineType) :
         <<>> = ys \o zs /\ Plays(stream', ys) /\ jobs' = IF zs = <<>> THEN {} ELSE {zs}
  BY DEF ToCome
<1>3. Len(ys) + Len(zs) = 0 /\ Len(ys) \in Nat /\ Len(zs) \in Nat
  BY <1>2
<1>4. ys = <<>> /\ zs = <<>>
  BY <1>3
<1> QED
  BY <1>1, <1>2, <1>4, PlaysNothing DEF Quiet

\* Reading goes on in silence: the head of the stream is unsolicited.
LEMMA ReadsNothing ==
    ASSUME Trusting, ReadLine, ToCome(<<>>)
    PROVE  /\ call' = call /\ trusted' = trusted /\ work' = work
           /\ UNCHANGED <<jobs, module>> /\ ToCome(<<>>)'
<1>1. /\ stream # <<>> /\ stream' = RestOf(stream) /\ UNCHANGED <<jobs, module>>
      /\ Takes(HeadLine) \/ Waits(HeadLine)
  BY ReadLineFacts DEF Trusting
<1>2. HeadLine = Text /\ ToCome(<<>>)'
  BY <1>1, ToComeRead DEF Trusting
<1> QED
  BY <1>1, <1>2, TakesText DEF Trusting

LEMMA ReadLineAsked ==
    ASSUME Trusting, ReadLine, Asked
    PROVE  Continues
<1>1. /\ call' = call /\ trusted' = trusted /\ work' = work
      /\ UNCHANGED <<jobs, module>> /\ ToCome(<<>>)'
  BY ReadsNothing DEF Asked
<1>2. Asked'
  BY <1>1 DEF Asked, module
<1> QED
  BY <1>1, <1>2, SameContinues

LEMMA ReadLineSending ==
    ASSUME Trusting, ReadLine, Sending
    PROVE  Continues
<1>1. CASE call.step = "result" /\ work = <<Payload>> /\ ToCome(<<>>)
  <2>1. /\ call' = call /\ trusted' = trusted /\ work' = work
        /\ UNCHANGED <<jobs, module>> /\ ToCome(<<>>)'
    BY <1>1, ReadsNothing
  <2>2. Sending'
    BY <1>1, <2>1 DEF Sending, module
  <2> QED
    BY <2>1, <2>2, SameContinues
<1>2. CASE call.step = "prompt" /\ work = <<>> /\ ToCome(<<Prompt>>)
  <2>1. /\ stream # <<>> /\ stream' = RestOf(stream) /\ UNCHANGED <<jobs, module>>
        /\ Takes(HeadLine) \/ Waits(HeadLine)
    BY ReadLineFacts DEF Trusting
  <2>2. \/ HeadLine = Text /\ ToCome(<<Prompt>>)'
        \/ HeadLine = Prompt /\ ToCome(<<>>)'
    <3>1. <<Prompt>>[1] = Prompt /\ Tail(<<Prompt>>) = <<>>
      OBVIOUS
    <3>2. \/ HeadLine = Text /\ ToCome(<<Prompt>>)'
          \/ HeadLine = <<Prompt>>[1] /\ ToCome(Tail(<<Prompt>>))'
      BY <1>2, <2>1, ToComeRead DEF Trusting
    <3> QED
      BY <3>1, <3>2
  <2>3. CASE HeadLine = Text /\ ToCome(<<Prompt>>)'
    <3>1. call' = call /\ trusted' = trusted /\ work' = work
      BY <2>1, <2>3, TakesText DEF Trusting
    <3>2. Sending'
      BY <1>2, <2>1, <2>3, <3>1 DEF Sending, module
    <3> QED
      BY <3>1, <3>2, SameContinues
  <2>4. CASE HeadLine = Prompt /\ ToCome(<<>>)'
    <3>1. call \in CallType
      BY DEF Trusting, Types
    <3>2. ~Matches(Prompt) /\ Prompt # Ok /\ Prompt # Error /\ Prompt \notin Finals
      BY <3>1, PrefixFacts, LineFacts DEF Matches, Finals
    <3>3. ~Waits(Prompt)
      BY <1>2, <3>2 DEF Waits
    <3>4. Takes(Prompt)
      BY <2>1, <2>4, <3>3
    <3>5. /\ call' = [call EXCEPT !.step = "result"] /\ work' = Append(work, Payload)
          /\ trusted' = trusted
      BY <3>2, <3>4, Zenon DEF Takes
    <3>6. /\ Keeps(call) /\ call'.step = "result" /\ call'.line = call.line
          /\ work' = <<Payload>>
      BY <1>2, <3>1, <3>5 DEF Keeps, CallType
    <3>7. Sending'
      BY <2>1, <2>4, <3>6 DEF Sending, module, Keeps
    <3>8. OwnLine(call, call')
      BY <3>6 DEF Trusting, Expects, OwnLine
    <3> QED
      BY <3>5, <3>6, <3>7, <3>8 DEF Continues
  <2> QED
    BY <2>2, <2>3, <2>4
<1> QED
  BY <1>1, <1>2 DEF Sending

LEMMA ReadLineAnswered ==
    ASSUME Trusting, ReadLine, Answered, Types'
    PROVE  Continues \/ Finishes
<1>1. /\ stream # <<>> /\ stream' = RestOf(stream) /\ UNCHANGED <<jobs, module>>
      /\ Takes(HeadLine) \/ Waits(HeadLine)
  BY ReadLineFacts DEF Trusting
<1>2. PICK xs \in Seq(LineType) : ToCome(xs) /\ Script(call, xs)
  BY DEF Answered
<1>3. work = <<>> /\ sink = None
  BY DEF Answered
<1>4. CASE HeadLine = Text /\ ToCome(xs)'
  <2>1. call' = call /\ trusted' = trusted /\ work' = work
    BY <1>1, <1>4, TakesText DEF Trusting
  <2>2. Script(call, xs)'
    BY <1>1, <1>2, <2>1, ScriptKept DEF Trusting, module
  <2>3. Answered'
    BY <1>1, <1>3, <1>4, <2>1, <2>2 DEF Answered, module
  <2> QED
    BY <2>1, <2>3, SameContinues
<1>5. CASE xs # <<>> /\ HeadLine = xs[1] /\ ToCome(Tail(xs))'
  <2>1. Reads(xs)
    BY <1>1, <1>5 DEF Reads, Trusting, Expects
  <2>2. Goes(Tail(xs)) \/ Ends(Tail(xs))
    BY <1>2, <2>1, ReadsScript
  <2>3. Tail(xs) \in Seq(LineType)
    BY <1>5, TailFacts
  <2>4. ASSUME Goes(Tail(xs)) PROVE Continues
    <3>1. /\ Keeps(call) /\ work' = work /\ trusted' = trusted
          /\ Script(call', Tail(xs)) /\ OwnLine(call, call')
      BY <2>4 DEF Goes
    <3>2. Script(call, Tail(xs))'
      <4>1. conn' = conn /\ taken' = taken
        BY <1>1 DEF module
      <4>2. ASSUME NEW t, Script(call', t) PROVE Script(call, t)'
        BY <4>1, <4>2, Zenon DEF Script, OpenScript, PingScript, QueryScript, SendScript,
                                 FinalScript, Own, Prefix
      <4> QED
        BY <3>1, <4>2
    <3>3. Answered'
      BY <1>1, <1>3, <1>5, <2>3, <3>1, <3>2 DEF Answered, module
    <3> QED
      BY <3>1, <3>3 DEF Continues
  <2>5. ASSUME Ends(Tail(xs)) PROVE Finishes
    <3>1. PICK c, st : /\ Return(c, st) /\ OwnLine(call, c)
                       /\ st \in {"OK", "MODULE"} /\ c.sure /\ c.api # "dns" => Tail(xs) = <<>>
                       /\ st = "OK" /\ call.api = "open" => conn[call.about] # "idle"
                       /\ st = "OK" /\ call.api = "recv" =>
                             taken[call.about] = call.at + Len(call.got)
      BY <2>5 DEF Ends
    <3>2. work' = <<>> /\ sink' = None
      BY <1>1, <1>3, <3>1 DEF Return, module
    <3>3. ASSUME Tail(xs) = <<>> PROVE Quiet'
      BY <1>5, <3>2, <3>3, NothingNext
    <3> QED
      BY <3>1, <3>3, Zenon DEF Finishes
  <2> QED
    BY <2>2, <2>4, <2>5
<1>6. \/ HeadLine = Text /\ ToCome(xs)'
      \/ xs # <<>> /\ HeadLine = xs[1] /\ ToCome(Tail(xs))'
  BY <1>1, <1>2, ToComeRead DEF Trusting
<1> QED
  BY <1>4, <1>5, <1>6

\* A resolve takes any of its lines, and its return is never trusted.
LEMMA ResolveEnds ==
    ASSUME Trusting, call.api = "dns", NEW c, NEW st, Return(c, st), c.api = "dns",
           OwnLine(call, c)
    PROVE  Finishes
BY DEF Finishes

LEMMA ResolveGoes ==
    ASSUME Trusting, call.api = "dns", NEW c \in CallType, NEW s, Goto(c, s),
           c.api = "dns", c.about = call.about, c.got = call.got, c.at = call.at,
           c.trusted = call.trusted, OwnLine(call, c)
    PROVE  Keeps(call) /\ trusted' = trusted /\ work' = work /\ OwnLine(call, call')
BY GotoFacts DEF Keeps, OwnLine

LEMMA ResolveJudged ==
    ASSUME Trusting, call.api = "dns", NEW c \in CallType, Judged(c),
           c.api = "dns", c.about = call.about, c.got = call.got, c.at = call.at,
           c.trusted = call.trusted, OwnLine(call, c)
    PROVE  \/ Finishes
           \/ Keeps(call) /\ trusted' = trusted /\ work' = work /\ OwnLine(call, call')
<1>1. (\E st : Return(c, st)) \/ Goto(c, "address")
  BY DEF Judged
<1> QED
  BY <1>1, ResolveEnds, ResolveGoes

LEMMA ResolveTakes ==
    ASSUME Trusting, call.api = "dns", NEW l \in LineType,
           l = Text \/ l \in {Ok, Error} \/ Own(call, l), Takes(l) \/ Waits(l)
    PROVE  \/ Finishes
           \/ Keeps(call) /\ trusted' = trusted /\ work' = work /\ OwnLine(call, call')
<1> DEFINE Goes1 == Keeps(call) /\ trusted' = trusted /\ work' = work /\ OwnLine(call, call')
<1> SUFFICES Finishes \/ Goes1
  OBVIOUS
<1>1. Types /\ ~Idle /\ call \in CallType /\ OwnLine(call, call)
  BY DEF Trusting, Types, Expects
<1>2. ASSUME call' = call, trusted' = trusted, work' = work PROVE Goes1
  BY <1>1, <1>2 DEF Keeps, OwnLine
<1>3. /\ With(l) \in CallType /\ With(l).api = call.api /\ With(l).about = call.about
      /\ With(l).got = call.got /\ With(l).at = call.at
      /\ With(l).trusted = call.trusted /\ With(l).line = l
  BY <1>1, WithFacts
<1>4. Waits(l) => Goes1
  BY <1>2 DEF Waits
<1>5. CASE l = Text
  BY <1>1, <1>2, <1>5, TakesText
<1>6. CASE l = Error
  <2>1. l # Ok /\ l # Prompt /\ ~Matches(l)
    BY <1>1, <1>6, PrefixFacts, LineFacts DEF Matches
  <2>2. ASSUME Takes(l) PROVE Return(call, "MODULE") \/ Judged(call)
    BY <2>1, <2>2, Zenon DEF Takes
  <2> QED
    BY <1>1, <1>4, <2>2, ResolveEnds, ResolveJudged
<1>7. CASE l = Ok
  <2>1. \/ \E st : Return(call, st)
        \/ Goto(call, "result")
        \/ Judged(call)
        \/ Waits(Ok)
    BY <1>1, <1>7, TakesOk
  <2> QED
    BY <1>1, <1>4, <1>7, <2>1, ResolveEnds, ResolveGoes, ResolveJudged
<1>8. CASE Own(call, l)
  <2>1. OwnLine(call, With(l))
    BY <1>3, <1>8 DEF OwnLine, Own
  <2>2. \/ Goto(With(l), "tail") \/ Goto(With(l), "query")
        \/ Judged(With(l)) \/ Waits(l)
    BY <1>1, <1>8, TakesOwn DEF Own
  <2> HIDE DEF Goes1
  <2>3. ASSUME NEW s, Goto(With(l), s) PROVE Goes1
    BY <1>3, <2>1, <2>3, ResolveGoes DEF Goes1
  <2>4. ASSUME Judged(With(l)) PROVE Finishes \/ Goes1
    BY <1>3, <2>1, <2>4, ResolveJudged DEF Goes1
  <2> QED
    BY <1>4, <2>2, <2>3, <2>4
<1> QED
  BY <1>5, <1>6, <1>7, <1>8

LEMMA ReadLineResolving ==
    ASSUME Trusting, ReadLine, Resolving
    PROVE  Continues \/ Finishes
<1> DEFINE Fine(l) == l \in {Ok, Error} \/ Own(call, l)
<1>1. /\ stream # <<>> /\ stream' = RestOf(stream) /\ UNCHANGED <<jobs, module>>
      /\ Takes(HeadLine) \/ Waits(HeadLine)
  BY ReadLineFacts DEF Trusting
<1>2. /\ work = <<>> /\ sink = None /\ call.api = "dns"
      /\ \A k \in 1..Len(stream) : stream[k] = Text \/ Fine(stream[k])
      /\ \A z \in jobs : \A k \in 1..Len(z) : Fine(z[k])
  BY DEF Resolving
<1>3. Types /\ call \in CallType
  BY DEF Trusting, Types
<1>4. \A l : l = Text \/ Fine(l) => l.kind # "DATA"
  BY <1>3, PrefixFacts, LineFacts DEF Own
<1> HIDE DEF Fine
<1>5. /\ HeadLine \in LineType /\ Len(stream) \in Nat \ {0}
      /\ \/ HeadLine = stream[1] /\ stream[1].kind # "DATA" /\ RestOf(stream) = Tail(stream)
         \/ HeadLine = Text /\ stream[1].kind = "DATA"
      /\ Len(Tail(stream)) = Len(stream) - 1
      /\ \A i \in 1..(Len(stream) - 1) : Tail(stream)[i] = stream[i + 1]
  BY <1>1, <1>3, HeadFacts
<1>6. stream[1] = Text \/ Fine(stream[1])
  BY <1>2, <1>5
<1>7. HeadLine = stream[1] /\ stream' = Tail(stream)
  BY <1>1, <1>4, <1>5, <1>6
<1>8. \/ Finishes
      \/ Keeps(call) /\ trusted' = trusted /\ work' = work /\ OwnLine(call, call')
  BY <1>1, <1>2, <1>5, <1>6, <1>7, ResolveTakes DEF Fine
<1>9. ASSUME Keeps(call), trusted' = trusted, work' = work, OwnLine(call, call')
      PROVE  Continues
  <2>1. \A l : Fine(l) <=> Fine(l)'
    BY <1>9 DEF Fine, Own, Prefix, Keeps
  <2>2. ASSUME NEW k \in 1..Len(stream') PROVE stream'[k] = Text \/ Fine(stream'[k])
    <3>1. k \in 1..(Len(stream) - 1) /\ k + 1 \in 1..Len(stream)
      BY <1>5, <1>7
    <3> QED
      BY <1>2, <1>5, <1>7, <3>1
  <2>3. Resolving'
    BY <1>1, <1>2, <1>9, <2>1, <2>2 DEF Resolving, Fine, Keeps, module
  <2> QED
    BY <1>9, <2>3 DEF Continues
<1> QED
  BY <1>8, <1>9

\* The header is read.
LEMMA ReadLineHeader ==
    ASSUME Trusting, ReadLine, Receiving, Types', call.step = "header", NEW n \in Nat,
           Rest(1, n, call.about, call.at), taken[call.about] = call.at + n,
           stream[1] = Header(call.about, n)
    PROVE  Continues \/ Finishes
<1> DEFINE h == Header(call.about, n)
<1>1. /\ stream # <<>> /\ stream' = RestOf(stream) /\ UNCHANGED <<jobs, module>>
      /\ Takes(HeadLine) \/ Waits(HeadLine)
  BY ReadLineFacts DEF Trusting
<1>2. /\ Types /\ ~Idle /\ call \in CallType /\ call.api = "recv" /\ work = <<>>
      /\ sink = None /\ jobs = {} /\ OwnLine(call, call)
  BY DEF Trusting, Types, Receiving, Expects
<1>3. /\ call.about \in Conns /\ call.at \in Nat /\ call.len \in Nat /\ call.got = <<>>
  BY <1>2, CallFacts DEF ConnApis
<1>4. /\ h \in LineType /\ h.about = call.about /\ h.val.first = n /\ h.kind # "DATA"
      /\ h.kind = Prefix(call)
  BY <1>2, <1>3, LineFacts DEF Prefix
<1>5. HeadLine = h /\ stream' = Tail(stream)
  BY <1>1, <1>2, <1>4, HeadFacts
<1> HIDE DEF h
<1>6. Judged(With(h))
  BY <1>1, <1>2, <1>4, <1>5, TakesOwn
<1>7. /\ With(h) \in CallType /\ With(h).api = call.api /\ With(h).about = call.about
      /\ With(h).got = call.got /\ With(h).at = call.at /\ With(h).len = call.len
      /\ With(h).trusted = call.trusted /\ With(h).line = h
  BY <1>2, <1>4, WithFacts DEF With, CallType
<1>8. OwnLine(call, With(h))
  BY <1>4, <1>7 DEF OwnLine
<1>9. /\ 0 + n + 1 <= Len(stream')
      /\ \A j \in 1..n : stream'[0 + j] = Data(call.about, call.at + j)
      /\ stream'[0 + n + 1] = Ok
      /\ \A k \in 1..Len(stream') : k > 0 + n + 1 => stream'[k] = Text
  <2> DEFINE a == call.about
             b == call.at
  <2>1. Rest(1, n, a, b)
    OBVIOUS
  <2> HIDE DEF a, b
  <2>2. 1 - 1 = 0 /\ 1 \in Nat \ {0}
    OBVIOUS
  <2>3. /\ (1 - 1) + n + 1 <= Len(stream')
        /\ \A j \in 1..n : stream'[(1 - 1) + j] = Data(a, b + j)
        /\ stream'[(1 - 1) + n + 1] = Ok
        /\ \A k \in 1..Len(stream') : k > (1 - 1) + n + 1 => stream'[k] = Text
    BY <1>2, <1>5, <2>1, <2>2, RestTail DEF Rest
  <2>4. /\ 0 + n + 1 <= Len(stream')
        /\ \A j \in 1..n : stream'[0 + j] = Data(a, b + j)
        /\ stream'[0 + n + 1] = Ok
        /\ \A k \in 1..Len(stream') : k > 0 + n + 1 => stream'[k] = Text
    BY <2>2, <2>3
  <2> QED
    BY <2>4 DEF a, b
<1>10. CASE \E st : Return(With(h), st) /\ st = "PARSE"
  BY <1>8, <1>10 DEF Finishes
<1>11. CASE n = 0 /\ Goto(With(h), "final")
  <2>1. /\ call'.step = "final" /\ call'.line = h /\ work' = work /\ trusted' = trusted
        /\ Keeps(call)
    BY <1>7, <1>11, GotoFacts DEF Keeps
  <2>2. /\ stream' \in Seq(LineType) /\ 1 <= Len(stream') /\ stream'[1] = Ok
        /\ \A k \in 1..Len(stream') : k > 1 => stream'[k] = Text
    <3>1. stream' \in Seq(LineType) /\ 0 + n + 1 = 1
      BY <1>11 DEF Types
    <3> QED
      BY <1>9, <3>1
  <2>3. jobs' = {} /\ sink' = None /\ work' = <<>> /\ taken' = taken
    BY <1>1, <1>2, <2>1 DEF module
  <2>4. ToCome(<<Ok>>)' /\ <<Ok>> \in Seq(LineType)
    BY <2>2, <2>3, OkLeft
  <2>5. taken'[call'.about] = call'.at + Len(call'.got)
    <3>1. Len(call'.got) = 0 /\ call'.about = call.about /\ call'.at = call.at
      BY <1>3, <2>1 DEF Keeps
    <3> QED
      BY <1>11, <2>3, <3>1
  <2>6. Script(call, <<Ok>>)'
    BY <2>1, <2>5 DEF Script, FinalScript
  <2>7. Answered'
    BY <2>3, <2>4, <2>6 DEF Answered
  <2>8. OwnLine(call, call')
    BY <1>4, <2>1 DEF OwnLine
  <2> QED
    BY <2>1, <2>7, <2>8 DEF Continues
<1>12. CASE n # 0 /\ Goto([With(h) EXCEPT !.len = n], "data")
  <2> DEFINE c == [With(h) EXCEPT !.len = n]
  <2>1. /\ c \in CallType /\ c.api = call.api /\ c.about = call.about /\ c.got = call.got
        /\ c.at = call.at /\ c.len = n /\ c.trusted = call.trusted /\ c.line = h
    BY <1>2, <1>7, CallUpdates DEF CallType
  <2>2. call' = [c EXCEPT !.step = "data"] /\ Goto(c, "data")
    BY <1>12 DEF Goto
  <2>3. call'.len = n
    BY <2>1, <2>2 DEF CallType
  <2> HIDE DEF c
  <2>4. /\ call'.step = "data" /\ call'.line = h /\ work' = work /\ trusted' = trusted
        /\ Keeps(call)
    BY <2>1, <2>2, GotoFacts DEF Keeps
  <2>5. jobs' = {} /\ sink' = None /\ work' = <<>> /\ taken' = taken
    BY <1>1, <1>2, <2>4 DEF module
  <2>6. /\ call'.about = call.about /\ call'.at = call.at /\ Len(call'.got) = 0
        /\ call'.len - Len(call'.got) = n /\ call'.at + Len(call'.got) = call.at
    BY <1>3, <2>3, <2>4 DEF Keeps
  <2>7. Rest(0, call.len - Len(call.got), call.about, call.at + Len(call.got))'
    BY <1>9, <2>6 DEF Rest
  <2>8. DataAhead'
    BY <1>12, <2>3, <2>4, <2>5, <2>6, <2>7 DEF DataAhead
  <2>9. Receiving'
    BY <1>2, <2>4, <2>5, <2>8 DEF Receiving, Keeps
  <2>10. OwnLine(call, call')
    BY <1>4, <2>4 DEF OwnLine
  <2> QED
    BY <2>4, <2>9, <2>10 DEF Continues
<1> QED
  BY <1>2, <1>4, <1>6, <1>7, <1>10, <1>11, <1>12 DEF Judged

LEMMA ReadLineReceiving ==
    ASSUME Trusting, ReadLine, Receiving, Types'
    PROVE  Continues \/ Finishes
<1>1. /\ stream # <<>> /\ stream' = RestOf(stream) /\ UNCHANGED <<jobs, module>>
      /\ Takes(HeadLine) \/ Waits(HeadLine)
      /\ call.step # "data"
  BY ReadLineFacts DEF Trusting
<1>2. Types /\ call \in CallType /\ call.len \in Nat /\ HeaderAhead
  BY <1>1, CallFacts, ReadLineFacts DEF Trusting, Types, Receiving, DataAhead
<1>3. PICK p \in Nat \ {0}, n \in 0..call.len :
         /\ Rest(p, n, call.about, call.at) /\ taken[call.about] = call.at + n
         /\ stream[p] = Header(call.about, n)
         /\ \A k \in 1..(p - 1) : stream[k] = Text
  BY <1>2 DEF HeaderAhead
<1>4. n \in Nat /\ call.step = "header"
  BY <1>2 DEF HeaderAhead
<1>5. CASE p = 1
  <2>1. /\ Rest(1, n, call.about, call.at) /\ taken[call.about] = call.at + n
        /\ stream[1] = Header(call.about, n)
    BY <1>3, <1>5
  <2> QED
    BY <1>4, <2>1, ReadLineHeader
<1>6. CASE p # 1
  <2>1. p - 1 \in Nat \ {0} /\ 1 \in 1..(p - 1)
    BY <1>6
  <2>2. stream[1] = Text
    BY <1>3, <2>1
  <2>3. HeadLine = Text /\ stream' = Tail(stream)
    BY <1>1, <1>2, <2>2, HeadFacts, LineFacts
  <2>4. call' = call /\ trusted' = trusted /\ work' = work
    BY <1>1, <2>3, TakesText DEF Trusting
  <2>5. /\ Rest(p - 1, n, call.about, call.at)'
        /\ \A k \in 1..p : k > 1 => stream'[k - 1] = stream[k]
    <3> DEFINE a == call.about
               b == call.at
    <3>1. a' = a /\ b' = b
      BY <2>4
    <3>2. Rest(p, n, a, b)
      BY <1>3
    <3> HIDE DEF a, b
    <3>3. /\ (p - 1) + n + 1 <= Len(stream')
          /\ \A j \in 1..n : stream'[(p - 1) + j] = Data(a, b + j)
          /\ stream'[(p - 1) + n + 1] = Ok
          /\ \A k \in 1..Len(stream') : k > (p - 1) + n + 1 => stream'[k] = Text
          /\ \A k \in 1..p : k > 1 => stream'[k - 1] = stream[k]
      BY <1>2, <1>4, <2>3, <3>2, RestTail DEF Rest
    <3> QED
      BY <3>1, <3>3 DEF Rest, a, b
  <2>6. stream'[p - 1] = Header(call.about, n)
    <3>1. p \in 1..p /\ p > 1
      BY <1>6
    <3> QED
      BY <1>3, <2>5, <3>1
  <2>7. ASSUME NEW k \in 1..((p - 1) - 1) PROVE stream'[k] = Text
    <3>1. k + 1 \in 1..p /\ k + 1 > 1 /\ k + 1 \in 1..(p - 1) /\ (k + 1) - 1 = k
      BY <2>1
    <3> QED
      BY <1>3, <2>5, <3>1
  <2>8. taken' = taken /\ jobs' = jobs /\ sink' = sink
    BY <1>1 DEF module
  <2>9. HeaderAhead'
    BY <1>3, <1>4, <2>1, <2>4, <2>5, <2>6, <2>7, <2>8 DEF HeaderAhead, Header
  <2>10. Receiving'
    BY <2>4, <2>8, <2>9 DEF Receiving
  <2> QED
    BY <2>4, <2>10, SameContinues
<1> QED
  BY <1>5, <1>6

\* A wait that gives up leaves a channel that nobody trusts.
LEMMA TimesOutExpects ==
    ASSUME Trusting, TimesOut
    PROVE  Continues \/ Finishes
<1>1. /\ UNCHANGED <<jobs, stream, module>>
      /\ \/ call.step # "tail" /\ Return(call, "TIMEOUT")
         \/ call.step = "tail" /\ Judged([call EXCEPT !.sure = FALSE])
  BY TimesOutFacts DEF Trusting
<1>2. /\ Types /\ ~Idle /\ call \in CallType /\ call.api # "none" /\ OwnLine(call, call)
      /\ Expects
  BY NotIdle DEF Trusting, Expects
<1>3. CASE Return(call, "TIMEOUT")
  BY <1>2, <1>3 DEF Finishes
<1>4. CASE call.step = "tail" /\ Judged([call EXCEPT !.sure = FALSE])
  <2> DEFINE c == [call EXCEPT !.sure = FALSE]
  <2>1. c \in CallType
    BY <1>2, CallUpdates
  <2>2. /\ c.api = call.api /\ c.about = call.about /\ c.got = call.got /\ c.at = call.at
        /\ c.trusted = call.trusted /\ c.line = call.line /\ c.sure = FALSE
    BY <1>2 DEF CallType
  <2>3. Judged(c) /\ OwnLine(call, c)
    BY <1>2, <1>4, <2>2 DEF OwnLine
  <2>4. call.api \in {"open", "dns", "ping"}
    BY <1>2, <1>4, CallFacts DEF StepsOf, Apis, ConnApis
  <2>5. call.api \in {"open", "ping"} => Answered
    <3>1. ~Asked
      BY <1>4, <2>4 DEF Asked, FirstStep
    <3>2. ~Sending /\ ~Receiving
      BY <2>4 DEF Sending, Receiving
    <3> QED
      BY <1>2, <3>1, <3>2 DEF Expects, Resolving
  <2>6. call.api = "open" => conn[call.about] # "idle"
    <3>1. ASSUME call.api = "open" PROVE conn[call.about] # "idle"
      <4>1. PICK xs \in Seq(LineType) : Script(call, xs)
        BY <2>5, <3>1 DEF Answered
      <4>2. OpenScript(call, xs)
        BY <1>4, <3>1, <4>1 DEF Script, PingScript, QueryScript, SendScript, FinalScript,
                                FirstStep
      <4> QED
        BY <4>2 DEF OpenScript
    <3> QED
      BY <3>1
  <2> HIDE DEF c
  <2>7. CASE \E st : Return(c, st)
    BY <2>2, <2>3, <2>4, <2>6, <2>7 DEF Finishes
  <2>8. CASE call.api = "dns"
    <3>1. Resolving
      <4>1. ~Asked /\ ~Sending /\ ~Receiving
        BY <1>4, <2>8 DEF Asked, FirstStep, Sending, Receiving
      <4>2. ~Answered
        BY <1>4, <2>8 DEF Answered, Script, OpenScript, PingScript, QueryScript, SendScript,
                          FinalScript, ConnApis
      <4> QED
        BY <1>2, <4>1, <4>2 DEF Expects
    <3>2. \/ Finishes
          \/ Keeps(call) /\ trusted' = trusted /\ work' = work /\ OwnLine(call, call')
      BY <2>1, <2>2, <2>3, <2>8, ResolveJudged
    <3>3. ASSUME Keeps(call), trusted' = trusted, work' = work, OwnLine(call, call')
          PROVE  Continues
      <4>1. \A l : Own(call, l) <=> Own(call, l)'
        BY <3>3 DEF Own, Prefix, Keeps
      <4>2. stream' = stream /\ jobs' = jobs /\ sink' = sink /\ call'.api = "dns"
        BY <1>1, <2>8, <3>3 DEF module, Keeps
      <4>3. Resolving'
        BY <3>1, <3>3, <4>1, <4>2 DEF Resolving
      <4> QED
        BY <3>3, <4>3 DEF Continues
    <3> QED
      BY <3>2, <3>3
  <2>9. CASE call.api = "ping" /\ Goto([c EXCEPT !.seen = @ + 1], "result")
    <3>1. [c EXCEPT !.seen = @ + 1] \in CallType
      BY <1>2, <2>1, <2>2, CallUpdates
    <3>2. /\ Keeps(call) /\ call'.step = "result" /\ call'.line = call.line
          /\ call'.sure = FALSE /\ work' = work /\ trusted' = trusted
      <4> DEFINE d == [c EXCEPT !.seen = @ + 1]
      <4>1. /\ d.api = c.api /\ d.about = c.about /\ d.got = c.got /\ d.at = c.at
            /\ d.trusted = c.trusted /\ d.line = c.line /\ d.sure = c.sure
        BY <2>1 DEF CallType
      <4>2. d \in CallType /\ Goto(d, "result")
        BY <2>9, <3>1
      <4> HIDE DEF d
      <4> QED
        BY <2>2, <4>1, <4>2, GotoFacts DEF Keeps
    <3>3. PICK xs \in Seq(LineType) : ToCome(xs) /\ Script(call, xs)
      BY <2>5, <2>9 DEF Answered
    <3>4. PingScript(call, xs)
      BY <1>4, <2>9, <3>3 DEF Script, OpenScript, QueryScript, SendScript, FinalScript,
                              FirstStep
    <3>5. PICK s : Own(call, s) /\ s.val \in {"summary", "failed"} /\ xs = <<Ok, s>>
      BY <1>4, <3>4 DEF PingScript
    <3>6. PICK r : Own(call, r) /\ r.val = "reply"
      BY <3>4 DEF PingScript
    <3>7. Own(call, s)' /\ Own(call, r)' /\ call'.api = "ping"
      BY <2>9, <3>2, <3>5, <3>6 DEF Own, Prefix, Keeps
    <3>8. Script(call, xs)'
      BY <3>2, <3>5, <3>6, <3>7 DEF Script, PingScript
    <3>9. ToCome(xs)'
      BY <1>1, <3>3 DEF ToCome
    <3>10. Answered'
      BY <1>1, <2>5, <2>9, <3>2, <3>8, <3>9 DEF Answered, module
    <3>11. OwnLine(call, call')
      BY <1>2, <3>2 DEF OwnLine
    <3> QED
      BY <3>2, <3>10, <3>11 DEF Continues
  <2> QED
    BY <2>2, <2>3, <2>4, <2>7, <2>8, <2>9, Zenon DEF Judged
<1> QED
  BY <1>1, <1>3, <1>4

LEMMA ReadLineExpects ==
    ASSUME Trusting, ReadLine, Types'
    PROVE  Continues \/ Finishes
BY ReadLineAsked, ReadLineSending, ReadLineAnswered, ReadLineResolving, ReadLineReceiving
   DEF Trusting, Expects

\* Trust is never won by a line or a timeout.
Doubts == /\ trusted' => trusted
          /\ call' = NoCall \/ (call'.trusted = call.trusted /\ trusted' = trusted)

LEMMA JudgedDoubts ==
    ASSUME NEW c \in CallType, c.trusted = call.trusted, Judged(c)
    PROVE  Doubts
<1>1. ASSUME NEW d \in CallType, NEW s, d.trusted = call.trusted, Goto(d, s) PROVE Doubts
  BY <1>1, GotoFacts DEF Doubts
<1>2. ASSUME NEW st, Return(c, st) PROVE Doubts
  BY <1>2 DEF Return, Doubts
<1>3. CASE c.api = "none"
  BY <1>2, <1>3 DEF Judged
<1>4. CASE c.api # "none"
  <2>1. [c EXCEPT !.seen = @ + 1] \in CallType /\ [c EXCEPT !.seen = @ + 1].trusted = c.trusted
    BY <1>4, CallUpdates DEF CallType
  <2>2. \A n \in Nat : /\ [c EXCEPT !.len = n] \in CallType
                       /\ [c EXCEPT !.len = n].trusted = c.trusted
    BY <1>4, CallUpdates DEF CallType
  <2>3. c.line.val.first \in 1..c.len => c.line.val.first \in Nat
    BY CallFacts
  <2>4. ASSUME c.line.val.first \in 1..c.len, Goto([c EXCEPT !.len = c.line.val.first], "data")
        PROVE  Doubts
    <3>1. PICK n \in Nat : n = c.line.val.first
      BY <2>3, <2>4
    <3>2. Goto([c EXCEPT !.len = n], "data")
      BY <2>4, <3>1
    <3> QED
      BY <1>1, <2>2, <3>2
  <2>5. ASSUME Goto([c EXCEPT !.seen = @ + 1], "result") PROVE Doubts
    BY <1>1, <2>1, <2>5
  <2>6. ASSUME NEW s, Goto(c, s) PROVE Doubts
    BY <1>1, <2>6
  <2> QED
    BY <1>2, <2>4, <2>5, <2>6, Zenon DEF Judged
<1> QED
  BY <1>3, <1>4

LEMMA TakesDoubts ==
    ASSUME Types, ~Idle, NEW l \in LineType, Takes(l) \/ Waits(l)
    PROVE  Doubts
<1>1. call \in CallType
  BY DEF Types
<1>2. With(l) \in CallType /\ With(l).trusted = call.trusted
  BY WithFacts
<1>3. ASSUME NEW st, Return(call, st) PROVE Doubts
  BY <1>3 DEF Return, Doubts
<1>4. ASSUME NEW d \in {call, With(l)}, NEW s, Goto(d, s) PROVE Doubts
  BY <1>1, <1>2, <1>4, GotoFacts DEF Doubts
<1>5. ASSUME NEW d \in {call, With(l)}, Judged(d) PROVE Doubts
  BY <1>1, <1>2, <1>5, JudgedDoubts
<1>6. CASE Waits(l)
  BY <1>6 DEF Waits, Doubts
<1>7. CASE call' = [call EXCEPT !.step = "result"] /\ trusted' = trusted
  BY <1>1, <1>7 DEF Doubts, CallType
<1>8. ASSUME Takes(l) PROVE Doubts
  BY <1>3, <1>4, <1>5, <1>7, <1>8, Zenon DEF Takes
<1> QED
  BY <1>6, <1>8

LEMMA WaitTrust ==
    ASSUME TrustInv, Types, Types', ~Idle, Doubts,
           call.trusted => Continues \/ Finishes
    PROVE  TrustInv'
<1>1. call.trusted = trusted /\ call \in CallType
  BY DEF TrustInv, Types
<1>2. CASE call.trusted
  <2>1. Trusting
    BY <1>2 DEF Trusting, TrustInv
  <2>2. CASE Continues
    <3>1. Expects' /\ ~Idle' /\ call'.trusted = call.trusted /\ trusted' = trusted
      BY <2>1, <2>2, ContinuesExpects DEF Continues
    <3> QED
      BY <1>1, <3>1 DEF TrustInv
  <2>3. CASE Finishes
    BY <2>3, ReturnTrust DEF Finishes
  <2> QED
    BY <1>2, <2>2, <2>3
<1>3. CASE ~call.trusted
  <2>1. trusted' = FALSE
    BY <1>1, <1>3 DEF Doubts, Types
  <2>2. call'.trusted = FALSE
    BY <1>1, <1>3, CallFacts DEF Doubts, NoCall
  <2> QED
    BY <2>1, <2>2 DEF TrustInv
<1> QED
  BY <1>2, <1>3

LEMMA ReadLineTrust ==
    ASSUME TrustInv, Types, ReadLine
    PROVE  TrustInv'
<1>1. ~Idle /\ stream # <<>> /\ (Takes(HeadLine) \/ Waits(HeadLine)) /\ Types'
  BY ReadLineFacts, ReadLineTypes
<1>2. Doubts
  BY <1>1, HeadFacts, TakesDoubts
<1>3. call.trusted => Continues \/ Finishes
  BY <1>1, ReadLineExpects DEF Trusting, TrustInv
<1> QED
  BY <1>1, <1>2, <1>3, WaitTrust

LEMMA TimesOutTrust ==
    ASSUME TrustInv, Types, TimesOut
    PROVE  TrustInv'
<1>1. /\ ~Idle /\ Types'
      /\ \/ call.step # "tail" /\ Return(call, "TIMEOUT")
         \/ call.step = "tail" /\ Judged([call EXCEPT !.sure = FALSE])
  BY TimesOutFacts
<1>2. call \in CallType /\ call.api # "none"
  BY <1>1, CallFacts DEF Types, Idle
<1>3. Doubts
  <2>1. CASE Return(call, "TIMEOUT")
    BY <2>1 DEF Return, Doubts
  <2>2. CASE Judged([call EXCEPT !.sure = FALSE])
    <3> DEFINE c == [call EXCEPT !.sure = FALSE]
    <3>1. c \in CallType
      BY <1>2, CallUpdates
    <3>2. c.trusted = call.trusted /\ Judged(c)
      BY <1>2, <2>2 DEF CallType
    <3> HIDE DEF c
    <3> QED
      BY <3>1, <3>2, JudgedDoubts
  <2> QED
    BY <1>1, <2>1, <2>2
<1>4. call.trusted => Continues \/ Finishes
  BY <1>1, TimesOutExpects DEF Trusting, TrustInv
<1> QED
  BY <1>1, <1>3, <1>4, WaitTrust

LEMMA TrustInit == Init => TrustInv
<1> SUFFICES ASSUME Init PROVE TrustInv
  OBVIOUS
<1>1. /\ work = <<>> /\ jobs = {} /\ stream = <<>> /\ sink = None /\ call = NoCall
  BY DEF Init
<1>2. Idle /\ call.trusted = FALSE
  BY <1>1 DEF Idle, NoCall
<1>3. Quiet
  BY <1>1 DEF Quiet
<1> QED
  BY <1>2, <1>3 DEF TrustInv

LEMMA TrustNext ==
    ASSUME TrustInv, Types, Types', [Next]_vars
    PROVE  TrustInv'
<1>1. CASE ModuleWorks
  BY <1>1, WorksTrust
<1>2. CASE ModuleAnnounces
  BY <1>2, AnnounceTrust
<1>3. CASE PeerActs
  BY <1>3, PeerTrust
<1>4. CASE StartConn \/ StartQuery \/ StartHost
  BY <1>4, StartTrust
<1>5. CASE Poll
  BY <1>5, PollTrust
<1>6. CASE ReadLine
  BY <1>6, ReadLineTrust
<1>7. CASE ReadRaw
  BY <1>7, ReadRawTrust
<1>8. CASE TimesOut
  BY <1>8, TimesOutTrust
<1>9. CASE UNCHANGED vars
  BY <1>9, TextTrust DEF vars, module
<1> QED
  BY <1>1, <1>2, <1>3, <1>4, <1>5, <1>6, <1>7, <1>8, <1>9 DEF Next

\* The inductive invariant: a trusted call finds in the stream, and in what the
\* module still has to do, exactly the lines that finish it, and between trusted
\* calls there is nothing (all the receive loops of ec200_tcpip.c,
\* ec200_ssl_socket.c and ec200_at.c against one module).
THEOREM TrustInvHolds == Spec => []TrustInv
<1>1. TrustInv /\ TlsInv /\ TlsInv' /\ [Next]_vars => TrustInv'
  BY TrustNext DEF TlsInv
<1> QED
  BY TrustInit, TlsInvHolds, <1>1, PTL DEF Spec

\* Between calls that were all answered nothing is owed and nothing unread, so
\* that the next call starts in step (send_await_urc and wait_prefix in
\* ec200_tcpip.c leave no line of theirs behind).
THEOREM QuietWhileAnsweredHolds == Spec => []QuietWhileAnswered
<1>1. TrustInv => QuietWhileAnswered
  BY DEF TrustInv, QuietWhileAnswered
<1> QED
  BY <1>1, TrustInvHolds, PTL

\* A trusted call ends on one of its own lines.
LEMMA TrustedReturns ==
    ASSUME TrustInv, Types, Types', [Next]_vars, Returns(call), call.trusted
    PROVE  Finishes
<1>1. Trusting /\ call # NoCall /\ call' = NoCall
  BY NotIdle DEF TrustInv, Trusting, Returns, Idle
<1>2. ~Continues
  BY <1>1, ContinuesExpects DEF Idle
<1>3. ReadLine => Finishes
  BY <1>1, <1>2, ReadLineExpects
<1>4. TimesOut => Finishes
  BY <1>1, <1>2, TimesOutExpects
<1>5. ~ModuleWorks /\ ~ModuleAnnounces /\ ~PeerActs /\ ~Poll
  BY <1>1 DEF ModuleWorks, ModuleAnnounces, PeerActs, Poll, Elsewhere
<1>6. ~StartConn /\ ~StartQuery /\ ~StartHost
  BY <1>1 DEF StartConn, StartQuery, StartHost, Start, Idle
<1>7. ~ReadRaw
  BY <1>1, ReadRawFacts DEF NoCall
<1>8. ~UNCHANGED vars
  BY <1>1 DEF vars
<1> QED
  BY <1>3, <1>4, <1>5, <1>6, <1>7, <1>8 DEF Next

\* A trusted call that succeeds was decided by a line about its own connection
\* or host, and a trusted open leaves a connection that is in use, although no
\* call compares the connection a line names (JudgeOpen, ec200_tcpip.c).
THEOREM DecidedByOwnLineHolds == Spec => DecidedByOwnLine
<1>1. ASSUME TrustInv, Types, Types', [Next]_vars
      PROVE  [Succeeds /\ call.trusted =>
                 /\ last'.line # None => last'.line.about = call.about
                 /\ call.api = "open" => conn[call.about] # "idle"]_vars
  <2> SUFFICES ASSUME Returns(call), last'.st = "OK", call.trusted
               PROVE  /\ last'.line # None => last'.line.about = call.about
                      /\ call.api = "open" => conn[call.about] # "idle"
    BY DEF Succeeds
  <2>1. PICK c, st : /\ Return(c, st) /\ OwnLine(call, c)
                     /\ st = "OK" /\ call.api = "open" => conn[call.about] # "idle"
    BY <1>1, TrustedReturns DEF Finishes
  <2>2. last'.st = st /\ last'.line = c.line
    BY <2>1 DEF Return
  <2> QED
    BY <2>1, <2>2 DEF OwnLine
<1>2. TrustInv /\ TlsInv /\ TlsInv' /\ [Next]_vars
        => [Succeeds /\ call.trusted =>
               /\ last'.line # None => last'.line.about = call.about
               /\ call.api = "open" => conn[call.about] # "idle"]_vars
  BY <1>1 DEF TlsInv
<1> QED
  BY <1>2, TrustInvHolds, TlsInvHolds, PTL DEF Spec, DecidedByOwnLine

\* A trusted recv hands out the next bytes of its connection, in order, and if
\* it succeeds it loses none (read_exact in ec200_at.c behind the header that
\* ec200_tcpip.c and ec200_ssl_socket.c parse).
THEOREM ReceivedInOrderHolds == Spec => ReceivedInOrder
<1>1. ASSUME TrustInv, Types, Types', [Next]_vars
      PROVE  [Returns(call) /\ call.trusted /\ call.api = "recv" =>
                 /\ \A k \in 1..Len(call.got) :
                       call.got[k] = Data(call.about, call.at + k)
                 /\ last'.st = "OK" => taken[call.about] = call.at + Len(call.got)]_vars
  <2> SUFFICES ASSUME Returns(call), call.trusted, call.api = "recv"
               PROVE  /\ \A k \in 1..Len(call.got) :
                            call.got[k] = Data(call.about, call.at + k)
                      /\ last'.st = "OK" => taken[call.about] = call.at + Len(call.got)
    OBVIOUS
  <2>1. PICK c, st : /\ Return(c, st)
                     /\ st = "OK" /\ call.api = "recv" =>
                           taken[call.about] = call.at + Len(call.got)
    BY <1>1, TrustedReturns DEF Finishes
  <2>2. last'.st = st
    BY <2>1 DEF Return
  <2>3. \A k \in 1..Len(call.got) : call.got[k] = Data(call.about, call.at + k)
    BY <1>1 DEF TrustInv, Expects
  <2> QED
    BY <2>1, <2>2, <2>3
<1>2. TrustInv /\ TlsInv /\ TlsInv' /\ [Next]_vars
        => [Returns(call) /\ call.trusted /\ call.api = "recv" =>
               /\ \A k \in 1..Len(call.got) :
                     call.got[k] = Data(call.about, call.at + k)
               /\ last'.st = "OK" => taken[call.about] = call.at + Len(call.got)]_vars
  BY <1>1 DEF TlsInv
<1> QED
  BY <1>2, TrustInvHolds, TlsInvHolds, PTL DEF Spec, ReceivedInOrder
=============================================================================
