--------------------------- MODULE BringupProofs ---------------------------
(***************************************************************************)
(* What a success of ec200_init, ec200_net_wait_registered and             *)
(* ec200_data_connect means, for every number of polls, of late answers    *)
(* and of unsolicited lines.                                               *)
(*                                                                         *)
(* A call that starts on a quiet channel may give up on some of its        *)
(* queries and go on.  The invariant counts what it then owes (init), and  *)
(* says of every answer under way that the module could give it at some    *)
(* time of the call (wait, connect), and in which order answers of which   *)
(* kind are still to come (connect).                                       *)
(***************************************************************************)
EXTENDS Bringup, TLAPS, SequenceTheorems, FiniteSetTheorems

Cmds     == {"AT", "ATE0", "CEREG", "CGPADDR", "CGDCONT", "QICSGP", "CGACT"}
Known    == Addrs \cup {NoAddr}
Values   == BOOLEAN \cup Known \cup {None}
LineType == [kind : {"TEXT", "REG", "ADDR"}, val : Values] \cup {Ok, Error}
Steps    == {"probe", "echo", "poll", "first", "set", "auth", "act", "again"}
Statuses == {"OK", "MODULE", "PARSE", "TIMEOUT", "IO"}
CallType == [api : {"init", "wait", "connect"}, step : Steps, tries : Nat,
             late : Nat, matched : BOOLEAN, got : Values, act : Statuses,
             clean : BOOLEAN]

Types ==
    /\ work \in Seq(Cmds) /\ stream \in Seq(LineType)
    /\ awake \in BOOLEAN /\ echo \in BOOLEAN /\ reg \in BOOLEAN
    /\ up \in BOOLEAN /\ addr \in Known
    /\ call \in CallType \cup {NoCall}
    /\ been \in [reg : BOOLEAN, addrs : SUBSET Known, active : BOOLEAN]

IsFinal(l) == l.kind \in {"OK", "ERROR"}

\* Nothing of the stream is a final result, or the answer to CGPADDR.
NoFinal == \A k \in 1..Len(stream) : ~IsFinal(stream[k])
NoAddress == \A k \in 1..Len(stream) : stream[k].kind # "ADDR"

-----------------------------------------------------------------------------
(* Lines and sequences *)

LEMMA LineFacts ==
    /\ Ok \in LineType /\ Error \in LineType /\ Noise \in LineType
    /\ Ok.kind = "OK" /\ Error.kind = "ERROR" /\ Noise.kind = "TEXT"
    /\ Ok # Error
    /\ \A r \in BOOLEAN : /\ Reg(r) \in LineType /\ Reg(r).kind = "REG"
                          /\ Reg(r).val = r
    /\ \A a \in Known \cup {None} : /\ Addr(a) \in LineType
                                    /\ Addr(a).kind = "ADDR" /\ Addr(a).val = a
BY DEF Ok, Error, Noise, Reg, Addr, Line, LineType, Values

LEMMA TailFacts ==
    ASSUME NEW S, NEW s \in Seq(S), s # <<>>
    PROVE  /\ Tail(s) \in Seq(S) /\ Len(s) \in Nat \ {0}
           /\ Len(Tail(s)) = Len(s) - 1 /\ Head(s) = s[1] /\ s[1] \in S
           /\ \A i \in 1..(Len(s) - 1) : Tail(s)[i] = s[i + 1]
<1>1. Len(s) \in Nat \ {0}
  BY EmptySeq
<1>2. Tail(s) \in Seq(S) /\ Len(Tail(s)) = Len(s) - 1 /\ Head(s) = s[1]
        /\ \A i \in 1..(Len(s) - 1) : Tail(s)[i] = s[i + 1]
  BY <1>1, HeadTailProperties
<1>3. s[1] \in S
  BY <1>1, ElementOfSeq
<1> QED
  BY <1>1, <1>2, <1>3

LEMMA AppendFacts ==
    ASSUME NEW S, NEW s \in Seq(S), NEW x \in S
    PROVE  /\ Append(s, x) \in Seq(S) /\ Len(s) \in Nat
           /\ Len(Append(s, x)) = Len(s) + 1
           /\ \A i \in 1..Len(s) : Append(s, x)[i] = s[i]
           /\ Append(s, x)[Len(s) + 1] = x
OBVIOUS

\* Where the final results of s are.
FinalAt(s) == {k \in DOMAIN s : IsFinal(s[k])}

LEMMA FinalsType ==
    ASSUME NEW s \in Seq(LineType)
    PROVE  /\ Finals(s) = Cardinality(FinalAt(s)) /\ Finals(s) \in Nat
           /\ IsFiniteSet(FinalAt(s)) /\ FinalAt(s) \subseteq 1..Len(s)
           /\ (Finals(s) = 0) <=> \A k \in 1..Len(s) : ~IsFinal(s[k])
<1>1. Len(s) \in Nat /\ DOMAIN s = 1..Len(s)
  OBVIOUS
<1>2. FinalAt(s) \in SUBSET (1..Len(s)) /\ IsFiniteSet(1..Len(s))
  BY <1>1, FS_Interval DEF FinalAt
<1>3. IsFiniteSet(FinalAt(s))
  BY <1>2, FS_Subset
<1>4. Finals(s) = Cardinality(FinalAt(s))
  BY DEF Finals, FinalAt, IsFinal
<1>5. Finals(s) \in Nat /\ (Finals(s) = 0 <=> FinalAt(s) = {})
  BY <1>3, <1>4, FS_CardinalityType, FS_EmptySet
<1> QED
  BY <1>1, <1>2, <1>3, <1>4, <1>5 DEF FinalAt

LEMMA FinalsAppend ==
    ASSUME NEW s \in Seq(LineType), NEW x \in LineType
    PROVE  Finals(Append(s, x)) = Finals(s) + (IF IsFinal(x) THEN 1 ELSE 0)
<1> DEFINE t == Append(s, x)
<1>1. /\ t \in Seq(LineType) /\ Len(s) \in Nat /\ Len(t) = Len(s) + 1
      /\ \A i \in 1..Len(s) : t[i] = s[i]
      /\ t[Len(s) + 1] = x
  BY AppendFacts
<1> HIDE DEF t
<1>2. DOMAIN t = 1..(Len(s) + 1) /\ DOMAIN s = 1..Len(s)
  BY <1>1
<1>3. FinalAt(t) = IF IsFinal(x) THEN FinalAt(s) \cup {Len(s) + 1} ELSE FinalAt(s)
  BY <1>1, <1>2 DEF FinalAt
<1>4. /\ Finals(t) = Cardinality(FinalAt(t)) /\ Finals(s) = Cardinality(FinalAt(s))
      /\ Finals(s) \in Nat /\ IsFiniteSet(FinalAt(s)) /\ FinalAt(s) \subseteq 1..Len(s)
  BY <1>1, FinalsType
<1>5. Len(s) + 1 \notin FinalAt(s)
  BY <1>1, <1>4
<1>6. Cardinality(FinalAt(s) \cup {Len(s) + 1}) = Cardinality(FinalAt(s)) + 1
  BY <1>4, <1>5, FS_AddElement
<1> QED
  BY <1>3, <1>4, <1>6 DEF t

LEMMA FinalsTail ==
    ASSUME NEW s \in Seq(LineType), s # <<>>
    PROVE  Finals(Tail(s)) = Finals(s) - (IF IsFinal(Head(s)) THEN 1 ELSE 0)
<1> DEFINE t == Tail(s)
<1>1. /\ t \in Seq(LineType) /\ Len(s) \in Nat \ {0} /\ Len(t) = Len(s) - 1
      /\ Head(s) = s[1] /\ \A i \in 1..(Len(s) - 1) : t[i] = s[i + 1]
  BY TailFacts
<1> HIDE DEF t
<1>2. DOMAIN t = 1..(Len(s) - 1) /\ DOMAIN s = 1..Len(s)
  BY <1>1
<1>3. /\ Finals(t) = Cardinality(FinalAt(t)) /\ Finals(s) = Cardinality(FinalAt(s))
      /\ Finals(s) \in Nat /\ IsFiniteSet(FinalAt(s)) /\ FinalAt(s) \subseteq 1..Len(s)
      /\ IsFiniteSet(FinalAt(t)) /\ FinalAt(t) \subseteq 1..Len(t)
  BY <1>1, FinalsType
<1> DEFINE R == FinalAt(s) \ {1}
           f == [k \in FinalAt(t) |-> k + 1]
<1>4. f \in Bijection(FinalAt(t), R)
  <2>1. \A k \in FinalAt(t) : k \in Nat /\ k + 1 \in R
    BY <1>1, <1>2, <1>3 DEF FinalAt
  <2>2. \A m \in R : m - 1 \in FinalAt(t) /\ m \in Nat
    BY <1>1, <1>2, <1>3 DEF FinalAt
  <2>3. f \in [FinalAt(t) -> R]
    BY <2>1
  <2>4. \A m \in R : \E k \in FinalAt(t) : f[k] = m
    BY <2>2
  <2>5. \A a, b \in FinalAt(t) : f[a] = f[b] => a = b
    BY <2>1
  <2> QED
    BY <2>3, <2>4, <2>5 DEF Bijection, Injection, IsInjective, Surjection
<1>5. Cardinality(R) = Cardinality(FinalAt(t))
  BY <1>3, <1>4, FS_Bijection DEF ExistsBijection
<1>6. Cardinality(R) = IF 1 \in FinalAt(s) THEN Cardinality(FinalAt(s)) - 1
                                           ELSE Cardinality(FinalAt(s))
  BY <1>3, FS_RemoveElement
<1>7. 1 \in FinalAt(s) <=> IsFinal(Head(s))
  BY <1>1, <1>2 DEF FinalAt
<1> QED
  BY <1>3, <1>5, <1>6, <1>7 DEF t

-----------------------------------------------------------------------------
(* The module *)

\* m is appended to the stream.
Extends(m) ==
    /\ m \in Seq(LineType) /\ Len(m) \in Nat /\ Len(stream) \in Nat
    /\ stream' \in Seq(LineType) /\ Len(stream') = Len(stream) + Len(m)
    /\ \A k \in 1..Len(stream') :
          stream'[k] = IF k <= Len(stream) THEN stream[k] ELSE m[k - Len(stream)]

\* m is the module's answer to one command.
Answers(m) ==
    /\ Extends(m) /\ Len(m) # 0
    /\ \A k \in 1..(Len(m) - 1) : ~IsFinal(m[k])
    /\ m[Len(m)] \in {Ok, Error}
    /\ Finals(stream') = Finals(stream) + 1


LEMMA ExtendsFacts ==
    ASSUME NEW m, Extends(m), NEW k \in 1..Len(stream')
    PROVE  \/ k \in 1..Len(stream) /\ stream'[k] = stream[k]
           \/ \E j \in 1..Len(m) : k = Len(stream) + j /\ stream'[k] = m[j]
<1>1. CASE k <= Len(stream)
  BY <1>1 DEF Extends
<1>2. CASE k > Len(stream)
  <2>1. k - Len(stream) \in 1..Len(m) /\ k = Len(stream) + (k - Len(stream))
    BY <1>2 DEF Extends
  <2>2. stream'[k] = m[k - Len(stream)]
    BY <1>2 DEF Extends
  <2> QED
    BY <2>1, <2>2
<1> QED
  BY <1>1, <1>2 DEF Extends

LEMMA OneFinalMore ==
    ASSUME NEW s \in Seq(LineType), NEW t \in Seq(LineType), Len(s) < Len(t),
           \A k \in 1..Len(s) : t[k] = s[k],
           \A k \in (Len(s) + 1)..(Len(t) - 1) : ~IsFinal(t[k]),
           IsFinal(t[Len(t)])
    PROVE  Finals(t) = Finals(s) + 1
<1>1. DOMAIN t = 1..Len(t) /\ DOMAIN s = 1..Len(s) /\ Len(t) \in Nat /\ Len(s) \in Nat
  OBVIOUS
<1>2. FinalAt(t) = FinalAt(s) \cup {Len(t)}
  BY <1>1 DEF FinalAt
<1>3. /\ Finals(t) = Cardinality(FinalAt(t)) /\ Finals(s) = Cardinality(FinalAt(s))
      /\ Finals(s) \in Nat /\ IsFiniteSet(FinalAt(s)) /\ FinalAt(s) \subseteq 1..Len(s)
  BY FinalsType
<1>4. Len(t) \notin FinalAt(s)
  BY <1>1, <1>3
<1> QED
  BY <1>2, <1>3, <1>4, FS_AddElement

LEMMA ConcatFacts ==
    ASSUME NEW S, NEW s \in Seq(S), NEW t \in Seq(S)
    PROVE  /\ s \o t \in Seq(S) /\ Len(s \o t) = Len(s) + Len(t)
           /\ \A k \in 1..Len(s \o t) :
                 (s \o t)[k] = IF k <= Len(s) THEN s[k] ELSE t[k - Len(s)]
BY ConcatProperties

\* An answer has an information line or none, and a final result.
LEMMA ReplyFacts ==
    ASSUME Types, NEW lines \in Seq(LineType), Len(lines) \in {1, 2},
           Len(lines) = 2 => ~IsFinal(lines[1]),
           lines[Len(lines)] \in {Ok, Error}, Reply(lines)
    PROVE  \E m : /\ Answers(m) /\ m[Len(m)] = lines[Len(lines)]
                 /\ \A k \in 1..(Len(m) - 1) :
                       m[k] = Noise \/ (m[k] = lines[1] /\ Len(lines) = 2)
<1> DEFINE e == IF echo THEN <<Noise>> ELSE <<>>
           m == e \o lines
<1>1. /\ e \in Seq(LineType) /\ stream \in Seq(LineType)
      /\ Len(e) \in {0, 1} /\ (Len(e) = 1 => e[1] = Noise)
  BY LineFacts DEF Types
<1>2. stream' = (stream \o e) \o lines
  BY DEF Reply
<1> HIDE DEF e
<1>3. stream' = stream \o m
  <2>1. stream \in Seq(LineType) /\ e \in Seq(LineType) /\ lines \in Seq(LineType)
    BY <1>1
  <2>2. (stream \o e) \o lines = stream \o (e \o lines)
    BY <2>1, ConcatAssociative
  <2> QED
    BY <1>2, <2>2
<1>4. /\ m \in Seq(LineType) /\ Len(m) = Len(e) + Len(lines)
      /\ \A k \in 1..Len(m) : m[k] = IF k <= Len(e) THEN e[k] ELSE lines[k - Len(e)]
  BY <1>1, ConcatFacts, Zenon
<1> HIDE DEF m
<1>5. /\ stream' \in Seq(LineType) /\ Len(stream') = Len(stream) + Len(m)
      /\ \A k \in 1..Len(stream') :
            stream'[k] = IF k <= Len(stream) THEN stream[k] ELSE m[k - Len(stream)]
  <2>1. stream \in Seq(LineType) /\ m \in Seq(LineType)
    BY <1>1, <1>4
  <2>2. /\ stream \o m \in Seq(LineType) /\ Len(stream \o m) = Len(stream) + Len(m)
        /\ \A k \in 1..Len(stream \o m) :
              (stream \o m)[k] = IF k <= Len(stream) THEN stream[k] ELSE m[k - Len(stream)]
    BY <2>1, ConcatFacts, Zenon
  <2> QED
    BY <1>3, <2>2, Zenon
<1>6. /\ Len(m) \in Nat \ {0} /\ m[Len(m)] = lines[Len(lines)]
      /\ \A k \in 1..(Len(m) - 1) :
            m[k] = Noise \/ (m[k] = lines[1] /\ Len(lines) = 2)
  <2> DEFINE n == Len(lines)
             h == Len(e)
  <2>1. /\ n \in {1, 2} /\ h \in {0, 1} /\ Len(m) = h + n
        /\ \A k \in 1..(h + n) : m[k] = IF k <= h THEN e[k] ELSE lines[k - h]
        /\ h = 1 => e[1] = Noise
    BY <1>1, <1>4
  <2> HIDE DEF n, h
  <2>2. m[h + n] = lines[n]
    <3>1. h + n \in 1..(h + n) /\ ~(h + n <= h) /\ h + n - h = n
      BY <2>1
    <3> QED
      BY <2>1, <3>1
  <2>3. \A k \in 1..(h + n - 1) : m[k] = Noise \/ (m[k] = lines[1] /\ n = 2)
    <3>1. SUFFICES ASSUME NEW k \in 1..(h + n - 1)
                   PROVE  m[k] = Noise \/ (m[k] = lines[1] /\ n = 2)
      OBVIOUS
    <3>2. k \in 1..(h + n) /\ (k <= h => k = 1 /\ h = 1)
            /\ (~(k <= h) => k - h = 1 /\ n = 2)
      BY <2>1
    <3> QED
      BY <2>1, <3>2
  <2>4. Len(m) \in Nat \ {0} /\ Len(m) = h + n
    BY <2>1
  <2>5. Len(lines) = n
    BY DEF n
  <2>6. m[Len(m)] = lines[Len(lines)]
    BY <2>2, <2>4, <2>5
  <2>7. \A k \in 1..(Len(m) - 1) : m[k] = Noise \/ (m[k] = lines[1] /\ Len(lines) = 2)
    BY <2>1, <2>3, <2>4, <2>5
  <2> QED
    BY <2>4, <2>6, <2>7
<1>7. ~IsFinal(Noise) /\ IsFinal(Ok) /\ IsFinal(Error)
  BY LineFacts DEF IsFinal
<1>8. \A k \in 1..(Len(m) - 1) : ~IsFinal(m[k])
  BY <1>6, <1>7
<1>9. Finals(stream') = Finals(stream) + 1
  <2>1. Len(stream) \in Nat /\ Len(stream) < Len(stream')
    BY <1>1, <1>5, <1>6
  <2>2. \A k \in 1..Len(stream) : stream'[k] = stream[k]
    BY <1>5, <1>6, <2>1
  <2>3. \A k \in (Len(stream) + 1)..(Len(stream') - 1) : ~IsFinal(stream'[k])
    BY <1>5, <1>6, <1>8, <2>1
  <2>4. IsFinal(stream'[Len(stream')])
    BY <1>5, <1>6, <1>7, <2>1
  <2> QED
    BY <1>1, <1>5, <2>1, <2>2, <2>3, <2>4, OneFinalMore
<1>10. Len(stream) \in Nat /\ m[Len(m)] \in {Ok, Error}
  BY <1>1, <1>6
<1>11. Answers(m)
  BY <1>4, <1>5, <1>6, <1>8, <1>9, <1>10 DEF Answers, Extends
<1> QED
  BY <1>6, <1>11

\* The module processes w.  What it has been only grows.
LEMMA ObeyFacts ==
    ASSUME Types, NEW w \in Cmds, Obey(w)
    PROVE  /\ \E m :
                 /\ Answers(m)
                 /\ \A k \in 1..(Len(m) - 1) :
                       \/ m[k] = Noise
                       \/ w = "CEREG" /\ m[k] = Reg(reg)
                       \/ w = "CGPADDR" /\ m[k] \in {Addr(addr), Addr(None)}
                 /\ m[Len(m)] = Ok =>
                       /\ w = "ATE0" => ~echo'
                       /\ w = "CGACT" => Idle \/ been'.active
           /\ awake' = awake /\ reg' = reg /\ (echo' => echo)
           /\ echo' \in BOOLEAN /\ up' \in BOOLEAN /\ addr' \in Known
           /\ been' \in [reg : BOOLEAN, addrs : SUBSET Known, active : BOOLEAN]
           /\ been'.reg = been.reg /\ been.addrs \subseteq been'.addrs
           /\ been.active => been'.active
           /\ addr' = addr \/ Idle \/ addr' \in been'.addrs
<1>1. /\ Ok \in LineType /\ Error \in LineType /\ Noise \in LineType /\ Ok # Error
      /\ Reg(reg) \in LineType /\ Reg(reg).kind = "REG"
      /\ Addr(addr) \in LineType /\ Addr(addr).kind = "ADDR"
      /\ Addr(None) \in LineType /\ Addr(None).kind = "ADDR"
  BY LineFacts DEF Types
<1>2. /\ reg \in BOOLEAN /\ echo \in BOOLEAN /\ up \in BOOLEAN /\ addr \in Known
      /\ been \in [reg : BOOLEAN, addrs : SUBSET Known, active : BOOLEAN]
  BY DEF Types
<1>3. ASSUME NEW f \in {Ok, Error}, Reply(<<f>>)
      PROVE  \E m : /\ Answers(m) /\ m[Len(m)] = f
                    /\ \A k \in 1..(Len(m) - 1) : m[k] = Noise
  <2>1. /\ <<f>> \in Seq(LineType) /\ Len(<<f>>) \in {1, 2} /\ Len(<<f>>) # 2
        /\ <<f>>[Len(<<f>>)] = f
    BY <1>1
  <2> QED
    BY <1>3, <2>1, ReplyFacts
<1>4. ASSUME NEW l \in LineType, l.kind \in {"REG", "ADDR"}, Reply(<<l, Ok>>)
      PROVE  \E m : /\ Answers(m) /\ m[Len(m)] = Ok
                    /\ \A k \in 1..(Len(m) - 1) : m[k] = Noise \/ m[k] = l
  <2> DEFINE two == <<l, Ok>>
  <2>1. /\ two \in Seq(LineType) /\ Len(two) = 2 /\ two[1] = l /\ two[2] = Ok
        /\ ~IsFinal(l)
    BY <1>1, <1>4 DEF IsFinal
  <2>2. Reply(two)
    BY <1>4
  <2> HIDE DEF two
  <2> QED
    BY <2>1, <2>2, ReplyFacts
<1>5. CASE w # "AT" /\ Reply(<<Error>>) /\ UNCHANGED <<module, been>>
  BY <1>1, <1>2, <1>3, <1>5 DEF module
<1>6. CASE w \in {"AT", "CGDCONT", "QICSGP"} /\ Reply(<<Ok>>) /\ UNCHANGED <<module, been>>
  BY <1>1, <1>2, <1>3, <1>6 DEF module
<1>7. CASE /\ w = "ATE0" /\ Reply(<<Ok>>) /\ echo' = FALSE
           /\ UNCHANGED <<awake, reg, up, addr, been>>
  BY <1>1, <1>2, <1>3, <1>7
<1>8. CASE w = "CEREG" /\ Reply(<<Reg(reg), Ok>>) /\ UNCHANGED <<module, been>>
  BY <1>1, <1>2, <1>4, <1>8 DEF module
<1>9. CASE /\ w = "CGPADDR"
           /\ \/ Reply(<<Addr(addr), Ok>>)
              \/ ~up /\ (Reply(<<Addr(None), Ok>>) \/ Reply(<<Ok>>))
           /\ UNCHANGED <<module, been>>
  <2>1. \E m : /\ Answers(m)
               /\ \A k \in 1..(Len(m) - 1) :
                     m[k] = Noise \/ m[k] \in {Addr(addr), Addr(None)}
    BY <1>1, <1>3, <1>4, <1>9
  <2> QED
    BY <1>2, <1>9, <2>1 DEF module
<1>10. CASE w = "CGACT" /\ Reply(<<Ok>>) /\ Activates
  <2>1. PICK m : /\ Answers(m) /\ m[Len(m)] = Ok
                 /\ \A k \in 1..(Len(m) - 1) : m[k] = Noise
    BY <1>3, <1>10
  <2>2. /\ addr' \in Known /\ up' \in BOOLEAN
        /\ awake' = awake /\ echo' = echo /\ reg' = reg
    BY <1>2, <1>10 DEF Activates, Known
  <2>3. CASE Idle
    BY <1>2, <1>10, <2>1, <2>2, <2>3 DEF Activates
  <2>4. CASE ~Idle
    <3>1. been' = [been EXCEPT !.active = TRUE, !.addrs = @ \cup {addr'}]
      BY <1>10, <2>4 DEF Activates
    <3>2. /\ been' \in [reg : BOOLEAN, addrs : SUBSET Known, active : BOOLEAN]
          /\ been'.reg = been.reg /\ been'.addrs = been.addrs \cup {addr'}
          /\ been'.active
      BY <1>2, <2>2, <3>1
    <3> QED
      BY <1>2, <1>10, <2>1, <2>2, <3>2
  <2> QED
    BY <2>3, <2>4
<1> QED
  BY <1>5, <1>6, <1>7, <1>8, <1>9, <1>10 DEF Obey

\* What comes unasked: no final result and no address, and a report of the
\* registration only if it is true.
LEMMA UnaskedFacts ==
    ASSUME Types, Boots \/ NetworkChanges \/ AddressComes
    PROVE  /\ \E m : /\ Extends(m)
                     /\ \A k \in 1..Len(m) : m[k] = Noise \/ m[k] = Reg(reg')
           /\ Finals(stream') = Finals(stream)
           /\ work' = work \/ (~awake /\ work' = <<>>)
           /\ call' = call /\ echo' = echo
           /\ awake' = awake \/ awake'
           /\ awake' \in BOOLEAN /\ reg' \in BOOLEAN /\ up' \in BOOLEAN /\ addr' \in Known
           /\ been' \in [reg : BOOLEAN, addrs : SUBSET Known, active : BOOLEAN]
           /\ ~Idle => /\ been.addrs \subseteq been'.addrs
                       /\ been.reg => been'.reg
                       /\ been'.active = been.active
                       /\ reg' = reg \/ (reg' => been'.reg)
                       /\ addr' = addr \/ addr' \in been'.addrs
<1>1. /\ Noise \in LineType /\ ~IsFinal(Noise)
      /\ \A r \in BOOLEAN : Reg(r) \in LineType /\ ~IsFinal(Reg(r))
  BY LineFacts DEF IsFinal
<1>2. /\ stream \in Seq(LineType) /\ awake \in BOOLEAN /\ echo \in BOOLEAN /\ reg \in BOOLEAN
      /\ up \in BOOLEAN /\ addr \in Known
      /\ been \in [reg : BOOLEAN, addrs : SUBSET Known, active : BOOLEAN]
  BY DEF Types
<1>3. ASSUME NEW x \in {Noise, Reg(TRUE), Reg(FALSE)}, stream' = Append(stream, x)
      PROVE  Extends(<<x>>) /\ Finals(stream') = Finals(stream)
  <2>1. x \in LineType /\ ~IsFinal(x)
    BY <1>1
  <2>2. /\ stream' \in Seq(LineType) /\ Len(stream) \in Nat
        /\ Len(stream') = Len(stream) + 1
        /\ \A k \in 1..Len(stream) : stream'[k] = stream[k]
        /\ stream'[Len(stream) + 1] = x
    BY <1>2, <1>3, <2>1, AppendFacts
  <2>3. Finals(stream') = Finals(stream)
    BY <1>2, <1>3, <2>1, FinalsAppend, FinalsType
  <2>4. <<x>> \in Seq(LineType) /\ Len(<<x>>) = 1 /\ <<x>>[1] = x
    BY <2>1
  <2> QED
    BY <2>2, <2>3, <2>4 DEF Extends
<1>4. ASSUME UNCHANGED stream
      PROVE  Extends(<< >>) /\ Finals(stream') = Finals(stream)
  <2>1. << >> \in Seq(LineType) /\ Len(<< >>) = 0 /\ Len(stream) \in Nat
    BY <1>2
  <2> QED
    BY <1>2, <1>4, <2>1 DEF Extends
<1>5. ASSUME NEW r \in BOOLEAN, NEW a \in Known, Becomes(r, a)
      PROVE  /\ reg' = r /\ addr' = a
             /\ been' \in [reg : BOOLEAN, addrs : SUBSET Known, active : BOOLEAN]
             /\ ~Idle => /\ been.addrs \subseteq been'.addrs
                         /\ been.reg => been'.reg
                         /\ been'.active = been.active
                         /\ reg' => been'.reg
                         /\ addr' \in been'.addrs
  <2>1. CASE Idle
    BY <1>2, <1>5, <2>1 DEF Becomes
  <2>2. CASE ~Idle
    <3>1. been' = [been EXCEPT !.reg = @ \/ r, !.addrs = @ \cup {a}]
      BY <1>5, <2>2 DEF Becomes
    <3>2. /\ been' \in [reg : BOOLEAN, addrs : SUBSET Known, active : BOOLEAN]
          /\ been'.reg = (been.reg \/ r) /\ been'.addrs = been.addrs \cup {a}
          /\ been'.active = been.active
      BY <1>2, <3>1
    <3> QED
      BY <1>5, <3>2 DEF Becomes
  <2> QED
    BY <2>1, <2>2
<1>6. CASE Boots
  <2>1. \E m : /\ Extends(m) /\ Finals(stream') = Finals(stream)
               /\ \A k \in 1..Len(m) : m[k] = Noise \/ m[k] = Reg(reg')
    <3>1. CASE UNCHANGED stream
      BY <1>4, <3>1
    <3>2. CASE stream' = Append(stream, Noise)
      BY <1>3, <3>2
    <3> QED
      BY <1>6, <3>1, <3>2 DEF Boots
  <2> QED
    BY <1>2, <1>6, <2>1 DEF Boots
<1>7. CASE NetworkChanges
  <2>1. \E r \in BOOLEAN, a \in Known : Becomes(r, a)
    BY <1>7 DEF NetworkChanges, Known
  <2>2. reg' \in BOOLEAN
    BY <1>5, <2>1
  <2>3. \E m : /\ Extends(m) /\ Finals(stream') = Finals(stream)
               /\ \A k \in 1..Len(m) : m[k] = Noise \/ m[k] = Reg(reg')
    <3>1. CASE UNCHANGED stream
      BY <1>4, <3>1
    <3>2. CASE stream' = Append(stream, Reg(reg'))
      <4>1. Reg(reg') \in {Noise, Reg(TRUE), Reg(FALSE)}
        BY <2>2
      <4>2. /\ Extends(<<Reg(reg')>>) /\ Finals(stream') = Finals(stream)
        BY <1>3, <3>2, <4>1
      <4>3. \A k \in 1..Len(<<Reg(reg')>>) : <<Reg(reg')>>[k] = Reg(reg')
        OBVIOUS
      <4> QED
        BY <4>2, <4>3, Zenon
    <3> QED
      BY <1>7, <3>1, <3>2 DEF NetworkChanges
  <2>4. up' \in BOOLEAN /\ awake' = awake /\ echo' = echo /\ call' = call /\ work' = work
    BY <1>2, <1>7 DEF NetworkChanges
  <2> QED
    BY <1>2, <1>5, <2>1, <2>3, <2>4
<1>8. CASE AddressComes
  <2>1. \E a \in Known : Becomes(reg, a)
    BY <1>8 DEF AddressComes, Known
  <2>2. \E m : /\ Extends(m) /\ Finals(stream') = Finals(stream)
               /\ \A k \in 1..Len(m) : m[k] = Noise \/ m[k] = Reg(reg')
    BY <1>4, <1>8 DEF AddressComes
  <2> QED
    BY <1>2, <1>5, <1>8, <2>1, <2>2 DEF AddressComes
<1> QED
  BY <1>6, <1>7, <1>8

-----------------------------------------------------------------------------
(* The calls *)

\* The call moves on to another step with command cmd.
Moves(c, step, cmd) ==
    /\ call' \in CallType /\ call' # NoCall
    /\ call'.api = c.api /\ call'.clean = c.clean /\ call'.late = c.late
    /\ call'.step = step /\ ~call'.matched
    /\ work \in Seq(Cmds) /\ work' = Append(work, cmd) /\ work' \in Seq(Cmds)
    /\ Len(work) \in Nat /\ Len(work') = Len(work) + 1
    /\ \A i \in 1..Len(work) : work'[i] = work[i]
    /\ work'[Len(work) + 1] = cmd
    /\ been' = been /\ last' = last

LEMMA GotoFacts ==
    ASSUME Types, NEW c \in CallType, NEW step \in Steps, NEW cmd \in Cmds,
           Goto(c, step, cmd)
    PROVE  Moves(c, step, cmd) /\ call'.act = c.act
<1>1. call' = [c EXCEPT !.step = step, !.matched = FALSE, !.got = None]
  BY DEF Goto
<1>2. /\ call' \in CallType /\ call'.api = c.api /\ call'.clean = c.clean
      /\ call'.late = c.late /\ call'.step = step /\ call'.matched = FALSE
      /\ call'.act = c.act
  BY <1>1 DEF CallType, Values
<1>3. call' # NoCall
  BY <1>2 DEF NoCall, CallType
<1>4. work \in Seq(Cmds) /\ work' = Append(work, cmd)
  BY DEF Types, Goto, Transmit
<1>5. /\ work' \in Seq(Cmds) /\ Len(work) \in Nat /\ Len(work') = Len(work) + 1
      /\ \A i \in 1..Len(work) : work'[i] = work[i]
      /\ work'[Len(work) + 1] = cmd
  BY <1>4, AppendFacts
<1> QED
  BY <1>2, <1>3, <1>4, <1>5 DEF Moves, Goto

\* The call returns; when it returns success, which step ended and how.
ReturnsFrom(c, st) ==
    /\ call' = NoCall /\ been' = Nothing /\ work' = work
    /\ last' = Result(call.api, "OK") =>
          \/ c.step = "echo" /\ st = "OK"
          \/ c.step = "poll" /\ st = "OK" /\ c.got = TRUE
          \/ /\ c.step \in {"first", "again"} /\ st = "OK" /\ c.got # None
             /\ ctxAddr' = c.got
             /\ c.got # NoAddr \/ (c.step = "again" /\ c.act = "OK")

\* What can follow the end of a command of call c with status st.
Follows(c, st) ==
    \/ ReturnsFrom(c, st)
    \/ c.step = "probe" /\ Moves(c, "echo", "ATE0") /\ st = "OK"
    \/ c.step = "probe" /\ Moves(c, "probe", "AT") /\ st # "OK"
    \/ c.step = "poll"  /\ Moves(c, "poll", "CEREG")
    \/ c.step = "first" /\ Moves(c, "set", "CGDCONT")
    \/ c.step = "set"   /\ Moves(c, "auth", "QICSGP") /\ st = "OK"
    \/ c.step \in {"set", "auth"} /\ Moves(c, "act", "CGACT") /\ st = "OK"
    \/ c.step = "act" /\ Moves(c, "again", "CGPADDR") /\ call'.act = st

LEMMA EndsFacts ==
    ASSUME Types, NEW c \in CallType, NEW st \in Statuses, Ends(c, st)
    PROVE  Follows(c, st)
<1>1. \A a, b : Result(call.api, a) = Result(call.api, b) => a = b
  BY DEF Result
<1>2. \A x \in Nat : /\ [c EXCEPT !.tries = x] \in CallType
                     /\ [c EXCEPT !.tries = x].api = c.api
                     /\ [c EXCEPT !.tries = x].clean = c.clean
                     /\ [c EXCEPT !.tries = x].late = c.late
  BY DEF CallType
<1>3. /\ [c EXCEPT !.act = st] \in CallType
      /\ [c EXCEPT !.act = st].api = c.api
      /\ [c EXCEPT !.act = st].clean = c.clean
      /\ [c EXCEPT !.act = st].late = c.late
      /\ [c EXCEPT !.act = st].act = st
  BY DEF CallType
<1>4. c.tries + 1 \in Nat
  BY DEF CallType
<1>5. \A d \in CallType, step \in Steps, cmd \in Cmds :
         /\ Goto(d, step, cmd)
         /\ d.api = c.api /\ d.clean = c.clean /\ d.late = c.late
         => Moves(c, step, cmd) /\ call'.act = d.act
  BY GotoFacts DEF Moves
<1>6. CASE c.step = "probe" /\ ProbeEnds(c, st)
  BY <1>1, <1>2, <1>4, <1>5, <1>6 DEF Follows, ProbeEnds, ReturnsFrom, Return, Steps, Cmds
<1>7. CASE c.step = "echo" /\ EchoEnds(st)
  BY <1>1, <1>7 DEF Follows, EchoEnds, ReturnsFrom, Return
<1>8. CASE c.step = "poll" /\ PollEnds(c, st)
  BY <1>1, <1>2, <1>4, <1>5, <1>8
     DEF Follows, PollEnds, Registered, ReturnsFrom, Return, Steps, Cmds
<1>9. GetIp(c, st) = "OK" => st = "OK" /\ c.got # None /\ Kept(c, st) = c.got
  BY DEF GetIp, Kept
<1>10. CASE c.step = "first" /\ FirstEnds(c, st)
  BY <1>1, <1>5, <1>9, <1>10
     DEF Follows, FirstEnds, HasAddress, ReturnsFrom, Return, Steps, Cmds
<1>11. CASE c.step \in {"set", "auth"} /\ SettingEnds(c, st)
  BY <1>1, <1>5, <1>11 DEF Follows, SettingEnds, ReturnsFrom, Return, Steps, Cmds
<1>12. CASE c.step = "act" /\ ActEnds(c, st)
  BY <1>3, <1>5, <1>12 DEF Follows, ActEnds, Steps, Cmds
<1>13. CASE c.step = "again" /\ AgainEnds(c, st)
  BY <1>1, <1>9, <1>13 DEF Follows, AgainEnds, HasAddress, ReturnsFrom, Return
<1> QED
  BY <1>6, <1>7, <1>8, <1>10, <1>11, <1>12, <1>13 DEF Ends, Follows

LEMMA VerdictFacts ==
    ASSUME NEW c \in CallType, NEW l \in LineType
    PROVE  /\ Verdict(c, l) = "go" \/ Verdict(c, l) \in Statuses
           /\ Verdict(c, l) = "go" <=> ~IsFinal(l)
           /\ Verdict(c, l) = "OK" =>
                 l = Ok /\ (c.matched \/ c.step \notin {"poll", "first", "again"})
           /\ l = Error => Verdict(c, l) # "OK"
           /\ Stored(c, l) \in CallType
           /\ \A f \in {"api", "step", "tries", "late", "act", "clean"} :
                 Stored(c, l)[f] = c[f]
           /\ \/ Stored(c, l).matched = c.matched /\ Stored(c, l).got = c.got
              \/ /\ Stored(c, l).matched = TRUE /\ Stored(c, l).got = l.val
                 /\ l.kind = Awaited(c.step)
<1>1. /\ Ok.kind = "OK" /\ Error.kind = "ERROR" /\ Ok # Error
      /\ IsFinal(l) <=> l \in {Ok, Error}
      /\ ~IsFinal(l) => l.val \in Values
  BY LineFacts DEF LineType, IsFinal
<1>2. Awaited(c.step) = "none" => c.step \notin {"poll", "first", "again"}
  BY DEF Awaited
<1>3. /\ Verdict(c, l) = "go" \/ Verdict(c, l) \in Statuses
      /\ Verdict(c, l) = "go" <=> ~IsFinal(l)
      /\ Verdict(c, l) = "OK" =>
            l = Ok /\ (c.matched \/ c.step \notin {"poll", "first", "again"})
      /\ l = Error => Verdict(c, l) # "OK"
  BY <1>1, <1>2 DEF Verdict, Statuses
<1>4. Awaited(c.step) \in {"REG", "ADDR", "none"}
  BY DEF Awaited
<1>5. CASE ~c.matched /\ l.kind = Awaited(c.step)
  <2>1. l.val \in Values
    BY <1>1, <1>4, <1>5 DEF IsFinal
  <2>2. Stored(c, l) = [c EXCEPT !.matched = TRUE, !.got = l.val]
    BY <1>5 DEF Stored
  <2> QED
    BY <1>3, <1>5, <2>1, <2>2 DEF CallType
<1>6. CASE ~(~c.matched /\ l.kind = Awaited(c.step))
  BY <1>3, <1>6 DEF Stored
<1> QED
  BY <1>5, <1>6

\* The first line of the stream is read.
Shifts ==
    /\ stream' \in Seq(LineType) /\ Len(stream) \in Nat \ {0}
    /\ Len(stream') = Len(stream) - 1 /\ stream[1] \in LineType
    /\ \A i \in 1..Len(stream') : stream'[i] = stream[i + 1]
    /\ Finals(stream') = Finals(stream) - (IF IsFinal(stream[1]) THEN 1 ELSE 0)

\* A step of the call in progress: it reads a line and waits on, or ends its
\* command with it, or gives up on its command.
Reads ==
    /\ Shifts /\ ~IsFinal(stream[1]) /\ call' = Stored(call, stream[1])
    /\ work' = work /\ been' = been /\ last' = last
EndsWith(st) ==
    /\ Shifts /\ IsFinal(stream[1]) /\ st = Verdict(call, stream[1])
    /\ Follows(call, st)
LeavesOpen(c, st) ==
    /\ stream' = stream /\ st \in {"TIMEOUT", "IO"}
    /\ c \in CallType /\ c = [call EXCEPT !.late = @ + 1]
    /\ Follows(c, st)

LEMMA CallFacts ==
    ASSUME Types, ReadLine \/ TimesOut \/ ReadFails
    PROVE  /\ call \in CallType /\ ~Idle
           /\ awake' = awake /\ echo' = echo /\ reg' = reg /\ up' = up /\ addr' = addr
           /\ \/ Reads
              \/ \E st \in Statuses : EndsWith(st)
              \/ \E c, st : LeavesOpen(c, st)
<1>1. stream \in Seq(LineType) /\ call \in CallType /\ ~Idle
  BY DEF Types, ReadLine, TimesOut, ReadFails, GivesUp, Idle
<1>2. awake' = awake /\ echo' = echo /\ reg' = reg /\ up' = up /\ addr' = addr
  BY DEF ReadLine, TimesOut, ReadFails, GivesUp, module
<1>3. CASE ReadLine
  <2>1. /\ stream' = Tail(stream) /\ stream # <<>>
        /\ \/ /\ Verdict(call, Head(stream)) # "go"
              /\ Ends(call, Verdict(call, Head(stream)))
           \/ /\ Verdict(call, Head(stream)) = "go"
              /\ call' = Stored(call, Head(stream))
              /\ UNCHANGED <<work, ready, ctxAddr, been, last>>
    BY <1>3 DEF ReadLine
  <2>2. Shifts /\ Head(stream) = stream[1]
    BY <1>1, <2>1, TailFacts, FinalsTail DEF Shifts
  <2>3. /\ Verdict(call, stream[1]) = "go" \/ Verdict(call, stream[1]) \in Statuses
        /\ Verdict(call, stream[1]) = "go" <=> ~IsFinal(stream[1])
    BY <1>1, <2>2, VerdictFacts DEF Shifts
  <2> QED
    BY <1>1, <1>2, <2>1, <2>2, <2>3, EndsFacts DEF Reads, EndsWith
<1>4. CASE TimesOut \/ ReadFails
  <2> DEFINE c == [call EXCEPT !.late = @ + 1]
  <2>1. PICK st \in {"TIMEOUT", "IO"} : Ends(c, st) /\ stream' = stream
    BY <1>4 DEF TimesOut, ReadFails, GivesUp
  <2>2. c \in CallType /\ st \in Statuses
    BY <1>1 DEF CallType, Statuses
  <2>3. Follows(c, st)
    BY <2>1, <2>2, EndsFacts
  <2>4. LeavesOpen(c, st)
    BY <2>1, <2>2, <2>3 DEF LeavesOpen
  <2> QED
    BY <1>1, <1>2, <2>4
<1> QED
  BY <1>3, <1>4

\* A call starts.
LEMMA StartFacts ==
    ASSUME Types, NEW api \in {"init", "wait", "connect"}, NEW step \in Steps,
           NEW cmd \in Cmds, Start(api, step, cmd)
    PROVE  /\ call' \in CallType /\ call'.api = api /\ call'.step = step
           /\ call'.late = 0 /\ ~call'.matched /\ call'.clean = Quiet
           /\ work' = Append(work, cmd) /\ work' \in Seq(Cmds)
           /\ stream' = stream /\ awake' = awake /\ echo' = echo /\ reg' = reg
           /\ up' = up /\ addr' = addr
           /\ been' = [reg |-> reg, addrs |-> {addr}, active |-> FALSE]
           /\ Quiet => work' = <<cmd>> /\ stream = <<>>
<1>1. work \in Seq(Cmds) /\ Quiet \in BOOLEAN
  BY DEF Types, Quiet
<1>2. call' = [NoCall EXCEPT !.api = api, !.step = step, !.clean = Quiet]
  BY DEF Start
<1>3. /\ call' \in CallType /\ call'.api = api /\ call'.step = step
      /\ call'.late = 0 /\ ~call'.matched /\ call'.clean = Quiet
  BY <1>1, <1>2 DEF NoCall, CallType, Values, Statuses
<1>4. work' = Append(work, cmd) /\ work' \in Seq(Cmds)
  BY <1>1, AppendFacts DEF Start, Transmit
<1>5. Quiet => work' = <<cmd>> /\ stream = <<>>
  BY <1>4 DEF Quiet
<1> QED
  BY <1>3, <1>4, <1>5 DEF Start, module

\* The module takes its next command and answers it.
LEMMA WorkFacts ==
    ASSUME Types, ModuleWorks
    PROVE  /\ work[1] \in Cmds /\ Obey(work[1]) /\ awake
           /\ work' \in Seq(Cmds) /\ Len(work) \in Nat \ {0}
           /\ Len(work') = Len(work) - 1
           /\ \A i \in 1..Len(work') : work'[i] = work[i + 1]
           /\ call' = call /\ last' = last /\ work' = Tail(work)
<1>1. work # <<>> /\ work \in Seq(Cmds) /\ work' = Tail(work) /\ Obey(Head(work))
        /\ awake /\ call' = call /\ last' = last
  BY DEF ModuleWorks, Types
<1> QED
  BY <1>1, TailFacts

LEMMA TypesNext ==
    ASSUME Types, [Next]_vars
    PROVE  Types'
<1>1. CASE ModuleWorks
  BY <1>1, WorkFacts, ObeyFacts DEF Types, Answers, Extends
<1>2. CASE Boots \/ NetworkChanges \/ AddressComes
  <2>1. <<>> \in Seq(Cmds)
    OBVIOUS
  <2> QED
    BY <1>2, <2>1, UnaskedFacts DEF Types, Extends
<1>3. CASE ReadLine \/ TimesOut \/ ReadFails
  <2>1. Nothing \in [reg : BOOLEAN, addrs : SUBSET Known, active : BOOLEAN]
    BY DEF Nothing
  <2>2. work' \in Seq(Cmds) /\ stream' \in Seq(LineType) /\ call' \in CallType \cup {NoCall}
        /\ been' \in [reg : BOOLEAN, addrs : SUBSET Known, active : BOOLEAN]
    <3>1. \A c, st : Follows(c, st) =>
             /\ work' \in Seq(Cmds) /\ call' \in CallType \cup {NoCall}
             /\ been' \in [reg : BOOLEAN, addrs : SUBSET Known, active : BOOLEAN]
      BY <2>1 DEF Types, Follows, ReturnsFrom, Moves
    <3>2. CASE Reads
      BY <1>3, <3>2, CallFacts, VerdictFacts DEF Types, Reads, Shifts
    <3>3. CASE \E st \in Statuses : EndsWith(st)
      BY <3>1, <3>3 DEF EndsWith, Shifts
    <3>4. CASE \E c, st : LeavesOpen(c, st)
      BY <3>1, <3>4 DEF Types, LeavesOpen
    <3> QED
      BY <1>3, <3>2, <3>3, <3>4, CallFacts
  <2> QED
    BY <1>3, <2>2, CallFacts DEF Types
<1>4. CASE StartInit \/ StartWait \/ StartConnect
  <2>1. \E api \in {"init", "wait", "connect"}, step \in Steps, cmd \in Cmds :
           Start(api, step, cmd)
    BY <1>4 DEF StartInit, StartWait, StartConnect, Steps, Cmds
  <2>2. [reg |-> reg, addrs |-> {addr}, active |-> FALSE]
          \in [reg : BOOLEAN, addrs : SUBSET Known, active : BOOLEAN]
    BY DEF Types
  <2>3. /\ call' \in CallType /\ work' \in Seq(Cmds)
        /\ UNCHANGED <<stream, awake, echo, reg, up, addr>>
        /\ been' = [reg |-> reg, addrs |-> {addr}, active |-> FALSE]
    BY <2>1, StartFacts
  <2> QED
    BY <2>2, <2>3 DEF Types
<1>5. CASE Restarts
  <2>1. <<>> \in Seq(Cmds)
    OBVIOUS
  <2> QED
    BY <1>5, <2>1 DEF Types, Restarts, Known
<1>6. CASE StartUnready \/ UNCHANGED vars
  BY <1>6 DEF Types, StartUnready, vars, module
<1>7. CASE Poll
  <2>1. stream' \in Seq(LineType)
    BY <1>7, TailFacts DEF Types, Poll
  <2> QED
    BY <1>7, <2>1 DEF Types, Poll, module
<1> QED
  BY <1>1, <1>2, <1>3, <1>4, <1>5, <1>6, <1>7 DEF Next

\* Outside a call, and in the steps between calls, nothing is promised.
LEMMA QuietSteps ==
    ASSUME Restarts \/ StartUnready \/ Poll \/ UNCHANGED vars
    PROVE  (call' = NoCall /\ call = NoCall) \/ UNCHANGED vars
BY DEF Restarts, StartUnready, Poll, Idle

-----------------------------------------------------------------------------
(* ec200_init: what it owes *)

InitInv ==
    call.api = "init" /\ call.clean =>
        /\ call.step \in {"probe", "echo"}
        /\ Len(work) + Finals(stream) <= call.late + 1
        /\ call.late = 0 =>
              \/ /\ work = <<>>
                 /\ call.step = "echo" =>
                       ~echo \/ \A k \in 1..Len(stream) : stream[k] # Ok
              \/ NoFinal /\ work = <<IF call.step = "probe" THEN "AT" ELSE "ATE0">>

LEMMA InitInvNext ==
    ASSUME Types, InitInv, [Next]_vars
    PROVE  InitInv'
<1> SUFFICES ASSUME call'.api = "init", call'.clean
             PROVE  InitInv'
  BY DEF InitInv
<1>1. stream \in Seq(LineType) /\ Finals(stream) \in Nat /\ Len(work) \in Nat
      /\ Ok # Error /\ IsFinal(Ok) /\ IsFinal(Error) /\ ~IsFinal(Noise)
      /\ \A r \in BOOLEAN : ~IsFinal(Reg(r))
  BY FinalsType, LineFacts DEF Types, IsFinal
<1>2. CASE ModuleWorks
  <2>1. /\ work[1] \in Cmds /\ Obey(work[1]) /\ call' = call
        /\ work' \in Seq(Cmds) /\ Len(work) \in Nat \ {0}
        /\ Len(work') = Len(work) - 1
    BY <1>2, WorkFacts
  <2>2. PICK m : /\ Answers(m)
                 /\ m[Len(m)] = Ok => (work[1] = "ATE0" => ~echo')
    BY <2>1, ObeyFacts
  <2>3. Finals(stream') = Finals(stream) + 1
    BY <2>2 DEF Answers
  <2>4. call.step \in {"probe", "echo"} /\ Len(work) + Finals(stream) <= call.late + 1
    BY <2>1 DEF InitInv
  <2>5. CASE call.late = 0
    <3>1. NoFinal /\ work = <<IF call.step = "probe" THEN "AT" ELSE "ATE0">>
      BY <2>1, <2>5 DEF InitInv
    <3>2. Len(work') = 0 /\ work[1] = IF call.step = "probe" THEN "AT" ELSE "ATE0"
      BY <2>1, <3>1
    <3>3. work' = <<>>
      BY <2>1, <3>2, EmptySeq
    <3>4. ASSUME call.step = "echo", echo', NEW k \in 1..Len(stream')
          PROVE  stream'[k] # Ok
      <4>1. m[Len(m)] # Ok
        BY <2>2, <3>2, <3>4
      <4>2. CASE k \in 1..Len(stream) /\ stream'[k] = stream[k]
        BY <1>1, <3>1, <4>2 DEF NoFinal
      <4>3. CASE \E j \in 1..Len(m) : stream'[k] = m[j]
        <5>1. PICK j \in 1..Len(m) : stream'[k] = m[j]
          BY <4>3
        <5>2. j \in 1..(Len(m) - 1) \/ j = Len(m)
          BY <2>2 DEF Answers, Extends
        <5>3. j \in 1..(Len(m) - 1) => ~IsFinal(m[j])
          BY <2>2 DEF Answers
        <5> QED
          BY <1>1, <4>1, <5>1, <5>2, <5>3
      <4> QED
        BY <2>2, <4>2, <4>3, ExtendsFacts DEF Answers
    <3> QED
      BY <1>1, <2>1, <2>3, <2>4, <3>3, <3>4 DEF InitInv
  <2>6. CASE call.late # 0
    BY <1>1, <2>1, <2>3, <2>4, <2>6 DEF InitInv
  <2> QED
    BY <2>5, <2>6
<1>3. CASE Boots \/ NetworkChanges \/ AddressComes
  <2>1. PICK m : Extends(m) /\ \A k \in 1..Len(m) : m[k] = Noise \/ m[k] = Reg(reg')
    BY <1>3, UnaskedFacts
  <2>2. /\ Finals(stream') = Finals(stream) /\ call' = call /\ echo' = echo
        /\ work' = work \/ work' = <<>>
        /\ reg' \in BOOLEAN
    BY <1>3, UnaskedFacts
  <2>3. \A k \in 1..Len(m) : ~IsFinal(m[k]) /\ m[k] # Ok
    BY <1>1, <2>1, <2>2
  <2>4. \A k \in 1..Len(stream') :
           \/ k \in 1..Len(stream) /\ stream'[k] = stream[k]
           \/ ~IsFinal(stream'[k]) /\ stream'[k] # Ok
    BY <2>1, <2>3, ExtendsFacts
  <2>5. NoFinal => NoFinal' /\ \A k \in 1..Len(stream') : stream'[k] # Ok
    BY <1>1, <2>4 DEF NoFinal
  <2>6. Len(work') + Finals(stream') <= Len(work) + Finals(stream)
    BY <1>1, <2>2
  <2>7. call.step \in {"probe", "echo"} /\ Len(work') + Finals(stream') <= call'.late + 1
    <3>1. call \in CallType
      BY <2>2 DEF Types, NoCall
    <3>2. Len(work) + Finals(stream) <= call.late + 1 /\ call.step \in {"probe", "echo"}
      BY <2>2 DEF InitInv
    <3> QED
      BY <1>1, <2>2, <2>6, <3>1, <3>2 DEF CallType
  <2>8. CASE work = <<>>
    <3>1. work' = <<>>
      BY <2>2, <2>8
    <3>2. NoFinal => \A k \in 1..Len(stream) : stream[k] # Ok
      BY <1>1 DEF NoFinal
    <3> QED
      BY <2>2, <2>4, <2>7, <2>8, <3>1, <3>2 DEF InitInv
  <2>9. CASE work # <<>>
    BY <2>2, <2>5, <2>7, <2>9 DEF InitInv
  <2> QED
    BY <2>8, <2>9
<1>4. CASE ReadLine \/ TimesOut \/ ReadFails
  <2>1. call \in CallType /\ echo' = echo
    BY <1>4, CallFacts
  <2>2. call' # NoCall
    BY DEF NoCall
  <2>3. CASE Reads
    <3>1. /\ call'.api = call.api /\ call'.clean = call.clean
          /\ call'.step = call.step /\ call'.late = call.late /\ work' = work
      BY <2>1, <2>3, VerdictFacts DEF Reads, Shifts
    <3>2. /\ Finals(stream') = Finals(stream) /\ Len(stream') \in Nat
          /\ \A k \in 1..Len(stream') : k + 1 \in 1..Len(stream)
                                        /\ stream'[k] = stream[k + 1]
      BY <1>1, <2>3 DEF Reads, Shifts
    <3> QED
      BY <1>1, <2>1, <3>1, <3>2 DEF InitInv, NoFinal
  <2>4. CASE \E st \in Statuses : EndsWith(st)
    <3>1. PICK st \in Statuses : EndsWith(st)
      BY <2>4
    <3>2. /\ Finals(stream') = Finals(stream) - 1 /\ stream' \in Seq(LineType)
          /\ ~NoFinal
      BY <3>1 DEF EndsWith, Shifts, NoFinal
    <3>3. PICK step \in {"probe", "echo"} :
             Moves(call, step, IF step = "probe" THEN "AT" ELSE "ATE0")
      BY <2>2, <3>1 DEF EndsWith, Follows, ReturnsFrom, Moves, InitInv
    <3>4. /\ call.api = "init" /\ call.clean /\ call'.late = call.late
          /\ call'.step = step /\ Len(work') = Len(work) + 1
          /\ work' = Append(work, IF step = "probe" THEN "AT" ELSE "ATE0")
      BY <3>3 DEF Moves
    <3>5. CASE call.late = 0
      <4>1. work = <<>> /\ Len(work) = 0 /\ Finals(stream) <= 1
        BY <1>1, <3>2, <3>4, <3>5 DEF InitInv
      <4>2. work' = <<IF step = "probe" THEN "AT" ELSE "ATE0">>
        BY <3>4, <4>1
      <4>3. Finals(stream') = 0
        BY <1>1, <3>2, <4>1, FinalsType
      <4>4. NoFinal'
        BY <3>2, <4>3, FinalsType DEF NoFinal
      <4> QED
        BY <3>4, <3>5, <4>1, <4>2, <4>3, <4>4 DEF InitInv
    <3>6. CASE call.late # 0
      BY <1>1, <2>1, <3>2, <3>4, <3>6 DEF InitInv
    <3> QED
      BY <3>5, <3>6
  <2>5. CASE \E c, st : LeavesOpen(c, st)
    <3>1. PICK c, st : LeavesOpen(c, st)
      BY <2>5
    <3>2. /\ c.api = call.api /\ c.clean = call.clean /\ c.late = call.late + 1
          /\ c.step = call.step /\ call.late \in Nat
      BY <2>1, <3>1 DEF LeavesOpen, CallType
    <3>3. PICK step \in {"probe", "echo"} :
             Moves(c, step, IF step = "probe" THEN "AT" ELSE "ATE0")
      BY <2>2, <3>1, <3>2 DEF LeavesOpen, Follows, ReturnsFrom, Moves, InitInv
    <3>4. /\ call.api = "init" /\ call.clean /\ call'.late = call.late + 1
          /\ call'.step = step /\ Len(work') = Len(work) + 1 /\ stream' = stream
      BY <3>1, <3>2, <3>3 DEF Moves, LeavesOpen
    <3> QED
      BY <1>1, <3>2, <3>4 DEF InitInv
  <2> QED
    BY <1>4, <2>3, <2>4, <2>5, CallFacts
<1>5. CASE StartInit \/ StartWait \/ StartConnect
  <2>1. CASE Start("init", "probe", "AT")
    <3>1. /\ call'.step = "probe" /\ call'.late = 0 /\ call'.clean = Quiet
          /\ stream' = stream /\ (Quiet => work' = <<"AT">> /\ stream = <<>>)
      BY <2>1, StartFacts DEF Steps, Cmds
    <3>2. NoFinal' /\ Len(work') = 1 /\ Finals(stream') = 0
      <4>1. stream' = <<>> /\ Len(stream') = 0 /\ work' = <<"AT">>
        BY <3>1
      <4>2. \A k \in 1..Len(stream') : ~IsFinal(stream'[k])
        BY <4>1
      <4> QED
        BY <1>1, <3>1, <4>1, <4>2, FinalsType DEF NoFinal
    <3> QED
      BY <3>1, <3>2 DEF InitInv
  <2>2. CASE Start("wait", "poll", "CEREG") \/ Start("connect", "first", "CGPADDR")
    <3>1. call'.api \in {"wait", "connect"}
      BY <2>2, StartFacts DEF Steps, Cmds
    <3> QED
      BY <3>1
  <2> QED
    BY <1>5, <2>1, <2>2 DEF StartInit, StartWait, StartConnect
<1>6. CASE Restarts \/ StartUnready \/ Poll \/ UNCHANGED vars
  <2>1. UNCHANGED vars
    BY <1>6, QuietSteps DEF NoCall
  <2> QED
    BY <2>1 DEF InitInv, NoFinal, vars, module
<1> QED
  BY <1>2, <1>3, <1>4, <1>5, <1>6 DEF Next

-----------------------------------------------------------------------------
(* ec200_net_wait_registered: every report under way is of this call *)

WaitInv ==
    call.api = "wait" /\ call.clean =>
        /\ call.step = "poll"
        /\ reg => been.reg
        /\ \A k \in 1..Len(stream) :
              stream[k].kind = "REG" /\ stream[k].val = TRUE => been.reg
        /\ call.matched /\ call.got = TRUE => been.reg

LEMMA WaitInvNext ==
    ASSUME Types, WaitInv, [Next]_vars
    PROVE  WaitInv'
<1> SUFFICES ASSUME call'.api = "wait", call'.clean
             PROVE  WaitInv'
  BY DEF WaitInv
<1>1. /\ Ok.kind = "OK" /\ Error.kind = "ERROR" /\ Noise.kind = "TEXT"
      /\ \A r \in BOOLEAN : Reg(r).kind = "REG" /\ Reg(r).val = r
      /\ Addr(addr).kind = "ADDR" /\ Addr(None).kind = "ADDR"
      /\ reg \in BOOLEAN /\ been.reg \in BOOLEAN
  BY LineFacts DEF Types
<1>2. CASE ModuleWorks
  <2>1. /\ work[1] \in Cmds /\ Obey(work[1]) /\ call' = call
    BY <1>2, WorkFacts
  <2>2. reg' = reg /\ been'.reg = been.reg
    BY <2>1, ObeyFacts
  <2>3. PICK m : /\ Answers(m)
                 /\ \A k \in 1..(Len(m) - 1) :
                       m[k] \in {Noise, Reg(reg), Addr(addr), Addr(None)}
    BY <2>1, ObeyFacts
  <2>4. \A k \in 1..Len(stream') :
           \/ k \in 1..Len(stream) /\ stream'[k] = stream[k]
           \/ stream'[k] \in {Noise, Reg(reg), Addr(addr), Addr(None), Ok, Error}
    <3>1. \A j \in 1..Len(m) : m[j] \in {Noise, Reg(reg), Addr(addr), Addr(None), Ok, Error}
      BY <2>3 DEF Answers, Extends
    <3> QED
      BY <2>3, <3>1, ExtendsFacts DEF Answers
  <2> QED
    BY <1>1, <2>1, <2>2, <2>4 DEF WaitInv
<1>3. CASE Boots \/ NetworkChanges \/ AddressComes
  <2>1. PICK m : Extends(m) /\ \A k \in 1..Len(m) : m[k] = Noise \/ m[k] = Reg(reg')
    BY <1>3, UnaskedFacts
  <2>2. /\ call' = call /\ reg' \in BOOLEAN /\ ~Idle
        /\ been.reg => been'.reg
        /\ reg' = reg \/ (reg' => been'.reg)
    BY <1>3, UnaskedFacts DEF Idle, NoCall
  <2>3. \A k \in 1..Len(stream') :
           \/ k \in 1..Len(stream) /\ stream'[k] = stream[k]
           \/ stream'[k] \in {Noise, Reg(reg')}
    BY <2>1, ExtendsFacts
  <2> QED
    BY <1>1, <2>2, <2>3 DEF WaitInv
<1>4. CASE ReadLine \/ TimesOut \/ ReadFails
  <2>1. call \in CallType /\ reg' = reg /\ call' # NoCall
    BY <1>4, CallFacts DEF NoCall
  <2>2. CASE Reads
    <3>1. /\ call'.api = call.api /\ call'.clean = call.clean
          /\ call'.step = call.step /\ been' = been
          /\ \/ call'.matched = call.matched /\ call'.got = call.got
             \/ call'.got = stream[1].val /\ stream[1].kind = Awaited(call.step)
      BY <2>1, <2>2, VerdictFacts DEF Reads, Shifts
    <3>2. /\ 1 \in 1..Len(stream)
          /\ \A k \in 1..Len(stream') : k + 1 \in 1..Len(stream)
                                        /\ stream'[k] = stream[k + 1]
      BY <2>2 DEF Reads, Shifts
    <3>3. call.step = "poll" => Awaited(call.step) = "REG"
      BY DEF Awaited
    <3> QED
      BY <2>1, <3>1, <3>2, <3>3 DEF WaitInv
  <2>3. ASSUME NEW c, NEW st, Follows(c, st), c.api = call.api, c.clean = call.clean,
               c.step = call.step,
               \A k \in 1..Len(stream') : \E i \in 1..Len(stream) : stream'[k] = stream[i]
        PROVE  WaitInv'
    <3>1. call.api = "wait" /\ call.clean /\ Moves(c, "poll", "CEREG")
      BY <2>1, <2>3 DEF Follows, ReturnsFrom, Moves, WaitInv
    <3> QED
      BY <2>1, <2>3, <3>1 DEF WaitInv, Moves
  <2>4. CASE \E st \in Statuses : EndsWith(st)
    <3>1. \A k \in 1..Len(stream') : \E i \in 1..Len(stream) : stream'[k] = stream[i]
      BY <2>4 DEF EndsWith, Shifts
    <3> QED
      BY <2>3, <2>4, <3>1 DEF EndsWith
  <2>5. CASE \E c, st : LeavesOpen(c, st)
    <3>1. PICK c, st : LeavesOpen(c, st)
      BY <2>5
    <3>2. c.api = call.api /\ c.clean = call.clean /\ c.step = call.step
      BY <2>1, <3>1 DEF LeavesOpen, CallType
    <3> QED
      BY <2>3, <3>1, <3>2 DEF LeavesOpen
  <2> QED
    BY <1>4, <2>2, <2>4, <2>5, CallFacts
<1>5. CASE StartInit \/ StartWait \/ StartConnect
  <2>1. CASE Start("wait", "poll", "CEREG")
    <3>1. /\ call'.step = "poll" /\ ~call'.matched /\ call'.clean = Quiet
          /\ stream' = stream /\ (Quiet => stream = <<>>)
          /\ reg' = reg /\ been' = [reg |-> reg, addrs |-> {addr}, active |-> FALSE]
      BY <2>1, StartFacts DEF Steps, Cmds
    <3>2. Len(stream') = 0
      BY <3>1
    <3> QED
      BY <3>1, <3>2 DEF WaitInv
  <2>2. CASE Start("init", "probe", "AT") \/ Start("connect", "first", "CGPADDR")
    <3>1. call'.api \in {"init", "connect"}
      BY <2>2, StartFacts DEF Steps, Cmds
    <3> QED
      BY <3>1
  <2> QED
    BY <1>5, <2>1, <2>2 DEF StartInit, StartWait, StartConnect
<1>6. CASE Restarts \/ StartUnready \/ Poll \/ UNCHANGED vars
  <2>1. UNCHANGED vars
    BY <1>6, QuietSteps DEF NoCall
  <2> QED
    BY <2>1 DEF WaitInv, vars, module
<1> QED
  BY <1>2, <1>3, <1>4, <1>5, <1>6 DEF Next

-----------------------------------------------------------------------------
(* ec200_data_connect: which answers are still to come, and in which order *)

\* No final result precedes the answer to CGPADDR.
AddressFirst ==
    \A i, j \in 1..Len(stream) :
        i < j /\ stream[j].kind = "ADDR" => ~IsFinal(stream[i])

NoQuery == \A i \in 1..Len(work) : work[i] # "CGPADDR"

\* An error comes before the answer to CGPADDR.
Refused ==
    \E k \in 1..Len(stream) :
        stream[k] = Error /\ \A j \in 1..(k - 1) : stream[j].kind # "ADDR"

\* The activation comes before the answer to CGPADDR.
Awaiting ==
    /\ NoAddress
    /\ \E i \in 1..Len(work) :
          work[i] = "CGACT" /\ \A j \in 1..(i - 1) : work[j] # "CGPADDR"

Order ==
    \/ /\ call.step = "first"
       /\ \/ work = <<"CGPADDR">> /\ NoAddress /\ NoFinal
          \/ work = <<>> /\ AddressFirst
    \/ /\ call.step = "set"
       /\ \/ work = <<"CGPADDR", "CGDCONT">> /\ NoAddress /\ NoFinal
          \/ work \in {<<"CGDCONT">>, <<>>} /\ AddressFirst
    \/ call.step = "auth" /\ NoAddress /\ NoQuery
    \/ call.step = "act" /\ NoAddress /\ NoQuery
         /\ (been.active \/ Refused \/ Awaiting)
    \/ call.step = "again"
         /\ \/ call.act # "OK" \/ been.active
            \/ ~call.matched /\ (Refused \/ Awaiting)

ConnectInv ==
    call.api = "connect" /\ call.clean =>
        /\ addr \in been.addrs
        /\ \A k \in 1..Len(stream) :
              stream[k].kind = "ADDR" => stream[k].val \in been.addrs \cup {None}
        /\ call.matched => call.got \in been.addrs \cup {None}
        /\ ~awake => call.step \in {"first", "set"} /\ NoFinal /\ NoAddress
        /\ Order

\* What the module does leaves the order as it is.
LEMMA OrderWorks ==
    ASSUME Types, ModuleWorks, call.api = "connect", Order
    PROVE  Order'
<1>1. /\ work[1] \in Cmds /\ Obey(work[1]) /\ call' = call
      /\ work' \in Seq(Cmds) /\ Len(work) \in Nat \ {0}
      /\ Len(work') = Len(work) - 1 /\ work' = Tail(work)
      /\ \A i \in 1..Len(work') : work'[i] = work[i + 1]
  BY WorkFacts
<1>2. /\ Ok.kind = "OK" /\ Error.kind = "ERROR" /\ Noise.kind = "TEXT"
      /\ Reg(reg).kind = "REG" /\ IsFinal(Error) /\ ~Idle
  BY LineFacts DEF Types, IsFinal, Idle, NoCall
<1>3. PICK m : /\ Answers(m)
               /\ \A j \in 1..(Len(m) - 1) :
                     m[j] \in {Noise, Reg(reg)} \/ work[1] = "CGPADDR"
               /\ m[Len(m)] = Ok /\ work[1] = "CGACT" => been'.active
  BY <1>1, <1>2, ObeyFacts
<1>4. been.active => been'.active
  BY <1>1, ObeyFacts
<1>5. /\ Extends(m) /\ Len(stream) \in Nat /\ Len(m) \in Nat \ {0}
      /\ \A j \in 1..(Len(m) - 1) : ~IsFinal(m[j])
      /\ m[Len(m)] \in {Ok, Error} /\ Len(stream') = Len(stream) + Len(m)
      /\ \A k \in 1..Len(stream) : k \in 1..Len(stream') /\ stream'[k] = stream[k]
      /\ stream'[Len(stream')] = m[Len(m)]
  BY <1>3 DEF Answers, Extends
<1>6. Refused => Refused'
  <2>1. ASSUME NEW k \in 1..Len(stream), stream[k] = Error,
               \A j \in 1..(k - 1) : stream[j].kind # "ADDR"
        PROVE  Refused'
    <3>1. \A j \in 1..(k - 1) : j \in 1..Len(stream)
      BY <1>5
    <3> QED
      BY <1>5, <2>1, <3>1 DEF Refused
  <2> QED
    BY <2>1 DEF Refused
<1>7. CASE work[1] = "CGPADDR"
  <2>1. ASSUME NoFinal
        PROVE  AddressFirst'
    <3>1. SUFFICES ASSUME NEW i \in 1..Len(stream'), NEW j \in 1..Len(stream'), i < j
                   PROVE  ~IsFinal(stream'[i])
      BY DEF AddressFirst
    <3>2. CASE i \in 1..Len(stream)
      BY <1>5, <2>1, <3>2 DEF NoFinal
    <3>3. CASE i \notin 1..Len(stream)
      <4>1. PICK p \in 1..Len(m) : i = Len(stream) + p /\ stream'[i] = m[p]
        BY <1>5, <3>3, ExtendsFacts
      <4>2. p \in 1..(Len(m) - 1)
        BY <1>5, <3>1, <4>1
      <4> QED
        BY <1>5, <4>1, <4>2
    <3> QED
      BY <3>2, <3>3
  <2>2. CASE call.step = "first"
    <3>1. work = <<"CGPADDR">> /\ NoFinal
      BY <1>1, <2>2 DEF Order
    <3>2. work' = <<>>
      BY <1>1, <3>1
    <3> QED
      BY <1>1, <2>1, <2>2, <3>1, <3>2 DEF Order
  <2>3. CASE call.step = "set"
    <3>1. work = <<"CGPADDR", "CGDCONT">> /\ NoFinal
      BY <1>1, <1>7, <2>3 DEF Order
    <3>2. work' = <<"CGDCONT">>
      BY <1>1, <3>1
    <3> QED
      BY <1>1, <2>1, <2>3, <3>1, <3>2 DEF Order
  <2>4. CASE call.step \in {"auth", "act"}
    <3>1. NoQuery /\ 1 \in 1..Len(work)
      BY <1>1, <2>4 DEF Order
    <3> QED
      BY <1>7, <3>1 DEF NoQuery
  <2>5. CASE call.step = "again"
    <3>1. ~Awaiting
      <4>1. SUFFICES ASSUME NEW i \in 1..Len(work), work[i] = "CGACT",
                            \A j \in 1..(i - 1) : work[j] # "CGPADDR"
                     PROVE  FALSE
        BY DEF Awaiting
      <4>2. i # 1 /\ 1 \in 1..(i - 1)
        BY <1>1, <1>7, <4>1
      <4> QED
        BY <1>7, <4>1, <4>2
    <3> QED
      BY <1>1, <1>4, <1>6, <2>5, <3>1 DEF Order
  <2> QED
    BY <2>2, <2>3, <2>4, <2>5 DEF Order
<1>8. CASE work[1] # "CGPADDR"
  <2>1. \A k \in 1..Len(stream') :
           \/ k \in 1..Len(stream) /\ stream'[k] = stream[k]
           \/ stream'[k].kind # "ADDR" /\ k > Len(stream)
    <3>1. \A j \in 1..Len(m) : m[j].kind # "ADDR"
      BY <1>2, <1>3, <1>5, <1>8
    <3>2. \A j \in 1..Len(m) : Len(stream) + j > Len(stream)
      BY <1>5
    <3> QED
      BY <1>5, <3>1, <3>2, ExtendsFacts
  <2>2. (NoAddress => NoAddress') /\ (AddressFirst => AddressFirst')
    <3>1. NoAddress => NoAddress'
      BY <2>1 DEF NoAddress
    <3>2. ASSUME AddressFirst, NEW i \in 1..Len(stream'), NEW j \in 1..Len(stream'),
                 i < j, stream'[j].kind = "ADDR"
          PROVE  ~IsFinal(stream'[i])
      <4>1. j \in 1..Len(stream) /\ i \in 1..Len(stream)
        BY <1>5, <2>1, <3>2
      <4> QED
        BY <1>5, <3>2, <4>1 DEF AddressFirst
    <3> QED
      BY <3>1, <3>2 DEF AddressFirst
  <2>3. NoQuery => NoQuery'
    BY <1>1 DEF NoQuery
  <2>4. Awaiting => been'.active \/ Refused' \/ Awaiting'
    <3>1. SUFFICES ASSUME NoAddress, NEW i \in 1..Len(work), work[i] = "CGACT",
                          \A j \in 1..(i - 1) : work[j] # "CGPADDR"
                   PROVE  been'.active \/ Refused' \/ Awaiting'
      BY DEF Awaiting
    <3>2. CASE i = 1 /\ m[Len(m)] = Ok
      BY <1>3, <3>1, <3>2
    <3>3. CASE i = 1 /\ m[Len(m)] = Error
      <4>1. Len(stream') \in 1..Len(stream') /\ stream'[Len(stream')] = Error
        BY <1>5, <3>3
      <4>2. \A j \in 1..(Len(stream') - 1) : stream'[j].kind # "ADDR"
        BY <1>5, <2>2, <3>1 DEF NoAddress
      <4> QED
        BY <4>1, <4>2 DEF Refused
    <3>4. CASE i # 1
      <4>1. i - 1 \in 1..Len(work') /\ work'[i - 1] = "CGACT"
        BY <1>1, <3>1, <3>4
      <4>2. \A j \in 1..((i - 1) - 1) : work'[j] # "CGPADDR"
        BY <1>1, <3>1, <3>4
      <4> QED
        BY <2>2, <3>1, <4>1, <4>2 DEF Awaiting
    <3> QED
      BY <1>5, <3>2, <3>3, <3>4
  <2>5. CASE call.step = "first"
    BY <1>1, <1>8, <2>5 DEF Order
  <2>6. CASE call.step = "set"
    <3>1. work = <<"CGDCONT">> /\ AddressFirst
      BY <1>1, <1>8, <2>6 DEF Order
    <3>2. work' = <<>>
      BY <1>1, <3>1
    <3> QED
      BY <1>1, <2>2, <2>6, <3>1, <3>2 DEF Order
  <2>7. CASE call.step \in {"auth", "act", "again"}
    BY <1>1, <1>4, <1>6, <2>2, <2>3, <2>4, <2>7 DEF Order
  <2> QED
    BY <2>5, <2>6, <2>7 DEF Order
<1> QED
  BY <1>7, <1>8

\* So does what comes unasked.
LEMMA OrderUnasked ==
    ASSUME Types, Boots \/ NetworkChanges \/ AddressComes,
           call.api = "connect", Order,
           ~awake => call.step \in {"first", "set"} /\ NoFinal /\ NoAddress
    PROVE  /\ Order' /\ (NoFinal => NoFinal') /\ (NoAddress => NoAddress')
           /\ \A k \in 1..Len(stream') :
                 stream'[k].kind = "ADDR" => k \in 1..Len(stream) /\ stream'[k] = stream[k]
<1>1. /\ Noise.kind = "TEXT" /\ ~IsFinal(Noise)
      /\ \A r \in BOOLEAN : Reg(r).kind = "REG" /\ ~IsFinal(Reg(r))
  BY LineFacts DEF IsFinal
<1>2. PICK m : Extends(m) /\ \A k \in 1..Len(m) : m[k] = Noise \/ m[k] = Reg(reg')
  BY UnaskedFacts
<1>3. /\ work' = work \/ (~awake /\ work' = <<>>)
      /\ call' = call /\ reg' \in BOOLEAN /\ been'.active = been.active
  BY UnaskedFacts DEF Idle, NoCall
<1>4. \A k \in 1..Len(stream') :
         \/ k \in 1..Len(stream) /\ stream'[k] = stream[k]
         \/ stream'[k].kind # "ADDR" /\ ~IsFinal(stream'[k]) /\ k > Len(stream)
  <2>1. \A j \in 1..Len(m) : m[j].kind # "ADDR" /\ ~IsFinal(m[j]) /\ Len(stream) + j > Len(stream)
    BY <1>1, <1>2, <1>3 DEF Extends
  <2> QED
    BY <1>2, <2>1, ExtendsFacts
<1>5. /\ Len(stream) \in Nat /\ Len(stream') \in Nat
      /\ \A k \in 1..Len(stream) : k \in 1..Len(stream') /\ stream'[k] = stream[k]
  BY <1>2 DEF Extends
<1>6. (NoFinal => NoFinal') /\ (NoAddress => NoAddress')
  BY <1>4 DEF NoFinal, NoAddress
<1>7. AddressFirst => AddressFirst'
  <2>1. SUFFICES ASSUME AddressFirst, NEW i \in 1..Len(stream'), NEW j \in 1..Len(stream'),
                        i < j, stream'[j].kind = "ADDR"
                 PROVE  ~IsFinal(stream'[i])
    BY DEF AddressFirst
  <2>2. j \in 1..Len(stream) /\ i \in 1..Len(stream)
    BY <1>4, <1>5, <2>1
  <2> QED
    BY <1>5, <2>1, <2>2 DEF AddressFirst
<1>8. Refused => Refused'
  <2>1. ASSUME NEW k \in 1..Len(stream), stream[k] = Error,
               \A j \in 1..(k - 1) : stream[j].kind # "ADDR"
        PROVE  Refused'
    <3>1. \A j \in 1..(k - 1) : j \in 1..Len(stream)
      BY <1>5
    <3> QED
      BY <1>5, <2>1, <3>1 DEF Refused
  <2> QED
    BY <2>1 DEF Refused
<1>9. CASE work' = work
  <2>1. (Awaiting => Awaiting') /\ (NoQuery => NoQuery')
    BY <1>6, <1>9 DEF Awaiting, NoQuery
  <2> QED
    BY <1>3, <1>4, <1>6, <1>7, <1>8, <1>9, <2>1 DEF Order
<1>10. CASE ~awake /\ work' = <<>>
  <2>1. AddressFirst'
    BY <1>6, <1>10 DEF AddressFirst, NoAddress
  <2> QED
    BY <1>3, <1>4, <1>6, <1>10, <2>1 DEF Order
<1> QED
  BY <1>3, <1>9, <1>10

\* A line that is read and does not end the command.
LEMMA OrderReads ==
    ASSUME call \in CallType, Reads, Order
    PROVE  Order' /\ call'.step = call.step
<1>1. /\ call'.step = call.step /\ call'.act = call.act
      /\ \/ call'.matched = call.matched
         \/ stream[1].kind = Awaited(call.step)
  BY VerdictFacts DEF Reads, Shifts
<1>2. /\ Len(stream) \in Nat \ {0} /\ Len(stream') = Len(stream) - 1
      /\ ~IsFinal(stream[1]) /\ work' = work /\ been' = been
      /\ \A k \in 1..Len(stream') : k + 1 \in 1..Len(stream) /\ stream'[k] = stream[k + 1]
  BY DEF Reads, Shifts
<1>3. (NoFinal => NoFinal') /\ (NoAddress => NoAddress')
  BY <1>2 DEF NoFinal, NoAddress
<1>4. AddressFirst => AddressFirst'
  <2>1. SUFFICES ASSUME AddressFirst, NEW i \in 1..Len(stream'), NEW j \in 1..Len(stream'),
                        i < j, stream'[j].kind = "ADDR"
                 PROVE  ~IsFinal(stream'[i])
    BY DEF AddressFirst
  <2>2. /\ i + 1 \in 1..Len(stream) /\ j + 1 \in 1..Len(stream) /\ i + 1 < j + 1
        /\ stream'[i] = stream[i + 1] /\ stream'[j] = stream[j + 1]
    BY <1>2, <2>1
  <2> QED
    BY <2>1, <2>2 DEF AddressFirst
<1>5. Refused => Refused' /\ stream[1].kind # "ADDR"
  <2>1. SUFFICES ASSUME NEW k \in 1..Len(stream), stream[k] = Error,
                        \A j \in 1..(k - 1) : stream[j].kind # "ADDR"
                 PROVE  Refused' /\ stream[1].kind # "ADDR"
    BY DEF Refused
  <2>2. k # 1
    BY <1>2, <2>1, LineFacts DEF IsFinal
  <2>3. k - 1 \in 1..Len(stream') /\ stream'[k - 1] = Error /\ 1 \in 1..(k - 1)
    BY <1>2, <2>1, <2>2
  <2>4. \A j \in 1..((k - 1) - 1) : stream'[j].kind # "ADDR"
    <3>1. SUFFICES ASSUME NEW j \in 1..((k - 1) - 1)
                   PROVE  stream'[j].kind # "ADDR"
      OBVIOUS
    <3>2. j \in 1..Len(stream') /\ j + 1 \in 1..(k - 1)
      BY <1>2, <2>1
    <3> QED
      BY <1>2, <2>1, <3>2
  <2> QED
    BY <2>1, <2>3, <2>4 DEF Refused
<1>6. Awaiting => Awaiting' /\ stream[1].kind # "ADDR"
  BY <1>2, <1>3 DEF Awaiting, NoAddress
<1>7. Awaited("again") = "ADDR"
  BY DEF Awaited
<1>8. NoQuery => NoQuery'
  BY <1>2 DEF NoQuery
<1> QED
  BY <1>1, <1>2, <1>3, <1>4, <1>5, <1>6, <1>7, <1>8 DEF Order

\* The call goes on with its next command.
LEMMA OrderEnds ==
    ASSUME Types, NEW c \in CallType, NEW st \in Statuses, Follows(c, st),
           c.api = "connect", c.step = call.step, call'.api = "connect", Order,
           \/ stream' = stream /\ st # "OK"
           \/ Shifts /\ IsFinal(stream[1]) /\ (st = "OK" => stream[1] # Error)
    PROVE  Order' /\ ~call'.matched
<1>1. call' # NoCall /\ ~(c.step \in {"probe", "poll", "echo"})
  BY DEF NoCall, Order
<1>2. stream \in Seq(LineType) /\ Len(stream) \in Nat /\ Len(work) \in Nat
  BY DEF Types
<1>3. ASSUME NEW step, NEW cmd, Moves(c, step, cmd)
      PROVE  /\ call'.step = step /\ ~call'.matched /\ been' = been
             /\ work' = Append(work, cmd) /\ Len(work') = Len(work) + 1
             /\ \A i \in 1..Len(work) : i \in 1..Len(work') /\ work'[i] = work[i]
             /\ Len(work) + 1 \in 1..Len(work') /\ work'[Len(work) + 1] = cmd
             /\ \A i \in 1..Len(work') : i \in 1..Len(work) \/ i = Len(work) + 1
             /\ NoQuery /\ cmd # "CGPADDR" => NoQuery'
  BY <1>2, <1>3 DEF Moves, NoQuery
<1>4. NoAddress => NoAddress'
  <2>1. CASE stream' = stream
    BY <2>1 DEF NoAddress
  <2>2. CASE Shifts
    <3>1. \A k \in 1..Len(stream') :
             k + 1 \in 1..Len(stream) /\ stream'[k] = stream[k + 1]
      BY <2>2 DEF Shifts
    <3> QED
      BY <3>1 DEF NoAddress
  <2> QED
    BY <2>1, <2>2
<1>5. Shifts => /\ Len(stream) \in Nat \ {0} /\ Len(stream') = Len(stream) - 1
                /\ \A k \in 1..Len(stream') :
                      k + 1 \in 1..Len(stream) /\ stream'[k] = stream[k + 1]
  BY DEF Shifts
<1>6. AddressFirst => AddressFirst'
  <2>1. SUFFICES ASSUME AddressFirst, NEW i \in 1..Len(stream'), NEW j \in 1..Len(stream'),
                        i < j, stream'[j].kind = "ADDR", Shifts
                 PROVE  ~IsFinal(stream'[i])
    BY DEF AddressFirst
  <2>2. /\ i + 1 \in 1..Len(stream) /\ j + 1 \in 1..Len(stream) /\ i + 1 < j + 1
        /\ stream'[i] = stream[i + 1] /\ stream'[j] = stream[j + 1]
    BY <1>5, <2>1
  <2> QED
    BY <2>1, <2>2 DEF AddressFirst
<1>7. Shifts /\ IsFinal(stream[1]) /\ AddressFirst => NoAddress'
  <2>1. SUFFICES ASSUME Shifts, IsFinal(stream[1]), AddressFirst,
                        NEW j \in 1..Len(stream'), stream'[j].kind = "ADDR"
                 PROVE  FALSE
    BY DEF NoAddress
  <2>2. /\ 1 \in 1..Len(stream) /\ j + 1 \in 1..Len(stream) /\ 1 < j + 1
        /\ stream[j + 1].kind = "ADDR"
    BY <1>5, <2>1
  <2> QED
    BY <2>1, <2>2 DEF AddressFirst
<1>8. Shifts /\ IsFinal(stream[1]) => ~NoFinal
  BY <1>5 DEF NoFinal
<1>9. CASE c.step = "first"
  <2>1. Moves(c, "set", "CGDCONT")
    BY <1>1, <1>9 DEF Follows, ReturnsFrom
  <2>2. CASE work = <<"CGPADDR">> /\ NoAddress /\ NoFinal
    <3>1. work' = <<"CGPADDR", "CGDCONT">> /\ stream' = stream
      BY <1>3, <1>8, <2>1, <2>2
    <3> QED
      BY <1>3, <1>4, <2>1, <2>2, <3>1 DEF Order, NoFinal
  <2>3. CASE work = <<>> /\ AddressFirst
    <3>1. work' = <<"CGDCONT">>
      BY <1>3, <2>1, <2>3
    <3> QED
      BY <1>3, <1>6, <2>1, <2>3, <3>1 DEF Order
  <2> QED
    BY <1>9, <2>2, <2>3 DEF Order
<1>10. CASE c.step = "set"
  <2>1. /\ Moves(c, "auth", "QICSGP") \/ Moves(c, "act", "CGACT")
        /\ Shifts /\ IsFinal(stream[1])
    BY <1>1, <1>10 DEF Follows, ReturnsFrom
  <2>2. work \in {<<"CGDCONT">>, <<>>} /\ AddressFirst
    BY <1>8, <1>10, <2>1 DEF Order
  <2>3. NoQuery /\ NoAddress'
    BY <1>7, <2>1, <2>2 DEF NoQuery
  <2>4. CASE Moves(c, "auth", "QICSGP")
    BY <1>3, <2>3, <2>4 DEF Order
  <2>5. CASE Moves(c, "act", "CGACT")
    <3>1. /\ Len(work) + 1 \in 1..Len(work') /\ work'[Len(work) + 1] = "CGACT"
          /\ NoQuery' /\ call'.step = "act" /\ ~call'.matched
      BY <1>3, <2>3, <2>5
    <3>2. \A j \in 1..((Len(work) + 1) - 1) : work'[j] # "CGPADDR"
      BY <1>2, <1>3, <2>3, <2>5 DEF NoQuery
    <3>3. Awaiting'
      BY <2>3, <3>1, <3>2 DEF Awaiting
    <3> QED
      BY <2>3, <3>1, <3>3 DEF Order
  <2> QED
    BY <2>1, <2>4, <2>5
<1>11. CASE c.step = "auth"
  <2>1. Moves(c, "act", "CGACT") /\ NoAddress' /\ NoQuery
    BY <1>1, <1>4, <1>11 DEF Follows, ReturnsFrom, Order
  <2>2. /\ Len(work) + 1 \in 1..Len(work') /\ work'[Len(work) + 1] = "CGACT"
        /\ NoQuery' /\ call'.step = "act" /\ ~call'.matched
    BY <1>3, <2>1
  <2>3. \A j \in 1..((Len(work) + 1) - 1) : work'[j] # "CGPADDR"
    BY <1>2, <1>3, <2>1 DEF NoQuery
  <2>4. Awaiting'
    BY <2>1, <2>2, <2>3 DEF Awaiting
  <2> QED
    BY <2>1, <2>2, <2>4 DEF Order
<1>12. CASE c.step = "act"
  <2>1. /\ Moves(c, "again", "CGPADDR") /\ call'.act = st
        /\ NoAddress' /\ NoAddress /\ NoQuery
        /\ been.active \/ Refused \/ Awaiting
    BY <1>1, <1>4, <1>12 DEF Follows, ReturnsFrom, Order
  <2>2. CASE st # "OK"
    BY <1>3, <2>1, <2>2 DEF Order
  <2>3. CASE st = "OK" /\ Refused
    <3>1. Shifts /\ stream[1] # Error
      BY <2>3
    <3>2. PICK k \in 1..Len(stream) : stream[k] = Error
      BY <2>3 DEF Refused
    <3>3. k - 1 \in 1..Len(stream') /\ stream'[k - 1] = Error
      BY <1>5, <3>1, <3>2
    <3>4. \A j \in 1..((k - 1) - 1) : j \in 1..Len(stream')
      BY <1>5, <3>1, <3>3
    <3>5. Refused'
      BY <2>1, <3>3, <3>4 DEF Refused, NoAddress
    <3> QED
      BY <1>3, <2>1, <3>5 DEF Order
  <2>4. CASE Awaiting
    <3>1. PICK i \in 1..Len(work) : /\ work[i] = "CGACT"
                                    /\ \A j \in 1..(i - 1) : work[j] # "CGPADDR"
      BY <2>4 DEF Awaiting
    <3>2. i \in 1..Len(work') /\ work'[i] = "CGACT"
      BY <1>3, <2>1, <3>1
    <3>3. \A j \in 1..(i - 1) : work'[j] # "CGPADDR"
      <4>1. \A j \in 1..(i - 1) : j \in 1..Len(work)
        BY <1>2, <3>1
      <4> QED
        BY <1>3, <2>1, <3>1, <4>1
    <3>4. Awaiting'
      BY <2>1, <3>2, <3>3 DEF Awaiting
    <3> QED
      BY <1>3, <2>1, <3>4 DEF Order
  <2>5. CASE been.active
    BY <1>3, <2>1, <2>5 DEF Order
  <2> QED
    BY <2>1, <2>2, <2>3, <2>4, <2>5
<1>13. CASE c.step = "again"
  BY <1>1, <1>13 DEF Follows, ReturnsFrom
<1> QED
  BY <1>9, <1>10, <1>11, <1>12, <1>13 DEF Order

LEMMA ConnectInvNext ==
    ASSUME Types, ConnectInv, [Next]_vars
    PROVE  ConnectInv'
<1> SUFFICES ASSUME call'.api = "connect", call'.clean
             PROVE  ConnectInv'
  BY DEF ConnectInv
<1>1. /\ Ok.kind = "OK" /\ Error.kind = "ERROR" /\ Noise.kind = "TEXT" /\ Ok # Error
      /\ Reg(reg).kind = "REG" /\ Addr(addr).kind = "ADDR" /\ Addr(addr).val = addr
      /\ Addr(None).kind = "ADDR" /\ Addr(None).val = None
  BY LineFacts DEF Types
<1>2. CASE ModuleWorks
  <2>1. work[1] \in Cmds /\ Obey(work[1]) /\ call' = call
    BY <1>2, WorkFacts
  <2>2. /\ ConnectInv /\ call.api = "connect" /\ call.clean /\ Order
    BY <2>1 DEF ConnectInv
  <2>3. /\ awake' /\ been.addrs \subseteq been'.addrs
        /\ addr' = addr \/ addr' \in been'.addrs
    <3>1. ~Idle
      BY <2>2 DEF Idle, NoCall
    <3>2. /\ awake' = awake /\ been.addrs \subseteq been'.addrs
          /\ addr' = addr \/ Idle \/ addr' \in been'.addrs
      BY <2>1, ObeyFacts
    <3>3. awake
      BY <1>2, WorkFacts
    <3> QED
      BY <3>1, <3>2, <3>3
  <2>4. PICK m : /\ Answers(m)
                 /\ \A k \in 1..(Len(m) - 1) :
                       m[k] \in {Noise, Reg(reg), Addr(addr), Addr(None)}
    BY <2>1, ObeyFacts
  <2>5. \A k \in 1..Len(stream') :
           \/ k \in 1..Len(stream) /\ stream'[k] = stream[k]
           \/ stream'[k] \in {Noise, Reg(reg), Addr(addr), Addr(None), Ok, Error}
    <3>1. \A j \in 1..Len(m) : m[j] \in {Noise, Reg(reg), Addr(addr), Addr(None), Ok, Error}
      BY <2>4 DEF Answers, Extends
    <3> QED
      BY <2>4, <3>1, ExtendsFacts DEF Answers
  <2>6. Order'
    BY <1>2, <2>2, OrderWorks
  <2> QED
    BY <1>1, <2>1, <2>2, <2>3, <2>5, <2>6 DEF ConnectInv
<1>3. CASE Boots \/ NetworkChanges \/ AddressComes
  <2>1. /\ call' = call /\ been.addrs \subseteq been'.addrs
        /\ awake' = awake \/ awake'
        /\ addr' = addr \/ addr' \in been'.addrs
    BY <1>3, UnaskedFacts DEF Idle, NoCall
  <2>2. ConnectInv /\ call.api = "connect" /\ call.clean /\ Order
    BY <2>1 DEF ConnectInv
  <2>3. ~awake => call.step \in {"first", "set"} /\ NoFinal /\ NoAddress
    BY <2>2 DEF ConnectInv
  <2>4. /\ Order' /\ (NoFinal => NoFinal') /\ (NoAddress => NoAddress')
        /\ \A k \in 1..Len(stream') :
              stream'[k].kind = "ADDR" => k \in 1..Len(stream) /\ stream'[k] = stream[k]
    BY <1>3, <2>2, <2>3, OrderUnasked
  <2> QED
    BY <2>1, <2>2, <2>4 DEF ConnectInv
<1>4. CASE ReadLine \/ TimesOut \/ ReadFails
  <2>1. /\ call \in CallType /\ call # NoCall /\ call' # NoCall
        /\ awake' = awake /\ addr' = addr
    BY <1>4, CallFacts DEF NoCall, Idle
  <2>2. CASE Reads
    <3>1. /\ call'.api = call.api /\ call'.clean = call.clean /\ been' = been
          /\ call'.step = call.step
          /\ \/ call'.matched = call.matched /\ call'.got = call.got
             \/ call'.got = stream[1].val /\ stream[1].kind = Awaited(call.step)
          /\ stream[1].kind \in {"TEXT", "REG", "ADDR"}
      <4>1. stream[1] \in LineType /\ ~IsFinal(stream[1])
              /\ call' = Stored(call, stream[1]) /\ been' = been
        BY <2>2 DEF Reads, Shifts
      <4>2. stream[1].kind \in {"TEXT", "REG", "ADDR"}
        BY <4>1, LineFacts DEF LineType, IsFinal
      <4> QED
        BY <2>1, <4>1, <4>2, VerdictFacts
    <3>2. ConnectInv /\ call.api = "connect" /\ call.clean /\ Order
      BY <3>1 DEF ConnectInv
    <3>3. Order'
      BY <2>1, <2>2, <3>2, OrderReads
    <3>4. /\ 1 \in 1..Len(stream)
          /\ \A k \in 1..Len(stream') : k + 1 \in 1..Len(stream)
                                        /\ stream'[k] = stream[k + 1]
      BY <2>2 DEF Reads, Shifts
    <3>5. stream[1].kind = Awaited(call.step) => stream[1].kind = "ADDR"
      BY <3>1, <3>2 DEF Awaited, Order
    <3>6. (NoFinal => NoFinal') /\ (NoAddress => NoAddress')
      BY <3>4 DEF NoFinal, NoAddress
    <3> QED
      BY <2>1, <3>1, <3>2, <3>3, <3>4, <3>5, <3>6 DEF ConnectInv
  <2>3. CASE \E st \in Statuses : EndsWith(st)
    <3>1. PICK st \in Statuses : EndsWith(st)
      BY <2>3
    <3>2. /\ Shifts /\ IsFinal(stream[1]) /\ Follows(call, st)
          /\ st = "OK" => stream[1] # Error
      BY <2>1, <3>1, VerdictFacts DEF EndsWith, Shifts
    <3>3. /\ call.api = "connect" /\ call.clean /\ been' = been
      BY <2>1, <3>2 DEF Follows, ReturnsFrom, Moves
    <3>4. ConnectInv /\ Order
      BY <3>3 DEF ConnectInv
    <3>5. Order' /\ ~call'.matched
      BY <2>1, <3>2, <3>3, <3>4, OrderEnds
    <3>6. /\ 1 \in 1..Len(stream)
          /\ \A k \in 1..Len(stream') : k + 1 \in 1..Len(stream)
                                        /\ stream'[k] = stream[k + 1]
      BY <3>2 DEF Shifts
    <3>7. awake
      BY <3>2, <3>3, <3>4, <3>6 DEF ConnectInv, NoFinal
    <3> QED
      BY <2>1, <3>3, <3>4, <3>5, <3>6, <3>7 DEF ConnectInv
  <2>4. CASE \E c, st : LeavesOpen(c, st)
    <3>1. PICK c, st : LeavesOpen(c, st)
      BY <2>4
    <3>2. /\ c \in CallType /\ c.api = call.api /\ c.clean = call.clean
          /\ c.step = call.step /\ st \in Statuses /\ st # "OK"
          /\ Follows(c, st) /\ stream' = stream
      BY <2>1, <3>1 DEF LeavesOpen, CallType, Statuses
    <3>3. /\ call.api = "connect" /\ call.clean /\ been' = been
      BY <2>1, <3>2 DEF Follows, ReturnsFrom, Moves
    <3>4. ConnectInv /\ Order
      BY <3>3 DEF ConnectInv
    <3>5. Order' /\ ~call'.matched
      BY <3>2, <3>3, <3>4, OrderEnds
    <3>6. ~awake => call'.step \in {"first", "set"}
      BY <2>1, <3>2, <3>3, <3>4 DEF ConnectInv, Follows, ReturnsFrom, Moves
    <3> QED
      BY <2>1, <3>2, <3>3, <3>4, <3>5, <3>6 DEF ConnectInv, NoFinal, NoAddress
  <2> QED
    BY <1>4, <2>2, <2>3, <2>4, CallFacts
<1>5. CASE StartInit \/ StartWait \/ StartConnect
  <2>1. CASE Start("connect", "first", "CGPADDR")
    <3>1. /\ call'.step = "first" /\ ~call'.matched /\ call'.clean = Quiet
          /\ stream' = stream /\ (Quiet => stream = <<>> /\ work' = <<"CGPADDR">>)
          /\ addr' = addr /\ been' = [reg |-> reg, addrs |-> {addr}, active |-> FALSE]
      BY <2>1, StartFacts DEF Steps, Cmds
    <3>2. Len(stream') = 0
      BY <3>1
    <3> QED
      BY <3>1, <3>2 DEF ConnectInv, Order, NoAddress, NoFinal
  <2>2. CASE Start("init", "probe", "AT") \/ Start("wait", "poll", "CEREG")
    <3>1. call'.api \in {"init", "wait"}
      BY <2>2, StartFacts DEF Steps, Cmds
    <3> QED
      BY <3>1
  <2> QED
    BY <1>5, <2>1, <2>2 DEF StartInit, StartWait, StartConnect
<1>6. CASE Restarts \/ StartUnready \/ Poll \/ UNCHANGED vars
  <2>1. UNCHANGED vars
    BY <1>6, QuietSteps DEF NoCall
  <2> QED
    BY <2>1 DEF ConnectInv, Order, Refused, Awaiting, AddressFirst, NoQuery,
               NoFinal, NoAddress, vars, module
<1> QED
  BY <1>2, <1>3, <1>4, <1>5, <1>6 DEF Next

-----------------------------------------------------------------------------
(* The invariant, and what a success means *)

Inv == Types /\ InitInv /\ WaitInv /\ ConnectInv

LEMMA InvInit == Init => Inv
<1> SUFFICES ASSUME Init PROVE Inv
  OBVIOUS
<1>1. <<>> \in Seq(Cmds) /\ <<>> \in Seq(LineType)
        /\ Nothing \in [reg : BOOLEAN, addrs : SUBSET Known, active : BOOLEAN]
  BY DEF Nothing
<1>2. Types
  BY <1>1 DEF Init, Types, Known
<1> QED
  BY <1>2 DEF Init, Inv, NoCall, InitInv, WaitInv, ConnectInv

LEMMA InvNext == Inv /\ [Next]_vars => Inv'
BY TypesNext, InitInvNext, WaitInvNext, ConnectInvNext DEF Inv

\* Every state of the program is one of the invariant.
THEOREM InvHolds == Spec => []Inv
<1>1. Inv /\ [Next]_vars => Inv'
  BY InvNext
<1> QED
  BY <1>1, InvInit, PTL DEF Spec

\* A call returns only in a step of its own.
LEMMA OwnReturn ==
    ASSUME Types, [Next]_vars, call # NoCall, call' = NoCall
    PROVE  ReadLine \/ TimesOut \/ ReadFails
BY DEF Next, vars, ModuleWorks, Boots, NetworkChanges, AddressComes, Restarts,
       StartInit, StartWait, StartConnect, StartUnready, Poll, Start, Idle

\* What a successful return has behind it: the line it ends with, and a state
\* of the call that it follows.
LEMMA SuccessFacts ==
    ASSUME Inv, [Next]_vars, NEW api \in {"init", "wait", "connect"},
           Returns(api, "OK")
    PROVE  /\ call \in CallType /\ call.api = api /\ call.clean
           /\ awake' = awake /\ echo' = echo /\ reg' = reg /\ addr' = addr
           /\ Shifts /\ stream[1] = Ok /\ work' = work
           /\ \/ call.step = "echo"
              \/ call.step = "poll" /\ call.got = TRUE /\ call.matched
              \/ /\ call.step \in {"first", "again"} /\ call.got # None
                 /\ ctxAddr' = call.got /\ call.matched
                 /\ call.got # NoAddr \/ (call.step = "again" /\ call.act = "OK")
<1>1. Types /\ call # NoCall /\ call' = NoCall /\ call.api = api /\ call.clean
        /\ last' = Result(api, "OK")
  BY DEF Inv, Returns, NoCall
<1>2. /\ call \in CallType
      /\ awake' = awake /\ echo' = echo /\ reg' = reg /\ addr' = addr
      /\ \/ Reads
         \/ \E st \in Statuses : EndsWith(st)
         \/ \E c, st : LeavesOpen(c, st)
  BY <1>1, OwnReturn, CallFacts
<1>3. CASE Reads
  <2>1. call'.api = call.api
    <3>1. stream[1] \in LineType /\ call' = Stored(call, stream[1])
      BY <1>3 DEF Reads, Shifts
    <3> QED
      BY <1>2, <3>1, VerdictFacts
  <2>2. call'.api = "none"
    BY <1>1 DEF NoCall
  <2> QED
    BY <1>1, <2>1, <2>2
<1>4. CASE \E st \in Statuses : EndsWith(st)
  <2>1. PICK st \in Statuses : EndsWith(st)
    BY <1>4
  <2>2. ReturnsFrom(call, st)
    BY <1>1, <2>1 DEF EndsWith, Follows, Moves
  <2>3. last' = Result(call.api, "OK")
    BY <1>1
  <2>4. /\ st = "OK" /\ call' = NoCall /\ work' = work
        /\ \/ call.step = "echo"
           \/ call.step = "poll" /\ call.got = TRUE
           \/ /\ call.step \in {"first", "again"} /\ call.got # None
              /\ ctxAddr' = call.got
              /\ call.got # NoAddr \/ (call.step = "again" /\ call.act = "OK")
    BY <2>2, <2>3 DEF ReturnsFrom
  <2>5. st = "OK" => stream[1] = Ok /\ (call.matched \/ call.step = "echo"
                                        \/ call.step \notin {"poll", "first", "again"})
    BY <1>2, <2>1, VerdictFacts DEF EndsWith, Shifts
  <2>6. Shifts
    BY <2>1 DEF EndsWith
  <2> QED
    BY <1>1, <1>2, <2>4, <2>5, <2>6
<1>5. CASE \E c, st : LeavesOpen(c, st)
  <2>1. PICK c, st : LeavesOpen(c, st)
    BY <1>5
  <2>2. ReturnsFrom(c, st) /\ st # "OK"
    BY <1>1, <2>1 DEF LeavesOpen, Follows, Moves
  <2> QED
    BY <1>1, <2>2 DEF ReturnsFrom
<1> QED
  BY <1>2, <1>3, <1>4, <1>5

\* What ec200_init leaves to later calls is bounded by what it gave up on, and
\* after an init that gave up on nothing the module does not echo.
THEOREM InitOwesHolds == Spec => InitOwes
<1>1. Inv /\ [Next]_vars =>
         [Returns("init", "OK") =>
            /\ Len(work') + Finals(stream') <= call.late
            /\ call.late = 0 => ~echo']_vars
  <2>1. SUFFICES ASSUME Inv, [Next]_vars, Returns("init", "OK")
                 PROVE  /\ Len(work') + Finals(stream') <= call.late
                        /\ call.late = 0 => ~echo'
    OBVIOUS
  <2>2. /\ call \in CallType /\ call.api = "init" /\ call.clean /\ echo' = echo
        /\ Shifts /\ stream[1] = Ok /\ work' = work
        /\ call.step \in {"echo", "poll", "first", "again"}
    BY <2>1, SuccessFacts
  <2>3. /\ call.step = "echo" /\ Len(work) + Finals(stream) <= call.late + 1
        /\ call.late = 0 =>
              \/ ~echo \/ \A k \in 1..Len(stream) : stream[k] # Ok
              \/ NoFinal
    BY <2>1, <2>2 DEF Inv, InitInv
  <2>4. IsFinal(Ok) /\ 1 \in 1..Len(stream) /\ Finals(stream') = Finals(stream) - 1
    BY <2>2, LineFacts DEF Shifts, IsFinal
  <2>5. Len(work) \in Nat /\ Finals(stream) \in Nat /\ call.late \in Nat
    BY <2>1, <2>2, FinalsType DEF Inv, Types, CallType
  <2> QED
    BY <2>2, <2>3, <2>4, <2>5 DEF NoFinal
<1>2. Spec => []Inv
  BY InvHolds
<1> QED
  BY <1>1, <1>2, PTL DEF Spec, InitOwes

\* When the wait succeeds the module was registered at some time of the call,
\* though the answer may be that to an earlier poll.
THEOREM RegistrationSeenHolds == Spec => RegistrationSeen
<1>1. Inv /\ [Next]_vars => [Returns("wait", "OK") => been.reg]_vars
  <2>1. SUFFICES ASSUME Inv, [Next]_vars, Returns("wait", "OK")
                 PROVE  been.reg
    OBVIOUS
  <2>2. /\ call.api = "wait" /\ call.clean
        /\ call.step = "poll" => call.got = TRUE /\ call.matched
    BY <2>1, SuccessFacts
  <2> QED
    BY <2>1, <2>2 DEF Inv, WaitInv
<1>2. Spec => []Inv
  BY InvHolds
<1> QED
  BY <1>1, <1>2, PTL DEF Spec, RegistrationSeen

\* When the connect succeeds the application holds an address that the module
\* had at some time of the call, or the empty one of an activated context.
THEOREM ConnectionSeenHolds == Spec => ConnectionSeen
<1>1. Inv /\ [Next]_vars =>
         [Returns("connect", "OK") =>
            /\ ctxAddr' \in been.addrs
            /\ ctxAddr' = NoAddr => been.active]_vars
  <2>1. SUFFICES ASSUME Inv, [Next]_vars, Returns("connect", "OK")
                 PROVE  /\ ctxAddr' \in been.addrs
                        /\ ctxAddr' = NoAddr => been.active
    OBVIOUS
  <2>2. ConnectInv /\ call.api = "connect" /\ call.clean /\ Order
    BY <2>1 DEF Inv, ConnectInv, Returns
  <2>3. /\ call.got # None /\ ctxAddr' = call.got /\ call.matched
        /\ call.got # NoAddr \/ (call.step = "again" /\ call.act = "OK")
    BY <2>1, <2>2, SuccessFacts DEF Order
  <2> QED
    BY <2>2, <2>3 DEF ConnectInv, Order
<1>2. Spec => []Inv
  BY InvHolds
<1> QED
  BY <1>1, <1>2, PTL DEF Spec, ConnectionSeen
=============================================================================
