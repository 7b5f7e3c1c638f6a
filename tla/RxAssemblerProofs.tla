-------------------------- MODULE RxAssemblerProofs --------------------------
(***************************************************************************)
(* Theorems about RxAssembler for every size of the buffer and every       *)
(* budget: the assembler never writes beyond _rx_buf, the line a handler   *)
(* holds stands until a byte is read, and a raw read that starts on a line *)
(* boundary is verbatim.                                                   *)
(***************************************************************************)
EXTENDS RxAssembler, TLAPS, SequenceTheorems, WellFoundedInduction

Cells == (Bytes \ {"CR", "LF"}) \cup {NUL}

\* The assembled part of _rx_buf holds no terminator, so that the first one is
\* where rx_feed puts it.
NoNulInside == \A i \in 1..len : buf[i] # NUL

\* A handler's line is the string at _rx_buf, with nothing assembled over it.
HeldInv == handed # <<>> => len = 0 /\ Text(buf) = handed

IsRaw(o) == o.kind \in {"raw", "exact"}

\* A raw read from a boundary has taken what it should have, and no handler
\* interrupts a raw read.
RawInv ==
    /\ (IsRaw(op) /\ op.from = "boundary") => op.data = op.due
    /\ ~IsRaw(held)
    /\ RawVerbatim

\* The part of the types that a fed byte can disturb.
AsmType ==
    /\ buf \in [1..(Cap + 1) -> Cells] /\ buf[Cap + 1] = NUL
    /\ len \in 0..Cap /\ overlong \in BOOLEAN
    /\ since \in Seq(Bytes) /\ torn \in BOOLEAN

\* The other part.
Rest ==
    /\ wire \in Seq(Bytes) /\ Len(wire) <= MaxWire
    /\ op \in OpType /\ held \in OpType /\ handed \in Seq(Bytes)
    /\ out.st \in {"none", "OK", "TIMEOUT", "IO"}

Inv == AsmType /\ Rest /\ NoNulInside /\ HeldInv /\ RawInv

LEMMA TypesOfInv == AsmType /\ Rest => TypeOK
BY DEF TypeOK, AsmType, Rest, Cells

-----------------------------------------------------------------------------
(* Operators *)

\* A prefix of a sequence is a sequence of the same elements.
LEMMA PrefixType ==
    ASSUME NEW S, NEW s \in Seq(S), NEW n \in 0..Len(s)
    PROVE  SubSeq(s, 1, n) \in Seq(S) /\ Len(SubSeq(s, 1, n)) = n
<1>1. \A i \in 1..n : s[i] \in S
  BY ElementOfSeq
<1> QED
  BY <1>1, SubSeqProperties, LenProperties

\* What follows a prefix is one, too.
LEMMA RestType ==
    ASSUME NEW S, NEW s \in Seq(S), NEW n \in 0..Len(s)
    PROVE  /\ SubSeq(s, n + 1, Len(s)) \in Seq(S)
           /\ Len(SubSeq(s, n + 1, Len(s))) = Len(s) - n
<1>1. Len(s) \in Nat
  BY LenProperties
<1>2. \A i \in (n + 1)..Len(s) : s[i] \in S
  BY <1>1, ElementOfSeq
<1> QED
  BY <1>1, <1>2, SubSeqProperties

\* Cutting keeps the elements, and what is short enough stays as it is.
LEMMA CutType ==
    ASSUME NEW S, NEW s \in Seq(S), NEW n \in Nat
    PROVE  Cut(s, n) \in Seq(S) /\ (Len(s) <= n => Cut(s, n) = s)
<1>1. Len(s) \in Nat
  BY LenProperties
<1>2. Cut(s, n) \in Seq(S)
  <2>1. CASE Len(s) < n
    BY <2>1, <1>1, PrefixType DEF Cut
  <2>2. CASE ~(Len(s) < n)
    BY <2>2, <1>1, PrefixType DEF Cut
  <2> QED
    BY <2>1, <2>2
<1>3. Len(s) <= n => Cut(s, n) = SubSeq(s, 1, Len(s))
  BY <1>1 DEF Cut
<1> QED
  BY <1>2, <1>3, SubSeqFull

\* The assembled part of the buffer, or the first bytes of it, are bytes.
LEMMA AssembledType ==
    ASSUME TypeOK, NoNulInside, NEW n \in 0..len
    PROVE  SubSeq(buf, 1, n) \in Seq(Bytes) /\ Len(SubSeq(buf, 1, n)) = n
<1>1. \A i \in 1..n : buf[i] \in Bytes
  BY SizesAssumption DEF TypeOK, NoNulInside
<1> QED
  BY <1>1, SubSeqProperties DEF TypeOK

\* The string that rx_feed terminates is what was assembled.
LEMMA TerminatedText ==
    ASSUME TypeOK, NoNulInside, NEW b, b = [buf EXCEPT ![len + 1] = NUL]
    PROVE  Text(b) = SubSeq(b, 1, len) /\ Text(b) \in Seq(Bytes)
<1>1. len \in 0..Cap /\ Cap \in Nat
  BY SizesAssumption DEF TypeOK
<1> DEFINE First(i) == b[i] = NUL /\ \A j \in 1..(i - 1) : b[j] # NUL
<1>2. /\ b[len + 1] = NUL
      /\ \A j \in 1..len : b[j] = buf[j] /\ b[j] # NUL
  BY <1>1 DEF TypeOK, NoNulInside
<1>3. len + 1 \in 1..(Cap + 1) /\ First(len + 1)
  BY <1>1, <1>2
<1>4. \A i \in 1..(Cap + 1) : First(i) => i = len + 1
  BY <1>1, <1>2
<1> DEFINE nul == CHOOSE i \in 1..(Cap + 1) : First(i)
<1>5. nul = len + 1
  <2> HIDE DEF First
  <2> QED
    BY <1>3, <1>4
<1>6. Text(b) = SubSeq(b, 1, nul - 1)
  BY DEF Text
<1>7. nul - 1 = len
  <2> HIDE DEF nul
  <2> QED
    BY <1>1, <1>5
<1>8. Text(b) = SubSeq(b, 1, len)
  <2> HIDE DEF nul
  <2> QED
    BY <1>6, <1>7
<1>9. \A i \in 1..len : b[i] \in Bytes
  BY <1>1, <1>2 DEF TypeOK
<1>10. SubSeq(b, 1, len) \in Seq(Bytes)
  BY <1>1, <1>9, SubSeqProperties
<1> QED
  BY <1>8, <1>10

-----------------------------------------------------------------------------
(* Feeding a byte *)

LEMMA RememberType ==
    ASSUME since \in Seq(Bytes), torn \in BOOLEAN, NEW c \in Bytes, Remember(c)
    PROVE  since' \in Seq(Bytes) /\ torn' \in BOOLEAN
<1>1. CASE Len(since) < MaxSince
  BY <1>1 DEF Remember
<1>2. CASE ~(Len(since) < MaxSince)
  BY <1>2 DEF Remember
<1> QED
  BY <1>1, <1>2

\* A byte inside a line: the terminator's cell is out of its reach.
LEMMA FeedInside ==
    ASSUME Inv, NEW c \in Bytes, FeedCR(c) \/ FeedText(c)
    PROVE  AsmType' /\ NoNulInside' /\ HeldInv' /\ handed' \in Seq(Bytes)
<1>1. AsmType /\ NoNulInside /\ HeldInv /\ handed \in Seq(Bytes)
  BY DEF Inv, Rest
<1>2. CASE FeedCR(c)
  <2>1. since' \in Seq(Bytes) /\ torn' \in BOOLEAN
    BY <1>1, <1>2, RememberType DEF FeedCR, AsmType
  <2>2. UNCHANGED <<buf, len, overlong, handed>>
    BY <1>2 DEF FeedCR
  <2> QED
    BY <1>1, <2>1, <2>2 DEF AsmType, NoNulInside, HeldInv, Text
<1>3. CASE FeedText(c)
  <2>1. since' \in Seq(Bytes) /\ torn' \in BOOLEAN /\ handed' = <<>>
    BY <1>1, <1>3, RememberType DEF FeedText, AsmType
  <2>2. c \in Cells /\ c # NUL
    BY <1>3, BytesAssumption DEF FeedText, Cells, NUL
  <2>3. CASE len < Cap
    <3>1. buf' = [buf EXCEPT ![len + 1] = c] /\ len' = len + 1
            /\ overlong' = overlong
      BY <1>3, <2>3 DEF FeedText
    <3>2. len + 1 \in 1..Cap /\ Cap \in Nat
      BY <1>1, <2>3, SizesAssumption DEF AsmType
    <3>3. AsmType'
      BY <1>1, <2>1, <2>2, <3>1, <3>2 DEF AsmType
    <3>4. NoNulInside'
      BY <1>1, <2>2, <3>1, <3>2 DEF AsmType, NoNulInside
    <3> QED
      BY <2>1, <3>3, <3>4, EmptySeq DEF HeldInv
  <2>4. CASE ~(len < Cap)
    <3>1. overlong' = TRUE /\ UNCHANGED <<buf, len>>
      BY <1>3, <2>4 DEF FeedText
    <3> QED
      BY <1>1, <2>1, <3>1, EmptySeq DEF AsmType, NoNulInside, HeldInv
  <2> QED
    BY <2>3, <2>4
<1> QED
  BY <1>2, <1>3

\* The byte that ends a line.
LEMMA FeedAtEnd ==
    ASSUME Inv, NEW c \in Bytes, FeedLF(c)
    PROVE  AsmType' /\ NoNulInside' /\ len' = 0 /\ Text(buf') \in Seq(Bytes)
<1>1. AsmType /\ NoNulInside /\ TypeOK
  BY TypesOfInv DEF Inv
<1>2. /\ buf' = [buf EXCEPT ![len + 1] = NUL] /\ len' = 0
      /\ overlong' = FALSE /\ since' = <<>> /\ torn' = FALSE
  BY DEF FeedLF, Boundary
<1>3. Cap \in Nat /\ len + 1 \in 1..(Cap + 1) /\ NUL \in Cells
  BY <1>1, SizesAssumption DEF AsmType, Cells
<1>4. AsmType' /\ NoNulInside'
  <2>1. buf' \in [1..(Cap + 1) -> Cells] /\ buf'[Cap + 1] = NUL
    BY <1>1, <1>2, <1>3 DEF AsmType
  <2>2. len' \in 0..Cap
    BY <1>2, <1>3
  <2>3. since' \in Seq(Bytes) /\ overlong' \in BOOLEAN /\ torn' \in BOOLEAN
    BY <1>2, EmptySeq, Zenon
  <2> QED
    BY <1>2, <2>1, <2>2, <2>3 DEF AsmType, NoNulInside
<1> QED
  BY <1>1, <1>2, <1>4, TerminatedText

-----------------------------------------------------------------------------
(* One lemma for each action *)

LEMMA NoOpType == NoOp \in OpType /\ ~IsRaw(NoOp)
BY EmptySeq DEF NoOp, Op, OpType, IsRaw

\* Taking a byte leaves fewer.
LEMMA TakeType ==
    ASSUME Rest, Take
    PROVE  /\ Byte \in Bytes
           /\ wire' \in Seq(Bytes) /\ Len(wire') <= MaxWire
<1>1. Len(wire) \in Nat /\ MaxWire \in Nat /\ Len(wire') = Len(wire) - 1
  BY SizesAssumption, LenProperties, HeadTailProperties DEF Rest, Take
<1> QED
  BY <1>1, HeadTailProperties DEF Rest, Take, Byte

\* A step that leaves the assembler alone.
LEMMA NothingFed ==
    ASSUME Inv, UNCHANGED <<buf, len, overlong, handed>>,
           since' \in Seq(Bytes), torn' \in BOOLEAN
    PROVE  AsmType' /\ NoNulInside' /\ HeldInv' /\ handed' \in Seq(Bytes)
BY DEF Inv, AsmType, NoNulInside, HeldInv, Text, Rest

\* A step that ends, or goes on with, a read that is no raw one.
LEMMA NotRaw ==
    ASSUME Inv, ~IsRaw(op'), ~IsRaw(held'),
           out'.kind \notin {"raw", "exact"}
    PROVE  RawInv'
BY DEF RawInv, RawVerbatim, RawDone, IsRaw

LEMMA ArriveStep == ASSUME Inv, Arrive PROVE Inv'
<1>1. AsmType' /\ NoNulInside' /\ HeldInv' /\ handed' \in Seq(Bytes)
  BY NothingFed DEF Inv, Arrive, AsmType
<1>2. wire' \in Seq(Bytes) /\ Len(wire') <= MaxWire
  BY SizesAssumption DEF Inv, Arrive, Rest
<1>3. RawInv'
  BY DEF Arrive, Inv, RawInv, RawVerbatim, RawDone, IsRaw, Nothing, NoOut, Out
<1> QED
  BY <1>1, <1>2, <1>3 DEF Inv, Arrive, Rest, Nothing, NoOut, Out

LEMMA BeginLineStep == ASSUME Inv, BeginLine PROVE Inv'
<1>1. AsmType' /\ NoNulInside' /\ HeldInv' /\ handed' \in Seq(Bytes)
  BY NothingFed DEF Inv, BeginLine, AsmType
<1>2. op' \in OpType /\ ~IsRaw(op')
  BY SizesAssumption, EmptySeq DEF BeginLine, Op, OpType, IsRaw
<1>3. RawInv'
  BY <1>2, NotRaw DEF BeginLine, Inv, RawInv, IsRaw, Nothing, NoOut, Out
<1> QED
  BY <1>1, <1>2, <1>3 DEF Inv, BeginLine, Rest, Nothing, NoOut, Out

\* The partial line moves to the front of the buffer; a raw read from a boundary
\* finds none.
LEMMA BeginRawStep == ASSUME Inv, BeginRaw PROVE Inv'
<1>1. PICK n \in Slices, k \in {"raw", "exact"}, want \in Wants :
         LET got == IF len < want THEN len ELSE want
             o   == [Op(k, n, want) EXCEPT !.data  = SubSeq(buf, 1, got),
                                           !.due   = Cut(since, want),
                                           !.from  = Where]
         IN /\ buf' = [i \in 1..(Cap + 1) |-> IF i <= len - got
                                              THEN buf[i + got] ELSE buf[i]]
            /\ len' = len - got
            /\ torn' = (torn \/ got > 0)
            /\ IF \/ k = "raw" /\ got > 0
                  \/ k = "exact" /\ got = want
               THEN op' = NoOp /\ out' = Out(k, "OK", o.data, o.due, o.from)
               ELSE op' = o /\ Nothing
  BY DEF BeginRaw
<1> DEFINE got == IF len < want THEN len ELSE want
           o   == [Op(k, n, want) EXCEPT !.data  = SubSeq(buf, 1, got),
                                         !.due   = Cut(since, want),
                                         !.from  = Where]
<1>2. AsmType /\ NoNulInside /\ HeldInv /\ RawInv /\ Rest /\ TypeOK
  BY TypesOfInv DEF Inv
<1>3. /\ Cap \in Nat /\ n \in Nat /\ want \in Nat \ {0} /\ got \in 0..len
      /\ len \in 0..Cap /\ (len = 0 => got = 0)
  BY <1>2, SizesAssumption DEF AsmType
<1>4. /\ buf' = [i \in 1..(Cap + 1) |-> IF i <= len - got
                                        THEN buf[i + got] ELSE buf[i]]
      /\ len' = len - got /\ torn' \in BOOLEAN
  BY <1>1, <1>2 DEF AsmType
<1>5. UNCHANGED <<wire, overlong, held, handed, since>>
  BY DEF BeginRaw
<1> HIDE DEF got
<1>6. AsmType'
  BY <1>2, <1>3, <1>4, <1>5 DEF AsmType
<1>7. NoNulInside'
  BY <1>2, <1>3, <1>4 DEF AsmType, NoNulInside
<1>8. HeldInv'
  <2>1. CASE handed = <<>>
    BY <2>1, <1>5 DEF HeldInv
  <2>2. CASE handed # <<>>
    <3>1. len = 0 /\ got = 0 /\ Text(buf) = handed
      BY <2>2, <1>2, <1>3 DEF HeldInv
    <3>2. buf' = buf
      BY <1>2, <1>3, <1>4, <3>1 DEF AsmType
    <3> QED
      BY <1>3, <3>1, <3>2, <1>4, <1>5 DEF HeldInv
  <2> QED
    BY <2>1, <2>2
<1>9. SubSeq(buf, 1, got) \in Seq(Bytes) /\ Len(SubSeq(buf, 1, got)) = got
  BY <1>2, <1>3, AssembledType
<1>10. Cut(since, want) \in Seq(Bytes)
  BY <1>2, <1>3, CutType DEF AsmType
<1>11. Where \in {"boundary", "cr", "line", "torn"}
  BY DEF Where
<1>12. /\ o.data = SubSeq(buf, 1, got) /\ o.due = Cut(since, want)
       /\ o.from = Where /\ o.kind = k
       /\ o \in OpType
  BY <1>3, <1>9, <1>10, <1>11, EmptySeq DEF Op, OpType
<1>13. o.from = "boundary" => o.data = o.due
  <2> SUFFICES ASSUME Where = "boundary" PROVE o.data = o.due
    BY <1>12
  <2>1. len = 0 /\ since = <<>>
    BY <1>2, <1>3 DEF Where, AsmType
  <2>2. Cut(since, want) = <<>>
    <3>1. Len(since) = 0 /\ since \in Seq(Bytes) /\ want \in Nat
      BY <1>2, <1>3, <2>1, EmptySeq DEF AsmType
    <3>2. Len(since) <= want
      BY <3>1
    <3>3. Cut(since, want) = since
      BY <3>1, <3>2, CutType
    <3> QED
      BY <2>1, <3>3
  <2>3. SubSeq(buf, 1, got) = <<>>
    BY <1>3, <2>1, SubSeqEmpty
  <2> QED
    BY <1>12, <2>2, <2>3
<1>14. \/ op' = NoOp /\ out' = Out(k, "OK", o.data, o.due, o.from)
       \/ op' = o /\ Nothing
  BY <1>1 DEF got
<1> HIDE DEF o
<1>15. RawInv'
  <2>1. ~IsRaw(held')
    BY <1>2, <1>5 DEF RawInv
  <2>2. CASE op' = NoOp /\ out' = Out(k, "OK", o.data, o.due, o.from)
    <3>1. RawVerbatim'
      BY <1>13, <2>2 DEF RawVerbatim, RawDone, Out
    <3>2. ~IsRaw(op')
      BY <2>2, NoOpType
    <3> QED
      BY <2>1, <3>1, <3>2 DEF RawInv
  <2>3. CASE op' = o /\ Nothing
    <3>1. RawVerbatim'
      BY <2>3 DEF RawVerbatim, RawDone, Nothing, NoOut, Out
    <3> QED
      BY <1>13, <2>1, <2>3, <3>1 DEF RawInv
  <2> QED
    BY <1>14, <2>2, <2>3
<1>16. Rest'
  BY <1>2, <1>5, <1>12, <1>14, NoOpType DEF Rest, Out, Nothing, NoOut
<1> QED
  BY <1>6, <1>7, <1>8, <1>15, <1>16 DEF Inv

\* A byte read by rx_line: a line it completes is blank, handed out, passed over
\* or given to a handler, whose pointer then reads that line.
LEMMA FeedLineStep ==
    ASSUME Inv, ~IsRaw(op), FeedLine
    PROVE  Inv'
<1>1. /\ Byte \in Bytes
      /\ wire' \in Seq(Bytes) /\ Len(wire') <= MaxWire
  BY TakeType DEF Inv, FeedLine
<1>2. op \in OpType /\ held \in OpType /\ ~IsRaw(held)
  BY DEF Inv, Rest, RawInv
<1>3. CASE (FeedCR(Byte) \/ FeedText(Byte)) /\ Nothing /\ UNCHANGED <<op, held>>
  <2>1. AsmType' /\ NoNulInside' /\ HeldInv' /\ handed' \in Seq(Bytes)
    BY <1>1, <1>3, FeedInside
  <2>2. RawInv'
    BY <1>2, <1>3, NotRaw DEF Nothing, NoOut, Out
  <2> QED
    BY <1>1, <1>2, <1>3, <2>1, <2>2 DEF Inv, Rest, Nothing, NoOut, Out
<1>4. CASE /\ FeedLF(Byte)
           /\ LineDone(Text(buf'))
           /\ out' = Out("line", "OK", Text(buf'), since, Where)
  <2>1. AsmType' /\ NoNulInside' /\ len' = 0 /\ Text(buf') \in Seq(Bytes)
    BY <1>1, <1>4, FeedAtEnd
  <2>2. /\ op' \in {op, NoOp} /\ held' \in {op, held}
        /\ handed' = <<>> \/ handed' = Text(buf')
    BY <1>4 DEF LineDone
  <2>3. op' \in OpType /\ held' \in OpType /\ ~IsRaw(op') /\ ~IsRaw(held')
    BY <1>2, <2>2, NoOpType
  <2>4. RawInv'
    BY <1>4, <2>3, NotRaw DEF Out
  <2>5. HeldInv'
    BY <2>1, <2>2 DEF HeldInv
  <2>6. handed' \in Seq(Bytes)
    BY <2>1, <2>2, EmptySeq
  <2> QED
    BY <1>1, <1>4, <2>1, <2>3, <2>4, <2>5, <2>6 DEF Inv, Rest, Out
<1> QED
  BY <1>3, <1>4 DEF FeedLine

LEMMA ReadLineStep == ASSUME Inv, ReadLine PROVE Inv'
BY FeedLineStep DEF ReadLine, IsRaw

LEMMA ReadPromptStep == ASSUME Inv, ReadPrompt PROVE Inv'
<1>1. op.kind = "prompt" /\ ~IsRaw(op)
  BY DEF ReadPrompt, IsRaw
<1>2. CASE PromptByte
  <2>1. Take /\ op' = [op EXCEPT !.kind = "peek", !.due = since] /\ Nothing
          /\ UNCHANGED <<buf, len, overlong, held, handed, since, torn>>
    BY <1>2 DEF ReadPrompt
  <2>2. wire' \in Seq(Bytes) /\ Len(wire') <= MaxWire
    BY <2>1, TakeType DEF Inv
  <2>3. AsmType' /\ NoNulInside' /\ HeldInv' /\ handed' \in Seq(Bytes)
    BY <2>1, NothingFed DEF Inv, AsmType
  <2>4. op' \in OpType /\ op'.kind = "peek"
    BY <2>1 DEF Inv, Rest, AsmType, OpType
  <2>5. RawInv'
    BY <2>1, <2>4, NotRaw DEF Inv, RawInv, IsRaw, Nothing, NoOut, Out
  <2> QED
    BY <2>1, <2>2, <2>3, <2>4, <2>5 DEF Inv, Rest, Nothing, NoOut, Out
<1>3. CASE ~PromptByte
  BY <1>1, <1>3, FeedLineStep DEF ReadPrompt
<1> QED
  BY <1>2, <1>3

\* The prompt has been seen: the read ends, and whatever is fed stays.
LEMMA PromptEnds ==
    ASSUME Inv, PromptFound, held' = held
    PROVE  /\ op' \in OpType /\ held' \in OpType /\ RawInv'
           /\ out'.st \in {"none", "OK", "TIMEOUT", "IO"}
<1>1. op' = NoOp /\ out' = Out("prompt", "OK", <<>>, op.due, Where)
  BY DEF PromptFound
<1>2. ~IsRaw(held) /\ held \in OpType
  BY DEF Inv, RawInv, Rest
<1>3. RawInv'
  BY <1>1, <1>2, NoOpType, NotRaw DEF Out
<1> QED
  BY <1>1, <1>2, <1>3, NoOpType DEF Out

LEMMA PeekByteStep == ASSUME Inv, PeekByte PROVE Inv'
<1>1. /\ Byte \in Bytes
      /\ wire' \in Seq(Bytes) /\ Len(wire') <= MaxWire
  BY TakeType DEF Inv, PeekByte
<1>2. /\ op' \in OpType /\ held' \in OpType /\ RawInv'
      /\ out'.st \in {"none", "OK", "TIMEOUT", "IO"}
  BY PromptEnds DEF PeekByte
<1>3. AsmType' /\ NoNulInside' /\ HeldInv' /\ handed' \in Seq(Bytes)
  <2>1. CASE Boundary /\ UNCHANGED <<buf, len, overlong, handed>>
    <3>1. since' \in Seq(Bytes) /\ torn' \in BOOLEAN
      BY <2>1, EmptySeq, Zenon DEF Boundary
    <3> QED
      BY <2>1, <3>1, NothingFed
  <2>2. CASE FeedCR(Byte) \/ FeedText(Byte)
    BY <1>1, <2>2, FeedInside
  <2>3. CASE FeedLF(Byte) /\ handed' = <<>>
    BY <1>1, <2>3, FeedAtEnd, EmptySeq DEF HeldInv
  <2> QED
    BY <2>1, <2>2, <2>3 DEF PeekByte
<1> QED
  BY <1>1, <1>2, <1>3 DEF Inv, Rest

LEMMA PeekNothingStep == ASSUME Inv, PeekNothing PROVE Inv'
<1>1. since' \in Seq(Bytes) /\ torn' \in BOOLEAN
  BY EmptySeq, Zenon DEF PeekNothing, Boundary
<1>2. AsmType' /\ NoNulInside' /\ HeldInv' /\ handed' \in Seq(Bytes)
  BY <1>1, NothingFed DEF PeekNothing
<1>3. /\ op' \in OpType /\ held' \in OpType /\ RawInv'
      /\ out'.st \in {"none", "OK", "TIMEOUT", "IO"}
  BY PromptEnds DEF PeekNothing
<1> QED
  BY <1>2, <1>3 DEF Inv, Rest, PeekNothing

\* The bytes of a raw read skip the assembler; those it was due and those it
\* handed out grow by the same ones.
LEMMA ReadRawStep == ASSUME Inv, ReadRaw PROVE Inv'
<1>1. PICK n \in 1..(op.want - Len(op.data)) :
         LET o == [op EXCEPT !.data = @ \o SubSeq(wire, 1, n),
                             !.due  = Cut(@ \o SubSeq(wire, 1, n), op.want)]
         IN /\ n <= Len(wire)
            /\ wire' = SubSeq(wire, n + 1, Len(wire))
            /\ IF op.kind = "raw" \/ Len(o.data) = op.want
               THEN /\ op' = NoOp
                    /\ out' = Out(op.kind, "OK", o.data, o.due, op.from)
               ELSE op' = o /\ Nothing
  BY DEF ReadRaw
<1> DEFINE o == [op EXCEPT !.data = @ \o SubSeq(wire, 1, n),
                           !.due  = Cut(@ \o SubSeq(wire, 1, n), op.want)]
<1>2. /\ op \in OpType /\ held \in OpType /\ ~IsRaw(held)
      /\ wire \in Seq(Bytes) /\ Len(wire) <= MaxWire
      /\ (IsRaw(op) /\ op.from = "boundary") => op.data = op.due
  BY DEF Inv, Rest, RawInv
<1>3. /\ op.data \in Seq(Bytes) /\ op.due \in Seq(Bytes) /\ op.want \in Nat
      /\ Len(op.data) \in Nat /\ Len(wire) \in Nat /\ MaxWire \in Nat
      /\ n \in 0..Len(wire)
  BY <1>1, <1>2, LenProperties, SizesAssumption DEF OpType
<1>4. wire' \in Seq(Bytes) /\ Len(wire') <= MaxWire
  BY <1>1, <1>2, <1>3, RestType
<1>5. SubSeq(wire, 1, n) \in Seq(Bytes) /\ Len(SubSeq(wire, 1, n)) = n
  BY <1>2, <1>3, PrefixType
<1>6. /\ op.data \o SubSeq(wire, 1, n) \in Seq(Bytes)
      /\ op.due \o SubSeq(wire, 1, n) \in Seq(Bytes)
      /\ Len(op.data \o SubSeq(wire, 1, n)) <= op.want
  BY <1>1, <1>3, <1>5, ConcatProperties
<1>7. Cut(op.due \o SubSeq(wire, 1, n), op.want) \in Seq(Bytes)
  BY <1>3, <1>6, CutType
<1>8. o \in OpType /\ o.from = op.from /\ o.kind = op.kind
  BY <1>2, <1>6, <1>7 DEF OpType
<1>9. (IsRaw(op) /\ op.from = "boundary") => o.data = o.due
  <2> SUFFICES ASSUME op.data = op.due PROVE o.data = o.due
    BY <1>2
  <2>1. Cut(op.data \o SubSeq(wire, 1, n), op.want) = op.data \o SubSeq(wire, 1, n)
    BY <1>3, <1>6, CutType
  <2> QED
    BY <1>2, <2>1 DEF OpType
<1>10. \/ op' = NoOp /\ out' = Out(op.kind, "OK", o.data, o.due, op.from)
       \/ op' = o /\ Nothing
  BY <1>1
<1> HIDE DEF o
<1>11. UNCHANGED <<buf, len, overlong, held, handed>>
  BY DEF ReadRaw
<1>12. since' \in Seq(Bytes) /\ torn' \in BOOLEAN
  BY EmptySeq DEF ReadRaw
<1>13. AsmType' /\ NoNulInside' /\ HeldInv' /\ handed' \in Seq(Bytes)
  BY <1>11, <1>12, NothingFed
<1>14. RawInv'
  <2>1. CASE op' = NoOp /\ out' = Out(op.kind, "OK", o.data, o.due, op.from)
    <3>1. RawVerbatim'
      BY <1>9, <2>1 DEF RawVerbatim, RawDone, Out, IsRaw
    <3> QED
      BY <1>2, <1>11, <2>1, <3>1, NoOpType DEF RawInv
  <2>2. CASE op' = o /\ Nothing
    <3>1. RawVerbatim'
      BY <2>2 DEF RawVerbatim, RawDone, Nothing, NoOut, Out
    <3>2. (IsRaw(op') /\ op'.from = "boundary") => op'.data = op'.due
      BY <1>8, <1>9, <2>2 DEF IsRaw
    <3> QED
      BY <1>2, <1>11, <3>1, <3>2 DEF RawInv
  <2> QED
    BY <1>10, <2>1, <2>2
<1>15. op' \in OpType /\ held' \in OpType
         /\ out'.st \in {"none", "OK", "TIMEOUT", "IO"}
  BY <1>2, <1>8, <1>10, <1>11, NoOpType DEF Nothing, NoOut, Out
<1> QED
  BY <1>4, <1>13, <1>14, <1>15 DEF Inv, Rest

\* A read that gives up, or is charged a slice, hands out what it has so far.
LEMMA ReadTimesOutStep == ASSUME Inv, ReadTimesOut PROVE Inv'
<1>1. /\ op \in OpType /\ held \in OpType /\ ~IsRaw(held)
      /\ (IsRaw(op) /\ op.from = "boundary") => op.data = op.due
  BY DEF Inv, Rest, RawInv
<1>2. UNCHANGED <<wire, buf, len, overlong, held, handed, since, torn>>
  BY DEF ReadTimesOut
<1>3. AsmType' /\ NoNulInside' /\ HeldInv' /\ handed' \in Seq(Bytes)
  BY <1>2, NothingFed DEF Inv, AsmType
<1>4. CASE op' = NoOp /\ out' = Out(op.kind, "TIMEOUT", op.data, op.due, op.from)
  <2>1. RawVerbatim'
    BY <1>1, <1>4 DEF RawVerbatim, RawDone, Out, IsRaw
  <2>2. RawInv'
    BY <1>1, <1>2, <1>4, <2>1, NoOpType DEF RawInv
  <2> QED
    BY <1>1, <1>2, <1>3, <1>4, <2>2, NoOpType DEF Inv, Rest, Out
<1>5. CASE op.left # 0 /\ op' = [op EXCEPT !.left = @ - 1] /\ Nothing
  <2>1. op' \in OpType /\ op'.kind = op.kind /\ op'.from = op.from
          /\ op'.data = op.data /\ op'.due = op.due
    BY <1>1, <1>5 DEF OpType
  <2>2. RawVerbatim'
    BY <1>5 DEF RawVerbatim, RawDone, Nothing, NoOut, Out
  <2>3. RawInv'
    BY <1>1, <1>2, <2>1, <2>2 DEF RawInv, IsRaw
  <2> QED
    BY <1>1, <1>2, <1>3, <1>5, <2>1, <2>3 DEF Inv, Rest, Nothing, NoOut, Out
<1> QED
  BY <1>4, <1>5 DEF ReadTimesOut

LEMMA ReadFailsStep == ASSUME Inv, ReadFails PROVE Inv'
<1>1. /\ op \in OpType /\ held \in OpType /\ ~IsRaw(held)
      /\ (IsRaw(op) /\ op.from = "boundary") => op.data = op.due
  BY DEF Inv, Rest, RawInv
<1>2. op' = NoOp /\ UNCHANGED <<wire, buf, len, overlong, held, handed>>
  BY DEF ReadFails
<1>3. CASE op.kind = "peek" /\ PromptFound /\ Boundary
  <2>1. since' \in Seq(Bytes) /\ torn' \in BOOLEAN
    BY <1>3, EmptySeq, Zenon DEF Boundary
  <2>2. AsmType' /\ NoNulInside' /\ HeldInv' /\ handed' \in Seq(Bytes)
    BY <1>2, <2>1, NothingFed
  <2>3. /\ op' \in OpType /\ held' \in OpType /\ RawInv'
        /\ out'.st \in {"none", "OK", "TIMEOUT", "IO"}
    BY <1>2, <1>3, PromptEnds
  <2> QED
    BY <1>2, <2>2, <2>3 DEF Inv, Rest
<1>4. CASE out' = Out(op.kind, "IO", op.data, op.due, op.from)
             /\ UNCHANGED <<since, torn>>
  <2>1. AsmType' /\ NoNulInside' /\ HeldInv' /\ handed' \in Seq(Bytes)
    BY <1>2, <1>4, NothingFed DEF Inv, AsmType
  <2>2. RawVerbatim'
    BY <1>1, <1>4 DEF RawVerbatim, RawDone, Out, IsRaw
  <2>3. RawInv'
    BY <1>1, <1>2, <2>2, NoOpType DEF RawInv
  <2> QED
    BY <1>1, <1>2, <1>4, <2>1, <2>3, NoOpType DEF Inv, Rest, Out
<1> QED
  BY <1>3, <1>4 DEF ReadFails

LEMMA HandlerReturnsStep == ASSUME Inv, HandlerReturns PROVE Inv'
<1>1. held \in OpType /\ ~IsRaw(held)
  BY DEF Inv, Rest, RawInv
<1>2. /\ op' = held /\ held' = NoOp /\ handed' = <<>> /\ Nothing
      /\ UNCHANGED <<wire, buf, len, overlong, since, torn>>
  BY DEF HandlerReturns
<1>3. RawInv'
  BY <1>1, <1>2, NoOpType, NotRaw DEF Nothing, NoOut, Out
<1>4. AsmType' /\ NoNulInside' /\ HeldInv'
  BY <1>2 DEF Inv, AsmType, NoNulInside, HeldInv
<1> QED
  BY <1>1, <1>2, <1>3, <1>4, NoOpType, EmptySeq
     DEF Inv, Rest, Nothing, NoOut, Out

-----------------------------------------------------------------------------
(* The invariant *)

LEMMA InitInv == Init => Inv
<1> SUFFICES ASSUME Init PROVE Inv
  OBVIOUS
<1>1. AsmType /\ NoNulInside
  <2>1. /\ buf \in [1..(Cap + 1) -> Cells] /\ buf[Cap + 1] = NUL
        /\ len = 0 /\ len \in 0..Cap
    BY SizesAssumption DEF Init, Cells
  <2>2. overlong \in BOOLEAN /\ torn \in BOOLEAN /\ since \in Seq(Bytes)
    BY EmptySeq, Zenon DEF Init
  <2> QED
    BY <2>1, <2>2 DEF AsmType, NoNulInside
<1>2. Rest
  BY SizesAssumption, EmptySeq, NoOpType DEF Init, Rest, NoOut, Out
<1>3. HeldInv /\ RawInv
  BY NoOpType DEF Init, HeldInv, RawInv, RawVerbatim, RawDone, NoOut, Out
<1> QED
  BY <1>1, <1>2, <1>3 DEF Inv

LEMMA StepInv == Inv /\ [Next]_vars => Inv'
<1> SUFFICES ASSUME Inv, [Next]_vars PROVE Inv'
  OBVIOUS
<1>1. CASE Arrive
  BY <1>1, ArriveStep
<1>2. CASE BeginLine
  BY <1>2, BeginLineStep
<1>3. CASE BeginRaw
  BY <1>3, BeginRawStep
<1>4. CASE ReadLine
  BY <1>4, ReadLineStep
<1>5. CASE ReadPrompt
  BY <1>5, ReadPromptStep
<1>6. CASE PeekByte
  BY <1>6, PeekByteStep
<1>7. CASE PeekNothing
  BY <1>7, PeekNothingStep
<1>8. CASE ReadRaw
  BY <1>8, ReadRawStep
<1>9. CASE ReadTimesOut
  BY <1>9, ReadTimesOutStep
<1>10. CASE ReadFails
  BY <1>10, ReadFailsStep
<1>11. CASE HandlerReturns
  BY <1>11, HandlerReturnsStep
<1>12. CASE UNCHANGED vars
  BY <1>12 DEF vars, Inv, AsmType, Rest, NoNulInside, HeldInv, Text, RawInv,
               RawVerbatim, RawDone, IsRaw
<1> QED
  BY <1>1, <1>2, <1>3, <1>4, <1>5, <1>6, <1>7, <1>8, <1>9, <1>10, <1>11, <1>12
     DEF Next, ReaderStep

-----------------------------------------------------------------------------
(* What NoCR keeps.  It is defined by recursion on the length of a sequence; *)
(* that its recursion has a solution, and only one, is induction on numbers, *)
(* through the least one for which it fails.                                 *)

LEMMA LeastNat ==
    ASSUME NEW T \in SUBSET Nat, T # {}
    PROVE  \E x \in T : \A y \in T : x <= y
<1> DEFINE R == OpToRel(<, Nat)
<1>1. IsWellFoundedOn(R, Nat)
  BY NatLessThanWellFounded
<1>2. \E x \in T : \A y \in T : ~(<<y, x>> \in R)
  <2> HIDE DEF R
  <2> QED
    BY <1>1, WFMin
<1>3. \A x, y \in Nat : <<y, x>> \notin R => x <= y
  BY DEF OpToRel
<1> HIDE DEF R
<1> QED
  BY <1>2, <1>3

\* f gives what is kept of each of the first n beginnings of s.
Kept(s, n, f) ==
    f = [i \in 0..n |-> IF i = 0 THEN <<>>
                        ELSE IF s[i] = "CR" THEN f[i - 1]
                        ELSE Append(f[i - 1], s[i])]

LEMMA KeptOnce ==
    ASSUME NEW s, NEW n \in Nat, NEW f, NEW g, Kept(s, n, f), Kept(s, n, g)
    PROVE  f = g
<1> DEFINE T == {i \in 0..n : f[i] # g[i]}
<1>1. /\ f = [i \in 0..n |-> IF i = 0 THEN <<>> ELSE IF s[i] = "CR" THEN f[i - 1]
                             ELSE Append(f[i - 1], s[i])]
      /\ g = [i \in 0..n |-> IF i = 0 THEN <<>> ELSE IF s[i] = "CR" THEN g[i - 1]
                             ELSE Append(g[i - 1], s[i])]
  BY Zenon DEF Kept
<1>2. \A i \in 0..n :
         /\ f[i] = IF i = 0 THEN <<>> ELSE IF s[i] = "CR" THEN f[i - 1]
                   ELSE Append(f[i - 1], s[i])
         /\ g[i] = IF i = 0 THEN <<>> ELSE IF s[i] = "CR" THEN g[i - 1]
                   ELSE Append(g[i - 1], s[i])
  BY <1>1, Zenon
<1>3. T = {}
  <2> SUFFICES ASSUME T # {} PROVE FALSE
    OBVIOUS
  <2>1. T \in SUBSET Nat
    OBVIOUS
  <2>2. PICK i \in T : \A j \in T : i <= j
    BY <2>1, LeastNat
  <2>3. i \in 0..n /\ f[i] # g[i]
    OBVIOUS
  <2>4. i # 0
    BY <1>2, <2>3
  <2>5. i - 1 \in 0..n /\ ~(i <= i - 1)
    BY <2>3, <2>4
  <2>6. f[i - 1] = g[i - 1]
    BY <2>2, <2>5
  <2> QED
    BY <1>2, <2>3, <2>4, <2>6
<1>4. \A i \in 0..n : f[i] = g[i]
  BY <1>3
<1>5. /\ f = [i \in 0..n |-> f[i]]
      /\ g = [i \in 0..n |-> g[i]]
  BY <1>1
<1> QED
  BY <1>4, <1>5

Agree(s, t, n) == \A i \in 1..n : t[i] = s[i]

\* One element more.
LEMMA KeptGrows ==
    ASSUME NEW s, NEW t, NEW n \in Nat, NEW f, Kept(s, n, f), Agree(s, t, n)
    PROVE  \E g : /\ Kept(t, n + 1, g)
                  /\ \A i \in 0..n : g[i] = f[i]
                  /\ g[n + 1] = IF t[n + 1] = "CR" THEN f[n] ELSE Append(f[n], t[n + 1])
<1> DEFINE new == IF t[n + 1] = "CR" THEN f[n] ELSE Append(f[n], t[n + 1])
           g == [i \in 0..(n + 1) |-> IF i = n + 1 THEN new ELSE f[i]]
<1>1. \A i \in 0..n : f[i] = IF i = 0 THEN <<>> ELSE IF s[i] = "CR" THEN f[i - 1]
                             ELSE Append(f[i - 1], s[i])
  <2>1. f = [i \in 0..n |-> IF i = 0 THEN <<>> ELSE IF s[i] = "CR" THEN f[i - 1]
                            ELSE Append(f[i - 1], s[i])]
    BY Zenon DEF Kept
  <2> QED
    BY <2>1, Zenon
<1>2. g[n + 1] = new /\ \A i \in 0..n : g[i] = f[i]
  <2>1. n + 1 \in 0..(n + 1)
    OBVIOUS
  <2>2. \A i \in 0..n : i \in 0..(n + 1) /\ i # n + 1
    OBVIOUS
  <2> HIDE DEF new
  <2> QED
    BY <2>1, <2>2
<1>3. \A i \in 0..(n + 1) : g[i] = IF i = 0 THEN <<>> ELSE IF t[i] = "CR" THEN g[i - 1]
                                   ELSE Append(g[i - 1], t[i])
  <2> TAKE i \in 0..(n + 1)
  <2> HIDE DEF g
  <2>1. CASE i = n + 1
    <3>1. i # 0 /\ i - 1 = n /\ n \in 0..n
      BY <2>1
    <3> QED
      BY <1>2, <2>1, <3>1
  <2>2. CASE i = 0
    <3>1. 0 \in 0..n
      OBVIOUS
    <3> QED
      BY <1>1, <1>2, <2>2, <3>1
  <2>3. CASE i # n + 1 /\ i # 0
    <3>1. i \in 1..n /\ i \in 0..n /\ i - 1 \in 0..n
      BY <2>3
    <3>2. t[i] = s[i]
      BY <3>1 DEF Agree
    <3> QED
      BY <1>1, <1>2, <2>3, <3>1, <3>2
  <2> QED
    BY <2>1, <2>2, <2>3
<1>4. Kept(t, n + 1, g)
  <2>1. g = [i \in 0..(n + 1) |-> g[i]]
    OBVIOUS
  <2> HIDE DEF g
  <2>2. g = [i \in 0..(n + 1) |-> IF i = 0 THEN <<>> ELSE IF t[i] = "CR" THEN g[i - 1]
                                  ELSE Append(g[i - 1], t[i])]
    BY <1>3, <2>1
  <2> QED
    BY <2>2 DEF Kept
<1> HIDE DEF g
<1> QED
  BY <1>2, <1>4

LEMMA KeptExists ==
    ASSUME NEW S, NEW s \in Seq(S), NEW n \in 0..Len(s)
    PROVE  \E f : Kept(s, n, f) /\ f[n] \in Seq(S)
<1>0. Len(s) \in Nat
  BY LenProperties
<1> DEFINE P(m) == \E f : Kept(s, m, f) /\ f[m] \in Seq(S)
           T == {m \in 0..Len(s) : ~P(m)}
<1> SUFFICES ASSUME T # {} PROVE FALSE
  OBVIOUS
<1>1. T \in SUBSET Nat
  BY <1>0
<1>2. PICK m \in T : \A j \in T : m <= j
  BY <1>1, LeastNat
<1>3. m \in 0..Len(s) /\ ~P(m)
  OBVIOUS
<1>4. m # 0
  <2>1. Kept(s, 0, [i \in 0..0 |-> <<>>])
    BY DEF Kept
  <2>2. [i \in 0..0 |-> <<>>][0] \in Seq(S)
    BY EmptySeq
  <2> QED
    BY <1>3, <2>1, <2>2
<1>5. m - 1 \in 0..Len(s) /\ ~(m <= m - 1) /\ m - 1 \in Nat /\ m \in 1..Len(s)
  BY <1>0, <1>3, <1>4
<1>6. P(m - 1)
  BY <1>2, <1>5
<1>7. PICK f : Kept(s, m - 1, f) /\ f[m - 1] \in Seq(S)
  BY <1>6
<1>8. PICK g : /\ Kept(s, (m - 1) + 1, g)
               /\ g[(m - 1) + 1] = IF s[(m - 1) + 1] = "CR" THEN f[m - 1]
                                   ELSE Append(f[m - 1], s[(m - 1) + 1])
  <2> HIDE DEF P, T
  <2>1. Agree(s, s, m - 1)
    BY DEF Agree
  <2> QED
    BY <1>5, <1>7, <2>1, KeptGrows
<1>9. (m - 1) + 1 = m
  BY <1>5
<1>10. s[m] \in S
  BY <1>5, ElementOfSeq
<1> HIDE DEF P, T
<1>11. g[m] = IF s[m] = "CR" THEN f[m - 1] ELSE Append(f[m - 1], s[m])
  BY <1>8, <1>9
<1>12. Append(f[m - 1], s[m]) \in Seq(S)
  BY <1>7, <1>10, AppendProperties
<1>13. g[m] \in Seq(S)
  BY <1>7, <1>11, <1>12
<1> USE DEF P
<1> QED
  BY <1>3, <1>8, <1>9, <1>13

LEMMA NoCRIs ==
    ASSUME NEW S, NEW s \in Seq(S), NEW f, Kept(s, Len(s), f)
    PROVE  NoCR(s) = f[Len(s)]
<1> DEFINE g == CHOOSE h : Kept(s, Len(s), h)
<1>1. Kept(s, Len(s), g)
  OBVIOUS
<1>2. Len(s) \in Nat
  BY LenProperties
<1>3. g = f
  <2> HIDE DEF g
  <2> QED
    BY <1>1, <1>2, KeptOnce
<1>4. NoCR(s) = g[Len(s)]
  BY DEF NoCR, Kept
<1> QED
  BY <1>3, <1>4

\* A CR is dropped, any other byte is kept behind those before it.
LEMMA NoCREmpty == NoCR(<<>>) = <<>>
<1> DEFINE f == [i \in 0..0 |-> <<>>]
<1>1. Kept(<<>>, 0, f)
  BY DEF Kept
<1>2. Len(<<>>) = 0 /\ <<>> \in Seq({})
  BY EmptySeq
<1>3. f[0] = <<>>
  OBVIOUS
<1> HIDE DEF f
<1> QED
  BY <1>1, <1>2, <1>3, NoCRIs

LEMMA NoCRAppend ==
    ASSUME NEW S, NEW s \in Seq(S), NEW c \in S
    PROVE  /\ NoCR(s) \in Seq(S)
           /\ NoCR(Append(s, c)) = IF c = "CR" THEN NoCR(s) ELSE Append(NoCR(s), c)
<1> DEFINE t == Append(s, c)
<1>1. /\ Len(s) \in Nat /\ t \in Seq(S) /\ Len(t) = Len(s) + 1
      /\ t[Len(s) + 1] = c /\ \A i \in 1..Len(s) : t[i] = s[i]
  BY LenProperties, AppendProperties
<1>2. PICK f : Kept(s, Len(s), f) /\ f[Len(s)] \in Seq(S)
  BY <1>1, KeptExists
<1>3. NoCR(s) = f[Len(s)]
  BY <1>2, NoCRIs
<1> HIDE DEF t
<1>4. ASSUME NEW n \in Nat, n = Len(s), NEW u, u = t
      PROVE  \E g : /\ Kept(u, n + 1, g)
                    /\ g[n + 1] = IF u[n + 1] = "CR" THEN f[n] ELSE Append(f[n], u[n + 1])
  <2>1. Agree(s, u, n)
    BY <1>1, <1>4 DEF Agree
  <2>2. Kept(s, n, f)
    BY <1>2, <1>4
  <2>3. \E g : /\ Kept(u, n + 1, g)
               /\ \A i \in 0..n : g[i] = f[i]
               /\ g[n + 1] = IF u[n + 1] = "CR" THEN f[n] ELSE Append(f[n], u[n + 1])
    BY <1>4, <2>1, <2>2, KeptGrows
  <2> QED
    BY <2>3
<1>5. PICK g : /\ Kept(t, Len(s) + 1, g)
               /\ g[Len(s) + 1] = IF t[Len(s) + 1] = "CR" THEN f[Len(s)]
                                  ELSE Append(f[Len(s)], t[Len(s) + 1])
  BY <1>1, <1>4
<1>6. NoCR(t) = g[Len(s) + 1]
  BY <1>1, <1>5, NoCRIs
<1> QED
  BY <1>1, <1>2, <1>3, <1>5, <1>6 DEF t

-----------------------------------------------------------------------------
(* The text of the line being assembled.  Unless a raw read took some of it, *)
(* the assembled part of _rx_buf is what came of it, without CRs and cut to  *)
(* the buffer; and a prompt is only peeked behind where nothing is.          *)

Assembled == ~torn => SubSeq(buf, 1, len) = Cut(NoCR(since), Cap)

Peeking ==
    /\ op.kind = "peek" => len = 0 /\ op.due = since
    /\ held.kind # "peek"

TextInv == Assembled /\ Peeking /\ WholeLines /\ PromptStartsLine

\* A sequence with one more element, cut.
LEMMA CutAppend ==
    ASSUME NEW S, NEW s \in Seq(S), NEW c \in S, NEW n \in Nat
    PROVE  /\ Len(s) \in Nat
           /\ Len(s) < n => Cut(s, n) = s /\ Cut(Append(s, c), n) = Append(s, c)
           /\ Len(s) >= n => Len(Cut(s, n)) = n /\ Cut(Append(s, c), n) = Cut(s, n)
<1> DEFINE t == Append(s, c)
<1>1. /\ Len(s) \in Nat /\ t \in Seq(S) /\ Len(t) = Len(s) + 1
      /\ \A i \in 1..Len(s) : t[i] = s[i]
  BY LenProperties, AppendProperties
<1> HIDE DEF t
<1>2. ASSUME Len(s) < n PROVE Cut(s, n) = s /\ Cut(t, n) = t
  <2>1. Len(s) <= n /\ Len(t) <= n
    BY <1>1, <1>2
  <2> QED
    BY <1>1, <2>1, CutType
<1>3. ASSUME Len(s) >= n PROVE Len(Cut(s, n)) = n /\ Cut(t, n) = Cut(s, n)
  <2>1. n \in 0..Len(s) /\ n \in 0..Len(t) /\ ~(Len(s) < n) /\ ~(Len(t) < n)
    BY <1>1, <1>3
  <2>2. Cut(s, n) = SubSeq(s, 1, n) /\ Cut(t, n) = SubSeq(t, 1, n)
    BY <2>1 DEF Cut
  <2>3. /\ SubSeq(s, 1, n) \in Seq(S) /\ Len(SubSeq(s, 1, n)) = n
        /\ SubSeq(t, 1, n) \in Seq(S) /\ Len(SubSeq(t, 1, n)) = n
    BY <1>1, <2>1, PrefixType
  <2>4. \A i \in 1..n : SubSeq(s, 1, n)[i] = SubSeq(t, 1, n)[i]
    <3> TAKE i \in 1..n
    <3>1. i \in 1..Len(s)
      BY <1>1, <2>1
    <3>2. SubSeq(s, 1, n)[i] = s[i] /\ SubSeq(t, 1, n)[i] = t[i]
      BY <1>1, <2>1
    <3> QED
      BY <1>1, <3>1, <3>2
  <2>5. SubSeq(s, 1, n) = SubSeq(t, 1, n)
    BY <2>3, <2>4, SeqEqual
  <2> QED
    BY <2>2, <2>3, <2>5
<1> QED
  BY <1>1, <1>2, <1>3 DEF t

\* Where a line starts nothing is assembled.
LEMMA NothingAssembled ==
    ASSUME Inv, NEW b, NEW s, s = <<>>
    PROVE  SubSeq(b, 1, 0) = Cut(NoCR(s), Cap)
<1>1. Cap \in Nat /\ <<>> \in Seq(Bytes) /\ Len(<<>>) = 0
  BY SizesAssumption, EmptySeq
<1>2. Cut(<<>>, Cap) = <<>>
  <2>1. PICK e \in Seq(Bytes) : e = <<>> /\ Len(e) = 0
    BY <1>1
  <2>2. Len(e) <= Cap
    BY <1>1, <2>1
  <2>3. Cut(e, Cap) = e
    BY <1>1, <2>2, CutType
  <2> QED
    BY <2>1, <2>3
<1>3. SubSeq(b, 1, 0) = <<>>
  BY SubSeqEmpty
<1> QED
  BY <1>2, <1>3, NoCREmpty

LEMMA AssembledGrows ==
    ASSUME Inv, Assembled, NEW c \in Bytes, FeedCR(c) \/ FeedText(c)
    PROVE  Assembled' /\ (len = 0 => len' \in {0, 1})
<1>1. /\ since \in Seq(Bytes) /\ Cap \in Nat \ {0} /\ len \in 0..Cap /\ TypeOK
      /\ buf \in [1..(Cap + 1) -> Cells] /\ NoNulInside
  BY TypesOfInv, SizesAssumption DEF Inv, AsmType
<1> DEFINE text == SubSeq(buf, 1, len)
           kept == NoCR(since)
<1>2. /\ kept \in Seq(Bytes)
      /\ NoCR(Append(since, c)) = IF c = "CR" THEN kept ELSE Append(kept, c)
  BY <1>1, NoCRAppend
<1>3. text \in Seq(Bytes) /\ Len(text) = len
  BY <1>1, AssembledType
<1>4. Remember(c)
  BY DEF FeedCR, FeedText
<1>5. CASE torn'
  BY <1>1, <1>5 DEF Assembled, FeedCR, FeedText
<1>6. CASE ~torn'
  <2>1. since' = Append(since, c) /\ ~torn
    BY <1>4, <1>6 DEF Remember
  <2>2. text = Cut(kept, Cap)
    BY <2>1 DEF Assembled
  <2>3. /\ Len(kept) \in Nat
        /\ Len(kept) < Cap => Cut(kept, Cap) = kept
                                /\ Cut(Append(kept, c), Cap) = Append(kept, c)
        /\ Len(kept) >= Cap => Len(Cut(kept, Cap)) = Cap
                                 /\ Cut(Append(kept, c), Cap) = Cut(kept, Cap)
    BY <1>1, <1>2, CutAppend
  <2>4. CASE FeedCR(c)
    <3>1. c = "CR" /\ buf' = buf /\ len' = len
      BY <2>4 DEF FeedCR
    <3>2. NoCR(since') = kept
      BY <1>2, <2>1, <3>1
    <3> HIDE DEF kept
    <3> QED
      BY <1>1, <2>2, <3>1, <3>2 DEF Assembled
  <2>5. CASE FeedText(c) /\ len < Cap
    <3>1. buf' = [buf EXCEPT ![len + 1] = c] /\ len' = len + 1 /\ c # "CR"
      BY <2>5 DEF FeedText
    <3>2. Len(kept) < Cap /\ text = kept
      <4> HIDE DEF text, kept
      <4> QED
        BY <1>1, <1>3, <2>2, <2>3, <2>5
    <3>3. NoCR(since') = Append(kept, c)
      BY <1>2, <2>1, <3>1
    <3>4. Cut(NoCR(since'), Cap) = Append(text, c)
      BY <2>3, <3>2, <3>3
    <3>5. SubSeq(buf', 1, len + 1) = Append(text, c)
      <4>1. len + 1 \in 1..(Cap + 1) /\ DOMAIN buf = 1..(Cap + 1)
        BY <1>1, <2>5
      <4>2. /\ buf'[len + 1] = c /\ \A i \in 1..len : buf'[i] = buf[i]
        BY <1>1, <3>1, <4>1
      <4>3. \A i \in 1..len : buf[i] \in Bytes
        BY <1>1 DEF TypeOK, NoNulInside, Cells
      <4>4. \A i \in 1..(len + 1) : buf'[i] \in Bytes
        BY <1>1, <4>2, <4>3
      <4>5. /\ SubSeq(buf', 1, len + 1) \in Seq(Bytes)
            /\ Len(SubSeq(buf', 1, len + 1)) = len + 1
            /\ \A i \in 1..(len + 1) : SubSeq(buf', 1, len + 1)[i] = buf'[i]
        BY <1>1, <4>4, SubSeqProperties
      <4>6. \A i \in 1..len : text[i] = buf[i]
        BY <1>1, <4>3, SubSeqProperties
      <4>7. /\ Append(text, c) \in Seq(Bytes) /\ Len(Append(text, c)) = len + 1
            /\ Append(text, c)[len + 1] = c
            /\ \A i \in 1..len : Append(text, c)[i] = text[i]
        <5> HIDE DEF text
        <5> QED
          BY <1>3, AppendProperties
      <4>8. \A i \in 1..(len + 1) : SubSeq(buf', 1, len + 1)[i] = Append(text, c)[i]
        <5> HIDE DEF text
        <5> QED
          BY <1>1, <4>2, <4>5, <4>6, <4>7
      <4> HIDE DEF text
      <4> QED
        BY <4>5, <4>7, <4>8, SeqEqual
    <3> HIDE DEF text
    <3> QED
      BY <1>1, <3>1, <3>4, <3>5 DEF Assembled
  <2>6. CASE FeedText(c) /\ ~(len < Cap)
    <3>1. buf' = buf /\ len' = len /\ c # "CR" /\ len = Cap
      BY <1>1, <2>6 DEF FeedText
    <3>2. Len(kept) >= Cap
      <4> HIDE DEF text, kept
      <4> QED
        BY <1>1, <1>3, <2>2, <2>3, <3>1
    <3>3. Cut(NoCR(since'), Cap) = Cut(kept, Cap)
      BY <1>2, <2>1, <2>3, <3>1, <3>2
    <3> HIDE DEF kept
    <3> QED
      BY <1>1, <2>2, <3>1, <3>3 DEF Assembled
  <2> QED
    BY <2>4, <2>5, <2>6
<1> QED
  BY <1>5, <1>6

\* A step that hands out neither a line nor a prompt.
LEMMA NoTextOut ==
    ASSUME out'.kind \notin {"line", "prompt"} \/ out'.st # "OK"
    PROVE  WholeLines' /\ PromptStartsLine'
BY DEF WholeLines, PromptStartsLine

LEMMA NothingOut == ASSUME Nothing PROVE WholeLines' /\ PromptStartsLine'
BY NoTextOut DEF Nothing, NoOut, Out

\* A step that leaves the assembler alone.
LEMMA NothingAssembledNow ==
    ASSUME Assembled, UNCHANGED <<buf, len, since, torn>>
    PROVE  Assembled'
BY DEF Assembled

\* A line starts.
LEMMA AssembledAnew ==
    ASSUME Inv, len' = 0, since' = <<>>
    PROVE  Assembled'
<1>1. SubSeq(buf', 1, 0) = Cut(NoCR(since'), Cap)
  BY NothingAssembled
<1> QED
  BY <1>1 DEF Assembled

\* A line is complete: the string at _rx_buf is what was assembled.
LEMMA LineIsWhole ==
    ASSUME Inv, Assembled, NEW c \in Bytes, FeedLF(c),
           out' = Out("line", "OK", Text(buf'), since, Where)
    PROVE  WholeLines' /\ PromptStartsLine' /\ Assembled'
<1>1. AsmType /\ NoNulInside /\ TypeOK
  BY TypesOfInv DEF Inv
<1>2. buf' = [buf EXCEPT ![len + 1] = NUL] /\ len' = 0 /\ since' = <<>>
  BY DEF FeedLF, Boundary
<1>3. Text(buf') = SubSeq(buf', 1, len)
  BY <1>1, <1>2, TerminatedText
<1>4. SubSeq(buf', 1, len) = SubSeq(buf, 1, len)
  <2>1. len \in 0..Cap /\ Cap \in Nat /\ \A i \in 1..len : buf[i] \in Bytes
    BY <1>1, SizesAssumption DEF AsmType, NoNulInside, Cells
  <2>2. \A i \in 1..len : buf'[i] = buf[i]
    BY <1>1, <1>2, <2>1 DEF AsmType
  <2>3. \A i \in 1..len : buf'[i] \in Bytes
    BY <2>1, <2>2
  <2>4. /\ SubSeq(buf, 1, len) \in Seq(Bytes) /\ Len(SubSeq(buf, 1, len)) = len
        /\ \A i \in 1..len : SubSeq(buf, 1, len)[i] = buf[i]
    BY <2>1, SubSeqProperties
  <2>5. /\ SubSeq(buf', 1, len) \in Seq(Bytes) /\ Len(SubSeq(buf', 1, len)) = len
        /\ \A i \in 1..len : SubSeq(buf', 1, len)[i] = buf'[i]
    BY <2>1, <2>3, SubSeqProperties
  <2> QED
    BY <2>2, <2>4, <2>5, SeqEqual
<1>5. ~torn => Text(buf') = Cut(NoCR(since), Cap)
  BY <1>3, <1>4 DEF Assembled
<1>6. (Where # "torn") => ~torn
  BY DEF Where
<1>7. /\ out'.kind = "line" /\ out'.data = Text(buf') /\ out'.due = since
      /\ out'.from = Where
  BY DEF Out
<1>8. WholeLines'
  BY <1>5, <1>6, <1>7 DEF WholeLines
<1>9. PromptStartsLine'
  BY <1>7 DEF PromptStartsLine
<1> QED
  BY <1>2, <1>8, <1>9, AssembledAnew

LEMMA FeedLineText ==
    ASSUME Inv, TextInv, op.kind # "peek", FeedLine
    PROVE  TextInv'
<1>1. Byte \in Bytes
  BY TakeType DEF Inv, FeedLine
<1>2. held.kind # "peek" /\ NoOp.kind # "peek" /\ Assembled
  BY DEF TextInv, Peeking, NoOp, Op
<1>3. CASE (FeedCR(Byte) \/ FeedText(Byte)) /\ Nothing /\ UNCHANGED <<op, held>>
  <2>1. Assembled'
    BY <1>1, <1>2, <1>3, AssembledGrows
  <2> QED
    BY <1>2, <1>3, <2>1, NothingOut DEF TextInv, Peeking
<1>4. CASE /\ FeedLF(Byte)
           /\ LineDone(Text(buf'))
           /\ out' = Out("line", "OK", Text(buf'), since, Where)
  <2>1. op' \in {op, NoOp} /\ held' \in {op, held}
    BY <1>4 DEF LineDone
  <2>2. Peeking'
    BY <1>2, <2>1 DEF Peeking
  <2> QED
    BY <1>1, <1>2, <1>4, <2>2, LineIsWhole DEF TextInv
<1> QED
  BY <1>3, <1>4 DEF FeedLine

\* A prompt is seen where no text is.
LEMMA PromptText ==
    ASSUME Inv, TextInv, op.kind = "peek", PromptFound, held' = held
    PROVE  WholeLines' /\ PromptStartsLine' /\ Peeking' /\ len = 0
<1>1. op' = NoOp /\ out' = Out("prompt", "OK", <<>>, op.due, Where)
  BY DEF PromptFound
<1>2. len = 0 /\ op.due = since /\ held.kind # "peek" /\ Assembled
  BY DEF TextInv, Peeking
<1>3. Peeking'
  BY <1>1, <1>2 DEF Peeking, NoOp, Op
<1>4. WholeLines'
  BY <1>1 DEF WholeLines, Out
<1>5. ASSUME Where # "torn" PROVE NoCR(since) = <<>>
  <2>1. ~torn
    BY <1>5 DEF Where
  <2>2. SubSeq(buf, 1, 0) = Cut(NoCR(since), Cap)
    BY <1>2, <2>1 DEF Assembled
  <2>3. Cut(NoCR(since), Cap) = <<>>
    BY <2>2, SubSeqEmpty
  <2>4. since \in Seq(Bytes) /\ Cap \in Nat \ {0}
    BY SizesAssumption DEF Inv, AsmType
  <2>5. NoCR(since) \in Seq(Bytes)
    <3>1. CASE Bytes = {}
      <4>1. since = <<>>
        BY <2>4, <3>1
      <4> QED
        BY <4>1, NoCREmpty, EmptySeq
    <3>2. CASE Bytes # {}
      BY <2>4, <3>2, NoCRAppend
    <3> QED
      BY <3>1, <3>2
  <2>6. CASE Len(NoCR(since)) < Cap
    <3>1. Cut(NoCR(since), Cap) = NoCR(since)
      BY <2>4, <2>5, <2>6, CutType
    <3> QED
      BY <2>3, <3>1
  <2>7. CASE ~(Len(NoCR(since)) < Cap)
    <3>1. /\ Cut(NoCR(since), Cap) = SubSeq(NoCR(since), 1, Cap)
          /\ Len(NoCR(since)) \in Nat /\ Cap \in 0..Len(NoCR(since))
      BY <2>4, <2>5, <2>7, LenProperties DEF Cut
    <3>2. Len(SubSeq(NoCR(since), 1, Cap)) = Cap
      BY <2>5, <3>1, PrefixType
    <3> QED
      BY <2>3, <2>4, <3>1, <3>2, EmptySeq
  <2> QED
    BY <2>6, <2>7
<1>6. PromptStartsLine'
  BY <1>1, <1>2, <1>5 DEF PromptStartsLine, Out
<1> QED
  BY <1>2, <1>3, <1>4, <1>6

LEMMA PeekByteText == ASSUME Inv, TextInv, PeekByte PROVE TextInv'
<1>1. Byte \in Bytes /\ Assembled
  BY TakeType DEF Inv, TextInv, PeekByte
<1>2. WholeLines' /\ PromptStartsLine' /\ Peeking' /\ len = 0
  BY PromptText DEF PeekByte
<1>3. Assembled'
  <2>1. CASE Boundary /\ UNCHANGED <<buf, len, overlong, handed>>
    BY <1>2, <2>1, AssembledAnew DEF Boundary
  <2>2. CASE FeedCR(Byte) \/ FeedText(Byte)
    BY <1>1, <2>2, AssembledGrows
  <2>3. CASE FeedLF(Byte)
    BY <2>3, AssembledAnew DEF FeedLF, Boundary
  <2> QED
    BY <2>1, <2>2, <2>3 DEF PeekByte
<1> QED
  BY <1>2, <1>3 DEF TextInv

\* A raw read that finds part of a line tears it.
LEMMA BeginRawText == ASSUME Inv, TextInv, BeginRaw PROVE TextInv'
<1>1. PICK n \in Slices, k \in {"raw", "exact"}, want \in Wants :
         LET got == IF len < want THEN len ELSE want
             o   == [Op(k, n, want) EXCEPT !.data  = SubSeq(buf, 1, got),
                                           !.due   = Cut(since, want),
                                           !.from  = Where]
         IN /\ buf' = [i \in 1..(Cap + 1) |-> IF i <= len - got
                                              THEN buf[i + got] ELSE buf[i]]
            /\ len' = len - got
            /\ torn' = (torn \/ got > 0)
            /\ IF \/ k = "raw" /\ got > 0
                  \/ k = "exact" /\ got = want
               THEN op' = NoOp /\ out' = Out(k, "OK", o.data, o.due, o.from)
               ELSE op' = o /\ Nothing
  BY DEF BeginRaw
<1> DEFINE got == IF len < want THEN len ELSE want
           o   == [Op(k, n, want) EXCEPT !.data  = SubSeq(buf, 1, got),
                                         !.due   = Cut(since, want),
                                         !.from  = Where]
<1>2. /\ AsmType /\ Assembled /\ held.kind # "peek" /\ held' = held /\ since' = since
      /\ len \in 0..Cap /\ Cap \in Nat /\ want \in Nat \ {0}
  BY SizesAssumption DEF Inv, AsmType, TextInv, Peeking, BeginRaw
<1>3. got \in 0..len
  BY <1>2
<1>4. /\ buf' = [i \in 1..(Cap + 1) |-> IF i <= len - got THEN buf[i + got] ELSE buf[i]]
      /\ len' = len - got /\ torn' = (torn \/ got > 0)
      /\ \/ op' = NoOp /\ out' = Out(k, "OK", o.data, o.due, o.from)
         \/ op' = o /\ Nothing
  BY <1>1
<1>5. o.kind # "peek" /\ NoOp.kind # "peek"
  BY DEF Op, NoOp
<1> HIDE DEF got, o
<1>6. Peeking'
  BY <1>2, <1>4, <1>5 DEF Peeking
<1>7. WholeLines' /\ PromptStartsLine'
  <2>1. CASE out' = Out(k, "OK", o.data, o.due, o.from)
    BY <2>1, NoTextOut DEF Out
  <2>2. CASE Nothing
    BY <2>2, NothingOut
  <2> QED
    BY <1>4, <2>1, <2>2
<1>8. Assembled'
  <2>1. CASE got > 0
    BY <1>4, <2>1 DEF Assembled
  <2>2. CASE ~(got > 0)
    <3>1. got = 0 /\ len' = len
      BY <1>2, <1>3, <1>4, <2>2
    <3>2. buf' = buf
      BY <1>2, <1>4, <3>1 DEF AsmType
    <3>3. torn' = torn
      BY <1>2, <1>4, <3>1 DEF AsmType
    <3> QED
      BY <1>2, <3>1, <3>2, <3>3, NothingAssembledNow
  <2> QED
    BY <2>1, <2>2
<1> QED
  BY <1>6, <1>7, <1>8 DEF TextInv

\* A raw read's bytes belong to no line: one that was begun is torn.
LEMMA ReadRawText == ASSUME Inv, TextInv, ReadRaw PROVE TextInv'
<1>1. /\ op.kind \in {"raw", "exact"} /\ held' = held /\ held.kind # "peek"
      /\ since' = <<>> /\ torn' = (len > 0) /\ len' = len /\ len \in 0..Cap
  BY DEF ReadRaw, TextInv, Peeking, Inv, AsmType
<1>2. \/ op' = NoOp /\ out'.kind = op.kind
      \/ op'.kind = op.kind /\ Nothing
  <2>1. PICK n \in 1..(op.want - Len(op.data)) :
           LET o == [op EXCEPT !.data = @ \o SubSeq(wire, 1, n),
                               !.due  = Cut(@ \o SubSeq(wire, 1, n), op.want)]
           IN  IF op.kind = "raw" \/ Len(o.data) = op.want
               THEN /\ op' = NoOp
                    /\ out' = Out(op.kind, "OK", o.data, o.due, op.from)
               ELSE op' = o /\ Nothing
    BY DEF ReadRaw
  <2> DEFINE o == [op EXCEPT !.data = @ \o SubSeq(wire, 1, n),
                             !.due  = Cut(@ \o SubSeq(wire, 1, n), op.want)]
  <2>2. o.kind = op.kind
    BY DEF Inv, Rest, OpType
  <2>3. \/ op' = NoOp /\ out' = Out(op.kind, "OK", o.data, o.due, op.from)
        \/ op' = o /\ Nothing
    BY <2>1
  <2> HIDE DEF o
  <2> QED
    BY <2>2, <2>3 DEF Out
<1>3. Peeking'
  BY <1>1, <1>2 DEF Peeking, NoOp, Op
<1>4. WholeLines' /\ PromptStartsLine'
  BY <1>1, <1>2, NoTextOut, NothingOut
<1>5. Assembled'
  <2>1. CASE len > 0
    BY <1>1, <2>1 DEF Assembled
  <2>2. CASE ~(len > 0)
    <3>1. len' = 0
      BY <1>1, <2>2, SizesAssumption
    <3> QED
      BY <1>1, <3>1, AssembledAnew
  <2> QED
    BY <2>1, <2>2
<1> QED
  BY <1>3, <1>4, <1>5 DEF TextInv

LEMMA ReadTimesOutText == ASSUME Inv, TextInv, ReadTimesOut PROVE TextInv'
<1>1. /\ Assembled /\ held.kind # "peek" /\ op.kind # "peek" /\ op \in OpType
      /\ UNCHANGED <<buf, len, held, since, torn>>
  BY DEF ReadTimesOut, TextInv, Peeking, Inv, Rest
<1>2. \/ op' = NoOp /\ out'.st = "TIMEOUT"
      \/ op'.kind = op.kind /\ Nothing
  BY <1>1 DEF ReadTimesOut, Out, OpType
<1>3. Peeking'
  BY <1>1, <1>2 DEF Peeking, NoOp, Op
<1>4. WholeLines' /\ PromptStartsLine'
  BY <1>2, NoTextOut, NothingOut
<1> QED
  BY <1>1, <1>3, <1>4, NothingAssembledNow DEF TextInv

LEMMA ReadFailsText == ASSUME Inv, TextInv, ReadFails PROVE TextInv'
<1>1. Assembled /\ held.kind # "peek" /\ op' = NoOp /\ UNCHANGED <<buf, len, held>>
  BY DEF ReadFails, TextInv, Peeking
<1>2. CASE op.kind = "peek" /\ PromptFound /\ Boundary
  <2>1. WholeLines' /\ PromptStartsLine' /\ Peeking' /\ len = 0
    BY <1>1, <1>2, PromptText
  <2>2. Assembled'
    BY <1>1, <1>2, <2>1, AssembledAnew DEF Boundary
  <2> QED
    BY <2>1, <2>2 DEF TextInv
<1>3. CASE out' = Out(op.kind, "IO", op.data, op.due, op.from)
             /\ UNCHANGED <<since, torn>>
  <2>1. WholeLines' /\ PromptStartsLine'
    BY <1>3, NoTextOut DEF Out
  <2>2. Peeking'
    BY <1>1 DEF Peeking, NoOp, Op
  <2>3. Assembled'
    BY <1>1, <1>3, NothingAssembledNow
  <2> QED
    BY <2>1, <2>2, <2>3 DEF TextInv
<1> QED
  BY <1>2, <1>3 DEF ReadFails

LEMMA InitText == Init => TextInv
<1> SUFFICES ASSUME Init PROVE TextInv
  OBVIOUS
<1>1. Inv
  BY InitInv
<1>2. SubSeq(buf, 1, 0) = Cut(NoCR(since), Cap)
  BY <1>1, NothingAssembled DEF Init
<1> QED
  BY <1>2 DEF Init, TextInv, Assembled, Peeking, WholeLines, PromptStartsLine,
              NoOp, Op, NoOut, Out

LEMMA StepText == Inv /\ TextInv /\ [Next]_vars => TextInv'
<1> SUFFICES ASSUME Inv, TextInv, [Next]_vars PROVE TextInv'
  OBVIOUS
<1>1. CASE Arrive
  BY <1>1, NothingAssembledNow, NothingOut DEF Arrive, TextInv, Peeking
<1>2. CASE BeginLine
  <2>1. op'.kind # "peek"
    BY <1>2 DEF BeginLine, Op
  <2> QED
    BY <1>2, <2>1, NothingAssembledNow, NothingOut DEF BeginLine, TextInv, Peeking
<1>3. CASE BeginRaw
  BY <1>3, BeginRawText
<1>4. CASE ReadLine
  BY <1>4, FeedLineText DEF ReadLine
<1>5. CASE ReadPrompt
  <2>1. CASE PromptByte
    <3>1. /\ op' = [op EXCEPT !.kind = "peek", !.due = since] /\ Nothing
          /\ UNCHANGED <<buf, len, held, since, torn>> /\ len = 0
      BY <1>5, <2>1 DEF ReadPrompt, PromptByte
    <3>2. op'.due = since
      BY <3>1 DEF Inv, Rest, OpType
    <3> QED
      BY <3>1, <3>2, NothingAssembledNow, NothingOut DEF TextInv, Peeking
  <2>2. CASE ~PromptByte
    BY <1>5, <2>2, FeedLineText DEF ReadPrompt
  <2> QED
    BY <2>1, <2>2
<1>6. CASE PeekByte
  BY <1>6, PeekByteText
<1>7. CASE PeekNothing
  <2>1. WholeLines' /\ PromptStartsLine' /\ Peeking' /\ len = 0
    BY <1>7, PromptText DEF PeekNothing
  <2>2. Assembled'
    BY <1>7, <2>1, AssembledAnew DEF PeekNothing, Boundary
  <2> QED
    BY <2>1, <2>2 DEF TextInv
<1>8. CASE ReadRaw
  BY <1>8, ReadRawText
<1>9. CASE ReadTimesOut
  BY <1>9, ReadTimesOutText
<1>10. CASE ReadFails
  BY <1>10, ReadFailsText
<1>11. CASE HandlerReturns
  <2>1. /\ op' = held /\ held' = NoOp /\ Nothing /\ held.kind # "peek"
        /\ UNCHANGED <<buf, len, since, torn>>
    BY <1>11 DEF HandlerReturns, TextInv, Peeking
  <2>2. Peeking'
    BY <2>1 DEF Peeking, NoOp, Op
  <2> QED
    BY <2>1, <2>2, NothingAssembledNow, NothingOut DEF TextInv
<1>12. CASE UNCHANGED vars
  BY <1>12 DEF vars, TextInv, Assembled, Peeking, WholeLines, PromptStartsLine
<1> QED
  BY <1>1, <1>2, <1>3, <1>4, <1>5, <1>6, <1>7, <1>8, <1>9, <1>10, <1>11, <1>12
     DEF Next, ReaderStep

-----------------------------------------------------------------------------
(* The theorems *)

LEMMA InvHolds == Spec => []Inv
BY InitInv, StepInv, PTL DEF Spec

LEMMA TextInvHolds == Spec => []TextInv
BY InitText, StepText, InvHolds, PTL DEF Spec

\* rx_feed: for every size of _rx_buf, any bytes and any timeouts, no byte of a
\* line is ever stored at or beyond the cell of the terminator.
THEOREM TypeCorrect == Spec => []TypeOK
<1>1. Inv => TypeOK
  BY TypesOfInv DEF Inv
<1> QED
  BY <1>1, InvHolds, PTL

\* dispatch_registered_urc: the pointer a handler got reads its line until a byte
\* of a further line is read, whatever the handler calls.
THEOREM HeldLineStandsHolds == Spec => []HeldLineStands
<1>1. Inv => HeldLineStands
  BY DEF Inv, HeldInv, HeldLineStands
<1> QED
  BY <1>1, InvHolds, PTL

\* ec200_at_read_raw and ec200_at_read_exact: from a line boundary they hand out
\* the next bytes of the stream, and no others, for every length asked for.
THEOREM RawVerbatimHolds == Spec => []RawVerbatim
<1>1. Inv => RawVerbatim
  BY DEF Inv, RawInv
<1> QED
  BY <1>1, InvHolds, PTL

\* rx_line: a line handed to a parser is the line the module sent, without CRs
\* and cut to the buffer, for every buffer and however many reads timed out
\* inside it, unless a raw read took some of it.
THEOREM WholeLinesHolds == Spec => []WholeLines
<1>1. TextInv => WholeLines
  BY DEF TextInv
<1> QED
  BY <1>1, TextInvHolds, PTL

\* ec200_at_wait_prompt: the prompt is only seen at the start of a line.
THEOREM PromptStartsLineHolds == Spec => []PromptStartsLine
<1>1. TextInv => PromptStartsLine
  BY DEF TextInv
<1> QED
  BY <1>1, TextInvHolds, PTL
=============================================================================
