---------------------------- MODULE RxAssembler ----------------------------
(***************************************************************************)
(* The byte level of src/src/ec200_at.c: the persistent line assembler in  *)
(* _rx_buf, and the four ways of taking bytes from the UART that share it: *)
(* rx_line, the prompt wait, ec200_at_read_raw and ec200_at_read_exact.    *)
(*                                                                         *)
(* Every read may time out between any two bytes.  A caller gives up when  *)
(* its budget is spent, and the bytes assembled so far stay in _rx_buf for *)
(* the next caller, whatever that one wants to read.  AtEngine takes       *)
(* complete lines for granted; this module is where they come from.        *)
(***************************************************************************)
EXTENDS Integers, Sequences

CONSTANTS
    Bytes,       \* the bytes the module sends
    Cap,         \* sizeof(_rx_buf) - 1
    Slices,      \* budgets a caller may bring, in read slices
    Wants,       \* lengths a raw reader may ask for
    MaxWire,     \* bound: bytes waiting in the UART
    MaxSince     \* bound: bytes of one line remembered for the properties

ASSUME BytesAssumption == Bytes \subseteq {"CR", "LF", "GT", "SP", "A", "B"}
ASSUME SizesAssumption ==
    /\ Cap \in Nat \ {0} /\ MaxWire \in Nat \ {0} /\ MaxSince \in Nat
    /\ Slices \subseteq Nat /\ Wants \subseteq Nat \ {0}

VARIABLES
    wire,      \* bytes received by the UART and not yet read
    buf,       \* _rx_buf, a cell for each index from 1 to Cap + 1
    len,       \* _rx_len
    overlong,  \* _rx_overlong
    op,        \* the read in progress
    held,      \* the interrupted read whose handler is running
    handed,    \* the line that handler was handed, until it reads another byte
    since,     \* bytes read since the last line boundary, for the properties
    torn,      \* a raw read took some of the current line, or since overflowed
    out        \* what the last step handed out, and the bytes it stands for

vars == <<wire, buf, len, overlong, op, held, handed, since, torn, out>>

-----------------------------------------------------------------------------

NUL == "NUL"

\* A sequence without its CRs: what is kept of its first n bytes, n its length.
NoCR(s) ==
    LET kept[n \in 0..Len(s)] ==
            IF n = 0 THEN <<>>
            ELSE IF s[n] = "CR" THEN kept[n - 1]
            ELSE Append(kept[n - 1], s[n])
    IN  kept[Len(s)]

Cut(s, n) == SubSeq(s, 1, IF Len(s) < n THEN Len(s) ELSE n)

\* The C string at _rx_buf: what a pointer to it reads.
Text(b) == LET nul == CHOOSE i \in 1..(Cap + 1) :
                          b[i] = NUL /\ \A j \in 1..(i - 1) : b[j] # NUL
           IN  SubSeq(b, 1, nul - 1)

Op(kind, left, want) == [kind |-> kind, left |-> left, want |-> want,
                         data |-> <<>>, due |-> <<>>, from |-> "boundary"]
NoOp == Op("none", 0, 0)

Out(kind, st, data, due, from) ==
    [kind |-> kind, st |-> st, data |-> data, due |-> due, from |-> from]
NoOut == Out("none", "none", <<>>, <<>>, "boundary")

Nothing == out' = NoOut

InHandler == held # NoOp
Idle == op = NoOp

-----------------------------------------------------------------------------
(* rx_feed *)

\* The properties' record of the current line.
Remember(c) ==
    IF Len(since) < MaxSince THEN since' = Append(since, c) /\ UNCHANGED torn
                             ELSE UNCHANGED since /\ torn' = TRUE
Boundary == since' = <<>> /\ torn' = FALSE

\* Where the next byte falls: on a line boundary, after the CR of a blank one,
\* inside a line, or inside one the properties cannot account for.
Where == IF torn THEN "torn" ELSE IF len > 0 THEN "line"
         ELSE IF since = <<>> THEN "boundary" ELSE "cr"

FeedCR(c) == c = "CR" /\ UNCHANGED <<buf, len, overlong, handed>> /\ Remember(c)

\* Mutant of FeedText: the terminator's cell is filled too.
FeedTextOneMore(c) ==
    /\ c \notin {"CR", "LF"} /\ Remember(c) /\ handed' = <<>>
    /\ IF len <= Cap
       THEN buf' = [buf EXCEPT ![len + 1] = c] /\ len' = len + 1
            /\ UNCHANGED overlong
       ELSE overlong' = TRUE /\ UNCHANGED <<buf, len>>

FeedText(c) ==
    /\ c \notin {"CR", "LF"} /\ Remember(c) /\ handed' = <<>>
    /\ IF len < Cap
       THEN buf' = [buf EXCEPT ![len + 1] = c] /\ len' = len + 1
            /\ UNCHANGED overlong
       ELSE overlong' = TRUE /\ UNCHANGED <<buf, len>>

\* Mutant of FeedLF: the next line is assembled behind this one.
FeedLFKeepsLen(c) ==
    /\ c = "LF" /\ Boundary
    /\ buf' = [buf EXCEPT ![len + 1] = NUL]
    /\ overlong' = FALSE /\ UNCHANGED len

\* LF completes the line: _rx_buf now holds it, NUL-terminated.
FeedLF(c) ==
    /\ c = "LF" /\ Boundary
    /\ buf' = [buf EXCEPT ![len + 1] = NUL]
    /\ len' = 0 /\ overlong' = FALSE

\* One byte is read from the UART and fed.
Byte == Head(wire)
Take == wire # <<>> /\ wire' = Tail(wire)

-----------------------------------------------------------------------------
(* The module *)

Arrive ==
    /\ Len(wire) < MaxWire
    /\ \E c \in Bytes : wire' = Append(wire, c)
    /\ Nothing
    /\ UNCHANGED <<buf, len, overlong, op, held, handed, since, torn>>

-----------------------------------------------------------------------------
(* A read starts, from the main loop or from a handler *)

BeginLine ==
    /\ Idle /\ \E n \in Slices, k \in {"line", "prompt"} : op' = Op(k, n, 0)
    /\ Nothing
    /\ UNCHANGED <<wire, buf, len, overlong, held, handed, since, torn>>

\* rx_take_buffered: a raw read starts with the bytes of a partial line.
\* `due' are the bytes it should return first, as they came from the module.
BeginRaw ==
    /\ Idle
    /\ \E n \in Slices, k \in {"raw", "exact"}, want \in Wants :
         LET got == IF len < want THEN len ELSE want
             o   == [Op(k, n, want) EXCEPT !.data  = SubSeq(buf, 1, got),
                                           !.due   = Cut(since, want),
                                           !.from  = Where]
         IN /\ buf' = [i \in 1..(Cap + 1) |-> IF i <= len - got
                                              THEN buf[i + got] ELSE buf[i]]
            /\ len' = len - got
            /\ torn' = (torn \/ got > 0)
            /\ IF \/ k = "raw" /\ got > 0
                  \/ k = "exact" /\ got = want
               THEN op' = NoOp /\ out' = Out(k, "OK", o.data, o.due, o.from)
               ELSE op' = o /\ Nothing
    /\ UNCHANGED <<wire, overlong, held, handed, since>>

-----------------------------------------------------------------------------
(* rx_line, and the line part of the prompt loop *)

\* A complete line is blank, ends the loop, is passed over, or goes to a
\* handler; which of them is the business of AtEngine.
LineDone(line) ==
    \/ /\ op' = NoOp
       /\ line # <<>>
       /\ handed' = <<>> /\ UNCHANGED held
    \/ handed' = <<>> /\ UNCHANGED <<op, held>>
    \/ /\ line # <<>> /\ ~InHandler
       /\ held' = op /\ handed' = line
       /\ op' = NoOp

FeedLine ==
    /\ Take
    /\ \/ (FeedCR(Byte) \/ FeedText(Byte)) /\ Nothing /\ UNCHANGED <<op, held>>
       \/ /\ FeedLF(Byte)
          /\ LineDone(Text(buf'))
          /\ out' = Out("line", "OK", Text(buf'), since, Where)

ReadLine == op.kind = "line" /\ FeedLine

\* Mutant of PromptByte: a '>' inside a line is taken for the prompt.
PromptByteAnywhere == Byte = "GT"

PromptByte == Byte = "GT" /\ len = 0

ReadPrompt ==
    /\ op.kind = "prompt" /\ wire # <<>>
    /\ IF PromptByte
       THEN /\ Take
            /\ op' = [op EXCEPT !.kind = "peek", !.due = since]
            /\ Nothing
            /\ UNCHANGED <<buf, len, overlong, held, handed, since, torn>>
       ELSE FeedLine

\* The space after the prompt is swallowed if it is there; any other byte is
\* fed, and a line that it completes goes unseen.
PromptFound == op' = NoOp /\ out' = Out("prompt", "OK", <<>>, op.due, Where)

PeekByte ==
    /\ op.kind = "peek" /\ Take
    /\ PromptFound
    /\ IF Byte = "SP" THEN Boundary /\ UNCHANGED <<buf, len, overlong, handed>>
       ELSE FeedCR(Byte) \/ FeedText(Byte) \/ (FeedLF(Byte) /\ handed' = <<>>)
    /\ UNCHANGED held

PeekNothing ==
    /\ op.kind = "peek" /\ wire = <<>>
    /\ PromptFound /\ Boundary
    /\ UNCHANGED <<wire, buf, len, overlong, held, handed>>

-----------------------------------------------------------------------------
(* ec200_at_read_raw and ec200_at_read_exact *)

\* Mutant of ReadRaw: the second chunk is stored over the first.
ReadRawOverwrites ==
    /\ op.kind \in {"raw", "exact"} /\ wire # <<>>
    /\ \E n \in 1..(op.want - Len(op.data)) :
         LET o == [op EXCEPT !.data = SubSeq(wire, 1, n)
                                        \o SubSeq(@, n + 1, Len(@)),
                             !.due  = Cut(@ \o SubSeq(wire, 1, n), op.want)]
         IN /\ n <= Len(wire)
            /\ wire' = SubSeq(wire, n + 1, Len(wire))
            /\ IF op.kind = "raw" \/ Len(o.due) = op.want
               THEN /\ op' = NoOp
                    /\ out' = Out(op.kind, "OK", o.data, o.due, op.from)
               ELSE op' = o /\ Nothing
    /\ since' = <<>> /\ torn' = (len > 0)
    /\ UNCHANGED <<buf, len, overlong, held, handed>>

\* The read callback returns between one byte and all that are wanted.  The
\* bytes skip the assembler: the line they belong to is torn.
ReadRaw ==
    /\ op.kind \in {"raw", "exact"} /\ wire # <<>>
    /\ \E n \in 1..(op.want - Len(op.data)) :
         LET o == [op EXCEPT !.data = @ \o SubSeq(wire, 1, n),
                             !.due  = Cut(@ \o SubSeq(wire, 1, n), op.want)]
         IN /\ n <= Len(wire)
            /\ wire' = SubSeq(wire, n + 1, Len(wire))
            /\ IF op.kind = "raw" \/ Len(o.data) = op.want
               THEN /\ op' = NoOp
                    /\ out' = Out(op.kind, "OK", o.data, o.due, op.from)
               ELSE op' = o /\ Nothing
    /\ since' = <<>> /\ torn' = (len > 0)
    /\ UNCHANGED <<buf, len, overlong, held, handed>>

-----------------------------------------------------------------------------
(* Timeouts and failures *)

\* Mutants of ReadTimesOut: the partial line is dropped on giving up; the
\* budget is never charged.
ReadTimesOutDrops ==
    /\ op.kind \notin {"none", "peek"} /\ wire = <<>>
    /\ IF op.left = 0
       THEN op' = NoOp /\ out' = Out(op.kind, "TIMEOUT", op.data, op.due, op.from)
            /\ len' = 0
       ELSE op' = [op EXCEPT !.left = @ - 1] /\ Nothing /\ UNCHANGED len
    /\ UNCHANGED <<wire, buf, overlong, held, handed, since, torn>>
ReadTimesOutUncharged ==
    /\ op.kind \notin {"none", "peek"} /\ wire = <<>>
    /\ IF op.left = 0
       THEN op' = NoOp /\ out' = Out(op.kind, "TIMEOUT", op.data, op.due, op.from)
       ELSE UNCHANGED op /\ Nothing
    /\ UNCHANGED <<wire, buf, len, overlong, held, handed, since, torn>>

\* The read callback reports a timeout: a slice of the budget is gone, or the
\* caller gives up.
ReadTimesOut ==
    /\ op.kind \notin {"none", "peek"} /\ wire = <<>>
    /\ IF op.left = 0
       THEN op' = NoOp /\ out' = Out(op.kind, "TIMEOUT", op.data, op.due, op.from)
       ELSE op' = [op EXCEPT !.left = @ - 1] /\ Nothing
    /\ UNCHANGED <<wire, buf, len, overlong, held, handed, since, torn>>

\* The read callback fails.  A failing peek is ignored.
ReadFails ==
    /\ ~Idle /\ op' = NoOp
    /\ IF op.kind = "peek" THEN PromptFound /\ Boundary
       ELSE out' = Out(op.kind, "IO", op.data, op.due, op.from)
            /\ UNCHANGED <<since, torn>>
    /\ UNCHANGED <<wire, buf, len, overlong, held, handed>>

\* The handler returns, and the interrupted read goes on with its own budget.
HandlerReturns ==
    /\ InHandler /\ Idle
    /\ op' = held /\ held' = NoOp /\ handed' = <<>> /\ Nothing
    /\ UNCHANGED <<wire, buf, len, overlong, since, torn>>

-----------------------------------------------------------------------------

Init ==
    /\ wire = <<>>
    /\ buf = [i \in 1..(Cap + 1) |-> NUL] /\ len = 0 /\ overlong = FALSE
    /\ op = NoOp /\ held = NoOp /\ handed = <<>>
    /\ since = <<>> /\ torn = FALSE /\ out = NoOut

ReaderStep == ReadLine \/ ReadPrompt \/ PeekByte \/ PeekNothing \/ ReadRaw
                \/ ReadTimesOut

Next == Arrive \/ BeginLine \/ BeginRaw \/ ReaderStep \/ ReadFails
          \/ HandlerReturns

Spec == Init /\ [][Next]_vars

\* The read callback returns within its slice, handlers return, and the code
\* does not pause between two of them.
FairSpec == Spec /\ WF_vars(ReaderStep) /\ WF_vars(HandlerReturns)

-----------------------------------------------------------------------------
(* Properties *)

OpType ==
    [kind : {"none", "line", "prompt", "peek", "raw", "exact"},
     left : Nat, want : Nat, data : Seq(Bytes), due : Seq(Bytes),
     from : {"boundary", "cr", "line", "torn"}]

\* Every variable has its type; _rx_len never reaches the terminator's cell.
TypeOK ==
    /\ wire \in Seq(Bytes) /\ Len(wire) <= MaxWire
    /\ buf \in [1..(Cap + 1) -> (Bytes \ {"CR", "LF"}) \cup {NUL}]
    /\ buf[Cap + 1] = NUL
    /\ len \in 0..Cap /\ overlong \in BOOLEAN
    /\ op \in OpType /\ held \in OpType
    /\ handed \in Seq(Bytes) /\ since \in Seq(Bytes) /\ torn \in BOOLEAN
    /\ out.st \in {"none", "OK", "TIMEOUT", "IO"}

\* A line handed to a parser is the whole line the module sent, cut to the
\* buffer, however many reads timed out inside it and whoever made them.
WholeLines ==
    (out.kind = "line" /\ out.st = "OK" /\ out.from # "torn") =>
        out.data = Cut(NoCR(out.due), Cap)

\* The line a handler was handed is a pointer into _rx_buf.  It reads the same
\* through the calls that time out and the raw reads the handler makes, until a
\* byte of a further line is read.
HeldLineStands == handed # <<>> => Text(buf) = handed

\* The prompt is only seen at the start of a line.
PromptStartsLine ==
    (out.kind = "prompt" /\ out.st = "OK" /\ out.from # "torn") =>
        NoCR(out.due) = <<>>

RawDone == out.kind \in {"raw", "exact"}

\* A raw read that starts on a line boundary returns the next bytes of the
\* stream, CR and LF included, and when it fails its count tells how far it got.
RawVerbatim == (RawDone /\ out.from = "boundary") => out.data = out.due

\* A byte costs no budget, a slice without one does: a read may outlast its
\* budget while bytes arrive, but returns once the module stops sending.
ReadReturns == <>[][~Arrive]_vars => (~Idle ~> Idle)
=============================================================================
