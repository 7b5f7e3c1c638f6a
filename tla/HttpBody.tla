------------------------------ MODULE HttpBody ------------------------------
(***************************************************************************)
(* ec200_http_read of src/src/ec200_http.c from CONNECT on: the body is    *)
(* streamed byte by byte until the trailer CR LF O K CR LF, with no length *)
(* told beforehand, into a buffer it may not fit; then the result line of  *)
(* the transfer is awaited.                                                *)
(*                                                                         *)
(* The reader keeps one number, how much of the trailer it has seen, and   *)
(* puts those bytes into the body when the trailer does not go on.  The    *)
(* reference definition of the body is a sequence operation on everything  *)
(* that was read.                                                          *)
(***************************************************************************)
EXTENDS Integers, Sequences

CONSTANTS
    Bytes,        \* the bytes a body may consist of
    BufSz,        \* buf_sz
    MaxDiscard,   \* HTTP_MAX_DISCARD
    MaxLines,     \* EC200_AT_MAX_LINES
    Slices,       \* budget of the body, in read slices
    MaxBody       \* bound: bytes of a body

\* The result line is one symbol with its outcome, "ok" or "err".
Byte == {"CR", "LF", "O", "K", "ok", "err"}

\* What the constants must satisfy; Replies assumes it.
HttpAssumption ==
    /\ Bytes \subseteq Byte
    /\ BufSz \in Nat \ {0} /\ MaxDiscard \in Nat /\ MaxLines \in Nat \ {0}
    /\ Slices \in Nat /\ MaxBody \in Nat

VARIABLES
    wire,       \* sent by the module and not yet read
    sent,       \* bytes of the body sent so far
    ended,      \* the module has sent the trailer and the result line
    step,       \* "body", "result" or "done"
    buf,        \* what the reader has stored in buf, out_pos bytes
    match,      \* bytes of the trailer seen
    discarded, overflow, left,
    count,      \* *bytes_read
    line, lines,  \* the line being assembled by wait_prefix, lines read by it
    st,         \* the status so far, then the one returned
    found,      \* the trailer was found
    seen        \* the bytes read in the body loop, for the properties

body == <<buf, match, discarded, overflow, left, seen>>
vars == <<wire, sent, ended, step, body, count, line, lines, st, found>>

-----------------------------------------------------------------------------

Trailer == <<"CR", "LF", "O", "K", "CR", "LF">>

\* The module (external): the body, and after it the trailer and the result.
SendBody ==
    /\ ~ended /\ sent < MaxBody /\ wire = <<>>
    /\ sent' = sent + 1
    /\ \E b \in Bytes : wire' = <<b>>
    /\ UNCHANGED <<ended, step, body, count, line, lines, st, found>>

SendEnd ==
    /\ ~ended /\ wire = <<>> /\ ended' = TRUE
    /\ \E r \in {"ok", "err"} : wire' = Trailer \o <<"CR", "LF", r, "CR", "LF">>
    /\ UNCHANGED <<sent, step, body, count, line, lines, st, found>>

Take == wire # <<>> /\ wire' = Tail(wire)

-----------------------------------------------------------------------------
(* read_body_until_ok *)

\* Append s to the body, as far as the buffer goes.
Fits(s) == LET room == BufSz - Len(buf) IN IF Len(s) < room THEN Len(s) ELSE room
Store(s) ==
    /\ buf' = buf \o SubSeq(s, 1, Fits(s))
    /\ discarded' = discarded + Len(s) - Fits(s)
    /\ overflow' = (overflow \/ Fits(s) < Len(s))

BodyEnds(status) == step' = "result" /\ st' = status
BodyFails(status) == step' = "done" /\ st' = status

Matches(ch) == ch = Trailer[match + 1]

\* One more byte of the trailer, or its last one.
MatchByte(ch) ==
    /\ Matches(ch) /\ match' = match + 1
    /\ IF match' = Len(Trailer)
       THEN BodyEnds(IF overflow THEN "OVERFLOW" ELSE "OK")
            /\ count' = Len(buf) /\ found' = TRUE
       ELSE UNCHANGED <<step, st, count, found>>
    /\ UNCHANGED <<buf, discarded, overflow>>

\* More than HTTP_MAX_DISCARD bytes did not fit: the trailer is given up.
CapDiscard ==
    IF discarded' > MaxDiscard
    THEN BodyEnds("OVERFLOW") /\ count' = Len(buf')
    ELSE UNCHANGED <<step, st, count>>

\* Mutants of BodyByte: the partial trailer is forgotten; a CR that breaks it off
\* is not the start of another; no discard bound.
BodyByteForgets(ch) ==
    /\ ~Matches(ch)
    /\ IF ch = Trailer[1] THEN match' = 1 /\ Store(<<>>)
                          ELSE match' = 0 /\ Store(<<ch>>)
    /\ CapDiscard
    /\ UNCHANGED found
BodyByteNoRestart(ch) ==
    /\ ~Matches(ch)
    /\ match' = 0 /\ Store(Append(SubSeq(Trailer, 1, match), ch))
    /\ CapDiscard
    /\ UNCHANGED found
BodyByteUnbounded(ch) ==
    /\ ~Matches(ch)
    /\ IF ch = Trailer[1]
       THEN match' = 1 /\ Store(SubSeq(Trailer, 1, match))
       ELSE match' = 0 /\ Store(Append(SubSeq(Trailer, 1, match), ch))
    /\ UNCHANGED <<step, st, count, found>>

\* The trailer does not go on: what was matched belongs to the body.
BodyByte(ch) ==
    /\ ~Matches(ch)
    /\ IF ch = Trailer[1]
       THEN match' = 1 /\ Store(SubSeq(Trailer, 1, match))
       ELSE match' = 0 /\ Store(Append(SubSeq(Trailer, 1, match), ch))
    /\ CapDiscard
    /\ UNCHANGED found

ReadByte ==
    /\ step = "body" /\ Take
    /\ seen' = Append(seen, Head(wire))
    /\ MatchByte(Head(wire)) \/ BodyByte(Head(wire))
    /\ UNCHANGED <<sent, ended, left, line, lines>>

BodyTimesOut ==
    /\ step = "body" /\ wire = <<>>
    /\ IF left = 0 THEN BodyFails("TIMEOUT") /\ count' = Len(buf) /\ UNCHANGED left
                   ELSE left' = left - 1 /\ UNCHANGED <<step, st, count>>
    /\ UNCHANGED <<wire, sent, ended, buf, match, discarded, overflow, seen,
                   line, lines, found>>

\* A failing transport: the count the caller sees is still zero.
BodyIoError ==
    /\ step = "body" /\ BodyFails("IO")
    /\ UNCHANGED <<wire, sent, ended, body, count, line, lines, found>>

-----------------------------------------------------------------------------
(* ec200_at_wait_prefix for the result line *)

Finish(status) == step' = "done" /\ st' = status

\* The result line decides; a missing one changes nothing.
LineReady ==
    IF line # <<>> /\ line[1] \in {"ok", "err"}
    THEN Finish(IF line[1] = "err" THEN "MODULE" ELSE st) /\ UNCHANGED lines
    ELSE IF lines + 1 = MaxLines THEN Finish(st) /\ lines' = lines + 1
    ELSE lines' = lines + 1 /\ UNCHANGED <<step, st>>

ReadResult ==
    /\ step = "result" /\ Take
    /\ LET ch == Head(wire) IN
       \/ ch = "CR" /\ UNCHANGED <<line, lines, step, st>>
       \/ ch = "LF" /\ line' = <<>> /\ LineReady
       \/ ch \notin {"CR", "LF"} /\ line' = Append(line, ch)
            /\ UNCHANGED <<lines, step, st>>
    /\ UNCHANGED <<sent, ended, body, count, found>>

ResultMissing ==
    /\ step = "result" /\ Finish(st)
    /\ UNCHANGED <<wire, sent, ended, body, count, line, lines, found>>

-----------------------------------------------------------------------------

Init ==
    /\ wire = <<>> /\ sent = 0 /\ ended = FALSE
    /\ step = "body" /\ st = "none" /\ found = FALSE
    /\ buf = <<>> /\ match = 0 /\ discarded = 0 /\ overflow = FALSE
    /\ left = Slices /\ count = 0
    /\ line = <<>> /\ lines = 0 /\ seen = <<>>

Reader == ReadByte \/ BodyTimesOut \/ BodyIoError \/ ReadResult \/ ResultMissing

Next == SendBody \/ SendEnd \/ Reader

Spec == Init /\ [][Next]_vars

-----------------------------------------------------------------------------
(* Properties *)

\* The reference: where the first trailer of a byte sequence begins.
Cut(s, n) == SubSeq(s, 1, IF Len(s) < n THEN Len(s) ELSE n)
TrailerAt(s, i) == SubSeq(s, i, i + Len(Trailer) - 1) = Trailer
Ends(s) == {i \in 1..(Len(s) - Len(Trailer) + 1) : TrailerAt(s, i)}

\* The reader stops with the last byte of the first trailer in the stream,
\* never later and never earlier, wherever pieces of a trailer stand before it.
StopsAtTrailer ==
    IF found THEN Ends(seen) = {Len(seen) - Len(Trailer) + 1} ELSE Ends(seen) = {}

\* What the caller gets is the body cut to its buffer, a body that was cut is
\* never reported as whole, and a whole one never as cut.  Without a trailer the
\* bytes counted are still the first ones of the stream, and an
\* EC200_ERR_OVERFLOW comes with a full buffer.
BodyExact ==
    /\ found =>
          LET whole == SubSeq(seen, 1, Len(seen) - Len(Trailer)) IN
          /\ buf = Cut(whole, BufSz) /\ count = Len(buf)
          /\ (st = "OK") => Len(whole) <= BufSz
          /\ (st = "OVERFLOW") => Len(whole) > BufSz
    /\ ~found =>
          /\ count <= Len(buf) /\ buf = Cut(seen, Len(buf))
          /\ (step = "done" /\ st = "OVERFLOW") => count = BufSz

\* The discard bound holds to within one trailer, whatever the module sends.
DiscardBounded == Len(seen) <= BufSz + MaxDiscard + Len(Trailer)
=============================================================================
