------------------------------ MODULE Replies ------------------------------
(***************************************************************************)
(* The three places where the library takes apart a reply whose layout is  *)
(* not told beforehand: the body of an HTTP response (HttpBody), the       *)
(* listing of a mailbox (SmsList) and the fields of a response line        *)
(* (FieldParser).  They share no state, and no two of them ever run at the *)
(* same time: a behaviour is a reply of one of the three kinds, and the    *)
(* other two rest at their end.                                            *)
(***************************************************************************)
EXTENDS Integers, Sequences

CONSTANTS
    Bytes, BufSz, MaxDiscard, MaxLines, Slices, MaxBody,       \* of HttpBody
    Messages, Texts, HeaderLen, RespSz, MaxMsgs, ListLines, MaxStray,
                              \* of SmsList, where RespSz is called BufSz and
                              \* ListLines is called MaxLines
    Symbols, MaxLen, MaxIndex, OutSz, MaxInt                   \* of FieldParser

VARIABLES
    wire, sent, ended, step, buf, match, discarded, overflow, left, count,
    line, lines, st, found, seen,                              \* of HttpBody
    mailbox, todo, resp, pos, listLines, stray, listStep, at, msgs, listSt,
                                                               \* of SmsList
    op, text, index, phase, p, field, quoted, neg, value, out, fieldSt
                                                               \* of FieldParser

H == INSTANCE HttpBody
L == INSTANCE SmsList WITH BufSz <- RespSz, MaxLines <- ListLines,
                           lines <- listLines, step <- listStep, st <- listSt
F == INSTANCE FieldParser

ASSUME RepliesAssumption ==
    H!HttpAssumption /\ L!SizesAssumption /\ F!FieldAssumption

bodyVars == <<wire, sent, ended, step, buf, match, discarded, overflow, left, count,
              line, lines, st, found, seen>>
listingVars == <<mailbox, todo, resp, pos, listLines, stray, listStep, at, msgs, listSt>>
fieldVars == <<op, text, index, phase, p, field, quoted, neg, value, out, fieldSt>>
vars == <<bodyVars, listingVars, fieldVars>>

-----------------------------------------------------------------------------

\* A component at rest: nothing sent, nothing stored, its loop at an end.
BodyRests ==
    /\ wire = <<>> /\ sent = 0 /\ ended = TRUE /\ step = "done"
    /\ buf = <<>> /\ match = 0 /\ discarded = 0 /\ overflow = FALSE
    /\ left = 0 /\ count = 0 /\ line = <<>> /\ lines = 0
    /\ st = "none" /\ found = FALSE /\ seen = <<>>
ListingRests ==
    /\ mailbox = <<>> /\ todo = <<>> /\ resp = <<>> /\ pos = 0
    /\ listLines = 0 /\ stray = MaxStray /\ listStep = "done"
    /\ at = 1 /\ msgs = <<>> /\ listSt = "none"
FieldRests ==
    /\ op = "none" /\ text = <<>> /\ index = 0 /\ phase = "rests" /\ p = 1
    /\ field = 0 /\ quoted = FALSE /\ neg = FALSE /\ value = 0
    /\ out = <<>> /\ fieldSt = "none"

Init ==
    \/ H!Init /\ ListingRests /\ FieldRests
    \/ BodyRests /\ L!Init /\ FieldRests
    \/ BodyRests /\ ListingRests /\ F!Init

Next ==
    \/ H!Next /\ UNCHANGED <<listingVars, fieldVars>>
    \/ L!Next /\ UNCHANGED <<bodyVars, fieldVars>>
    \/ F!Next /\ UNCHANGED <<bodyVars, listingVars>>

Spec == Init /\ [][Next]_vars

-----------------------------------------------------------------------------
(* Properties *)

\* ec200_http_read: the reader stops with the last byte of the first trailer in
\* the stream, never later and never earlier, whatever pieces stand before it.
StopsAtTrailer == H!StopsAtTrailer

\* ec200_http_read: the caller gets the body cut to its buffer, and the status
\* says whether it was cut.
BodyExact == H!BodyExact

\* ec200_http_read: a body that does not fit is given up after HTTP_MAX_DISCARD
\* bytes, to within one trailer, whatever the module sends.
DiscardBounded == H!DiscardBounded

\* ec200_sms_list: a listing that fits and is not disturbed is returned exactly,
\* as far as the caller's array goes.
ExactWhenItFits == L!ExactWhenItFits

\* ec200_sms_list: messages keep their order, none comes twice, and one that was
\* stored whole keeps its text even when others did not fit.
StoredWholeIsOwn == L!StoredWholeIsOwn

\* ec200_at_parse_int_field and copy_field: the field a parser asks for is the
\* one it gets, with the value or the text the line has there.
FieldIsReadRight == F!FieldIsReadRight
=============================================================================
