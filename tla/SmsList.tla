------------------------------- MODULE SmsList -------------------------------
(***************************************************************************)
(* ec200_sms_list of src/src/ec200_sms.c: the receive loop of the engine   *)
(* gathers the listing of a mailbox into a buffer of fixed size, leaving   *)
(* out the lines that do not fit and going on with shorter ones, and a     *)
(* parser then pairs headers with texts by their position alone.           *)
(*                                                                         *)
(* A line carries the message it is a part of; the code has only the       *)
(* bytes.  The properties ask when the pairing is right.                   *)
(***************************************************************************)
EXTENDS Integers, Sequences, SequencesExt

CONSTANTS
    Messages,    \* how many messages the module lists
    Texts,       \* the shapes of a text: for each of its lines, the length
    HeaderLen,   \* the length of a +CMGL line
    BufSz,       \* EC200_SMS_LIST_BUF_LEN
    MaxMsgs,     \* max_msgs
    MaxLines,    \* EC200_AT_MAX_LINES
    MaxStray     \* bound: unsolicited lines during the listing

\* What the constants must satisfy; Replies assumes it.
SizesAssumption ==
    /\ Messages \in Nat /\ HeaderLen \in Nat \ {0} /\ BufSz \in Nat \ {0}
    /\ MaxMsgs \in Nat \ {0} /\ MaxLines \in Nat \ {0} /\ MaxStray \in Nat
    /\ \A t \in Texts : t \in Seq(Nat)

VARIABLES
    mailbox,    \* the text of each message, as a shape
    todo,       \* lines the module has yet to send
    resp, pos,  \* lines stored in the response buffer, resp_pos
    lines,      \* lines read by the loop
    stray,      \* unsolicited lines so far
    step,       \* "receive", "parse" or "done"
    at,         \* the line of resp the parser is at
    msgs,       \* the messages stored for the caller
    st          \* the status

reception == <<todo, resp, pos, lines, stray>>
vars == <<mailbox, reception, step, at, msgs, st>>

-----------------------------------------------------------------------------

\* Part 0 of a message is its header, part n the n-th line of its text.
Line(kind, msg, part, len) == [kind |-> kind, msg |-> msg, part |-> part, len |-> len]
Header(m)     == Line("header", m, 0, HeaderLen)
Body(m, n)    == Line("body", m, n, mailbox[m][n])
StrayLine     == Line("stray", 0, 0, 1)
FinalOk       == Line("OK", 0, 0, 2)

\* What the module sends for one message, and for all of them (external).
Listing(m) == <<Header(m)>> \o [n \in DOMAIN mailbox[m] |-> Body(m, n)]
Sent == Append(FlattenSeq([m \in 1..Messages |-> Listing(m)]), FinalOk)

-----------------------------------------------------------------------------
(* receive_transaction without a prefix *)

\* Room for the line, a separator and the terminator.
Fits(l) == pos + l.len + 2 < BufSz

Stored(l) ==
    IF Fits(l)
    THEN /\ resp' = Append(resp, l)
         /\ pos' = pos + l.len + (IF pos > 0 THEN 1 ELSE 0)
    ELSE UNCHANGED <<resp, pos>>

Finish(status) == step' = "done" /\ st' = status

\* A blank line is the separator of a listing, or an empty line of a text.
Receive(l) ==
    /\ step = "receive" /\ lines < MaxLines
    /\ lines' = lines + 1
    /\ IF l.kind = "OK" THEN step' = "parse" /\ UNCHANGED <<resp, pos>>
       ELSE /\ UNCHANGED step
            /\ IF l.len = 0 THEN UNCHANGED <<resp, pos>> ELSE Stored(l)
    /\ UNCHANGED <<mailbox, at, msgs, st>>

NextLine == todo # <<>> /\ Receive(Head(todo)) /\ todo' = Tail(todo) /\ UNCHANGED stray

\* A line with no registered handler comes between two lines of the listing.
Stray ==
    /\ stray < MaxStray /\ stray' = stray + 1
    /\ Receive(StrayLine)
    /\ UNCHANGED todo

ReceiveFails ==
    /\ step = "receive"
    /\ \/ lines < MaxLines /\ \E status \in {"TIMEOUT", "IO", "CMS"} : Finish(status)
       \/ lines = MaxLines /\ Finish("OVERFLOW")
    /\ UNCHANGED <<mailbox, reception, at, msgs>>

-----------------------------------------------------------------------------
(* The parser, one turn of its loop at a time *)

Result(l, text) == [msg |-> l.msg, text |-> text]

\* Whatever follows a header is its text.
PairHeader ==
    /\ resp[at].kind = "header" /\ at < Len(resp)
    /\ msgs' = Append(msgs, Result(resp[at], resp[at + 1]))
    /\ at' = at + 2 /\ UNCHANGED <<step, st>>

\* A header at the end of the response is left out.
LastHeader ==
    /\ resp[at].kind = "header" /\ at = Len(resp)
    /\ Finish("OK") /\ UNCHANGED <<at, msgs>>

\* Mutants of SkipLine: a further line replaces the text of its message; two
\* lines are passed over.
SkipLineReplaces ==
    /\ resp[at].kind # "header"
    /\ msgs' = IF msgs = <<>> THEN msgs
               ELSE [msgs EXCEPT ![Len(msgs)].text = resp[at]]
    /\ at' = at + 1 /\ UNCHANGED <<step, st>>
SkipLineTwo ==
    /\ resp[at].kind # "header"
    /\ at' = IF at = Len(resp) THEN at + 1 ELSE at + 2
    /\ UNCHANGED <<msgs, step, st>>

\* Further lines of a text, and anything else, are passed over.
SkipLine ==
    /\ resp[at].kind # "header"
    /\ at' = at + 1 /\ UNCHANGED <<msgs, step, st>>

Parse ==
    /\ step = "parse"
    /\ IF at <= Len(resp) /\ Len(msgs) < MaxMsgs
       THEN PairHeader \/ LastHeader \/ SkipLine
       ELSE Finish("OK") /\ UNCHANGED <<at, msgs>>
    /\ UNCHANGED <<mailbox, reception>>

-----------------------------------------------------------------------------

Init ==
    /\ mailbox \in [1..Messages -> Texts]
    /\ todo = Sent
    /\ resp = <<>> /\ pos = 0 /\ lines = 0 /\ stray = 0
    /\ step = "receive" /\ at = 1 /\ msgs = <<>> /\ st = "none"

Next == NextLine \/ Stray \/ ReceiveFails \/ Parse

Spec == Init /\ [][Next]_vars

-----------------------------------------------------------------------------
(* Properties *)

Listed == step = "done" /\ st = "OK"

InResponse(l) == \E i \in DOMAIN resp : resp[i] = l

\* Each has a first line of text that is not empty.
HasText(m) == mailbox[m] # <<>> /\ mailbox[m][1] > 0

\* Of the listing only blank lines were left out.
Whole == \A i \in 1..(Len(Sent) - 1) : Sent[i].len > 0 => InResponse(Sent[i])

\* A listing that fits and is not disturbed is returned exactly, as far as the
\* caller's array goes, if no text begins with an empty line.
ExactWhenItFits ==
    (Listed /\ stray = 0 /\ Whole /\ \A m \in 1..Messages : HasText(m)) =>
        msgs = [m \in 1..(IF Messages < MaxMsgs THEN Messages ELSE MaxMsgs) |->
                    Result(Header(m), Body(m, 1))]

\* The messages a caller gets are messages of the mailbox in their order, none
\* of them twice, whatever was dropped or came in between; and one that was
\* stored whole is never given another text because some other did not fit.
StoredWholeIsOwn ==
    /\ \A i, j \in DOMAIN msgs : i < j => msgs[i].msg < msgs[j].msg
    /\ (Listed /\ stray = 0) =>
          \A i \in DOMAIN msgs :
              (HasText(msgs[i].msg) /\ InResponse(Body(msgs[i].msg, 1)))
                  => msgs[i].text = Body(msgs[i].msg, 1)
=============================================================================
