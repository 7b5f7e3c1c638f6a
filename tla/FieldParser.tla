----------------------------- MODULE FieldParser -----------------------------
(***************************************************************************)
(* The two field readers of the library, character by character:           *)
(* ec200_at_parse_int_field of src/src/ec200_at.c, which keeps track of    *)
(* quotes, and copy_field of src/src/ec200_power.c, which does not.  Both  *)
(* start behind the colon of a response line and count commas.             *)
(*                                                                         *)
(* A step is one turn of one of their loops.  Integers are bounded by      *)
(* MaxInt, which stands for INT_MAX: what atoi gives beyond it is not      *)
(* defined, and here it is any integer of the type.                        *)
(***************************************************************************)
EXTENDS Integers, Sequences, FiniteSets, FiniteSetsExt

CONSTANTS
    Symbols,    \* the characters of a line
    MaxLen,     \* bound: characters of a line
    MaxIndex,   \* bound: the field asked for
    OutSz,      \* out_sz of copy_field
    MaxInt      \* INT_MAX

Digit == {"1", "2"}
Character == {" ", ",", "q", "-", "x"} \cup Digit   \* "q" is the quote

\* What the constants must satisfy; Replies assumes it.
FieldAssumption ==
    /\ Symbols \subseteq Character /\ MaxLen \in Nat /\ MaxIndex \in Nat
    /\ OutSz \in Nat \ {0} /\ MaxInt \in Nat

VARIABLES
    op,         \* the reader: "int" or "copy"
    text,       \* the line behind its colon
    index,      \* the field asked for
    phase,      \* the loop: "lead", "scan", "skip", "first", "digits", "copy", "done"
    p,          \* the next character
    field,      \* commas passed
    quoted,     \* inside quotes
    neg, value, \* atoi: sign, and the number so far
    out,        \* copy_field: the characters copied
    fieldSt     \* the status

line == <<op, text, index>>
number == <<neg, value>>
vars == <<line, phase, p, field, quoted, number, out, fieldSt>>

-----------------------------------------------------------------------------

AtEnd == p > Len(text)
Ch == IF AtEnd THEN "end" ELSE text[p]
DigitOf(ch) == IF ch = "1" THEN 1 ELSE 2

Goes(to) == phase' = to /\ UNCHANGED <<p, field, quoted, number, out, fieldSt>>
Ends(status) ==
    /\ phase' = "done" /\ fieldSt' = status
    /\ UNCHANGED <<p, field, quoted, number, out>>
Passes == p' = p + 1 /\ UNCHANGED <<phase, number, out, fieldSt>>

\* Spaces before the first field, of ec200_at_parse_int_field only.
Lead ==
    /\ phase = "lead"
    /\ \/ Ch = " " /\ Passes /\ UNCHANGED <<field, quoted>>
       \/ Ch # " " /\ Goes("scan")

\* Mutant of Quotes: a comma inside quotes ends a field.
QuotesNothing == op = "neither"

\* Only the integer reader heeds quotes.
Quotes == op = "int"

Scan ==
    /\ phase = "scan"
    /\ \/ field = index /\ Goes("skip")
       \/ field < index /\ AtEnd /\ Ends(IF op = "int" THEN "PARSE" ELSE "OK")
       \/ /\ field < index /\ ~AtEnd /\ Passes
          /\ quoted' = IF Quotes /\ Ch = "q" THEN ~quoted ELSE quoted
          /\ field' = IF Ch = "," /\ ~quoted THEN field + 1 ELSE field

Skip ==
    /\ phase = "skip"
    /\ \/ Ch = " " /\ Passes /\ UNCHANGED <<field, quoted>>
       \/ Ch # " " /\ Goes("first")

\* The character a field begins with: a sign or a digit, or an optional quote.
First ==
    /\ phase = "first"
    /\ \/ op = "int" /\ Ch \notin {"-"} \cup Digit /\ Ends("PARSE")
       \/ /\ op = "int" /\ Ch \in {"-"} \cup Digit
          /\ phase' = "digits" /\ neg' = (Ch = "-")
          /\ p' = IF Ch = "-" THEN p + 1 ELSE p
          /\ UNCHANGED <<field, quoted, value, out, fieldSt>>
       \/ /\ op = "copy" /\ phase' = "copy"
          /\ p' = IF Ch = "q" THEN p + 1 ELSE p
          /\ UNCHANGED <<field, quoted, number, out, fieldSt>>

\* atoi.  A sign without a digit is zero.
Digits ==
    /\ phase = "digits"
    /\ \/ Ch \notin Digit /\ Ends("OK")
       \/ /\ Ch \in Digit
          /\ LET n == 10 * value + DigitOf(Ch)
             IN  IF n <= MaxInt THEN value' = n ELSE value' \in 0..MaxInt
          /\ p' = p + 1 /\ UNCHANGED <<phase, field, quoted, neg, out, fieldSt>>

\* The terminator has its place.
Room == Len(out) + 1 < OutSz

Copy ==
    /\ phase = "copy"
    /\ IF ~AtEnd /\ Ch \notin {"q", ","} /\ Room
       THEN /\ out' = Append(out, Ch) /\ p' = p + 1
            /\ UNCHANGED <<phase, field, quoted, number, fieldSt>>
       ELSE Ends("OK")

Init ==
    /\ op \in {"int", "copy"} /\ index \in 0..MaxIndex
    /\ \E n \in 0..MaxLen : text \in [1..n -> Symbols]
    /\ phase = IF op = "int" THEN "lead" ELSE "scan"
    /\ p = 1 /\ field = 0 /\ quoted = FALSE /\ neg = FALSE /\ value = 0
    /\ out = <<>> /\ fieldSt = "none"

Next == (Lead \/ Scan \/ Skip \/ First \/ Digits \/ Copy) /\ UNCHANGED line

Spec == Init /\ [][Next]_vars

-----------------------------------------------------------------------------
(* Properties *)

\* The reference: a line is cut at the commas that stand outside quotes, where
\* quotes count, and the spaces before a field are dropped.
QuotesBefore(k) == {j \in 1..(k - 1) : text[j] = "q"}
Commas == {k \in DOMAIN text :
              text[k] = "," /\ (op = "int" => Cardinality(QuotesBefore(k)) % 2 = 0)}
Starts == {1} \cup {k + 1 : k \in Commas}
Rank(k) == Cardinality({j \in Starts : j < k})

\* The line from field `index' on, without the spaces before it; the field.
Rest == LET k == CHOOSE s \in Starts : Rank(s) = index
            words == {j \in k..Len(text) : text[j] # " "}
        IN  IF words = {} THEN <<>> ELSE SubSeq(text, Min(words), Len(text))

\* The longest beginning of s that consists of characters of C.
Run(s, C) == LET stops == {j \in DOMAIN s : s[j] \notin C}
             IN  IF stops = {} THEN s ELSE SubSeq(s, 1, Min(stops) - 1)

\* The number a string of digits means.
Number(s) ==
    LET upTo[n \in 0..Len(s)] ==
            IF n = 0 THEN 0 ELSE 10 * upTo[n - 1] + DigitOf(s[n])
    IN  upTo[Len(s)]

Present == Cardinality(Starts) > index
IsNumber == Present /\ Rest # <<>> /\ Rest[1] \in {"-"} \cup Digit

\* An integer field is read if and only if it begins with a sign or a digit, and
\* its value is that of its digits, if an int can hold it; a copied field is the
\* text up to its end or its closing quote, as far as the buffer goes, and empty
\* if the line has no such field.
FieldIsReadRight ==
    phase = "done" =>
        IF op = "int"
        THEN /\ fieldSt = (IF IsNumber THEN "OK" ELSE "PARSE")
             /\ IsNumber =>
                    LET digits == Run(IF Rest[1] = "-" THEN Tail(Rest) ELSE Rest, Digit)
                    IN  /\ Number(digits) <= MaxInt => value = Number(digits)
                        /\ neg = (Rest[1] = "-")
        ELSE /\ fieldSt = "OK" /\ Len(out) < OutSz
             /\ LET whole == IF ~Present \/ Rest = <<>> THEN <<>>
                             ELSE Run(IF Rest[1] = "q" THEN Tail(Rest) ELSE Rest,
                                      Character \ {"q", ","})
                IN  out = SubSeq(whole, 1, Min({Len(whole), OutSz - 1}))
=============================================================================
