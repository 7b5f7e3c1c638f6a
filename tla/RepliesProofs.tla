---------------------------- MODULE RepliesProofs ---------------------------
(***************************************************************************)
(* The replies whose layout is not told beforehand are taken apart right.  *)
(*                                                                         *)
(* ec200_http_read stops at the first trailer, and hands out what stood    *)
(* before it, for every body, every buffer and every bound on what is      *)
(* discarded.  Its matcher keeps one number.  It is enough because of what *)
(* the trailer is: the only proper prefix of it that also ends another     *)
(* prefix is its CR, and what would continue that one continues the longer *)
(* one, too.                                                               *)
(*                                                                         *)
(* ec200_sms_list pairs headers with texts by their position, for every    *)
(* mailbox, every length of a text and every buffer.  It is enough because *)
(* the lines stored are in the order of their messages, whichever of them  *)
(* were left out.                                                          *)
(*                                                                         *)
(* ec200_at_parse_int_field and copy_field read the field they were asked  *)
(* for, for every line.  A reader never goes back: it has passed as many   *)
(* commas outside quotes as fields begin before it, it is inside quotes    *)
(* when an odd number of them is behind it, and what it has read so far is *)
(* what stands between the beginning of the field and where it is.         *)
(***************************************************************************)
EXTENDS Replies, TLAPS, SequenceTheorems, WellFoundedInduction, FiniteSetTheorems

\* The last k bytes of s are the first k of the trailer.
EndsWith(s, k) ==
    k <= Len(s) /\ \A j \in 1..k : s[Len(s) - k + j] = H!Trailer[j]

\* n is the longest part of the trailer that s ends with.
Longest(s, n) ==
    EndsWith(s, n) /\ \A k \in 0..5 : EndsWith(s, k) => k <= n

\* b is what a buffer of BufSz bytes holds of the first t bytes of s, d is how
\* many of them it does not hold.
Stored(s, t, b, d) ==
    /\ t \in 0..Len(s)
    /\ b \in Seq(H!Byte) /\ Len(b) = IF t < BufSz THEN t ELSE BufSz
    /\ \A i \in 1..Len(b) : b[i] = s[i]
    /\ d = t - Len(b)

Types ==
    /\ wire \in Seq(H!Byte) /\ seen \in Seq(H!Byte) /\ buf \in Seq(H!Byte)
    /\ step \in {"body", "result", "done"}

\* While the body is read.
InBody ==
    /\ found = FALSE /\ st = "none" /\ count = 0
    /\ match \in 0..5 /\ Longest(seen, match) /\ H!Ends(seen) = {}
    /\ Stored(seen, Len(seen) - match, buf, discarded)
    /\ overflow <=> Len(seen) - match > BufSz
    /\ discarded <= MaxDiscard

\* After it.
AfterBody ==
    /\ H!StopsAtTrailer /\ H!BodyExact /\ H!DiscardBounded
    /\ (~found /\ st = "OVERFLOW") => count = BufSz

BodyInv == Types /\ (step = "body" => InBody) /\ (step # "body" => AfterBody)

-----------------------------------------------------------------------------
(* Sequences *)

LEMMA TrailerFacts ==
    /\ H!Trailer \in Seq(H!Byte) /\ Len(H!Trailer) = 6
    /\ H!Trailer[1] = "CR" /\ H!Trailer[2] = "LF" /\ H!Trailer[3] = "O"
    /\ H!Trailer[4] = "K" /\ H!Trailer[5] = "CR" /\ H!Trailer[6] = "LF"
BY DEF H!Trailer, H!Byte

\* What a sequence with one more byte is.
LEMMA AppendFacts ==
    ASSUME NEW s \in Seq(H!Byte), NEW c \in H!Byte
    PROVE  /\ Append(s, c) \in Seq(H!Byte) /\ Len(s) \in Nat
           /\ Len(Append(s, c)) = Len(s) + 1
           /\ \A i \in 1..Len(s) : Append(s, c)[i] = s[i]
           /\ Append(s, c)[Len(s) + 1] = c
OBVIOUS

\* A longer end of s and c is an end of s that c continues.
LEMMA EndsWithAppend ==
    ASSUME NEW s \in Seq(H!Byte), NEW c \in H!Byte, NEW k \in 0..5
    PROVE  EndsWith(Append(s, c), k + 1)
              <=> EndsWith(s, k) /\ c = H!Trailer[k + 1]
<1> DEFINE t == Append(s, c)
<1>1. /\ Len(s) \in Nat /\ Len(t) = Len(s) + 1
      /\ \A i \in 1..Len(s) : t[i] = s[i]
      /\ t[Len(s) + 1] = c
  BY AppendFacts
<1> HIDE DEF t
<1>2. ASSUME EndsWith(t, k + 1) PROVE EndsWith(s, k) /\ c = H!Trailer[k + 1]
  <2>1. k <= Len(s) /\ \A j \in 1..(k + 1) : t[Len(s) - k + j] = H!Trailer[j]
    <3>1. /\ k + 1 <= Len(t)
          /\ \A j \in 1..(k + 1) : t[Len(t) - (k + 1) + j] = H!Trailer[j]
      BY <1>2 DEF EndsWith
    <3>2. \A j \in 1..(k + 1) : Len(t) - (k + 1) + j = Len(s) - k + j
      BY <1>1
    <3>3. k <= Len(s)
      BY <1>1, <3>1
    <3>4. ASSUME NEW j \in 1..(k + 1) PROVE t[Len(s) - k + j] = H!Trailer[j]
      <4>1. t[Len(t) - (k + 1) + j] = H!Trailer[j]
        BY <3>1
      <4>2. Len(t) - (k + 1) + j = Len(s) - k + j
        BY <3>2
      <4> QED
        BY <4>1, <4>2
    <3> QED
      BY <3>3, <3>4
  <2>2. t[Len(s) - k + (k + 1)] = H!Trailer[k + 1]
    BY <2>1
  <2>3. Len(s) - k + (k + 1) = Len(s) + 1
    BY <1>1
  <2>4. ASSUME NEW j \in 1..k PROVE s[Len(s) - k + j] = H!Trailer[j]
    <3>1. Len(s) - k + j \in 1..Len(s) /\ j \in 1..(k + 1)
      BY <1>1, <2>1
    <3> QED
      BY <1>1, <2>1, <3>1
  <2> QED
    BY <1>1, <2>1, <2>2, <2>3, <2>4 DEF EndsWith
<1>3. ASSUME EndsWith(s, k), c = H!Trailer[k + 1] PROVE EndsWith(t, k + 1)
  <2>1. k <= Len(s) /\ \A j \in 1..k : s[Len(s) - k + j] = H!Trailer[j]
    BY <1>3 DEF EndsWith
  <2>2. ASSUME NEW j \in 1..(k + 1)
        PROVE  t[Len(t) - (k + 1) + j] = H!Trailer[j]
    <3>1. Len(t) - (k + 1) + j = Len(s) - k + j
      BY <1>1
    <3>2. CASE j = k + 1
      <4>1. Len(s) - k + j = Len(s) + 1
        BY <1>1, <3>2
      <4> QED
        BY <1>1, <1>3, <3>1, <3>2, <4>1
    <3>3. CASE j # k + 1
      <4>1. j \in 1..k /\ Len(s) - k + j \in 1..Len(s)
        BY <1>1, <2>1, <3>3
      <4> QED
        BY <1>1, <2>1, <3>1, <4>1
    <3> QED
      BY <3>2, <3>3
  <2> QED
    BY <1>1, <2>1, <2>2 DEF EndsWith
<1> QED
  BY <1>2, <1>3 DEF t

\* Of two different ends of one sequence the shorter one is empty or the CR.
LEMMA OnlyBorder ==
    ASSUME NEW s \in Seq(H!Byte), NEW m \in 0..5, NEW k \in 0..5, k < m,
           EndsWith(s, m), EndsWith(s, k)
    PROVE  k = 0 \/ (k = 1 /\ m = 5)
<1>1. Len(s) \in Nat /\ m <= Len(s)
  BY LenProperties DEF EndsWith
<1>2. \A j \in 1..k : H!Trailer[m - k + j] = H!Trailer[j]
  <2> TAKE j \in 1..k
  <2>1. m - k + j \in 1..m /\ Len(s) - k + j = Len(s) - m + (m - k + j)
    BY <1>1
  <2>2. s[Len(s) - m + (m - k + j)] = H!Trailer[m - k + j]
    BY <2>1 DEF EndsWith
  <2> QED
    BY <2>1, <2>2 DEF EndsWith
<1>3. k >= 1 => H!Trailer[m - k + 1] = "CR"
  BY <1>2, TrailerFacts
<1>4. k >= 1 => m - k + 1 \in 2..5
  OBVIOUS
<1>5. k >= 1 => m - k + 1 = 5
  BY <1>3, <1>4, TrailerFacts
<1> QED
  BY <1>5

\* A byte that goes on with the trailer.
LEMMA LongestMatched ==
    ASSUME NEW s \in Seq(H!Byte), NEW c \in H!Byte, NEW m \in 0..4, Longest(s, m),
           c = H!Trailer[m + 1]
    PROVE  Longest(Append(s, c), m + 1)
<1>1. EndsWith(Append(s, c), m + 1)
  BY EndsWithAppend DEF Longest
<1>2. ASSUME NEW k \in 0..5, EndsWith(Append(s, c), k) PROVE k <= m + 1
  <2>1. CASE k = 0
    BY <2>1
  <2>2. CASE k # 0
    <3>1. k - 1 \in 0..5 /\ k = (k - 1) + 1
      BY <2>2
    <3>2. EndsWith(s, k - 1)
      BY <1>2, <3>1, EndsWithAppend
    <3> QED
      BY <3>1, <3>2 DEF Longest
  <2> QED
    BY <2>1, <2>2
<1> QED
  BY <1>1, <1>2 DEF Longest

\* A byte that breaks it off starts another one, or none.
LEMMA LongestBroken ==
    ASSUME NEW s \in Seq(H!Byte), NEW c \in H!Byte, NEW m \in 0..5, Longest(s, m),
           c # H!Trailer[m + 1]
    PROVE  /\ Longest(Append(s, c), IF c = H!Trailer[1] THEN 1 ELSE 0)
           /\ ~EndsWith(Append(s, c), 6)
<1>1. ASSUME NEW k \in 0..5, EndsWith(Append(s, c), k + 1)
      PROVE  k = 0 /\ c = H!Trailer[1]
  <2>1. EndsWith(s, k) /\ c = H!Trailer[k + 1]
    BY <1>1, EndsWithAppend
  <2>2. k <= m /\ EndsWith(s, m)
    BY <2>1 DEF Longest
  <2>3. k # m
    BY <2>1
  <2>4. k = 0 \/ (k = 1 /\ m = 5)
    BY <2>1, <2>2, <2>3, OnlyBorder
  <2>5. ~(k = 1 /\ m = 5)
    BY <2>1, TrailerFacts
  <2> QED
    BY <2>1, <2>4, <2>5
<1>2. ~EndsWith(Append(s, c), 6)
  <2>1. 5 + 1 = 6 /\ 5 \in 0..5 /\ 5 # 0
    OBVIOUS
  <2> QED
    BY <1>1, <2>1
<1>3. Len(Append(s, c)) \in Nat
  BY AppendFacts
<1>4. EndsWith(Append(s, c), 0)
  BY <1>3 DEF EndsWith
<1>5. EndsWith(s, 0)
  <2>1. Len(s) \in Nat
    BY LenProperties
  <2> QED
    BY <2>1 DEF EndsWith
<1>6. c = H!Trailer[1] => EndsWith(Append(s, c), 1)
  <2>1. 0 \in 0..5 /\ 0 + 1 = 1
    OBVIOUS
  <2> QED
    BY <1>5, <2>1, EndsWithAppend
<1>7. ASSUME NEW k \in 0..5, EndsWith(Append(s, c), k)
      PROVE  k <= (IF c = H!Trailer[1] THEN 1 ELSE 0)
  <2>1. CASE k = 0
    BY <2>1
  <2>2. CASE k # 0
    <3>1. k - 1 \in 0..5 /\ k = (k - 1) + 1
      BY <2>2
    <3>2. k - 1 = 0 /\ c = H!Trailer[1]
      BY <1>1, <1>7, <3>1
    <3> QED
      BY <3>1, <3>2
  <2> QED
    BY <2>1, <2>2
<1> QED
  BY <1>2, <1>4, <1>6, <1>7 DEF Longest

-----------------------------------------------------------------------------
(* The reference *)

LEMMA TrailerAtIs ==
    ASSUME NEW s \in Seq(H!Byte), NEW i \in 1..(Len(s) - 5)
    PROVE  H!TrailerAt(s, i) <=> \A j \in 1..6 : s[i + j - 1] = H!Trailer[j]
<1>1. Len(s) \in Nat
  BY LenProperties
<1>2. i + Len(H!Trailer) - 1 = i + 5 /\ i \in Int /\ i + 5 \in Int
  BY <1>1, TrailerFacts
<1>3. \A n \in i..(i + 5) : s[n] \in H!Byte
  BY <1>1, ElementOfSeq
<1> DEFINE t == SubSeq(s, i, i + 5)
<1>4. /\ t \in Seq(H!Byte)
      /\ Len(t) = IF i <= i + 5 THEN (i + 5) - i + 1 ELSE 0
      /\ \A j \in 1..((i + 5) - i + 1) : t[j] = s[i + j - 1]
  BY <1>2, <1>3, SubSeqProperties
<1>5. Len(t) = 6 /\ \A j \in 1..6 : t[j] = s[i + j - 1]
  BY <1>2, <1>4
<1>6. H!TrailerAt(s, i) <=> t = H!Trailer
  BY <1>2 DEF H!TrailerAt
<1> HIDE DEF t
<1>7. t = H!Trailer <=> \A j \in 1..6 : t[j] = H!Trailer[j]
  BY <1>4, <1>5, SeqEqual, TrailerFacts
<1> QED
  BY <1>5, <1>6, <1>7

\* A trailer that one more byte completes is at the end.
LEMMA EndsAppend ==
    ASSUME NEW s \in Seq(H!Byte), NEW c \in H!Byte, H!Ends(s) = {}
    PROVE  /\ EndsWith(Append(s, c), 6) => H!Ends(Append(s, c)) = {Len(s) - 4}
           /\ ~EndsWith(Append(s, c), 6) => H!Ends(Append(s, c)) = {}
<1> DEFINE t == Append(s, c)
<1>1. /\ t \in Seq(H!Byte) /\ Len(s) \in Nat /\ Len(t) = Len(s) + 1
      /\ \A i \in 1..Len(s) : t[i] = s[i]
  BY AppendFacts
<1> HIDE DEF t
<1>2. /\ H!Ends(s) = {i \in 1..(Len(s) - 5) : H!TrailerAt(s, i)}
      /\ H!Ends(t) = {i \in 1..(Len(s) - 4) : H!TrailerAt(t, i)}
  <2>1. /\ Len(s) - Len(H!Trailer) + 1 = Len(s) - 5
        /\ Len(t) - Len(H!Trailer) + 1 = Len(s) - 4
    BY <1>1, TrailerFacts
  <2> QED
    BY <2>1 DEF H!Ends
<1>3. ASSUME NEW i \in 1..(Len(s) - 5) PROVE ~H!TrailerAt(t, i)
  <2>1. ~H!TrailerAt(s, i)
    BY <1>2
  <2>2. PICK j \in 1..6 : s[i + j - 1] # H!Trailer[j]
    BY <2>1, TrailerAtIs
  <2>3. i + j - 1 \in 1..Len(s) /\ i \in 1..(Len(t) - 5)
    BY <1>1
  <2>4. t[i + j - 1] # H!Trailer[j]
    BY <1>1, <2>2, <2>3
  <2> QED
    BY <1>1, <2>3, <2>4, TrailerAtIs
<1>4. H!Ends(t) \subseteq {Len(s) - 4}
  BY <1>1, <1>2, <1>3
<1>5. EndsWith(t, 6) <=> Len(s) - 4 \in H!Ends(t)
  <2>1. CASE Len(s) < 5
    <3>1. Len(s) - 4 \notin H!Ends(t) /\ ~(6 <= Len(t))
      BY <1>1, <1>2, <2>1
    <3> QED
      BY <3>1 DEF EndsWith
  <2>2. CASE ~(Len(s) < 5)
    <3>1. Len(s) - 4 \in 1..(Len(t) - 5) /\ Len(s) - 4 \in 1..(Len(s) - 4)
            /\ 6 <= Len(t)
      BY <1>1, <2>2
    <3>2. H!TrailerAt(t, Len(s) - 4)
            <=> \A j \in 1..6 : t[(Len(s) - 4) + j - 1] = H!Trailer[j]
      BY <1>1, <3>1, TrailerAtIs
    <3>3. \A j \in 1..6 : (Len(s) - 4) + j - 1 = Len(t) - 6 + j
      BY <1>1
    <3>4. H!TrailerAt(t, Len(s) - 4) <=> EndsWith(t, 6)
      BY <3>1, <3>2, <3>3 DEF EndsWith
    <3> QED
      BY <1>2, <3>1, <3>4
  <2> QED
    BY <2>1, <2>2
<1> QED
  BY <1>4, <1>5 DEF t

\* A sequence that grows by the first bytes of another one.
LEMMA GrowsBy ==
    ASSUME NEW s \in Seq(H!Byte), NEW r \in Seq(H!Byte), NEW f \in 0..Len(r)
    PROVE  /\ s \o SubSeq(r, 1, f) \in Seq(H!Byte)
           /\ Len(s \o SubSeq(r, 1, f)) = Len(s) + f
           /\ \A i \in 1..Len(s) : (s \o SubSeq(r, 1, f))[i] = s[i]
           /\ \A j \in 1..f : (s \o SubSeq(r, 1, f))[Len(s) + j] = r[j]
<1> DEFINE q == SubSeq(r, 1, f)
<1>1. Len(s) \in Nat /\ Len(r) \in Nat
  BY LenProperties
<1>2. \A i \in 1..f : r[i] \in H!Byte
  BY <1>1, ElementOfSeq
<1>3. q \in Seq(H!Byte) /\ Len(q) = f /\ \A i \in 1..f : q[i] = r[i]
  BY <1>1, <1>2, SubSeqProperties
<1> HIDE DEF q
<1>4. /\ s \o q \in Seq(H!Byte) /\ Len(s \o q) = Len(s) + Len(q)
      /\ \A i \in 1..(Len(s) + Len(q)) :
            (s \o q)[i] = IF i <= Len(s) THEN s[i] ELSE q[i - Len(s)]
  BY <1>3, ConcatProperties
<1>5. \A i \in 1..Len(s) : (s \o q)[i] = s[i]
  BY <1>1, <1>3, <1>4
<1>6. ASSUME NEW j \in 1..f PROVE (s \o q)[Len(s) + j] = r[j]
  <2>1. /\ Len(s) + j \in 1..(Len(s) + Len(q))
        /\ ~(Len(s) + j <= Len(s)) /\ (Len(s) + j) - Len(s) = j
    BY <1>1, <1>3
  <2> QED
    BY <1>3, <1>4, <2>1
<1> QED
  BY <1>3, <1>4, <1>5, <1>6 DEF q

\* What is stored after r more bytes, if they are the next ones of the stream.
LEMMA StoreKeeps ==
    ASSUME H!HttpAssumption, Types,
           NEW c \in H!Byte, NEW t \in Nat, NEW r \in Seq(H!Byte),
           Stored(seen, t, buf, discarded), overflow <=> t > BufSz,
           t + Len(r) <= Len(Append(seen, c)),
           \A j \in 1..Len(r) : Append(seen, c)[t + j] = r[j],
           H!Store(r)
    PROVE  /\ Stored(Append(seen, c), t + Len(r), buf', discarded')
           /\ overflow' <=> t + Len(r) > BufSz
<1> DEFINE s == Append(seen, c)
<1>1. /\ Len(seen) \in Nat /\ Len(s) = Len(seen) + 1
      /\ \A i \in 1..Len(seen) : s[i] = seen[i]
  BY AppendFacts DEF Types
<1> HIDE DEF s
<1> DEFINE n == Len(buf)
           f == H!Fits(r)
<1>2. /\ BufSz \in Nat /\ Len(r) \in Nat
      /\ n = IF t < BufSz THEN t ELSE BufSz
      /\ f = IF Len(r) < BufSz - n THEN Len(r) ELSE BufSz - n
  BY LenProperties DEF H!HttpAssumption, Types, Stored, H!Fits
<1>3. /\ buf \in Seq(H!Byte) /\ t \in 0..Len(seen) /\ discarded = t - n
      /\ \A i \in 1..n : buf[i] = seen[i]
  BY DEF Stored
<1>4. /\ buf' = buf \o SubSeq(r, 1, f)
      /\ discarded' = discarded + Len(r) - f
      /\ overflow' = (overflow \/ f < Len(r))
  BY DEF H!Store
<1>5. /\ n \in Nat /\ f \in 0..Len(r) /\ n <= t /\ (f > 0 => n = t)
      /\ n + f = IF t + Len(r) < BufSz THEN t + Len(r) ELSE BufSz
      /\ (t > BufSz \/ f < Len(r)) <=> t + Len(r) > BufSz
  <2> HIDE DEF n, f
  <2>1. /\ BufSz \in Nat /\ Len(r) \in Nat /\ t \in Nat
        /\ n = IF t < BufSz THEN t ELSE BufSz
        /\ f = IF Len(r) < BufSz - n THEN Len(r) ELSE BufSz - n
    BY <1>2
  <2>2. n \in Nat /\ n <= t
    BY <2>1
  <2>3. f \in 0..Len(r) /\ (f > 0 => n = t)
    BY <2>1, <2>2
  <2>4. n + f = IF t + Len(r) < BufSz THEN t + Len(r) ELSE BufSz
    <3>1. CASE t + Len(r) < BufSz
      <4>1. n = t /\ f = Len(r)
        BY <2>1, <3>1
      <4> QED
        BY <3>1, <4>1
    <3>2. CASE ~(t + Len(r) < BufSz)
      <4>1. ~(Len(r) < BufSz - n)
        BY <2>1, <2>2, <3>2
      <4>2. f = BufSz - n
        BY <2>1, <4>1
      <4>3. BufSz \in Nat /\ n \in Nat
        BY <2>1, <2>2
      <4>4. n + f = BufSz
        BY ONLY <4>2, <4>3
      <4> QED
        BY <3>2, <4>4
    <3> QED
      BY <3>1, <3>2
  <2>5. (t > BufSz \/ f < Len(r)) <=> t + Len(r) > BufSz
    BY <2>1, <2>2, <2>3
  <2> QED
    BY <2>2, <2>3, <2>4, <2>5
<1> HIDE DEF f
<1>7. /\ buf' \in Seq(H!Byte) /\ Len(buf') = n + f
      /\ \A i \in 1..n : buf'[i] = buf[i]
      /\ \A j \in 1..f : buf'[n + j] = r[j]
  BY <1>3, <1>4, <1>5, GrowsBy
<1>8. Len(buf') = IF t + Len(r) < BufSz THEN t + Len(r) ELSE BufSz
  BY <1>5, <1>7
<1> HIDE DEF n
<1>9. ASSUME NEW i \in 1..Len(buf') PROVE buf'[i] = s[i]
  <2>1. CASE i <= n
    <3>1. i \in 1..n /\ i \in 1..Len(seen)
      BY <1>1, <1>3, <1>5, <1>7, <2>1
    <3> QED
      BY <1>1, <1>3, <1>7, <3>1
  <2>2. CASE i > n
    <3>1. i - n \in 1..f /\ n + (i - n) = i
      BY <1>5, <1>7, <2>2
    <3>2. n = t /\ i - n \in 1..Len(r)
      BY <1>2, <1>5, <3>1
    <3>3. Append(seen, c)[t + (i - n)] = r[i - n]
      BY <3>2
    <3> QED
      BY <1>7, <3>1, <3>2, <3>3 DEF s
  <2> QED
    BY <1>5, <1>7, <2>1, <2>2
<1>10. discarded' = (t + Len(r)) - Len(buf')
  <2>1. discarded' = (t - n) + Len(r) - f
    BY <1>3, <1>4
  <2> QED
    BY <1>2, <1>5, <1>7, <2>1
<1>11. overflow' <=> t + Len(r) > BufSz
  BY <1>4, <1>5
<1>12. t + Len(r) \in 0..Len(s)
  BY <1>2 DEF s
<1>13. Stored(s, t + Len(r), buf', discarded')
  BY <1>7, <1>8, <1>9, <1>10, <1>12 DEF Stored
<1> QED
  BY <1>11, <1>13 DEF s

\* What is stored is a prefix of the stream, and of the bytes it stands for.
LEMMA StoredIsCut ==
    ASSUME H!HttpAssumption, NEW s \in Seq(H!Byte), NEW t, NEW b, NEW d,
           Stored(s, t, b, d)
    PROVE  /\ b = H!Cut(s, Len(b))
           /\ b = H!Cut(SubSeq(s, 1, t), BufSz) /\ Len(SubSeq(s, 1, t)) = t
<1>1. /\ t \in 0..Len(s) /\ b \in Seq(H!Byte) /\ Len(s) \in Nat /\ BufSz \in Nat
      /\ \A i \in 1..Len(b) : b[i] = s[i]
  BY LenProperties DEF Stored, H!HttpAssumption
<1>2. Len(b) = IF t < BufSz THEN t ELSE BufSz
  BY DEF Stored
<1>3. Len(b) \in 0..t /\ Len(b) \in 0..Len(s)
  BY <1>1, <1>2
<1> DEFINE w == SubSeq(s, 1, t)
<1>4. w \in Seq(H!Byte) /\ Len(w) = t /\ \A i \in 1..t : w[i] = s[i]
  <2>1. \A i \in 1..t : s[i] \in H!Byte
    BY <1>1, ElementOfSeq
  <2> QED
    BY <1>1, <2>1, SubSeqProperties
<1> DEFINE Prefix(z) == SubSeq(z, 1, Len(b))
<1>5. ASSUME NEW z \in Seq(H!Byte), Len(b) \in 0..Len(z),
             \A i \in 1..Len(b) : z[i] = b[i]
      PROVE  Prefix(z) = b
  <2>1. \A i \in 1..Len(b) : z[i] \in H!Byte
    BY <1>1, <1>5, ElementOfSeq
  <2>2. /\ Prefix(z) \in Seq(H!Byte) /\ Len(Prefix(z)) = Len(b)
        /\ \A i \in 1..Len(b) : Prefix(z)[i] = z[i]
    BY <1>3, <2>1, SubSeqProperties
  <2> QED
    BY <1>1, <1>5, <2>2, SeqEqual
<1>6. Prefix(s) = b
  BY <1>1, <1>3, <1>5
<1>7. Prefix(w) = b
  <2> HIDE DEF w
  <2>1. \A i \in 1..Len(b) : w[i] = b[i]
    BY <1>1, <1>3, <1>4
  <2> QED
    BY <1>3, <1>4, <1>5, <2>1
<1>8. H!Cut(s, Len(b)) = Prefix(s)
  <2>1. (IF Len(s) < Len(b) THEN Len(s) ELSE Len(b)) = Len(b)
    BY <1>1, <1>3
  <2> QED
    BY <2>1 DEF H!Cut
<1>9. H!Cut(w, BufSz) = Prefix(w)
  <2> HIDE DEF w
  <2>1. (IF Len(w) < BufSz THEN Len(w) ELSE BufSz) = Len(b)
    BY <1>2, <1>4
  <2> QED
    BY <2>1 DEF H!Cut
<1> QED
  BY <1>4, <1>6, <1>7, <1>8, <1>9

-----------------------------------------------------------------------------
(* The steps of the reader *)

LEMMA InBodyFacts ==
    ASSUME H!HttpAssumption, Types, InBody
    PROVE  /\ BufSz \in Nat /\ MaxDiscard \in Nat /\ Len(seen) \in Nat
           /\ Len(buf) \in 0..BufSz /\ match \in 0..5 /\ match <= Len(seen)
           /\ Len(seen) - match = Len(buf) + discarded
           /\ (discarded > 0 => Len(buf) = BufSz)
           /\ discarded \in Nat
           /\ Len(seen) <= BufSz + MaxDiscard + match
<1>1. /\ BufSz \in Nat /\ MaxDiscard \in Nat /\ Len(seen) \in Nat
      /\ Len(buf) \in Nat /\ match \in 0..5 /\ discarded <= MaxDiscard
  BY LenProperties DEF H!HttpAssumption, Types, InBody
<1> DEFINE t == Len(seen) - match
<1>2. /\ t \in 0..Len(seen) /\ discarded = t - Len(buf)
      /\ Len(buf) = IF t < BufSz THEN t ELSE BufSz
  BY DEF InBody, Stored
<1>3. t = Len(buf) + discarded /\ Len(buf) \in 0..BufSz /\ discarded \in Nat
  <2> HIDE DEF t
  <2> QED
    BY <1>1, <1>2
<1>4. discarded > 0 => Len(buf) = BufSz
  <2> HIDE DEF t
  <2> QED
    BY <1>1, <1>2
<1>5. match <= Len(seen)
  BY <1>1, <1>2
<1>6. Len(seen) <= BufSz + MaxDiscard + match
  <2>1. Len(seen) = t + match
    BY <1>1
  <2> HIDE DEF t
  <2>2. discarded <= MaxDiscard /\ Len(buf) <= BufSz /\ Len(buf) \in Nat
    BY <1>1, <1>3
  <2> QED
    BY <1>1, <1>3, <2>1, <2>2
<1> QED
  BY <1>1, <1>3, <1>4, <1>5, <1>6

\* While the body is read, the properties hold.
LEMMA InBodyProperties ==
    ASSUME H!HttpAssumption, Types, step = "body", InBody
    PROVE  H!StopsAtTrailer /\ H!BodyExact /\ H!DiscardBounded
<1>1. H!StopsAtTrailer
  BY DEF InBody, H!StopsAtTrailer
<1>2. buf = H!Cut(seen, Len(buf))
  BY StoredIsCut DEF InBody, Types
<1>3. H!BodyExact
  BY <1>2, InBodyFacts DEF InBody, H!BodyExact
<1>4. H!DiscardBounded
  BY InBodyFacts, TrailerFacts DEF H!DiscardBounded
<1> QED
  BY <1>1, <1>3, <1>4

\* The trailer is complete.
LEMMA TrailerSeen ==
    ASSUME H!HttpAssumption, Types, InBody, NEW c \in H!Byte,
           seen' = Append(seen, c), H!MatchByte(c), match = 5
    PROVE  AfterBody' /\ step' = "result" /\ buf' = buf
<1> DEFINE t == Len(seen) - match
<1>1. /\ seen' \in Seq(H!Byte) /\ Len(seen') = Len(seen) + 1 /\ Len(seen) \in Nat
      /\ \A i \in 1..Len(seen) : seen'[i] = seen[i]
  BY AppendFacts DEF Types
<1>2. /\ c = H!Trailer[5 + 1] /\ step' = "result" /\ count' = Len(buf)
      /\ found' = TRUE /\ buf' = buf /\ overflow' = overflow
      /\ st' = IF overflow THEN "OVERFLOW" ELSE "OK"
  BY TrailerFacts DEF H!MatchByte, H!Matches, H!BodyEnds
<1>3. EndsWith(seen', 6)
  <2>1. EndsWith(seen, 5) /\ seen \in Seq(H!Byte) /\ 5 + 1 = 6 /\ 5 \in 0..5
    BY DEF InBody, Longest, Types
  <2> QED
    BY <1>2, <2>1, EndsWithAppend
<1>4. H!Ends(seen') = {Len(seen) - 4}
  BY <1>3, EndsAppend DEF InBody, Types
<1>5. H!StopsAtTrailer'
  <2>1. Len(seen') - Len(H!Trailer) + 1 = Len(seen) - 4
    BY <1>1, TrailerFacts
  <2> QED
    BY <1>2, <1>4, <2>1 DEF H!StopsAtTrailer
<1>6. Stored(seen', t, buf, discarded)
  <2>1. Stored(seen, t, buf, discarded)
    BY DEF InBody
  <2> HIDE DEF t
  <2>2. \A i \in 1..Len(buf) : seen'[i] = seen[i]
    <3>1. Len(buf) \in Nat /\ Len(buf) <= Len(seen)
      BY InBodyFacts
    <3> QED
      BY <1>1, <3>1
  <2> QED
    BY <1>1, <2>1, <2>2 DEF Stored
<1> DEFINE whole == SubSeq(seen', 1, Len(seen') - Len(H!Trailer))
<1>7. Len(seen') - Len(H!Trailer) = t
  BY <1>1, TrailerFacts
<1>8. buf = H!Cut(whole, BufSz) /\ Len(whole) = t
  BY <1>1, <1>6, <1>7, StoredIsCut
<1>9. /\ st' = "OK" => t <= BufSz
      /\ st' = "OVERFLOW" => t > BufSz
  <2>1. overflow <=> t > BufSz
    BY DEF InBody
  <2>2. t \in Nat /\ BufSz \in Nat
    BY InBodyFacts
  <2> QED
    BY <1>2, <2>1, <2>2
<1>10. H!BodyExact'
  <2> HIDE DEF whole, t
  <2>1. buf' = H!Cut(whole, BufSz) /\ count' = Len(buf')
          /\ (st' = "OK" => Len(whole) <= BufSz)
          /\ (st' = "OVERFLOW" => Len(whole) > BufSz)
    BY <1>2, <1>8, <1>9
  <2> QED
    BY <1>2, <2>1 DEF H!BodyExact, whole
<1>11. H!DiscardBounded'
  BY <1>1, InBodyFacts, TrailerFacts DEF H!DiscardBounded
<1> QED
  BY <1>2, <1>5, <1>10, <1>11 DEF AfterBody

\* One byte of the trailer, and not the last.
LEMMA TrailerGoesOn ==
    ASSUME H!HttpAssumption, Types, step = "body", InBody, NEW c \in H!Byte,
           seen' = Append(seen, c), H!MatchByte(c), match # 5,
           discarded' = discarded
    PROVE  InBody' /\ step' = "body" /\ buf' = buf
<1>1. match \in 0..4 /\ c = H!Trailer[match + 1] /\ match' = match + 1
        /\ match' # Len(H!Trailer)
  BY TrailerFacts DEF InBody, H!MatchByte, H!Matches
<1>2. /\ step' = "body" /\ st' = st /\ count' = count /\ found' = found
      /\ buf' = buf /\ overflow' = overflow
  BY <1>1 DEF H!MatchByte
<1>3. /\ seen' \in Seq(H!Byte) /\ Len(seen') = Len(seen) + 1 /\ Len(seen) \in Nat
      /\ \A i \in 1..Len(seen) : seen'[i] = seen[i]
  BY AppendFacts DEF Types
<1>4. Longest(seen', match')
  BY <1>1, LongestMatched DEF InBody, Types
<1>5. ~EndsWith(seen', 6)
  <2>1. ~EndsWith(seen, 5)
    BY <1>1 DEF InBody, Longest
  <2>2. 5 + 1 = 6 /\ 5 \in 0..5
    OBVIOUS
  <2> QED
    BY <2>1, <2>2, EndsWithAppend DEF Types
<1>6. H!Ends(seen') = {}
  BY <1>5, EndsAppend DEF InBody, Types
<1>7. Len(seen') - match' = Len(seen) - match
  BY <1>1, <1>3
<1>8. Stored(seen', Len(seen') - match', buf', discarded')
  <2> DEFINE t == Len(seen) - match
  <2>1. Stored(seen, t, buf, discarded)
    BY DEF InBody
  <2>2. \A i \in 1..Len(buf) : seen'[i] = seen[i]
    <3>1. Len(buf) \in Nat /\ Len(buf) <= Len(seen)
      BY InBodyFacts
    <3> QED
      BY <1>3, <3>1
  <2>3. Len(seen') - match' = t
    BY <1>7
  <2> HIDE DEF t
  <2>4. Stored(seen', t, buf, discarded)
    BY <1>3, <2>1, <2>2 DEF Stored
  <2> QED
    BY <1>2, <2>3, <2>4
<1>9. overflow' <=> Len(seen') - match' > BufSz
  BY <1>2, <1>7 DEF InBody
<1>10. match' \in 0..5
  BY <1>1
<1> QED
  BY <1>2, <1>4, <1>6, <1>8, <1>9, <1>10 DEF InBody

\* The trailer breaks off: what was matched is body, and so is the byte unless
\* it starts another one.
LEMMA TrailerBreaks ==
    ASSUME H!HttpAssumption, Types, step = "body", InBody, NEW c \in H!Byte,
           seen' = Append(seen, c), H!BodyByte(c)
    PROVE  /\ (step' = "body" /\ InBody') \/ (step' = "result" /\ AfterBody')
           /\ buf' \in Seq(H!Byte)
<1> DEFINE t == Len(seen) - match
           r == IF c = H!Trailer[1] THEN SubSeq(H!Trailer, 1, match)
                ELSE Append(SubSeq(H!Trailer, 1, match), c)
<1>1. /\ match \in 0..5 /\ c # H!Trailer[match + 1] /\ H!Store(r)
      /\ match' = IF c = H!Trailer[1] THEN 1 ELSE 0
      /\ found' = FALSE
  BY DEF InBody, H!BodyByte, H!Matches
<1>2. /\ seen' \in Seq(H!Byte) /\ Len(seen') = Len(seen) + 1 /\ Len(seen) \in Nat
      /\ \A i \in 1..Len(seen) : seen'[i] = seen[i] /\ seen'[Len(seen) + 1] = c
  BY AppendFacts DEF Types
<1>3. Longest(seen', match') /\ ~EndsWith(seen', 6)
  BY <1>1, LongestBroken DEF InBody, Types
<1>4. H!Ends(seen') = {}
  BY <1>3, EndsAppend DEF InBody, Types
<1>5. match <= Len(seen)
        /\ \A j \in 1..match : seen[t + j] = H!Trailer[j]
  BY DEF InBody, Longest, EndsWith
<1> DEFINE m == SubSeq(H!Trailer, 1, match)
<1>6. m \in Seq(H!Byte) /\ Len(m) = match /\ \A j \in 1..match : m[j] = H!Trailer[j]
  <2>1. \A j \in 1..6 : H!Trailer[j] \in H!Byte
    BY TrailerFacts, ElementOfSeq
  <2>2. \A j \in 1..match : H!Trailer[j] \in H!Byte
    BY <1>1, <2>1
  <2> QED
    BY <1>1, <2>2, SubSeqProperties
<1>7. /\ r \in Seq(H!Byte)
      /\ Len(r) = IF c = H!Trailer[1] THEN match ELSE match + 1
      /\ \A j \in 1..match : r[j] = H!Trailer[j]
      /\ c # H!Trailer[1] => r[match + 1] = c
  <2>1. r = IF c = H!Trailer[1] THEN m ELSE Append(m, c)
    OBVIOUS
  <2> HIDE DEF m, r
  <2>2. CASE c = H!Trailer[1]
    BY <1>6, <2>1, <2>2
  <2>3. CASE c # H!Trailer[1]
    <3>1. r = Append(m, c)
      BY <2>1, <2>3
    <3>2. /\ Append(m, c) \in Seq(H!Byte) /\ Len(Append(m, c)) = match + 1
          /\ \A j \in 1..match : Append(m, c)[j] = m[j]
          /\ Append(m, c)[match + 1] = c
      BY <1>6, AppendFacts
    <3> QED
      BY <1>6, <2>3, <3>1, <3>2
  <2> QED
    BY <2>2, <2>3
<1> HIDE DEF r, m
<1>8. t \in Nat /\ t + match = Len(seen)
  BY <1>1, <1>2, <1>5
<1>9. t + Len(r) = Len(seen') - match' /\ t + Len(r) <= Len(seen')
  BY <1>1, <1>2, <1>7, <1>8
<1>10. ASSUME NEW j \in 1..Len(r) PROVE seen'[t + j] = r[j]
  <2> HIDE DEF t
  <2>1. CASE j \in 1..match
    <3>1. t + j \in 1..Len(seen)
      BY <1>1, <1>2, <1>8, <2>1
    <3>2. seen[t + j] = H!Trailer[j]
      BY <1>5, <2>1 DEF t
    <3> QED
      BY <1>2, <1>7, <2>1, <3>1, <3>2
  <2>2. CASE j \notin 1..match
    <3>1. j = match + 1 /\ c # H!Trailer[1]
      BY <1>1, <1>7, <2>2
    <3>2. t + j = Len(seen) + 1
      BY <1>1, <1>8, <3>1
    <3>3. seen'[Len(seen) + 1] = c
      BY AppendFacts DEF Types
    <3> QED
      BY <1>7, <3>1, <3>2, <3>3
  <2> QED
    BY <2>1, <2>2
<1>11. Stored(seen, t, buf, discarded) /\ (overflow <=> t > BufSz)
  BY DEF InBody
<1> HIDE DEF t
<1>12. /\ Stored(seen', t + Len(r), buf', discarded')
       /\ overflow' <=> t + Len(r) > BufSz
  BY <1>1, <1>7, <1>8, <1>9, <1>10, <1>11, StoreKeeps
<1>13. buf' \in Seq(H!Byte)
  BY <1>12 DEF Stored
<1>14. match' \in 0..5
  BY <1>1
<1>15. CASE ~(discarded' > MaxDiscard)
  <2>1. step' = step /\ st' = st /\ count' = count
    BY <1>15 DEF H!BodyByte, H!CapDiscard
  <2>2. discarded' <= MaxDiscard
    <3>1. discarded' \in Int /\ MaxDiscard \in Nat
      BY <1>2, <1>8, <1>9, <1>12, <1>13, LenProperties
         DEF Stored, H!HttpAssumption
    <3> QED
      BY <1>15, <3>1
  <2>3. InBody'
    BY <1>1, <1>3, <1>4, <1>9, <1>12, <1>14, <2>1, <2>2 DEF InBody
  <2> QED
    BY <1>13, <2>1, <2>3
<1>16. CASE discarded' > MaxDiscard
  <2>1. step' = "result" /\ st' = "OVERFLOW" /\ count' = Len(buf')
    BY <1>16 DEF H!BodyByte, H!CapDiscard, H!BodyEnds
  <2>2. Len(buf') = BufSz
    <3> DEFINE u == t + Len(r)
    <3>1. /\ Len(buf') = IF u < BufSz THEN u ELSE BufSz
          /\ discarded' = u - Len(buf') /\ u \in 0..Len(seen')
      BY <1>12 DEF Stored
    <3>2. BufSz \in Nat /\ MaxDiscard \in Nat
      BY DEF H!HttpAssumption
    <3> HIDE DEF u
    <3> QED
      BY <1>2, <1>16, <3>1, <3>2
  <2>3. buf' = H!Cut(seen', Len(buf'))
    BY <1>2, <1>12, StoredIsCut
  <2>4. H!BodyExact'
    BY <1>1, <1>13, <2>1, <2>2, <2>3, LenProperties DEF H!BodyExact
  <2>5. H!StopsAtTrailer'
    BY <1>1, <1>4 DEF H!StopsAtTrailer
  <2>6. H!DiscardBounded'
    <3>1. /\ BufSz \in Nat /\ MaxDiscard \in Nat /\ match <= 5
          /\ Len(seen) <= BufSz + MaxDiscard + match
      BY InBodyFacts
    <3>2. Len(seen') <= BufSz + MaxDiscard + 6
      BY <1>1, <1>2, <3>1
    <3> QED
      BY <3>2, TrailerFacts DEF H!DiscardBounded
  <2>7. count' = BufSz
    BY <2>1, <2>2
  <2> QED
    BY <1>13, <2>1, <2>4, <2>5, <2>6, <2>7 DEF AfterBody
<1> QED
  BY <1>15, <1>16

-----------------------------------------------------------------------------
(* The steps of the specification *)

LEMMA TakeType ==
    ASSUME Types, H!Take
    PROVE  Head(wire) \in H!Byte /\ wire' \in Seq(H!Byte)
BY HeadTailProperties DEF Types, H!Take

LEMMA ReadByteStep ==
    ASSUME H!HttpAssumption, BodyInv, H!ReadByte
    PROVE  BodyInv'
<1> DEFINE c == Head(wire)
<1>1. Types /\ InBody /\ step = "body" /\ c \in H!Byte /\ wire' \in Seq(H!Byte)
  BY TakeType DEF BodyInv, H!ReadByte
<1>2. seen' = Append(seen, c) /\ (H!MatchByte(c) \/ H!BodyByte(c))
  BY DEF H!ReadByte
<1>3. seen' \in Seq(H!Byte)
  BY <1>1, <1>2, AppendFacts DEF Types
<1> HIDE DEF c
<1>4. CASE H!MatchByte(c) /\ match = 5
  <2>1. AfterBody' /\ step' = "result" /\ buf' = buf
    BY <1>1, <1>2, <1>4, TrailerSeen
  <2> QED
    BY <1>1, <1>3, <2>1 DEF BodyInv, Types
<1>5. CASE H!MatchByte(c) /\ match # 5
  <2>1. discarded' = discarded
    BY <1>5 DEF H!MatchByte
  <2>2. InBody' /\ step' = "body" /\ buf' = buf
    BY <1>1, <1>2, <1>5, <2>1, TrailerGoesOn
  <2> QED
    BY <1>1, <1>3, <2>2 DEF BodyInv, Types
<1>6. CASE H!BodyByte(c)
  <2>1. /\ (step' = "body" /\ InBody') \/ (step' = "result" /\ AfterBody')
        /\ buf' \in Seq(H!Byte)
    BY <1>1, <1>2, <1>6, TrailerBreaks
  <2> QED
    BY <1>1, <1>3, <2>1 DEF BodyInv, Types
<1> QED
  BY <1>2, <1>4, <1>5, <1>6

\* A body that is given up: what was counted is what is in the buffer, or
\* nothing.
LEMMA BodyGivenUp ==
    ASSUME H!HttpAssumption, BodyInv, step = "body", step' = "done",
           st' \in {"TIMEOUT", "IO"}, count' \in {0, Len(buf)},
           UNCHANGED <<wire, buf, seen, found>>
    PROVE  BodyInv'
<1>1. Types /\ InBody
  BY DEF BodyInv
<1>2. H!StopsAtTrailer /\ H!DiscardBounded /\ buf = H!Cut(seen, Len(buf))
  BY <1>1, InBodyProperties, StoredIsCut DEF InBody, Types
<1>3. found' = FALSE /\ Len(buf) \in Nat
  BY <1>1, LenProperties DEF InBody, Types
<1>4. H!BodyExact'
  BY <1>2, <1>3 DEF H!BodyExact
<1>5. H!StopsAtTrailer' /\ H!DiscardBounded'
  BY <1>2 DEF H!StopsAtTrailer, H!DiscardBounded
<1>6. Types'
  BY <1>1 DEF Types
<1> QED
  BY <1>4, <1>5, <1>6 DEF BodyInv, AfterBody

LEMMA BodyTimesOutStep ==
    ASSUME H!HttpAssumption, BodyInv, H!BodyTimesOut
    PROVE  BodyInv'
<1>1. CASE left = 0
  BY <1>1, BodyGivenUp DEF H!BodyTimesOut, H!BodyFails
<1>2. CASE left # 0
  <2>1. UNCHANGED <<wire, step, st, count, found, buf, match, discarded,
                    overflow, seen>>
    BY <1>2 DEF H!BodyTimesOut
  <2>2. step = "body"
    BY DEF H!BodyTimesOut
  <2>3. Types' /\ InBody'
    BY <2>1, <2>2 DEF BodyInv, Types, InBody
  <2> QED
    BY <2>1, <2>2, <2>3 DEF BodyInv
<1> QED
  BY <1>1, <1>2

LEMMA BodyIoErrorStep ==
    ASSUME H!HttpAssumption, BodyInv, H!BodyIoError
    PROVE  BodyInv'
<1>1. count' = 0
  BY DEF H!BodyIoError, BodyInv, InBody
<1> QED
  BY <1>1, BodyGivenUp DEF H!BodyIoError, H!BodyFails, H!body

\* The wait for the result line keeps the status, or makes it a failure.
LEMMA AfterBodyStep ==
    ASSUME BodyInv, step = "result", step' \in {"result", "done"},
           st' \in {st, "MODULE"}, wire' \in Seq(H!Byte),
           UNCHANGED <<H!body, count, found>>
    PROVE  BodyInv'
<1>1. Types /\ AfterBody
  BY DEF BodyInv
<1>2. UNCHANGED <<buf, seen, count, found>>
  BY DEF H!body
<1>3. H!StopsAtTrailer' /\ H!DiscardBounded'
  BY <1>1, <1>2 DEF AfterBody, H!StopsAtTrailer, H!DiscardBounded
<1>4. H!BodyExact'
  BY <1>1, <1>2 DEF AfterBody, H!BodyExact
<1>5. (~found' /\ st' = "OVERFLOW") => count' = BufSz
  BY <1>1, <1>2 DEF AfterBody
<1>6. Types'
  BY <1>1, <1>2 DEF Types
<1> QED
  BY <1>3, <1>4, <1>5, <1>6 DEF BodyInv, AfterBody

LEMMA ReadResultStep ==
    ASSUME BodyInv, H!ReadResult
    PROVE  BodyInv'
<1>1. wire' \in Seq(H!Byte)
  BY TakeType DEF BodyInv, H!ReadResult
<1>2. step' \in {"result", "done"} /\ st' \in {st, "MODULE"}
  BY DEF H!ReadResult, H!LineReady, H!Finish
<1> QED
  BY <1>1, <1>2, AfterBodyStep DEF H!ReadResult

LEMMA ResultMissingStep ==
    ASSUME BodyInv, H!ResultMissing
    PROVE  BodyInv'
BY AfterBodyStep DEF H!ResultMissing, H!Finish, BodyInv, Types

\* The module sends something, or nothing happens.
LEMMA ReaderRests ==
    ASSUME BodyInv, wire' \in Seq(H!Byte), UNCHANGED <<step, H!body, count, st, found>>
    PROVE  BodyInv'
<1>1. UNCHANGED <<step, st, count, found, buf, match, discarded, overflow, seen>>
  BY DEF H!body
<1>2. Types'
  BY <1>1 DEF BodyInv, Types
<1>3. step' = "body" => InBody'
  BY <1>1 DEF BodyInv, InBody
<1>4. step' # "body" => AfterBody'
  BY <1>1 DEF BodyInv, AfterBody, H!StopsAtTrailer, H!BodyExact, H!DiscardBounded
<1> QED
  BY <1>2, <1>3, <1>4 DEF BodyInv

LEMMA ModuleStep ==
    ASSUME H!HttpAssumption, BodyInv, H!SendBody \/ H!SendEnd
    PROVE  BodyInv'
<1>1. CASE H!SendBody
  <2>1. PICK b \in Bytes : wire' = <<b>>
    BY <1>1 DEF H!SendBody
  <2>2. wire' \in Seq(H!Byte)
    BY <2>1 DEF H!HttpAssumption
  <2> QED
    BY <1>1, <2>2, ReaderRests DEF H!SendBody
<1>2. CASE H!SendEnd
  <2>1. PICK r \in {"ok", "err"} :
           wire' = H!Trailer \o <<"CR", "LF", r, "CR", "LF">>
    BY <1>2 DEF H!SendEnd
  <2>2. <<"CR", "LF", r, "CR", "LF">> \in Seq(H!Byte)
    BY DEF H!Byte
  <2>3. wire' \in Seq(H!Byte)
    BY <2>1, <2>2, TrailerFacts, ConcatProperties
  <2> QED
    BY <1>2, <2>3, ReaderRests DEF H!SendEnd
<1> QED
  BY <1>1, <1>2

LEMMA BodyInit == H!HttpAssumption /\ H!Init => BodyInv
<1> SUFFICES ASSUME H!HttpAssumption, H!Init PROVE BodyInv
  OBVIOUS
<1>1. /\ wire = <<>> /\ step = "body" /\ st = "none" /\ found = FALSE
      /\ buf = <<>> /\ match = 0 /\ discarded = 0 /\ overflow = FALSE
      /\ count = 0 /\ seen = <<>>
  BY DEF H!Init
<1>2. Types /\ Len(seen) = 0 /\ Len(buf) = 0
  BY <1>1, EmptySeq DEF Types
<1>3. Longest(seen, match)
  BY <1>1, <1>2 DEF Longest, EndsWith
<1>4. H!Ends(seen) = {}
  <2>1. Len(seen) - Len(H!Trailer) + 1 = -5
    BY <1>2, TrailerFacts
  <2> QED
    BY <2>1 DEF H!Ends
<1>5. BufSz \in Nat \ {0} /\ MaxDiscard \in Nat
  BY DEF H!HttpAssumption
<1>6. Stored(seen, Len(seen) - match, buf, discarded)
  BY <1>1, <1>2, <1>5, EmptySeq DEF Stored
<1>7. overflow <=> Len(seen) - match > BufSz
  BY <1>1, <1>2, <1>5
<1> QED
  BY <1>1, <1>2, <1>3, <1>4, <1>5, <1>6, <1>7 DEF BodyInv, InBody

LEMMA BodyStep == H!HttpAssumption /\ BodyInv /\ [H!Next]_(H!vars) => BodyInv'
<1> SUFFICES ASSUME H!HttpAssumption, BodyInv, [H!Next]_(H!vars) PROVE BodyInv'
  OBVIOUS
<1>1. CASE H!SendBody \/ H!SendEnd
  BY <1>1, ModuleStep
<1>2. CASE H!ReadByte
  BY <1>2, ReadByteStep
<1>3. CASE H!BodyTimesOut
  BY <1>3, BodyTimesOutStep
<1>4. CASE H!BodyIoError
  BY <1>4, BodyIoErrorStep
<1>5. CASE H!ReadResult
  BY <1>5, ReadResultStep
<1>6. CASE H!ResultMissing
  BY <1>6, ResultMissingStep
<1>7. CASE UNCHANGED H!vars
  <2>1. wire' \in Seq(H!Byte)
    BY <1>7 DEF H!vars, BodyInv, Types
  <2> QED
    BY <1>7, <2>1, ReaderRests DEF H!vars
<1> QED
  BY <1>1, <1>2, <1>3, <1>4, <1>5, <1>6, <1>7 DEF H!Next, H!Reader

LEMMA BodyProperties ==
    ASSUME H!HttpAssumption, BodyInv
    PROVE  H!StopsAtTrailer /\ H!BodyExact /\ H!DiscardBounded
<1>1. CASE step = "body"
  BY <1>1, InBodyProperties DEF BodyInv
<1>2. CASE step # "body"
  BY <1>2 DEF BodyInv, AfterBody
<1> QED
  BY <1>1, <1>2

\* The body at rest.
LEMMA BodyAtRest == ASSUME H!HttpAssumption, BodyRests PROVE BodyInv
<1>1. /\ wire = <<>> /\ seen = <<>> /\ buf = <<>> /\ step = "done"
      /\ found = FALSE /\ st = "none" /\ count = 0
  BY DEF BodyRests
<1>2. Types /\ Len(seen) = 0 /\ Len(buf) = 0
  BY <1>1, EmptySeq DEF Types
<1>3. H!Ends(seen) = {}
  <2>1. Len(seen) - Len(H!Trailer) + 1 = -5
    BY <1>2, TrailerFacts
  <2> QED
    BY <2>1 DEF H!Ends
<1>4. H!StopsAtTrailer
  BY <1>1, <1>3 DEF H!StopsAtTrailer
<1>5. H!Cut(seen, 0) = <<>>
  <2>1. H!Cut(seen, 0) = SubSeq(seen, 1, 0)
    BY <1>2 DEF H!Cut
  <2> QED
    BY <2>1, SubSeqEmpty
<1>6. H!BodyExact
  BY <1>1, <1>2, <1>5 DEF H!BodyExact
<1>7. H!DiscardBounded
  BY <1>2, TrailerFacts DEF H!DiscardBounded, H!HttpAssumption
<1> QED
  BY <1>1, <1>2, <1>4, <1>6, <1>7 DEF BodyInv, AfterBody

LEMMA BodyInvHolds == Spec => []BodyInv
<1>1. H!HttpAssumption
  BY RepliesAssumption
<1>2. Init => BodyInv
  BY <1>1, BodyInit, BodyAtRest DEF Init
<1>3. BodyInv /\ [Next]_vars => BodyInv'
  <2>1. [Next]_vars => [H!Next]_(H!vars)
    BY DEF Next, vars, bodyVars, H!vars, H!body
  <2> QED
    BY <1>1, <2>1, BodyStep
<1> QED
  BY <1>2, <1>3, PTL DEF Spec

-----------------------------------------------------------------------------
(* The listing of a mailbox.  The parser pairs lines by their position; that *)
(* is enough because the lines come in the order of their message and their  *)
(* part, which dropping some of them does not change.                        *)

LEMMA LeastNat ==
    ASSUME NEW T \in SUBSET Nat, T # {}
    PROVE  \E x \in T : \A y \in T : x <= y
<1> DEFINE R == OpToRel(<, Nat)
<1>1. IsWellFoundedOn(R, Nat)
  BY NatLessThanWellFounded
<1>2. \E x \in T : \A y \in T : ~(<<y, x>> \in R)
  <2> HIDE DEF R
  <2> QED
    BY <1>1, WFMin
<1>3. \A x, y \in Nat : <<y, x>> \notin R => x <= y
  BY DEF OpToRel
<1> HIDE DEF R
<1> QED
  BY <1>2, <1>3

\* The lines of messages: a header is part 0 of its message.
OwnLines ==
    {l \in [kind : {"header", "body"}, msg : 1..Messages, part : Nat, len : Nat] :
        l.kind = "header" <=> l.part = 0}

Before(a, b) == a.msg < b.msg \/ (a.msg = b.msg /\ a.part < b.part)
Comes(a, b) == (a \in OwnLines /\ b \in OwnLines) => Before(a, b)
Ordered(s) == \A i, j \in 1..Len(s) : i < j => Comes(s[i], s[j])

IsIn(l, s) == \E i \in 1..Len(s) : s[i] = l

\* s lists the messages up to k.
Lists(s, k) ==
    /\ s \in Seq(OwnLines) /\ Ordered(s)
    /\ \A i \in 1..Len(s) : s[i].msg <= k
    /\ \A m \in 1..k : /\ IsIn(L!Header(m), s)
                       /\ mailbox[m] # <<>> => IsIn(L!Body(m, 1), s)

\* f joins the first i of the sequences in ss, for each i up to n.
Joins(ss, n, f) ==
    f = [i \in 1..n |-> IF i = 1 THEN ss[i] ELSE f[i - 1] \o ss[i]]

LEMMA JoinsOnce ==
    ASSUME NEW ss, NEW n \in Nat, NEW f, NEW g, Joins(ss, n, f), Joins(ss, n, g)
    PROVE  f = g
<1> DEFINE T == {i \in 1..n : f[i] # g[i]}
<1>1. /\ f = [i \in 1..n |-> IF i = 1 THEN ss[i] ELSE f[i - 1] \o ss[i]]
      /\ g = [i \in 1..n |-> IF i = 1 THEN ss[i] ELSE g[i - 1] \o ss[i]]
  BY Zenon DEF Joins
<1>2. \A i \in 1..n : /\ f[i] = IF i = 1 THEN ss[i] ELSE f[i - 1] \o ss[i]
                      /\ g[i] = IF i = 1 THEN ss[i] ELSE g[i - 1] \o ss[i]
  BY <1>1, Zenon
<1>3. T = {}
  <2> SUFFICES ASSUME T # {} PROVE FALSE
    OBVIOUS
  <2>1. T \in SUBSET Nat
    OBVIOUS
  <2>2. PICK i \in T : \A j \in T : i <= j
    BY <2>1, LeastNat
  <2>3. i \in 1..n /\ f[i] # g[i]
    OBVIOUS
  <2>4. i # 1
    BY <1>2, <2>3
  <2>5. i - 1 \in 1..n /\ ~(i <= i - 1)
    BY <2>3, <2>4
  <2>6. f[i - 1] = g[i - 1]
    BY <2>2, <2>5
  <2> QED
    BY <1>2, <2>3, <2>4, <2>6
<1>4. \A i \in 1..n : f[i] = g[i]
  BY <1>3
<1>5. f = [i \in 1..n |-> f[i]] /\ g = [i \in 1..n |-> g[i]]
  BY <1>1
<1> QED
  BY <1>4, <1>5

LEMMA JoinsGrows ==
    ASSUME NEW ss, NEW n \in Nat \ {0}, NEW f, Joins(ss, n, f)
    PROVE  \E g : Joins(ss, n + 1, g) /\ g[n + 1] = f[n] \o ss[n + 1]
<1> DEFINE new == f[n] \o ss[n + 1]
           g == [i \in 1..(n + 1) |-> IF i = n + 1 THEN new ELSE f[i]]
<1>1. \A i \in 1..n : f[i] = IF i = 1 THEN ss[i] ELSE f[i - 1] \o ss[i]
  <2>1. f = [i \in 1..n |-> IF i = 1 THEN ss[i] ELSE f[i - 1] \o ss[i]]
    BY Zenon DEF Joins
  <2> QED
    BY <2>1, Zenon
<1>2. g[n + 1] = new /\ \A i \in 1..n : g[i] = f[i]
  <2>1. n + 1 \in 1..(n + 1)
    OBVIOUS
  <2>2. \A i \in 1..n : i \in 1..(n + 1) /\ i # n + 1
    OBVIOUS
  <2> HIDE DEF new
  <2> QED
    BY <2>1, <2>2
<1>3. \A i \in 1..(n + 1) : g[i] = IF i = 1 THEN ss[i] ELSE g[i - 1] \o ss[i]
  <2> TAKE i \in 1..(n + 1)
  <2> HIDE DEF g
  <2>1. CASE i = n + 1
    <3>1. i # 1 /\ i - 1 = n /\ n \in 1..n
      BY <2>1
    <3> QED
      BY <1>2, <2>1, <3>1
  <2>2. CASE i = 1
    <3>1. 1 \in 1..n
      OBVIOUS
    <3> QED
      BY <1>1, <1>2, <2>2, <3>1
  <2>3. CASE i # n + 1 /\ i # 1
    <3>1. i \in 1..n /\ i - 1 \in 1..n
      BY <2>3
    <3> QED
      BY <1>1, <1>2, <2>3, <3>1
  <2> QED
    BY <2>1, <2>2, <2>3
<1>4. Joins(ss, n + 1, g)
  <2>1. g = [i \in 1..(n + 1) |-> g[i]]
    OBVIOUS
  <2> HIDE DEF g
  <2>2. g = [i \in 1..(n + 1) |-> IF i = 1 THEN ss[i] ELSE g[i - 1] \o ss[i]]
    BY <1>3, <2>1
  <2> QED
    BY <2>2 DEF Joins
<1> HIDE DEF g
<1> QED
  BY <1>2, <1>4

LEMMA FlattenIs ==
    ASSUME NEW ss, NEW n \in Nat \ {0}, Len(ss) = n, NEW f, Joins(ss, n, f)
    PROVE  L!FlattenSeq(ss) = f[n]
<1> DEFINE g == CHOOSE h : Joins(ss, n, h)
<1>1. Joins(ss, n, g)
  OBVIOUS
<1>2. g = f
  <2> HIDE DEF g
  <2> QED
    BY <1>1, JoinsOnce
<1>3. L!FlattenSeq(ss) = g[n]
  <2>1. L!FlattenSeq(ss) =
          (CHOOSE h : h = [i \in 1..Len(ss) |-> IF i = 1 THEN ss[i]
                                                ELSE h[i - 1] \o ss[i]])[Len(ss)]
    BY DEF L!FlattenSeq
  <2> QED
    BY <2>1 DEF Joins
<1> QED
  BY <1>2, <1>3

-----------------------------------------------------------------------------

LEMMA HeaderOwn ==
    ASSUME L!SizesAssumption, NEW m \in 1..Messages
    PROVE  L!Header(m) \in OwnLines /\ L!Header(m).kind = "header"
             /\ L!Header(m).msg = m /\ L!Header(m).part = 0 /\ L!Header(m).len > 0
BY DEF L!SizesAssumption, L!Header, L!Line, OwnLines

LEMMA BodyOwn ==
    ASSUME NEW m \in 1..Messages, NEW n \in Nat \ {0}, mailbox[m][n] \in Nat
    PROVE  L!Body(m, n) \in OwnLines /\ L!Body(m, n).kind = "body"
             /\ L!Body(m, n).msg = m /\ L!Body(m, n).part = n
             /\ L!Body(m, n).len = mailbox[m][n]
BY DEF L!Body, L!Line, OwnLines

LEMMA StrangeLines ==
    /\ L!StrayLine \notin OwnLines /\ L!FinalOk \notin OwnLines
    /\ L!StrayLine.kind = "stray" /\ L!FinalOk.kind = "OK"
BY DEF L!StrayLine, L!FinalOk, L!Line, OwnLines

\* What is sent for one message.
LEMMA ListingIs ==
    ASSUME L!SizesAssumption, mailbox \in [1..Messages -> Texts], NEW m \in 1..Messages
    PROVE  /\ L!Listing(m) \in Seq(OwnLines) /\ Ordered(L!Listing(m))
           /\ Len(L!Listing(m)) \in Nat
           /\ \A i \in 1..Len(L!Listing(m)) : L!Listing(m)[i].msg = m
           /\ IsIn(L!Header(m), L!Listing(m))
           /\ mailbox[m] # <<>> => IsIn(L!Body(m, 1), L!Listing(m))
<1> DEFINE shape == mailbox[m]
           bodies == [n \in DOMAIN shape |-> L!Body(m, n)]
           all == <<L!Header(m)>> \o bodies
<1>1. shape \in Seq(Nat)
  BY DEF L!SizesAssumption
<1>2. Len(shape) \in Nat /\ DOMAIN shape = 1..Len(shape) /\ \A n \in 1..Len(shape) : shape[n] \in Nat
  BY <1>1, LenProperties, ElementOfSeq
<1>3. \A n \in 1..Len(shape) : /\ L!Body(m, n) \in OwnLines /\ L!Body(m, n).kind = "body"
                              /\ L!Body(m, n).msg = m /\ L!Body(m, n).part = n
  BY <1>2, BodyOwn
<1>4. /\ bodies \in Seq(OwnLines) /\ Len(bodies) = Len(shape)
      /\ \A n \in 1..Len(shape) : bodies[n] = L!Body(m, n)
  <2>1. bodies = [n \in 1..Len(shape) |-> L!Body(m, n)]
    BY <1>2
  <2> HIDE DEF shape, bodies
  <2>2. \A n \in 1..Len(shape) : bodies[n] = L!Body(m, n)
    BY <2>1
  <2>3. bodies \in [1..Len(shape) -> OwnLines]
    BY <1>3, <2>1
  <2>4. bodies \in Seq(OwnLines) /\ Len(bodies) = Len(shape)
    BY <1>2, <2>1, <2>3, IsASeq
  <2> QED
    BY <2>2, <2>4
<1>5. L!Header(m) \in OwnLines /\ L!Header(m).msg = m /\ L!Header(m).part = 0
  BY HeaderOwn
<1> HIDE DEF shape, bodies
<1>6. /\ all \in Seq(OwnLines) /\ Len(all) = Len(shape) + 1
      /\ all[1] = L!Header(m)
      /\ \A i \in 2..Len(all) : all[i] = L!Body(m, i - 1)
  <2>1. /\ <<L!Header(m)>> \in Seq(OwnLines) /\ Len(<<L!Header(m)>>) = 1
        /\ <<L!Header(m)>>[1] = L!Header(m)
    BY <1>5
  <2>2. /\ all \in Seq(OwnLines) /\ Len(all) = 1 + Len(bodies)
        /\ \A i \in 1..Len(all) : all[i] = IF i <= 1 THEN <<L!Header(m)>>[i] ELSE bodies[i - 1]
    BY <1>4, <2>1, ConcatProperties
  <2> HIDE DEF all
  <2>3. Len(all) = Len(shape) + 1 /\ 1 \in 1..Len(all)
    BY <1>2, <1>4, <2>2
  <2>4. all[1] = L!Header(m)
    BY <2>1, <2>2, <2>3
  <2>5. ASSUME NEW i \in 2..Len(all) PROVE all[i] = L!Body(m, i - 1)
    <3>1. i \in 1..Len(all) /\ ~(i <= 1) /\ i - 1 \in 1..Len(shape)
      BY <1>2, <2>3
    <3> QED
      BY <1>4, <2>2, <3>1
  <2> QED
    BY <2>2, <2>3, <2>4, <2>5
<1>7. L!Listing(m) = all
  BY DEF L!Listing, bodies, shape
<1> HIDE DEF all
<1>8. \A i \in 1..Len(all) : /\ all[i] \in OwnLines /\ all[i].msg = m
                             /\ all[i].part = i - 1
  <2> TAKE i \in 1..Len(all)
  <2>1. CASE i = 1
    BY <1>5, <1>6, <2>1
  <2>2. CASE i # 1
    <3>1. i \in 2..Len(all) /\ i - 1 \in 1..Len(shape)
      BY <1>2, <1>6, <2>2
    <3> QED
      BY <1>3, <1>6, <3>1
  <2> QED
    BY <2>1, <2>2
<1>9. Ordered(all)
  <2> SUFFICES ASSUME NEW i \in 1..Len(all), NEW j \in 1..Len(all), i < j
               PROVE  Before(all[i], all[j])
    BY DEF Ordered, Comes
  <2>1. Len(all) \in Nat
    BY <1>2, <1>6
  <2> QED
    BY <1>8, <2>1 DEF Before
<1>10. IsIn(L!Header(m), all)
  <2>1. 1 \in 1..Len(all)
    BY <1>2, <1>6
  <2> QED
    BY <1>6, <2>1 DEF IsIn
<1>11. shape # <<>> => IsIn(L!Body(m, 1), all)
  <2> SUFFICES ASSUME shape # <<>> PROVE IsIn(L!Body(m, 1), all)
    OBVIOUS
  <2>1. Len(shape) # 0
    BY <1>1, EmptySeq
  <2>2. 2 \in 1..Len(all) /\ 2 \in 2..Len(all) /\ 2 - 1 = 1
    BY <1>2, <1>6, <2>1
  <2>3. all[2] = L!Body(m, 2 - 1)
    BY <1>6, <2>2
  <2> QED
    BY <2>2, <2>3 DEF IsIn
<1> QED
  BY <1>2, <1>6, <1>7, <1>8, <1>9, <1>10, <1>11 DEF shape

\* The messages up to k, and one more.
LEMMA ListsGrows ==
    ASSUME L!SizesAssumption, mailbox \in [1..Messages -> Texts],
           NEW k \in Nat, k + 1 \in 1..Messages, NEW s, Lists(s, k)
    PROVE  Lists(s \o L!Listing(k + 1), k + 1)
<1> DEFINE m == k + 1
           t == L!Listing(m)
           u == s \o t
<1>1. /\ t \in Seq(OwnLines) /\ Ordered(t) /\ Len(t) \in Nat
      /\ \A i \in 1..Len(t) : t[i].msg = m
      /\ IsIn(L!Header(m), t)
      /\ mailbox[m] # <<>> => IsIn(L!Body(m, 1), t)
  BY ListingIs
<1>2. /\ s \in Seq(OwnLines) /\ Ordered(s) /\ Len(s) \in Nat
      /\ \A i \in 1..Len(s) : s[i].msg <= k
      /\ \A l \in 1..k : /\ IsIn(L!Header(l), s)
                         /\ mailbox[l] # <<>> => IsIn(L!Body(l, 1), s)
  BY LenProperties DEF Lists
<1> HIDE DEF t
<1>3. /\ u \in Seq(OwnLines) /\ Len(u) = Len(s) + Len(t)
      /\ \A i \in 1..Len(u) : u[i] = IF i <= Len(s) THEN s[i] ELSE t[i - Len(s)]
  BY <1>1, <1>2, ConcatProperties
<1> HIDE DEF u
<1>4. /\ \A i \in 1..Len(s) : i \in 1..Len(u) /\ u[i] = s[i]
      /\ \A i \in 1..Len(t) : Len(s) + i \in 1..Len(u) /\ u[Len(s) + i] = t[i]
  <2>1. \A i \in 1..Len(s) : i \in 1..Len(u) /\ i <= Len(s)
    BY <1>1, <1>2, <1>3
  <2>2. \A i \in 1..Len(t) : /\ Len(s) + i \in 1..Len(u) /\ ~(Len(s) + i <= Len(s))
                             /\ (Len(s) + i) - Len(s) = i
    BY <1>1, <1>2, <1>3
  <2> QED
    BY <1>3, <2>1, <2>2
<1>5. \A l : IsIn(l, s) \/ IsIn(l, t) => IsIn(l, u)
  BY <1>4 DEF IsIn
<1>6. \A i \in 1..Len(s) : s[i].msg \in Nat
  BY <1>2, ElementOfSeq DEF OwnLines
<1>7. \A i \in 1..Len(u) : u[i].msg <= m
  <2> TAKE i \in 1..Len(u)
  <2>1. CASE i <= Len(s)
    <3>1. i \in 1..Len(s)
      BY <1>1, <1>2, <1>3, <2>1
    <3> QED
      BY <1>2, <1>4, <1>6, <3>1
  <2>2. CASE ~(i <= Len(s))
    <3>1. i - Len(s) \in 1..Len(t)
      BY <1>1, <1>2, <1>3, <2>2
    <3> QED
      BY <1>1, <1>3, <2>2, <3>1
  <2> QED
    BY <2>1, <2>2
<1>8. Ordered(u)
  <2> SUFFICES ASSUME NEW i \in 1..Len(u), NEW j \in 1..Len(u), i < j
               PROVE  Comes(u[i], u[j])
    BY DEF Ordered
  <2>1. CASE j <= Len(s)
    <3>1. i \in 1..Len(s) /\ j \in 1..Len(s)
      BY <1>1, <1>2, <1>3, <2>1
    <3> QED
      BY <1>2, <1>4, <3>1 DEF Ordered
  <2>2. CASE ~(i <= Len(s))
    <3>1. /\ i - Len(s) \in 1..Len(t) /\ j - Len(s) \in 1..Len(t)
          /\ i - Len(s) < j - Len(s) /\ ~(j <= Len(s))
      BY <1>1, <1>2, <1>3, <2>2
    <3>2. u[i] = t[i - Len(s)] /\ u[j] = t[j - Len(s)]
      BY <1>3, <2>2, <3>1
    <3> QED
      BY <1>1, <3>1, <3>2 DEF Ordered
  <2>3. CASE i <= Len(s) /\ ~(j <= Len(s))
    <3>1. i \in 1..Len(s) /\ j - Len(s) \in 1..Len(t)
      BY <1>1, <1>2, <1>3, <2>3
    <3>2. u[i] = s[i] /\ u[j] = t[j - Len(s)]
      BY <1>3, <2>3
    <3>3. u[i].msg \in Nat /\ u[i].msg <= k /\ u[j].msg = k + 1
      BY <1>1, <1>2, <1>6, <3>1, <3>2
    <3> QED
      BY <3>3 DEF Comes, Before
  <2> QED
    BY <1>1, <1>2, <1>3, <2>1, <2>2, <2>3
<1>9. \A l \in 1..m : /\ IsIn(L!Header(l), u)
                      /\ mailbox[l] # <<>> => IsIn(L!Body(l, 1), u)
  <2> TAKE l \in 1..m
  <2>1. CASE l = m
    BY <1>1, <1>5, <2>1
  <2>2. CASE l # m
    <3>1. l \in 1..k
      BY <2>2
    <3> QED
      BY <1>2, <1>5, <3>1
  <2> QED
    BY <2>1, <2>2
<1> QED
  BY <1>3, <1>7, <1>8, <1>9 DEF Lists, u, t

LEMMA ListsNothing == Lists(<<>>, 0)
<1>1. <<>> \in Seq(OwnLines) /\ Len(<<>>) = 0
  BY EmptySeq
<1> QED
  BY <1>1 DEF Lists, Ordered

\* All that is sent: the messages in their order, then the final OK.
LEMMA SentIs ==
    ASSUME L!SizesAssumption, mailbox \in [1..Messages -> Texts]
    PROVE  \E s : Lists(s, Messages) /\ L!Sent = Append(s, L!FinalOk)
<1> DEFINE ss == [m \in 1..Messages |-> L!Listing(m)]
           P(k) == \E f : Joins(ss, k, f) /\ Lists(f[k], k)
           T == {k \in 1..Messages : ~P(k)}
<1>1. Messages \in Nat
  BY DEF L!SizesAssumption
<1>2. Len(ss) = Messages /\ \A m \in 1..Messages : ss[m] = L!Listing(m)
  BY <1>1
<1>3. L!Sent = Append(L!FlattenSeq(ss), L!FinalOk)
  BY DEF L!Sent
<1> HIDE DEF ss
<1>4. CASE Messages = 0
  <2>1. L!FlattenSeq(ss) = ss
    BY <1>2, <1>4 DEF L!FlattenSeq
  <2>2. ss = <<>>
    <3>1. 1..Messages = {}
      BY <1>4
    <3> QED
      BY <3>1 DEF ss
  <2> QED
    BY <1>3, <1>4, <2>1, <2>2, ListsNothing
<1>5. CASE Messages # 0
  <2>1. T = {}
    <3> SUFFICES ASSUME T # {} PROVE FALSE
      OBVIOUS
    <3>1. T \in SUBSET Nat
      OBVIOUS
    <3>2. PICK k \in T : \A j \in T : k <= j
      BY <3>1, LeastNat
    <3>3. k \in 1..Messages /\ ~P(k)
      OBVIOUS
    <3>4. CASE k = 1
      <4> DEFINE f == [i \in 1..1 |-> ss[1]]
      <4>1. Joins(ss, 1, f)
        BY DEF Joins
      <4>2. f[1] = L!Listing(1)
        BY <1>2, <3>3, <3>4
      <4>3. Lists(<<>> \o L!Listing(1), 1)
        <5>1. PICK z \in Nat : z = 0
          OBVIOUS
        <5>2. PICK e : e = <<>>
          OBVIOUS
        <5>3. Lists(e, z) /\ z + 1 \in 1..Messages /\ z + 1 = 1
          BY <3>3, <3>4, <5>1, <5>2, ListsNothing
        <5>4. Lists(e \o L!Listing(z + 1), z + 1)
          BY <5>3, ListsGrows
        <5> QED
          BY <5>2, <5>3, <5>4
      <4>4. L!Listing(1) \in Seq(OwnLines)
        BY <3>3, <3>4, ListingIs
      <4>5. <<>> \o L!Listing(1) = L!Listing(1)
        BY <4>4, ConcatEmptySeq
      <4>6. Lists(f[1], 1)
        BY <4>2, <4>3, <4>5
      <4> QED
        BY <3>3, <3>4, <4>1, <4>6
    <3>5. CASE k # 1
      <4>1. k - 1 \in 1..Messages /\ ~(k <= k - 1) /\ k - 1 \in Nat \ {0} /\ (k - 1) + 1 = k
        BY <1>1, <3>3, <3>5
      <4>2. P(k - 1)
        BY <3>2, <4>1
      <4>3. PICK f : Joins(ss, k - 1, f) /\ Lists(f[k - 1], k - 1)
        BY <4>2
      <4> HIDE DEF P, T
      <4>4. PICK g : /\ Joins(ss, (k - 1) + 1, g)
                     /\ g[(k - 1) + 1] = f[k - 1] \o ss[(k - 1) + 1]
        BY <4>1, <4>3, JoinsGrows
      <4>5. Lists(f[k - 1] \o L!Listing((k - 1) + 1), (k - 1) + 1)
        BY <3>3, <4>1, <4>3, ListsGrows
      <4>6. Joins(ss, k, g) /\ Lists(g[k], k)
        BY <1>2, <3>3, <4>1, <4>4, <4>5
      <4> QED
        BY <3>3, <4>6 DEF P
    <3> QED
      BY <3>4, <3>5
  <2>2. Messages \in 1..Messages /\ Messages \in Nat \ {0}
    BY <1>1, <1>5
  <2>3. P(Messages)
    BY <2>1, <2>2
  <2>4. PICK f : Joins(ss, Messages, f) /\ Lists(f[Messages], Messages)
    BY <2>3
  <2>5. L!FlattenSeq(ss) = f[Messages]
    <3> HIDE DEF P, T
    <3> QED
      BY <1>2, <2>2, <2>4, FlattenIs
  <2> QED
    BY <1>3, <2>4, <2>5
<1> QED
  BY <1>4, <1>5

-----------------------------------------------------------------------------

RespLine == OwnLines \cup {L!StrayLine}
SentLine == OwnLines \cup {L!FinalOk}

ListTypes ==
    /\ todo \in Seq(SentLine) /\ resp \in Seq(RespLine)
    /\ msgs \in Seq([msg : 1..Messages, text : RespLine])
    /\ at \in Nat \ {0} /\ stray \in Nat
    /\ listStep \in {"receive", "parse", "done"}
    /\ (stray = 0) => \A i \in 1..Len(resp) : resp[i] \in OwnLines
    /\ mailbox \in [1..Messages -> Texts] \/ (listStep = "done" /\ listSt = "none")

\* What is stored and what is to come is in the order of the messages.
InOrder ==
    /\ Ordered(resp) /\ Ordered(todo)
    /\ \A i \in 1..Len(resp), j \in 1..Len(todo) : Comes(resp[i], todo[j])

\* What the parser has made of the lines before `at'.
Paired ==
    \A i \in 1..Len(msgs) : \E a \in 1..Len(resp) :
        /\ a + 1 <= Len(resp) /\ a + 1 < at /\ resp[a].kind = "header"
        /\ msgs[i] = L!Result(resp[a], resp[a + 1])
Increasing ==
    \A i, j \in 1..Len(msgs) : i < j => msgs[i].msg < msgs[j].msg
Covered ==
    \A b \in 1..Len(resp) : (b < at /\ resp[b].kind = "header") =>
        \/ \E i \in 1..Len(msgs) : msgs[i].msg = resp[b].msg
        \/ b > 1 /\ resp[b - 1].kind = "header"
NotStarted == listStep = "receive" => msgs = <<>> /\ at = 1
Finished ==
    (listStep = "done" /\ listSt = "OK") =>
        \/ Len(msgs) = MaxMsgs
        \/ \A b \in 1..Len(resp) : resp[b].kind = "header" => b < at \/ b = Len(resp)

Parsed == Paired /\ Increasing /\ Covered /\ Len(msgs) <= MaxMsgs

ListInv == ListTypes /\ InOrder /\ NotStarted /\ Parsed /\ Finished

\* A line of kind "header" or "body" is a message's.
LEMMA OwnKind ==
    /\ \A l \in RespLine : l.kind \in {"header", "body"} <=> l \in OwnLines
    /\ \A l \in SentLine : l.kind # "OK" <=> l \in OwnLines
    /\ \A l \in OwnLines : /\ l.kind \in {"header", "body"} /\ l.msg \in 1..Messages
                           /\ l.part \in Nat /\ (l.kind = "header" <=> l.part = 0)
BY StrangeLines DEF RespLine, SentLine, OwnLines

\* A line is stored or left out.
LEMMA LineStored ==
    ASSUME resp \in Seq(RespLine), Ordered(resp), NEW l \in RespLine,
           resp' = resp \/ resp' = Append(resp, l),
           \A i \in 1..Len(resp) : Comes(resp[i], l)
    PROVE  /\ resp' \in Seq(RespLine) /\ Ordered(resp')
           /\ \A i \in 1..Len(resp') :
                 resp'[i] = l \/ \E k \in 1..Len(resp) : resp'[i] = resp[k]
<1>1. CASE resp' = resp
  BY <1>1
<1>2. CASE resp' = Append(resp, l)
  <2>1. /\ resp' \in Seq(RespLine) /\ Len(resp') = Len(resp) + 1 /\ Len(resp) \in Nat
        /\ resp'[Len(resp) + 1] = l
        /\ \A i \in 1..Len(resp) : resp'[i] = resp[i]
    BY <1>2, AppendProperties, LenProperties
  <2>2. \A i \in 1..Len(resp') : i \in 1..Len(resp) \/ i = Len(resp) + 1
    BY <2>1
  <2>3. Ordered(resp')
    <3> SUFFICES ASSUME NEW i \in 1..Len(resp'), NEW j \in 1..Len(resp'), i < j
                 PROVE  Comes(resp'[i], resp'[j])
      BY DEF Ordered
    <3>1. i \in 1..Len(resp)
      BY <2>1
    <3>2. CASE j \in 1..Len(resp)
      BY <2>1, <3>1, <3>2 DEF Ordered
    <3>3. CASE j = Len(resp) + 1
      BY <2>1, <3>1, <3>3
    <3> QED
      BY <2>2, <3>2, <3>3
  <2> QED
    BY <2>1, <2>2, <2>3
<1> QED
  BY <1>1, <1>2

\* While the listing is received the parser has not begun.
LEMMA ParserWaits ==
    ASSUME msgs' = <<>>, at' = 1, MaxMsgs \in Nat, listStep' # "done"
    PROVE  Parsed' /\ NotStarted' /\ Finished'
<1>1. Len(msgs') = 0
  BY EmptySeq
<1>2. Paired' /\ Increasing' /\ Len(msgs') <= MaxMsgs
  BY <1>1 DEF Paired, Increasing
<1>3. Covered'
  BY DEF Covered
<1> QED
  BY <1>2, <1>3 DEF Parsed, NotStarted, Finished

LEMMA NextLineStep ==
    ASSUME L!SizesAssumption, ListInv, L!NextLine PROVE ListInv'
<1> DEFINE l == Head(todo)
<1>1. /\ todo \in Seq(SentLine) /\ todo # <<>> /\ todo' = Tail(todo) /\ stray' = stray
      /\ resp \in Seq(RespLine) /\ listStep = "receive" /\ mailbox' = mailbox
      /\ at' = 1 /\ msgs' = <<>> /\ msgs' = msgs /\ at' = at
  BY DEF ListInv, ListTypes, NotStarted, L!NextLine, L!Receive
<1>2. /\ l \in SentLine /\ todo' \in Seq(SentLine) /\ l = todo[1]
      /\ Len(todo) \in Nat \ {0} /\ Len(todo') = Len(todo) - 1
      /\ \A i \in 1..Len(todo') : todo'[i] = todo[i + 1]
  BY <1>1, HeadTailProperties, LenProperties, EmptySeq, TailIsSubSeq
<1>3. InOrder /\ ListTypes
  BY DEF ListInv
<1>4. /\ listStep' \in {"receive", "parse"}
      /\ \/ resp' = resp
         \/ resp' = Append(resp, l) /\ l.kind # "OK"
  BY <1>1 DEF L!NextLine, L!Receive, L!Stored
<1> HIDE DEF l
<1>5. \A i \in 1..Len(resp) : Comes(resp[i], l)
  <2>1. 1 \in 1..Len(todo)
    BY <1>2
  <2> QED
    BY <1>2, <1>3, <2>1 DEF InOrder
<1>6. /\ resp' \in Seq(RespLine) /\ Ordered(resp')
      /\ \A i \in 1..Len(resp') :
            (resp'[i] = l /\ l \in OwnLines) \/ \E k \in 1..Len(resp) : resp'[i] = resp[k]
  <2>1. CASE resp' = resp
    BY <1>1, <1>3, <2>1 DEF InOrder
  <2>2. CASE resp' = Append(resp, l) /\ l.kind # "OK"
    <3>1. l \in OwnLines /\ l \in RespLine
      BY <1>2, <2>2, OwnKind DEF RespLine
    <3> QED
      BY <1>1, <1>3, <1>5, <2>2, <3>1, LineStored DEF InOrder
  <2> QED
    BY <1>4, <2>1, <2>2
<1>7. \A j \in 1..Len(todo') : j + 1 \in 1..Len(todo) /\ 1 < j + 1 /\ 1 \in 1..Len(todo)
  BY <1>2
<1>8. Ordered(todo')
  <2> SUFFICES ASSUME NEW i \in 1..Len(todo'), NEW j \in 1..Len(todo'), i < j
               PROVE  Comes(todo'[i], todo'[j])
    BY DEF Ordered
  <2>1. i + 1 \in 1..Len(todo) /\ j + 1 \in 1..Len(todo) /\ i + 1 < j + 1
    BY <1>7
  <2> QED
    BY <1>2, <1>3, <2>1 DEF InOrder, Ordered
<1>9. \A j \in 1..Len(todo') :
         Comes(l, todo'[j]) /\ \A k \in 1..Len(resp) : Comes(resp[k], todo'[j])
  BY <1>2, <1>3, <1>7 DEF InOrder, Ordered
<1>10. InOrder'
  BY <1>6, <1>8, <1>9 DEF InOrder
<1>11. MaxMsgs \in Nat
  BY DEF L!SizesAssumption
<1>12. Parsed' /\ NotStarted' /\ Finished'
  BY <1>1, <1>4, <1>11, ParserWaits
<1>13. (stray' = 0) => \A i \in 1..Len(resp') : resp'[i] \in OwnLines
  BY <1>1, <1>3, <1>6 DEF ListTypes
<1>14. mailbox' \in [1..Messages -> Texts]
  BY <1>1, <1>3 DEF ListTypes
<1>15. ListTypes'
  BY <1>1, <1>2, <1>3, <1>4, <1>6, <1>13, <1>14 DEF ListTypes
<1> QED
  BY <1>10, <1>12, <1>15 DEF ListInv

LEMMA StrayStep ==
    ASSUME L!SizesAssumption, ListInv, L!Stray PROVE ListInv'
<1>1. /\ todo \in Seq(SentLine) /\ todo' = todo /\ stray' = stray + 1 /\ stray \in Nat
      /\ resp \in Seq(RespLine) /\ listStep = "receive" /\ mailbox' = mailbox
      /\ at' = 1 /\ msgs' = <<>> /\ msgs' = msgs /\ at' = at
  BY DEF ListInv, ListTypes, NotStarted, L!Stray, L!Receive
<1>2. InOrder /\ ListTypes
  BY DEF ListInv
<1>3. /\ listStep' \in {"receive", "parse"}
      /\ resp' = resp \/ resp' = Append(resp, L!StrayLine)
  BY <1>1 DEF L!Stray, L!Receive, L!Stored
<1>4. \A i \in 1..Len(resp) : Comes(resp[i], L!StrayLine)
  BY StrangeLines DEF Comes
<1>5. /\ resp' \in Seq(RespLine) /\ Ordered(resp')
      /\ \A i \in 1..Len(resp') :
            resp'[i] = L!StrayLine \/ \E k \in 1..Len(resp) : resp'[i] = resp[k]
  <2>1. L!StrayLine \in RespLine
    BY DEF RespLine
  <2> QED
    BY <1>1, <1>2, <1>3, <1>4, <2>1, LineStored DEF InOrder
<1>6. \A j \in 1..Len(todo) : Comes(L!StrayLine, todo[j])
  BY StrangeLines DEF Comes
<1>7. InOrder'
  BY <1>1, <1>2, <1>5, <1>6 DEF InOrder
<1>8. MaxMsgs \in Nat
  BY DEF L!SizesAssumption
<1>9. Parsed' /\ NotStarted' /\ Finished'
  BY <1>1, <1>3, <1>8, ParserWaits
<1>10. stray' \in Nat /\ stray' # 0
  BY <1>1
<1>11. mailbox' \in [1..Messages -> Texts]
  BY <1>1, <1>2 DEF ListTypes
<1>12. ListTypes'
  BY <1>1, <1>2, <1>3, <1>5, <1>10, <1>11 DEF ListTypes
<1> QED
  BY <1>7, <1>9, <1>12 DEF ListInv

LEMMA ReceiveFailsStep ==
    ASSUME L!SizesAssumption, ListInv, L!ReceiveFails PROVE ListInv'
<1>1. /\ listStep = "receive" /\ listStep' = "done" /\ listSt' # "OK"
      /\ UNCHANGED <<mailbox, todo, resp, stray, at, msgs>>
  BY DEF L!ReceiveFails, L!Finish, L!reception
<1>2. ListTypes /\ InOrder /\ Parsed
  BY DEF ListInv
<1>3. ListTypes'
  BY <1>1, <1>2 DEF ListTypes
<1>4. InOrder'
  BY <1>1, <1>2 DEF InOrder
<1>5. Parsed'
  BY <1>1, <1>2 DEF Parsed, Paired, Increasing, Covered
<1>6. NotStarted' /\ Finished'
  BY <1>1 DEF NotStarted, Finished
<1> QED
  BY <1>3, <1>4, <1>5, <1>6 DEF ListInv

\* A header and the line behind it become a message.
LEMMA PairHeaderStep ==
    ASSUME L!SizesAssumption, ListInv, listStep = "parse", at <= Len(resp),
           Len(msgs) < MaxMsgs, L!PairHeader, UNCHANGED <<mailbox, L!reception>>
    PROVE  ListInv'
<1> DEFINE new == L!Result(resp[at], resp[at + 1])
<1>1. /\ resp[at].kind = "header" /\ at < Len(resp) /\ msgs' = Append(msgs, new)
      /\ at' = at + 2 /\ UNCHANGED <<listStep, listSt, mailbox, todo, resp, stray>>
  BY DEF L!PairHeader, L!reception
<1>2. ListTypes /\ InOrder /\ Paired /\ Increasing /\ Covered /\ MaxMsgs \in Nat
  BY DEF ListInv, Parsed, L!SizesAssumption
<1>3. /\ resp \in Seq(RespLine) /\ Len(resp) \in Nat /\ at \in Nat \ {0}
      /\ msgs \in Seq([msg : 1..Messages, text : RespLine]) /\ Len(msgs) \in Nat
      /\ at \in 1..Len(resp) /\ at + 1 \in 1..Len(resp)
  BY <1>1, <1>2, LenProperties DEF ListTypes
<1>4. resp[at] \in RespLine /\ resp[at + 1] \in RespLine
  BY <1>3, ElementOfSeq
<1>5. resp[at] \in OwnLines /\ resp[at].msg \in 1..Messages /\ resp[at].part = 0
  BY <1>1, <1>4, OwnKind
<1>6. /\ new \in [msg : 1..Messages, text : RespLine] /\ new.msg = resp[at].msg
  BY <1>4, <1>5 DEF L!Result
<1> HIDE DEF new
<1>7. /\ msgs' \in Seq([msg : 1..Messages, text : RespLine])
      /\ Len(msgs') = Len(msgs) + 1 /\ msgs'[Len(msgs) + 1] = new
      /\ \A i \in 1..Len(msgs) : msgs'[i] = msgs[i]
  BY <1>1, <1>3, <1>6, AppendProperties
<1>8. \A i \in 1..Len(msgs') : i \in 1..Len(msgs) \/ i = Len(msgs) + 1
  BY <1>3, <1>7
<1>9. Paired'
  <2> SUFFICES ASSUME NEW i \in 1..Len(msgs')
               PROVE  \E a \in 1..Len(resp) :
                         /\ a + 1 <= Len(resp) /\ a + 1 < at' /\ resp[a].kind = "header"
                         /\ msgs'[i] = L!Result(resp[a], resp[a + 1])
    BY <1>1 DEF Paired
  <2>1. CASE i \in 1..Len(msgs)
    <3>1. PICK a \in 1..Len(resp) :
             /\ a + 1 <= Len(resp) /\ a + 1 < at /\ resp[a].kind = "header"
             /\ msgs[i] = L!Result(resp[a], resp[a + 1])
      BY <1>2, <2>1 DEF Paired
    <3>2. a + 1 < at'
      BY <1>1, <1>3, <3>1
    <3> QED
      BY <1>7, <2>1, <3>1, <3>2
  <2>2. CASE i = Len(msgs) + 1
    <3>1. at + 1 <= Len(resp) /\ at + 1 < at'
      BY <1>1, <1>3
    <3> QED
      BY <1>1, <1>3, <1>7, <2>2, <3>1 DEF new
  <2> QED
    BY <1>8, <2>1, <2>2
<1>10. \A i \in 1..Len(msgs) : msgs[i].msg < new.msg
  <2> TAKE i \in 1..Len(msgs)
  <2>1. PICK a \in 1..Len(resp) :
           /\ a + 1 < at /\ resp[a].kind = "header"
           /\ msgs[i] = L!Result(resp[a], resp[a + 1])
    BY <1>2 DEF Paired
  <2>2. resp[a] \in OwnLines /\ resp[a].part = 0 /\ a < at
    <3>1. resp[a] \in RespLine
      BY <1>3, ElementOfSeq
    <3>2. a < at
      BY <1>3, <2>1
    <3> QED
      BY <2>1, <3>1, <3>2, OwnKind
  <2>3. Before(resp[a], resp[at])
    BY <1>2, <1>3, <1>5, <2>2 DEF InOrder, Ordered, Comes
  <2>4. resp[a].msg < resp[at].msg
    BY <1>5, <2>2, <2>3 DEF Before
  <2> QED
    BY <1>6, <2>1, <2>4 DEF L!Result
<1>11. Increasing'
  <2> SUFFICES ASSUME NEW i \in 1..Len(msgs'), NEW j \in 1..Len(msgs'), i < j
               PROVE  msgs'[i].msg < msgs'[j].msg
    BY DEF Increasing
  <2>1. i \in 1..Len(msgs)
    BY <1>3, <1>7
  <2>2. CASE j \in 1..Len(msgs)
    BY <1>2, <1>7, <2>1, <2>2 DEF Increasing
  <2>3. CASE j = Len(msgs) + 1
    BY <1>7, <1>10, <2>1, <2>3
  <2> QED
    BY <1>8, <2>2, <2>3
<1>12. Covered'
  <2> SUFFICES ASSUME NEW b \in 1..Len(resp), b < at', resp[b].kind = "header"
               PROVE  \/ \E i \in 1..Len(msgs') : msgs'[i].msg = resp[b].msg
                      \/ b > 1 /\ resp[b - 1].kind = "header"
    BY <1>1 DEF Covered
  <2>1. b < at \/ b = at \/ b = at + 1
    BY <1>1, <1>3
  <2>2. CASE b < at
    <3>1. \A i \in 1..Len(msgs) : i \in 1..Len(msgs')
      BY <1>3, <1>7
    <3> QED
      BY <1>2, <1>7, <2>2, <3>1 DEF Covered
  <2>3. CASE b = at
    <3>1. Len(msgs) + 1 \in 1..Len(msgs')
      BY <1>3, <1>7
    <3> QED
      BY <1>6, <1>7, <2>3, <3>1
  <2>4. CASE b = at + 1
    <3>1. b > 1 /\ b - 1 = at
      BY <1>3, <2>4
    <3> QED
      BY <1>1, <3>1
  <2> QED
    BY <2>1, <2>2, <2>3, <2>4
<1>13. Len(msgs') <= MaxMsgs
  BY <1>2, <1>3, <1>7
<1>14. ListTypes'
  <2>1. at' \in Nat \ {0}
    BY <1>1, <1>3
  <2> QED
    BY <1>1, <1>2, <1>7, <2>1 DEF ListTypes
<1>15. InOrder'
  BY <1>1, <1>2 DEF InOrder
<1> QED
  BY <1>1, <1>9, <1>11, <1>12, <1>13, <1>14, <1>15
     DEF ListInv, Parsed, NotStarted, Finished

\* Any other line is passed over.
LEMMA SkipLineStep ==
    ASSUME ListInv, listStep = "parse", L!SkipLine, UNCHANGED <<mailbox, L!reception>>
    PROVE  ListInv'
<1>1. /\ resp[at].kind # "header" /\ at' = at + 1
      /\ UNCHANGED <<listStep, listSt, mailbox, todo, resp, stray, msgs>>
  BY DEF L!SkipLine, L!reception
<1>2. ListTypes /\ InOrder /\ Paired /\ Increasing /\ Covered /\ Len(msgs) <= MaxMsgs
  BY DEF ListInv, Parsed
<1>3. at \in Nat \ {0} /\ at' \in Nat \ {0}
  BY <1>1, <1>2 DEF ListTypes
<1>4. ListTypes' /\ InOrder'
  BY <1>1, <1>2, <1>3 DEF ListTypes, InOrder
<1>5. Paired'
  <2>1. \A a \in 1..Len(resp) : a + 1 < at => a + 1 < at'
    BY <1>1, <1>3
  <2> QED
    BY <1>1, <1>2, <2>1 DEF Paired
<1>6. Covered'
  <2>1. \A b \in 1..Len(resp) : b < at' => b < at \/ b = at
    BY <1>1, <1>3
  <2> QED
    BY <1>1, <1>2, <2>1 DEF Covered
<1>7. Increasing' /\ Len(msgs') <= MaxMsgs
  BY <1>1, <1>2 DEF Increasing
<1> QED
  BY <1>1, <1>4, <1>5, <1>6, <1>7 DEF ListInv, Parsed, NotStarted, Finished

\* The parser is through, or the caller's array is full.
LEMMA ParserEnds ==
    ASSUME L!SizesAssumption, ListInv, listStep = "parse", L!Finish("OK"),
           UNCHANGED <<at, msgs>>, UNCHANGED <<mailbox, L!reception>>,
           (at <= Len(resp) /\ Len(msgs) < MaxMsgs) => at = Len(resp)
    PROVE  ListInv'
<1>1. /\ listStep' = "done" /\ listSt' = "OK"
      /\ UNCHANGED <<mailbox, todo, resp, stray, at, msgs>>
  BY DEF L!Finish, L!reception
<1>2. ListTypes /\ InOrder /\ Paired /\ Increasing /\ Covered /\ Len(msgs) <= MaxMsgs
  BY DEF ListInv, Parsed
<1>3. /\ at \in Nat \ {0} /\ Len(resp) \in Nat /\ Len(msgs) \in Nat
      /\ MaxMsgs \in Nat
  BY <1>2, LenProperties DEF ListTypes, L!SizesAssumption
<1>4. \/ Len(msgs) = MaxMsgs
      \/ \A b \in 1..Len(resp) : b < at \/ b = Len(resp)
  BY <1>2, <1>3
<1>5. Finished'
  BY <1>1, <1>4 DEF Finished
<1>6. ListTypes' /\ InOrder'
  BY <1>1, <1>2 DEF ListTypes, InOrder
<1>7. Parsed'
  BY <1>1, <1>2 DEF Parsed, Paired, Increasing, Covered
<1> QED
  BY <1>1, <1>5, <1>6, <1>7 DEF ListInv, NotStarted

LEMMA ParseStep ==
    ASSUME L!SizesAssumption, ListInv, L!Parse PROVE ListInv'
<1>1. listStep = "parse" /\ UNCHANGED <<mailbox, L!reception>>
  BY DEF L!Parse
<1>2. CASE at <= Len(resp) /\ Len(msgs) < MaxMsgs
  <2>1. CASE L!PairHeader
    BY <1>1, <1>2, <2>1, PairHeaderStep
  <2>2. CASE L!LastHeader
    BY <1>1, <1>2, <2>2, ParserEnds DEF L!LastHeader
  <2>3. CASE L!SkipLine
    BY <1>1, <2>3, SkipLineStep
  <2> QED
    BY <1>2, <2>1, <2>2, <2>3 DEF L!Parse
<1>3. CASE ~(at <= Len(resp) /\ Len(msgs) < MaxMsgs)
  <2>1. L!Finish("OK") /\ UNCHANGED <<at, msgs>>
    BY <1>3 DEF L!Parse
  <2> QED
    BY <1>1, <1>3, <2>1, ParserEnds
<1> QED
  BY <1>2, <1>3

LEMMA ListUnchanged == ASSUME ListInv, UNCHANGED L!vars PROVE ListInv'
<1>1. UNCHANGED <<mailbox, todo, resp, stray, listStep, listSt, at, msgs>>
  BY DEF L!vars, L!reception
<1>2. ListTypes' /\ InOrder'
  BY <1>1 DEF ListInv, ListTypes, InOrder
<1>3. Parsed' /\ NotStarted' /\ Finished'
  BY <1>1 DEF ListInv, Parsed, Paired, Increasing, Covered, NotStarted, Finished
<1> QED
  BY <1>2, <1>3 DEF ListInv

LEMMA ListStep == L!SizesAssumption /\ ListInv /\ [L!Next]_(L!vars) => ListInv'
BY NextLineStep, StrayStep, ReceiveFailsStep, ParseStep, ListUnchanged DEF L!Next

\* Nothing stored and nothing parsed.
LEMMA NothingListed ==
    ASSUME L!SizesAssumption, resp = <<>>, msgs = <<>>, at = 1, Ordered(todo),
           listSt = "none"
    PROVE  InOrder /\ NotStarted /\ Parsed /\ Finished
<1>1. Len(resp) = 0 /\ Len(msgs) = 0 /\ MaxMsgs \in Nat
  BY EmptySeq DEF L!SizesAssumption
<1>2. InOrder
  BY <1>1 DEF InOrder, Ordered
<1>3. Parsed
  BY <1>1 DEF Parsed, Paired, Increasing, Covered
<1> QED
  BY <1>2, <1>3 DEF NotStarted, Finished

LEMMA ListInit == L!SizesAssumption /\ L!Init => ListInv
<1> SUFFICES ASSUME L!SizesAssumption, L!Init PROVE ListInv
  OBVIOUS
<1>1. /\ mailbox \in [1..Messages -> Texts] /\ todo = L!Sent /\ resp = <<>> /\ stray = 0
      /\ listStep = "receive" /\ at = 1 /\ msgs = <<>> /\ listSt = "none"
  BY DEF L!Init
<1>2. PICK s : Lists(s, Messages) /\ L!Sent = Append(s, L!FinalOk)
  BY <1>1, SentIs
<1>3. s \in Seq(OwnLines) /\ Ordered(s) /\ Len(s) \in Nat
  BY <1>2, LenProperties DEF Lists
<1>4. s \in Seq(SentLine) /\ L!FinalOk \in SentLine
  BY <1>3, SeqMonotonic DEF SentLine
<1>5. /\ todo \in Seq(SentLine) /\ Len(todo) = Len(s) + 1
      /\ todo[Len(s) + 1] = L!FinalOk /\ \A i \in 1..Len(s) : todo[i] = s[i]
  BY <1>1, <1>2, <1>4, AppendProperties
<1>6. Ordered(todo)
  <2> SUFFICES ASSUME NEW i \in 1..Len(todo), NEW j \in 1..Len(todo), i < j
               PROVE  Comes(todo[i], todo[j])
    BY DEF Ordered
  <2>1. i \in 1..Len(s) /\ (j \in 1..Len(s) \/ j = Len(s) + 1)
    BY <1>3, <1>5
  <2>2. CASE j \in 1..Len(s)
    BY <1>3, <1>5, <2>1, <2>2 DEF Ordered
  <2>3. CASE j = Len(s) + 1
    BY <1>5, <2>3, StrangeLines DEF Comes
  <2> QED
    BY <2>1, <2>2, <2>3
<1>7. ListTypes
  <2>1. /\ resp \in Seq(RespLine) /\ Len(resp) = 0
        /\ msgs \in Seq([msg : 1..Messages, text : RespLine])
    BY <1>1, EmptySeq
  <2> QED
    BY <1>1, <1>5, <2>1 DEF ListTypes
<1> QED
  BY <1>1, <1>6, <1>7, NothingListed DEF ListInv

LEMMA ListAtRest == ASSUME L!SizesAssumption, ListingRests PROVE ListInv
<1>1. /\ todo = <<>> /\ resp = <<>> /\ stray = MaxStray
      /\ listStep = "done" /\ at = 1 /\ msgs = <<>> /\ listSt = "none"
  BY DEF ListingRests
<1>2. Ordered(todo)
  BY <1>1, EmptySeq DEF Ordered
<1>3. ListTypes
  <2>1. /\ resp \in Seq(RespLine) /\ Len(resp) = 0 /\ todo \in Seq(SentLine)
        /\ msgs \in Seq([msg : 1..Messages, text : RespLine])
    BY <1>1, EmptySeq
  <2> QED
    BY <1>1, <2>1 DEF ListTypes, L!SizesAssumption
<1> QED
  BY <1>1, <1>2, <1>3, NothingListed DEF ListInv

-----------------------------------------------------------------------------
(* What the invariant gives for the messages of a listing.                   *)

LEMMA ShapeIs ==
    ASSUME L!SizesAssumption, ListInv, L!Listed, NEW m \in 1..Messages
    PROVE  /\ mailbox \in [1..Messages -> Texts] /\ mailbox[m] \in Seq(Nat)
           /\ L!HasText(m) => mailbox[m][1] \in Nat
<1>1. mailbox \in [1..Messages -> Texts]
  BY DEF ListInv, ListTypes, L!Listed
<1>2. mailbox[m] \in Seq(Nat)
  BY <1>1 DEF L!SizesAssumption
<1>3. L!HasText(m) => mailbox[m][1] \in Nat
  <2> SUFFICES ASSUME L!HasText(m) PROVE mailbox[m][1] \in Nat
    OBVIOUS
  <2>1. Len(mailbox[m]) \in Nat \ {0}
    BY <1>2, EmptySeq, LenProperties DEF L!HasText
  <2>2. 1 \in 1..Len(mailbox[m])
    BY <2>1
  <2> QED
    BY <1>2, <2>2, ElementOfSeq
<1> QED
  BY <1>1, <1>2, <1>3

\* A stored first line of a text stands right behind its header.
LEMMA TextIsNext ==
    ASSUME L!SizesAssumption, ListInv, L!Listed, stray = 0,
           NEW a \in 1..Len(resp), resp[a].kind = "header",
           L!HasText(resp[a].msg), L!InResponse(L!Body(resp[a].msg, 1))
    PROVE  a + 1 \in 1..Len(resp) /\ resp[a + 1] = L!Body(resp[a].msg, 1)
<1> DEFINE m == resp[a].msg
           first == L!Body(m, 1)
<1>1. /\ Len(resp) \in Nat /\ DOMAIN resp = 1..Len(resp)
      /\ \A i \in 1..Len(resp) : resp[i] \in OwnLines
  BY LenProperties DEF ListInv, ListTypes
<1>2. resp[a] \in OwnLines /\ m \in 1..Messages /\ resp[a].part = 0
  BY <1>1, OwnKind
<1>3. first \in OwnLines /\ first.kind = "body" /\ first.msg = m /\ first.part = 1
  <2>1. mailbox[m][1] \in Nat
    BY <1>2, ShapeIs
  <2> HIDE DEF m
  <2>2. PICK one \in Nat \ {0} : one = 1
    OBVIOUS
  <2>3. mailbox[m][one] \in Nat
    BY <2>1, <2>2
  <2>4. /\ L!Body(m, one) \in OwnLines /\ L!Body(m, one).kind = "body"
        /\ L!Body(m, one).msg = m /\ L!Body(m, one).part = one
    BY <1>2, <2>3, BodyOwn
  <2> QED
    BY <2>2, <2>4
<1>4. PICK b \in 1..Len(resp) : resp[b] = first
  BY <1>1 DEF L!InResponse
<1> HIDE DEF first, m
<1>5. Ordered(resp)
  BY DEF ListInv, InOrder
<1>6. resp[a].msg = m
  BY DEF m
<1>7. a < b
  <2>1. a # b
    BY <1>3, <1>4
  <2>2. ~(b < a)
    <3> SUFFICES ASSUME b < a PROVE FALSE
      OBVIOUS
    <3>1. Before(first, resp[a])
      BY <1>2, <1>3, <1>4, <1>5 DEF Ordered, Comes
    <3> QED
      BY <1>2, <1>3, <1>6, <3>1 DEF Before
  <2> QED
    BY <1>1, <2>1, <2>2
<1>8. a + 1 \in 1..Len(resp)
  BY <1>1, <1>7
<1>9. ~(a + 1 < b)
  <2> SUFFICES ASSUME a + 1 < b PROVE FALSE
    OBVIOUS
  <2>1. resp[a + 1] \in OwnLines /\ a < a + 1
    BY <1>1, <1>8
  <2>2. Before(resp[a], resp[a + 1]) /\ Before(resp[a + 1], first)
    BY <1>2, <1>3, <1>4, <1>5, <1>8, <2>1 DEF Ordered, Comes
  <2>3. resp[a + 1].msg \in Nat /\ resp[a + 1].part \in Nat
    BY <2>1, OwnKind
  <2> QED
    BY <1>2, <1>3, <1>6, <2>2, <2>3 DEF Before
<1>10. b = a + 1
  BY <1>1, <1>7, <1>9
<1> QED
  BY <1>4, <1>8, <1>10 DEF first, m

LEMMA StoredWholeIsOwnInv ==
    L!SizesAssumption /\ ListInv => L!StoredWholeIsOwn
<1> SUFFICES ASSUME L!SizesAssumption, ListInv PROVE L!StoredWholeIsOwn
  OBVIOUS
<1>1. DOMAIN msgs = 1..Len(msgs)
  BY LenProperties DEF ListInv, ListTypes
<1>2. \A i, j \in DOMAIN msgs : i < j => msgs[i].msg < msgs[j].msg
  BY <1>1 DEF ListInv, Parsed, Increasing
<1>3. ASSUME L!Listed, stray = 0, NEW i \in DOMAIN msgs,
             L!HasText(msgs[i].msg), L!InResponse(L!Body(msgs[i].msg, 1))
      PROVE  msgs[i].text = L!Body(msgs[i].msg, 1)
  <2>1. PICK a \in 1..Len(resp) :
           resp[a].kind = "header" /\ msgs[i] = L!Result(resp[a], resp[a + 1])
    BY <1>1 DEF ListInv, Parsed, Paired
  <2>2. msgs[i].msg = resp[a].msg /\ msgs[i].text = resp[a + 1]
    BY <2>1 DEF L!Result
  <2>3. L!HasText(resp[a].msg) /\ L!InResponse(L!Body(resp[a].msg, 1))
    BY <1>3, <2>2
  <2>4. resp[a + 1] = L!Body(resp[a].msg, 1)
    BY <1>3, <2>1, <2>3, TextIsNext
  <2> QED
    BY <2>2, <2>4
<1> QED
  BY <1>2, <1>3 DEF L!StoredWholeIsOwn

\* When only blank lines were left out, every header and every first line of a
\* text is there.
LEMMA AllStored ==
    ASSUME L!SizesAssumption, ListInv, L!Listed, L!Whole,
           NEW m \in 1..Messages, L!HasText(m)
    PROVE  L!InResponse(L!Header(m)) /\ L!InResponse(L!Body(m, 1))
<1>1. mailbox \in [1..Messages -> Texts] /\ mailbox[m][1] \in Nat
  BY ShapeIs
<1>2. PICK s : Lists(s, Messages) /\ L!Sent = Append(s, L!FinalOk)
  BY <1>1, SentIs
<1>3. s \in Seq(OwnLines) /\ Len(s) \in Nat
  BY <1>2, LenProperties DEF Lists
<1>4. s \in Seq(SentLine) /\ L!FinalOk \in SentLine
  BY <1>3, SeqMonotonic DEF SentLine
<1>5. Len(L!Sent) = Len(s) + 1 /\ \A i \in 1..Len(s) : L!Sent[i] = s[i]
  BY <1>2, <1>4, AppendProperties
<1>6. \A i \in 1..Len(s) : i \in 1..(Len(L!Sent) - 1)
  BY <1>3, <1>5
<1>7. \A l : IsIn(l, s) /\ l.len > 0 => L!InResponse(l)
  BY <1>5, <1>6 DEF L!Whole, IsIn
<1>8. IsIn(L!Header(m), s) /\ IsIn(L!Body(m, 1), s)
  BY <1>2 DEF Lists, L!HasText
<1>9. L!Header(m).len > 0
  BY HeaderOwn
<1>10. L!Body(m, 1).len > 0
  BY DEF L!HasText, L!Body, L!Line
<1> QED
  BY <1>7, <1>8, <1>9, <1>10

\* Nothing missing, nothing between, no text that begins with an empty line.
Undisturbed ==
    /\ L!Listed /\ stray = 0 /\ L!Whole
    /\ \A m \in 1..Messages : L!HasText(m)

\* Then each header has its text behind it.
LEMMA HeaderHasText ==
    ASSUME L!SizesAssumption, ListInv, Undisturbed,
           NEW a \in 1..Len(resp), resp[a].kind = "header"
    PROVE  /\ resp[a].msg \in 1..Messages /\ a + 1 \in 1..Len(resp)
           /\ resp[a + 1] = L!Body(resp[a].msg, 1) /\ resp[a + 1].kind = "body"
<1>1. resp[a] \in OwnLines
  BY DEF ListInv, ListTypes, Undisturbed
<1>2. resp[a].msg \in 1..Messages
  BY <1>1, OwnKind
<1>3. L!HasText(resp[a].msg)
  BY <1>2 DEF Undisturbed
<1>4. L!InResponse(L!Body(resp[a].msg, 1))
  BY <1>2, <1>3, AllStored DEF Undisturbed
<1>5. a + 1 \in 1..Len(resp) /\ resp[a + 1] = L!Body(resp[a].msg, 1)
  BY <1>3, <1>4, TextIsNext DEF Undisturbed
<1>6. L!Body(resp[a].msg, 1).kind = "body"
  BY DEF L!Body, L!Line
<1> QED
  BY <1>2, <1>5, <1>6

\* Each message for the caller is one of the mailbox with its own text.
LEMMA MessageIs ==
    ASSUME L!SizesAssumption, ListInv, Undisturbed, NEW i \in 1..Len(msgs)
    PROVE  /\ msgs[i].msg \in 1..Messages
           /\ msgs[i] = L!Result(L!Header(msgs[i].msg), L!Body(msgs[i].msg, 1))
           /\ \E a \in 1..Len(resp) : /\ a < at /\ resp[a] \in OwnLines
                                      /\ resp[a].msg = msgs[i].msg /\ resp[a].part = 0
<1>1. PICK a \in 1..Len(resp) :
         /\ a + 1 < at /\ resp[a].kind = "header"
         /\ msgs[i] = L!Result(resp[a], resp[a + 1])
  BY DEF ListInv, Parsed, Paired
<1>2. /\ resp[a].msg \in 1..Messages
      /\ resp[a + 1] = L!Body(resp[a].msg, 1)
  BY <1>1, HeaderHasText
<1>3. msgs[i].msg = resp[a].msg
  BY <1>1 DEF L!Result
<1>4. L!Header(resp[a].msg).msg = resp[a].msg
  BY DEF L!Header, L!Line
<1>5. msgs[i] = L!Result(L!Header(msgs[i].msg), L!Body(msgs[i].msg, 1))
  BY <1>1, <1>2, <1>3, <1>4 DEF L!Result
<1>6. resp[a] \in OwnLines /\ at \in Nat
  BY DEF ListInv, ListTypes, Undisturbed
<1>7. resp[a].part = 0 /\ a < at
  BY <1>1, <1>6, OwnKind
<1> QED
  BY <1>1, <1>2, <1>3, <1>5, <1>6, <1>7

\* The message of a header the parser has passed is the caller's.
LEMMA PassedIsGiven ==
    ASSUME L!SizesAssumption, ListInv, Undisturbed,
           NEW b \in 1..Len(resp), b < at, resp[b].kind = "header"
    PROVE  \E i \in 1..Len(msgs) : msgs[i].msg = resp[b].msg
<1>1. ~(b > 1 /\ resp[b - 1].kind = "header")
  <2> SUFFICES ASSUME b > 1, resp[b - 1].kind = "header" PROVE FALSE
    OBVIOUS
  <2>1. b - 1 \in 1..Len(resp) /\ (b - 1) + 1 = b
    OBVIOUS
  <2>2. resp[(b - 1) + 1].kind = "body"
    BY <2>1, HeaderHasText
  <2> QED
    BY <2>1, <2>2
<1> QED
  BY <1>1 DEF ListInv, Parsed, Covered

\* Where the header of a message stands.
LEMMA HeaderStands ==
    ASSUME L!SizesAssumption, ListInv, Undisturbed, NEW m \in 1..Messages
    PROVE  \E b \in 1..Len(resp) :
              /\ resp[b].kind = "header" /\ resp[b] \in OwnLines
              /\ resp[b].msg = m /\ resp[b].part = 0
<1>1. L!InResponse(L!Header(m))
  BY AllStored DEF Undisturbed
<1>2. DOMAIN resp = 1..Len(resp)
  BY LenProperties DEF ListInv, ListTypes
<1>3. PICK b \in 1..Len(resp) : resp[b] = L!Header(m)
  BY <1>1, <1>2 DEF L!InResponse
<1>4. L!Header(m) \in OwnLines /\ L!Header(m).kind = "header"
        /\ L!Header(m).msg = m /\ L!Header(m).part = 0
  BY HeaderOwn
<1> QED
  BY <1>3, <1>4

\* What comes before a message of the caller is the caller's too.
LEMMA NoneLeftOut ==
    ASSUME L!SizesAssumption, ListInv, Undisturbed,
           NEW i \in 1..Len(msgs), NEW m \in 1..Messages, m < msgs[i].msg
    PROVE  \E j \in 1..Len(msgs) : msgs[j].msg = m
<1>1. PICK a \in 1..Len(resp) : /\ a < at /\ resp[a] \in OwnLines
                                /\ resp[a].msg = msgs[i].msg /\ resp[a].part = 0
  BY MessageIs
<1>2. PICK b \in 1..Len(resp) :
         /\ resp[b].kind = "header" /\ resp[b] \in OwnLines
         /\ resp[b].msg = m /\ resp[b].part = 0
  BY HeaderStands
<1>3. ~(a < b)
  <2> SUFFICES ASSUME a < b PROVE FALSE
    OBVIOUS
  <2>1. Before(resp[a], resp[b])
    BY <1>1, <1>2 DEF ListInv, InOrder, Ordered, Comes
  <2>2. resp[a].msg \in Nat
    BY <1>1, OwnKind
  <2> QED
    BY <1>1, <1>2, <2>1, <2>2 DEF Before
<1>4. b < at
  <2>1. at \in Nat
    BY DEF ListInv, ListTypes
  <2> QED
    BY <1>1, <1>3, <2>1
<1> QED
  BY <1>2, <1>4, PassedIsGiven

\* The i-th message for the caller is the i-th of the mailbox.
LEMMA InTheirPlaces ==
    ASSUME L!SizesAssumption, ListInv, Undisturbed
    PROVE  \A i \in 1..Len(msgs) : msgs[i].msg = i
<1> DEFINE T == {i \in 1..Len(msgs) : msgs[i].msg # i}
<1>1. SUFFICES ASSUME T # {} PROVE FALSE
  OBVIOUS
<1>2. T \in SUBSET Nat /\ Len(msgs) \in Nat
  BY LenProperties DEF ListInv, ListTypes
<1>3. PICK i \in T : \A j \in T : i <= j
  BY <1>1, <1>2, LeastNat
<1>4. i \in 1..Len(msgs) /\ msgs[i].msg # i
  OBVIOUS
<1>5. \A j \in 1..Len(msgs) : j < i => msgs[j].msg = j
  BY <1>3, <1>4
<1> HIDE DEF T
<1>6. msgs[i].msg \in 1..Messages /\ Messages \in Nat
  BY <1>4, MessageIs DEF L!SizesAssumption
<1>7. \A j, k \in 1..Len(msgs) : j < k => msgs[j].msg < msgs[k].msg
  BY DEF ListInv, Parsed, Increasing
<1>8. i < msgs[i].msg
  <2>1. CASE i = 1
    BY <1>4, <1>6, <2>1
  <2>2. CASE i # 1
    <3>1. i - 1 \in 1..Len(msgs) /\ i - 1 < i
      BY <1>4, <2>2
    <3>2. i - 1 < msgs[i].msg
      BY <1>4, <1>5, <1>7, <3>1
    <3> QED
      BY <1>4, <1>6, <3>2
  <2> QED
    BY <2>1, <2>2
<1>9. i \in 1..Messages
  BY <1>4, <1>6, <1>8
<1>10. PICK j \in 1..Len(msgs) : msgs[j].msg = i
  BY <1>4, <1>8, <1>9, NoneLeftOut
<1>11. CASE j < i
  BY <1>5, <1>10, <1>11
<1>12. CASE j = i
  BY <1>4, <1>10, <1>12
<1>13. CASE i < j
  <2>1. msgs[i].msg < msgs[j].msg
    BY <1>4, <1>7, <1>13
  <2> QED
    BY <1>4, <1>6, <1>8, <1>10, <2>1
<1> QED
  BY <1>2, <1>4, <1>11, <1>12, <1>13

\* As many as there are, or as many as the caller has room for.
LEMMA AsManyAsFit ==
    ASSUME L!SizesAssumption, ListInv, Undisturbed
    PROVE  Len(msgs) = IF Messages < MaxMsgs THEN Messages ELSE MaxMsgs
<1>1. /\ Len(msgs) \in Nat /\ Len(msgs) <= MaxMsgs
      /\ Messages \in Nat /\ MaxMsgs \in Nat
  BY LenProperties DEF ListInv, ListTypes, Parsed, L!SizesAssumption
<1>2. \A i \in 1..Len(msgs) : msgs[i].msg = i
  BY InTheirPlaces
<1>3. Len(msgs) <= Messages
  <2>1. CASE Len(msgs) = 0
    BY <1>1, <2>1
  <2>2. CASE Len(msgs) # 0
    <3>1. PICK n \in 1..Len(msgs) : n = Len(msgs)
      BY <1>1, <2>2
    <3>2. msgs[n].msg \in 1..Messages
      BY MessageIs
    <3> QED
      BY <1>1, <1>2, <3>1, <3>2
  <2> QED
    BY <2>1, <2>2
<1>4. Len(msgs) = MaxMsgs \/ Len(msgs) = Messages
  <2> SUFFICES ASSUME Len(msgs) # MaxMsgs, Len(msgs) # Messages PROVE FALSE
    OBVIOUS
  <2>1. PICK m \in 1..Messages : m = Len(msgs) + 1
    BY <1>1, <1>3
  <2>2. PICK b \in 1..Len(resp) : resp[b].kind = "header" /\ resp[b].msg = m
    BY HeaderStands
  <2>3. b < at \/ b = Len(resp)
    BY <2>2 DEF ListInv, Finished, Undisturbed, L!Listed
  <2>4. b # Len(resp)
    <3>1. b + 1 \in 1..Len(resp)
      BY <2>2, HeaderHasText
    <3> QED
      BY <3>1
  <2>5. PICK i \in 1..Len(msgs) : msgs[i].msg = m
    BY <2>2, <2>3, <2>4, PassedIsGiven
  <2> QED
    BY <1>1, <1>2, <2>1, <2>5
<1> QED
  BY <1>1, <1>3, <1>4

LEMMA ExactWhenItFitsInv ==
    L!SizesAssumption /\ ListInv => L!ExactWhenItFits
<1> SUFFICES ASSUME L!SizesAssumption, ListInv PROVE L!ExactWhenItFits
  OBVIOUS
<1> DEFINE most == IF Messages < MaxMsgs THEN Messages ELSE MaxMsgs
           exact == [m \in 1..most |-> L!Result(L!Header(m), L!Body(m, 1))]
<1>1. SUFFICES ASSUME Undisturbed PROVE msgs = exact
  BY DEF L!ExactWhenItFits, Undisturbed
<1>2. msgs = [i \in 1..Len(msgs) |-> msgs[i]]
  BY LenProperties DEF ListInv, ListTypes
<1>3. Len(msgs) = most
  BY <1>1, AsManyAsFit
<1> HIDE DEF most
<1>4. \A i \in 1..Len(msgs) : msgs[i] = L!Result(L!Header(i), L!Body(i, 1))
  <2> TAKE i \in 1..Len(msgs)
  <2>1. msgs[i].msg = i
    BY <1>1, InTheirPlaces
  <2>2. msgs[i] = L!Result(L!Header(msgs[i].msg), L!Body(msgs[i].msg, 1))
    BY <1>1, MessageIs
  <2> QED
    BY <2>1, <2>2
<1> QED
  BY <1>2, <1>3, <1>4

-----------------------------------------------------------------------------

LEMMA ListInvHolds == Spec => []ListInv
<1>1. L!SizesAssumption
  BY RepliesAssumption
<1>2. Init => ListInv
  BY <1>1, ListInit, ListAtRest DEF Init
<1>3. ListInv /\ [Next]_vars => ListInv'
  <2> SUFFICES ASSUME ListInv, [Next]_vars PROVE ListInv'
    OBVIOUS
  <2>1. L!Next \/ UNCHANGED listingVars
    BY DEF Next, vars
  <2>2. UNCHANGED listingVars => UNCHANGED L!vars
    BY DEF listingVars, L!vars, L!reception
  <2> QED
    BY <1>1, <2>1, <2>2, ListStep
<1> QED
  BY <1>2, <1>3, PTL DEF Spec

-----------------------------------------------------------------------------
(* The fields of a line.  Rank(k) counts the fields that begin before k.     *)

LEMMA CardinalityIs == ASSUME NEW S PROVE F!Cardinality(S) = Cardinality(S)
BY DEF F!Cardinality, Cardinality

FieldTypes ==
    /\ op \in {"int", "copy", "none"} /\ text \in Seq(F!Character) /\ index \in Nat
    /\ phase \in {"lead", "scan", "skip", "first", "digits", "copy", "done", "rests"}
    /\ p \in 1..(Len(text) + 1) /\ field \in Nat
    /\ quoted \in BOOLEAN /\ neg \in BOOLEAN /\ value \in Nat
    /\ out \in Seq(F!Character)

LEMMA TextFacts ==
    ASSUME FieldTypes
    PROVE  /\ Len(text) \in Nat /\ DOMAIN text = 1..Len(text)
           /\ \A i \in 1..Len(text) : text[i] \in F!Character
BY LenProperties, ElementOfSeq DEF FieldTypes

LEMMA StartsAre ==
    ASSUME FieldTypes
    PROVE  /\ F!Starts \in SUBSET (1..(Len(text) + 1)) /\ F!Starts \in SUBSET Nat
           /\ IsFiniteSet(F!Starts) /\ 1 \in F!Starts
           /\ F!Commas \in SUBSET (1..Len(text)) /\ F!Commas \in SUBSET Nat
<1>1. Len(text) \in Nat /\ DOMAIN text = 1..Len(text)
  BY TextFacts
<1>2. F!Commas \in SUBSET (1..Len(text))
  BY <1>1, Zenon DEF F!Commas
<1>3. F!Starts = {1} \cup {k + 1 : k \in F!Commas}
  BY DEF F!Starts
<1>4. F!Starts \in SUBSET (1..(Len(text) + 1)) /\ 1 \in F!Starts
  BY <1>1, <1>2, <1>3
<1>5. IsFiniteSet(F!Starts)
  <2>1. IsFiniteSet(1..(Len(text) + 1))
    BY <1>1, FS_Interval
  <2> QED
    BY <1>4, <2>1, FS_Subset
<1>6. 1..(Len(text) + 1) \in SUBSET Nat /\ 1..Len(text) \in SUBSET Nat
  BY <1>1
<1> QED
  BY <1>2, <1>4, <1>5, <1>6, Zenon

LEMMA RankIs ==
    ASSUME FieldTypes, NEW k
    PROVE  /\ IsFiniteSet({j \in F!Starts : j < k}) /\ F!Rank(k) \in Nat
           /\ F!Rank(k) = Cardinality({j \in F!Starts : j < k})
<1>1. IsFiniteSet(F!Starts)
  BY StartsAre
<1>2. {j \in F!Starts : j < k} \in SUBSET F!Starts
  OBVIOUS
<1>3. IsFiniteSet({j \in F!Starts : j < k})
  BY <1>1, <1>2, FS_Subset
<1>4. F!Rank(k) = Cardinality({j \in F!Starts : j < k})
  BY CardinalityIs DEF F!Rank
<1> QED
  BY <1>3, <1>4, FS_CardinalityType

LEMMA RankNext ==
    ASSUME FieldTypes, NEW k \in Nat
    PROVE  F!Rank(k + 1) = IF k \in F!Starts THEN F!Rank(k) + 1 ELSE F!Rank(k)
<1> DEFINE S == {j \in F!Starts : j < k}
<1>1. F!Starts \in SUBSET Nat
  BY StartsAre
<1>2. IsFiniteSet(S) /\ F!Rank(k) = Cardinality(S)
  BY RankIs
<1>3. F!Rank(k + 1) = Cardinality({j \in F!Starts : j < k + 1})
  BY RankIs
<1>4. \A j \in F!Starts : j < k + 1 <=> j < k \/ j = k
  BY <1>1
<1>5. k \notin S
  OBVIOUS
<1>6. CASE k \in F!Starts
  <2>1. {j \in F!Starts : j < k + 1} = S \cup {k}
    BY <1>4, <1>6
  <2> HIDE DEF S
  <2> QED
    BY <1>2, <1>3, <1>5, <1>6, <2>1, FS_AddElement
<1>7. CASE k \notin F!Starts
  <2>1. {j \in F!Starts : j < k + 1} = S
    BY <1>4, <1>7
  <2> QED
    BY <1>2, <1>3, <1>7, <2>1
<1> QED
  BY <1>6, <1>7

\* No two fields have the same rank.
LEMMA RankGrows ==
    ASSUME FieldTypes, NEW s \in F!Starts, NEW k \in Nat, s < k
    PROVE  F!Rank(s) + 1 <= F!Rank(k)
<1> DEFINE S == {j \in F!Starts : j < s}
           T == {j \in F!Starts : j < k}
<1>1. F!Starts \in SUBSET Nat
  BY StartsAre
<1>2. /\ IsFiniteSet(S) /\ F!Rank(s) = Cardinality(S) /\ F!Rank(s) \in Nat
      /\ IsFiniteSet(T) /\ F!Rank(k) = Cardinality(T) /\ F!Rank(k) \in Nat
  BY RankIs
<1>3. S \cup {s} \in SUBSET T /\ s \notin S
  <2>1. s \in Nat /\ \A j \in F!Starts : j < s => j < k
    BY <1>1
  <2>2. ~(s < s)
    BY <2>1
  <2>3. S \in SUBSET T /\ s \in T /\ s \notin S
    BY <2>1, <2>2
  <2> HIDE DEF S, T
  <2> QED
    BY <2>3
<1> HIDE DEF S, T
<1>4. Cardinality(S \cup {s}) = Cardinality(S) + 1
  BY <1>2, <1>3, FS_AddElement
<1>5. Cardinality(S \cup {s}) <= Cardinality(T)
  BY <1>2, <1>3, FS_Subset
<1> QED
  BY <1>2, <1>4, <1>5

LEMMA RankOnce ==
    ASSUME FieldTypes, NEW s \in F!Starts, NEW t \in F!Starts, F!Rank(s) = F!Rank(t)
    PROVE  s = t
<1>1. s \in Nat /\ t \in Nat /\ F!Rank(s) \in Nat
  BY StartsAre, RankIs
<1>2. ~(s < t)
  BY <1>1, RankGrows
<1>3. ~(t < s)
  BY <1>1, RankGrows
<1> QED
  BY <1>1, <1>2, <1>3

\* Quotes before a character.
Quotes(k) == F!Cardinality(F!QuotesBefore(k))

LEMMA QuotesNext ==
    ASSUME FieldTypes, NEW k \in 1..Len(text)
    PROVE  /\ Quotes(k) \in Nat
           /\ Quotes(k + 1) = IF text[k] = "q" THEN Quotes(k) + 1 ELSE Quotes(k)
<1> DEFINE S == F!QuotesBefore(k)
<1>1. k \in Nat /\ Len(text) \in Nat
  BY TextFacts
<1>2. S \in SUBSET (1..(k - 1))
  BY DEF F!QuotesBefore
<1>3. IsFiniteSet(S) /\ k \notin S
  <2>1. k - 1 \in Int
    BY <1>1
  <2>2. IsFiniteSet(1..(k - 1))
    BY <2>1, FS_Interval
  <2>3. k \notin 1..(k - 1)
    BY <1>1
  <2> QED
    BY <1>2, <2>2, <2>3, FS_Subset
<1>4. Quotes(k) = Cardinality(S) /\ Quotes(k) \in Nat
  BY <1>3, CardinalityIs, FS_CardinalityType DEF Quotes
<1>5. Quotes(k + 1) = Cardinality(F!QuotesBefore(k + 1))
  BY CardinalityIs DEF Quotes
<1>6. \A j : j \in 1..((k + 1) - 1) <=> j \in 1..(k - 1) \/ j = k
  BY <1>1
<1>7. CASE text[k] = "q"
  <2>1. F!QuotesBefore(k + 1) = S \cup {k}
    BY <1>6, <1>7 DEF F!QuotesBefore
  <2> HIDE DEF S
  <2> QED
    BY <1>3, <1>4, <1>5, <1>7, <2>1, FS_AddElement
<1>8. CASE text[k] # "q"
  <2>1. F!QuotesBefore(k + 1) = S
    BY <1>6, <1>8 DEF F!QuotesBefore
  <2> QED
    BY <1>4, <1>5, <1>8, <2>1
<1> QED
  BY <1>4, <1>7, <1>8

LEMMA NoQuotesAtFirst == Quotes(1) = 0
<1>1. F!QuotesBefore(1) = {}
  BY DEF F!QuotesBefore
<1> QED
  BY <1>1, CardinalityIs, FS_EmptySet DEF Quotes

\* A character is a comma between fields, or not.
LEMMA StartsNext ==
    ASSUME FieldTypes, NEW k \in 1..Len(text)
    PROVE  k + 1 \in F!Starts <=> text[k] = "," /\ (op = "int" => Quotes(k) % 2 = 0)
<1>1. DOMAIN text = 1..Len(text) /\ Len(text) \in Nat
  BY TextFacts
<1>2. k + 1 # 1
  BY <1>1
<1>3. \A j \in F!Commas : j \in Nat
  BY StartsAre
<1>4. k + 1 \in F!Starts <=> k \in F!Commas
  <2>1. \A j \in F!Commas : j + 1 = k + 1 => j = k
    BY <1>3
  <2> QED
    BY <1>2, <2>1 DEF F!Starts
<1> QED
  BY <1>1, <1>4 DEF F!Commas, Quotes

-----------------------------------------------------------------------------

\* Up to p there is nothing but spaces after the beginning of the field.
Blank(s) == s <= p /\ \A j \in s..(p - 1) : text[j] = " "

AtText == p = Len(text) + 1 \/ text[p] # " "

FieldAt == \E s \in F!Starts : F!Rank(s) = index /\ Blank(s)

\* A part of the line.
LEMMA PartIs ==
    ASSUME FieldTypes, NEW b \in 1..(Len(text) + 1), NEW e \in (b - 1)..Len(text)
    PROVE  /\ SubSeq(text, b, e) \in Seq(F!Character)
           /\ Len(SubSeq(text, b, e)) = e - b + 1
           /\ \A i \in 1..(e - b + 1) : SubSeq(text, b, e)[i] = text[b + i - 1]
<1>1. Len(text) \in Nat /\ \A i \in 1..Len(text) : text[i] \in F!Character
  BY TextFacts
<1>2. b \in Int /\ e \in Int /\ \A i \in b..e : i \in 1..Len(text)
  BY <1>1
<1>3. /\ SubSeq(text, b, e) \in Seq(F!Character)
      /\ Len(SubSeq(text, b, e)) = IF b <= e THEN e - b + 1 ELSE 0
      /\ \A i \in 1..(e - b + 1) : SubSeq(text, b, e)[i] = text[b + i - 1]
  BY <1>1, <1>2, SubSeqProperties
<1>4. ~(b <= e) => e - b + 1 = 0
  BY <1>1
<1> QED
  BY <1>3, <1>4

\* The beginning of a part.
LEMMA PartOfPart ==
    ASSUME FieldTypes, NEW b \in 1..(Len(text) + 1), NEW e \in (b - 1)..Len(text),
           NEW n \in 0..(e - b + 1)
    PROVE  SubSeq(SubSeq(text, b, e), 1, n) = SubSeq(text, b, b + n - 1)
<1> DEFINE part == SubSeq(text, b, e)
           whole == SubSeq(text, b, b + n - 1)
           cut == SubSeq(part, 1, n)
<1>1. Len(text) \in Nat /\ n \in Int /\ n >= 0
  BY TextFacts
<1>2. b + n - 1 \in (b - 1)..Len(text) /\ (b + n - 1) - b + 1 = n
  BY <1>1
<1>3. /\ part \in Seq(F!Character) /\ Len(part) = e - b + 1
      /\ \A i \in 1..(e - b + 1) : part[i] = text[b + i - 1]
  BY PartIs
<1>4. /\ whole \in Seq(F!Character) /\ Len(whole) = n
      /\ \A i \in 1..n : whole[i] = text[b + i - 1]
  <2> HIDE DEF part
  <2> QED
    BY <1>2, PartIs
<1> HIDE DEF part, whole
<1>5. \A i \in 1..n : i \in 1..(e - b + 1) /\ i \in 1..Len(part)
  BY <1>1, <1>3
<1>6. \A i \in 1..n : part[i] \in F!Character
  BY <1>3, <1>5, ElementOfSeq
<1>7. /\ cut \in Seq(F!Character) /\ Len(cut) = IF 1 <= n THEN n - 1 + 1 ELSE 0
      /\ \A i \in 1..(n - 1 + 1) : cut[i] = part[1 + i - 1]
  BY <1>1, <1>6, SubSeqProperties
<1> HIDE DEF cut
<1>8. Len(cut) = n /\ \A i \in 1..n : cut[i] = part[i]
  <2>1. n - 1 + 1 = n /\ \A i \in 1..n : 1 + i - 1 = i
    BY <1>1
  <2>2. ~(1 <= n) => n = 0
    BY <1>1
  <2> QED
    BY <1>7, <2>1, <2>2
<1>9. \A i \in 1..Len(cut) : cut[i] = whole[i]
  BY <1>3, <1>4, <1>5, <1>8
<1>10. cut = whole
  BY <1>4, <1>7, <1>8, <1>9, SeqEqual
<1> QED
  BY <1>10 DEF cut, whole, part

LEMMA PartEmpty ==
    ASSUME FieldTypes, NEW b \in 1..(Len(text) + 1)
    PROVE  SubSeq(text, b, b - 1) = <<>>
<1>1. b \in Int /\ b - 1 \in Int /\ b - 1 < b
  BY TextFacts
<1> QED
  BY <1>1, SubSeqEmpty

LEMMA PartTail ==
    ASSUME FieldTypes, NEW b \in 1..Len(text)
    PROVE  /\ SubSeq(text, b, Len(text)) # <<>>
           /\ SubSeq(text, b, Len(text))[1] = text[b]
           /\ Tail(SubSeq(text, b, Len(text))) = SubSeq(text, b + 1, Len(text))
<1>1. Len(text) \in Nat /\ text \in Seq(F!Character)
  BY TextFacts DEF FieldTypes
<1>2. /\ b \in 1..(Len(text) + 1) /\ Len(text) \in (b - 1)..Len(text)
      /\ 1 \in 1..(Len(text) - b + 1) /\ b + 1 - 1 = b /\ Len(text) \in b..Len(text)
  BY <1>1
<1>3. /\ Len(SubSeq(text, b, Len(text))) = Len(text) - b + 1
      /\ \A i \in 1..(Len(text) - b + 1) :
            SubSeq(text, b, Len(text))[i] = text[b + i - 1]
  BY <1>2, PartIs
<1>4. SubSeq(text, b, Len(text))[1] = text[b]
  BY <1>2, <1>3
<1>5. SubSeq(text, b, Len(text)) # <<>>
  <2>1. Len(SubSeq(text, b, Len(text))) # 0
    BY <1>1, <1>3
  <2> QED
    BY <2>1, EmptySeq
<1>6. Tail(SubSeq(text, b, Len(text))) = SubSeq(text, b + 1, Len(text))
  BY <1>1, <1>2, HeadTailOfSubSeq
<1> QED
  BY <1>4, <1>5, <1>6

LEMMA LeastIs ==
    ASSUME NEW S \in SUBSET Nat, NEW x \in S, \A y \in S : x <= y
    PROVE  F!Min(S) = x
<1>1. F!Min(S) = CHOOSE z \in S : \A y \in S : z <= y
  BY DEF F!Min
<1>2. F!Min(S) \in S /\ \A y \in S : F!Min(S) <= y
  BY <1>1, Zenon
<1>3. F!Min(S) \in Nat /\ x \in Nat /\ F!Min(S) <= x /\ x <= F!Min(S)
  BY <1>2
<1> QED
  BY <1>3

\* Where the spaces end is the field.
LEMMA RestIs ==
    ASSUME FieldTypes, FieldAt, AtText
    PROVE  F!Present /\ F!Rest = SubSeq(text, p, Len(text))
<1>1. PICK s \in F!Starts : F!Rank(s) = index /\ Blank(s)
  BY DEF FieldAt
<1>2. /\ s \in 1..(Len(text) + 1) /\ s \in Nat /\ s <= p
      /\ p \in 1..(Len(text) + 1) /\ Len(text) \in Nat
  <2>1. s \in 1..(Len(text) + 1) /\ s \in Nat
    BY StartsAre
  <2>2. Len(text) \in Nat
    BY TextFacts
  <2> QED
    BY <1>1, <2>1, <2>2 DEF Blank, FieldTypes
<1>8. \A j \in s..(p - 1) : text[j] = " "
  BY <1>1 DEF Blank
<1>3. F!Present
  <2> DEFINE T == {j \in F!Starts : j < Len(text) + 2}
  <2>1. T = F!Starts
    <3>1. \A j \in 1..(Len(text) + 1) : j < Len(text) + 2
      BY <1>2
    <3>2. \A j \in F!Starts : j < Len(text) + 2
      BY <3>1, StartsAre
    <3> QED
      BY <3>2
  <2>2. F!Rank(Len(text) + 2) = Cardinality(T)
    BY RankIs
  <2>3. F!Rank(s) + 1 <= F!Rank(Len(text) + 2)
    <3>1. Len(text) + 2 \in Nat /\ s < Len(text) + 2
      BY <1>2
    <3> QED
      BY <3>1, RankGrows
  <2>4. F!Present <=> Cardinality(F!Starts) > index
    <3>1. F!Cardinality(F!Starts) = Cardinality(F!Starts)
      BY CardinalityIs
    <3> QED
      BY <3>1, Zenon DEF F!Present
  <2>5. Cardinality(F!Starts) \in Nat /\ index \in Nat
    BY StartsAre, FS_CardinalityType DEF FieldTypes
  <2>6. F!Rank(s) \in Nat
    BY RankIs
  <2> HIDE DEF T
  <2> QED
    BY <1>1, <2>1, <2>2, <2>3, <2>4, <2>5, <2>6
<1> DEFINE k == CHOOSE t \in F!Starts : F!Rank(t) = index
           words == {j \in k..Len(text) : text[j] # " "}
<1>4. k = s
  <2>1. k \in F!Starts /\ F!Rank(k) = index
    BY <1>1
  <2> HIDE DEF k
  <2> QED
    BY <1>1, <2>1, RankOnce
<1>5. F!Rest = IF words = {} THEN <<>> ELSE SubSeq(text, F!Min(words), Len(text))
  BY DEF F!Rest
<1> HIDE DEF k
<1>6. CASE p = Len(text) + 1
  <2>1. words = {}
    <3>1. \A j \in s..Len(text) : j \in s..(p - 1)
      BY <1>2, <1>6
    <3> QED
      BY <1>4, <1>8, <3>1
  <2>2. SubSeq(text, p, Len(text)) = <<>>
    <3>1. p \in Int /\ Len(text) \in Int /\ Len(text) < p
      BY <1>2, <1>6
    <3> QED
      BY <3>1, SubSeqEmpty
  <2> QED
    BY <1>3, <1>5, <2>1, <2>2
<1>7. CASE p # Len(text) + 1
  <2>1. p \in s..Len(text) /\ text[p] # " "
    <3>1. text[p] # " "
      BY <1>7 DEF AtText
    <3>2. p \in s..Len(text)
      BY <1>2, <1>7
    <3> QED
      BY <3>1, <3>2
  <2>2. p \in words
    BY <1>4, <2>1
  <2>3. \A j \in words : p <= j
    <3> TAKE j \in words
    <3>1. j \in s..Len(text) /\ text[j] # " "
      BY <1>4
    <3>2. j \notin s..(p - 1)
      BY <1>8, <3>1
    <3>3. j \in s..Len(text)
      BY <3>1
    <3> HIDE DEF words
    <3> QED
      BY <1>2, <3>2, <3>3
  <2>4. words \in SUBSET Nat
    <3>1. s..Len(text) \in SUBSET Nat
      BY <1>2
    <3> QED
      BY <1>4, <3>1, Zenon
  <2> HIDE DEF words
  <2>5. F!Min(words) = p
    BY <2>2, <2>3, <2>4, LeastIs
  <2> QED
    BY <1>3, <1>5, <2>2, <2>5
<1> QED
  BY <1>6, <1>7

\* The run of characters of C that ends before e.
LEMMA RunIs ==
    ASSUME FieldTypes, NEW C, NEW b \in 1..(Len(text) + 1), NEW e \in b..(Len(text) + 1),
           \A j \in b..(e - 1) : text[j] \in C,
           e = Len(text) + 1 \/ text[e] \notin C
    PROVE  F!Run(SubSeq(text, b, Len(text)), C) = SubSeq(text, b, e - 1)
<1> DEFINE s == SubSeq(text, b, Len(text))
           stops == {j \in DOMAIN s : s[j] \notin C}
<1>1. Len(text) \in Nat
  BY TextFacts
<1>2. Len(text) \in (b - 1)..Len(text) /\ Len(text) - b + 1 \in Nat
  BY <1>1
<1>3. /\ s \in Seq(F!Character) /\ Len(s) = Len(text) - b + 1
      /\ DOMAIN s = 1..Len(s)
      /\ \A i \in 1..(Len(text) - b + 1) : s[i] = text[b + i - 1]
  BY <1>2, PartIs, LenProperties
<1>4. F!Run(s, C) = IF stops = {} THEN s ELSE SubSeq(s, 1, F!Min(stops) - 1)
  BY DEF F!Run
<1> HIDE DEF s
<1>5. \A j \in 1..(e - b) : s[j] \in C
  <2> TAKE j \in 1..(e - b)
  <2>1. b + j - 1 \in b..(e - 1) /\ j \in 1..(Len(text) - b + 1)
    BY <1>1
  <2> QED
    BY <1>3, <2>1
<1>6. CASE e = Len(text) + 1
  <2>1. stops = {}
    <3>1. e - b = Len(s)
      BY <1>1, <1>3, <1>6
    <3> QED
      BY <1>3, <1>5, <3>1
  <2>2. e - 1 = Len(text)
    BY <1>1, <1>6
  <2> QED
    BY <1>4, <2>1, <2>2 DEF s
<1>7. CASE e # Len(text) + 1
  <2>1. text[e] \notin C /\ e \in b..Len(text)
    BY <1>1, <1>7
  <2>2. /\ e - b + 1 \in 1..(Len(text) - b + 1) /\ b + (e - b + 1) - 1 = e
    BY <1>1, <2>1
  <2>3. s[e - b + 1] = text[e]
    BY <1>3, <2>2
  <2>4. e - b + 1 \in stops
    BY <1>3, <2>1, <2>2, <2>3
  <2>5. \A j \in stops : e - b + 1 <= j
    <3> TAKE j \in stops
    <3>1. j \in 1..(Len(text) - b + 1) /\ s[j] \notin C
      BY <1>3
    <3>2. j \notin 1..(e - b)
      BY <1>5, <3>1
    <3> QED
      BY <1>1, <3>1, <3>2
  <2>6. stops \in SUBSET Nat
    BY <1>3
  <2> HIDE DEF stops
  <2>7. F!Min(stops) = e - b + 1
    BY <2>4, <2>5, <2>6, LeastIs
  <2>8. F!Run(s, C) = SubSeq(s, 1, e - b)
    <3>1. (e - b + 1) - 1 = e - b
      BY <1>1
    <3> QED
      BY <1>4, <2>4, <2>7, <3>1
  <2>9. SubSeq(s, 1, e - b) = SubSeq(text, b, b + (e - b) - 1)
    <3>1. e - b \in 0..(Len(text) - b + 1)
      BY <1>1
    <3> QED
      BY <1>2, <3>1, PartOfPart DEF s
  <2>10. b + (e - b) - 1 = e - 1
    BY <1>1
  <2> QED
    BY <2>8, <2>9, <2>10 DEF s
<1> QED
  BY <1>6, <1>7 DEF s

\* A run ends somewhere, and not within.
LEMMA RunEnds ==
    ASSUME FieldTypes, NEW C, NEW b \in 1..(Len(text) + 1), b <= p,
           \A j \in b..(p - 1) : text[j] \in C
    PROVE  \E e \in p..(Len(text) + 1) :
              /\ \A j \in b..(e - 1) : text[j] \in C
              /\ e = Len(text) + 1 \/ text[e] \notin C
<1> DEFINE T == {e \in p..(Len(text) + 1) : e = Len(text) + 1 \/ text[e] \notin C}
<1>1. Len(text) \in Nat /\ p \in 1..(Len(text) + 1)
  BY TextFacts DEF FieldTypes
<1>2. T \in SUBSET Nat
  BY <1>1
<1>3. Len(text) + 1 \in T
  BY <1>1
<1>4. PICK e \in T : \A y \in T : e <= y
  BY <1>2, <1>3, LeastNat
<1>5. e \in p..(Len(text) + 1) /\ (e = Len(text) + 1 \/ text[e] \notin C)
  OBVIOUS
<1>6. \A j \in b..(e - 1) : text[j] \in C
  <2> TAKE j \in b..(e - 1)
  <2>1. CASE j < p
    BY <1>1, <2>1
  <2>2. CASE ~(j < p)
    <3>1. j \in p..(Len(text) + 1) /\ ~(e <= j)
      BY <1>1, <1>5, <2>2
    <3> QED
      BY <1>4, <3>1
  <2> QED
    BY <2>1, <2>2
<1> QED
  BY <1>5, <1>6

-----------------------------------------------------------------------------
(* The number that the digits of a field mean.                               *)

\* f is the number of the first i digits of s, for each i up to n.
Counts(s, n, f) ==
    f = [i \in 0..n |-> IF i = 0 THEN 0 ELSE 10 * f[i - 1] + F!DigitOf(s[i])]

LEMMA CountsOnce ==
    ASSUME NEW s, NEW n \in Nat, NEW f, NEW g, Counts(s, n, f), Counts(s, n, g)
    PROVE  f = g
<1> DEFINE T == {i \in 0..n : f[i] # g[i]}
<1>1. /\ f = [i \in 0..n |-> IF i = 0 THEN 0 ELSE 10 * f[i - 1] + F!DigitOf(s[i])]
      /\ g = [i \in 0..n |-> IF i = 0 THEN 0 ELSE 10 * g[i - 1] + F!DigitOf(s[i])]
  BY Zenon DEF Counts
<1>2. \A i \in 0..n : /\ f[i] = IF i = 0 THEN 0 ELSE 10 * f[i - 1] + F!DigitOf(s[i])
                      /\ g[i] = IF i = 0 THEN 0 ELSE 10 * g[i - 1] + F!DigitOf(s[i])
  BY <1>1, Zenon
<1>3. T = {}
  <2> SUFFICES ASSUME T # {} PROVE FALSE
    OBVIOUS
  <2>1. T \in SUBSET Nat
    OBVIOUS
  <2>2. PICK i \in T : \A j \in T : i <= j
    BY <2>1, LeastNat
  <2>3. i \in 0..n /\ f[i] # g[i]
    OBVIOUS
  <2>4. i # 0
    BY <1>2, <2>3
  <2>5. i - 1 \in 0..n /\ ~(i <= i - 1)
    BY <2>3, <2>4
  <2>6. f[i - 1] = g[i - 1]
    BY <2>2, <2>5
  <2> QED
    BY <1>2, <2>3, <2>4, <2>6, Zenon
<1>4. \A i \in 0..n : f[i] = g[i]
  BY <1>3
<1>5. f = [i \in 0..n |-> f[i]] /\ g = [i \in 0..n |-> g[i]]
  BY <1>1
<1> QED
  BY <1>4, <1>5

Alike(s, t, n) == \A i \in 1..n : t[i] = s[i]

LEMMA CountsGrows ==
    ASSUME NEW s, NEW t, NEW n \in Nat, NEW f, Counts(s, n, f), Alike(s, t, n)
    PROVE  \E g : Counts(t, n + 1, g) /\ g[n + 1] = 10 * f[n] + F!DigitOf(t[n + 1])
<1> DEFINE new == 10 * f[n] + F!DigitOf(t[n + 1])
           g == [i \in 0..(n + 1) |-> IF i = n + 1 THEN new ELSE f[i]]
<1>1. \A i \in 0..n : f[i] = IF i = 0 THEN 0 ELSE 10 * f[i - 1] + F!DigitOf(s[i])
  <2>1. f = [i \in 0..n |-> IF i = 0 THEN 0 ELSE 10 * f[i - 1] + F!DigitOf(s[i])]
    BY Zenon DEF Counts
  <2> QED
    BY <2>1, Zenon
<1>2. g[n + 1] = new /\ \A i \in 0..n : g[i] = f[i]
  <2>1. n + 1 \in 0..(n + 1)
    OBVIOUS
  <2>2. \A i \in 0..n : i \in 0..(n + 1) /\ i # n + 1
    OBVIOUS
  <2> HIDE DEF new
  <2> QED
    BY <2>1, <2>2
<1>3. \A i \in 0..(n + 1) : g[i] = IF i = 0 THEN 0 ELSE 10 * g[i - 1] + F!DigitOf(t[i])
  <2> TAKE i \in 0..(n + 1)
  <2> HIDE DEF g
  <2>1. CASE i = n + 1
    <3>1. i # 0 /\ i - 1 = n /\ n \in 0..n
      BY <2>1
    <3>2. g[n] = f[n]
      BY <1>2, <3>1
    <3> QED
      BY <1>2, <2>1, <3>1, <3>2, Zenon
  <2>2. CASE i = 0
    <3>1. 0 \in 0..n
      OBVIOUS
    <3> QED
      BY <1>1, <1>2, <2>2, <3>1
  <2>3. CASE i # n + 1 /\ i # 0
    <3>1. i \in 1..n /\ i \in 0..n /\ i - 1 \in 0..n
      BY <2>3
    <3>2. t[i] = s[i]
      BY <3>1 DEF Alike
    <3>3. g[i] = f[i] /\ g[i - 1] = f[i - 1]
      BY <1>2, <3>1
    <3> QED
      BY <1>1, <2>3, <3>1, <3>2, <3>3, Zenon
  <2> QED
    BY <2>1, <2>2, <2>3
<1>4. Counts(t, n + 1, g)
  <2>1. g = [i \in 0..(n + 1) |-> g[i]]
    OBVIOUS
  <2> HIDE DEF g
  <2>2. g = [i \in 0..(n + 1) |->
                IF i = 0 THEN 0 ELSE 10 * g[i - 1] + F!DigitOf(t[i])]
    BY <1>3, <2>1, Zenon
  <2> QED
    BY <2>2 DEF Counts
<1> HIDE DEF g
<1> QED
  BY <1>2, <1>4

LEMMA CountsExists ==
    ASSUME NEW s, NEW n \in Nat
    PROVE  \E f : Counts(s, n, f) /\ f[n] \in Nat
<1> DEFINE P(m) == \E f : Counts(s, m, f) /\ f[m] \in Nat
           T == {m \in Nat : ~P(m)}
<1> SUFFICES ASSUME T # {} PROVE FALSE
  OBVIOUS
<1>1. T \in SUBSET Nat
  OBVIOUS
<1>2. PICK m \in T : \A j \in T : m <= j
  BY <1>1, LeastNat
<1>3. m \in Nat /\ ~P(m)
  OBVIOUS
<1>4. m # 0
  <2>1. Counts(s, 0, [i \in 0..0 |-> 0])
    BY DEF Counts
  <2>2. [i \in 0..0 |-> 0][0] \in Nat
    OBVIOUS
  <2> QED
    BY <1>3, <2>1, <2>2
<1>5. m - 1 \in Nat /\ ~(m <= m - 1) /\ (m - 1) + 1 = m
  BY <1>3, <1>4
<1>6. P(m - 1)
  BY <1>2, <1>5
<1>7. PICK f : Counts(s, m - 1, f) /\ f[m - 1] \in Nat
  BY <1>6
<1> HIDE DEF P, T
<1>8. PICK g : /\ Counts(s, (m - 1) + 1, g)
               /\ g[(m - 1) + 1] = 10 * f[m - 1] + F!DigitOf(s[(m - 1) + 1])
  <2>1. Alike(s, s, m - 1)
    BY DEF Alike
  <2> QED
    BY <1>5, <1>7, <2>1, CountsGrows
<1>9. g[m] = 10 * f[m - 1] + F!DigitOf(s[m]) /\ Counts(s, m, g)
  BY <1>5, <1>8
<1>10. F!DigitOf(s[m]) \in Nat
  BY DEF F!DigitOf
<1>11. g[m] \in Nat
  BY <1>7, <1>9, <1>10
<1> QED
  BY <1>3, <1>9, <1>11 DEF P

LEMMA NumberIs ==
    ASSUME NEW s, Len(s) \in Nat, NEW f, Counts(s, Len(s), f)
    PROVE  F!Number(s) = f[Len(s)]
<1> DEFINE g == CHOOSE h : Counts(s, Len(s), h)
<1>1. Counts(s, Len(s), g)
  OBVIOUS
<1>2. F!Number(s) = g[Len(s)]
  <2>1. F!Number(s) =
          (CHOOSE h : h = [i \in 0..Len(s) |-> IF i = 0 THEN 0
                              ELSE 10 * h[i - 1] + F!DigitOf(s[i])])[Len(s)]
    BY DEF F!Number
  <2> QED
    BY <2>1 DEF Counts
<1> HIDE DEF g
<1>3. g = f
  BY <1>1, CountsOnce
<1> QED
  BY <1>2, <1>3

LEMMA NumberIsNat ==
    ASSUME NEW s, Len(s) \in Nat
    PROVE  F!Number(s) \in Nat
<1>1. PICK f : Counts(s, Len(s), f) /\ f[Len(s)] \in Nat
  BY CountsExists
<1> QED
  BY <1>1, NumberIs

LEMMA NumberOfNone ==
    ASSUME FieldTypes, NEW b \in 1..(Len(text) + 1)
    PROVE  F!Number(SubSeq(text, b, b - 1)) = 0
<1> DEFINE s == SubSeq(text, b, b - 1)
           f == [i \in 0..0 |-> 0]
<1>1. Len(s) = 0
  BY PartEmpty, EmptySeq
<1>2. Counts(s, 0, f) /\ f[0] = 0
  BY DEF Counts
<1> HIDE DEF s, f
<1>3. Len(s) \in Nat /\ Counts(s, Len(s), f)
  BY <1>1, <1>2
<1>4. F!Number(s) = f[Len(s)]
  BY <1>3, NumberIs
<1> QED
  BY <1>1, <1>2, <1>4 DEF s

LEMMA NumberNext ==
    ASSUME FieldTypes, NEW b \in 1..(Len(text) + 1), NEW e \in b..Len(text)
    PROVE  F!Number(SubSeq(text, b, e)) =
               10 * F!Number(SubSeq(text, b, e - 1)) + F!DigitOf(text[e])
<1> DEFINE s == SubSeq(text, b, e - 1)
           t == SubSeq(text, b, e)
<1>1. PICK n \in Nat : n = e - b
  OBVIOUS
<1>2. /\ e \in (b - 1)..Len(text) /\ e - 1 \in (b - 1)..Len(text)
      /\ e - b + 1 = n + 1 /\ (e - 1) - b + 1 = n /\ b + (n + 1) - 1 = e
      /\ n + 1 \in 1..(n + 1) /\ \A i \in 1..n : i \in 1..(n + 1)
  BY <1>1, TextFacts
<1>3. Len(t) = n + 1 /\ \A i \in 1..(n + 1) : t[i] = text[b + i - 1]
  <2>1. Len(t) = e - b + 1 /\ \A i \in 1..(e - b + 1) : t[i] = text[b + i - 1]
    BY <1>2, PartIs
  <2> QED
    BY <1>2, <2>1
<1>4. Len(s) = n /\ \A i \in 1..n : s[i] = text[b + i - 1]
  <2>1. PICK d \in (b - 1)..Len(text) : d = e - 1
    BY <1>2
  <2>2. /\ Len(SubSeq(text, b, d)) = d - b + 1
        /\ \A i \in 1..(d - b + 1) : SubSeq(text, b, d)[i] = text[b + i - 1]
    BY PartIs
  <2>3. d - b + 1 = n /\ s = SubSeq(text, b, d)
    BY <1>2, <2>1
  <2> QED
    BY <2>2, <2>3
<1> HIDE DEF s, t
<1>5. Alike(s, t, n) /\ t[n + 1] = text[e]
  BY <1>2, <1>3, <1>4 DEF Alike
<1>6. PICK f : Counts(s, n, f)
  BY CountsExists
<1>7. PICK g : Counts(t, n + 1, g) /\ g[n + 1] = 10 * f[n] + F!DigitOf(t[n + 1])
  BY <1>5, <1>6, CountsGrows
<1>8. F!Number(s) = f[n]
  BY <1>4, <1>6, NumberIs
<1>9. F!Number(t) = g[n + 1]
  <2>1. Len(t) \in Nat /\ Counts(t, Len(t), g)
    BY <1>3, <1>7
  <2> QED
    BY <1>3, <2>1, NumberIs
<1> QED
  BY <1>5, <1>7, <1>8, <1>9 DEF s, t

-----------------------------------------------------------------------------
(* The readers: where the loops of the two stand in the line.                *)

LEMMA LineStays ==
    ASSUME UNCHANGED F!line
    PROVE  /\ op' = op /\ text' = text /\ index' = index
           /\ F!Starts' = F!Starts /\ \A k : F!Rank(k)' = F!Rank(k)
           /\ \A k : Quotes(k)' = Quotes(k)
           /\ F!Present' = F!Present /\ F!Rest' = F!Rest
           /\ F!IsNumber' = F!IsNumber
<1>1. op' = op /\ text' = text /\ index' = index
  BY DEF F!line
<1>2. F!Starts' = F!Starts
  BY <1>1 DEF F!Starts, F!Commas, F!QuotesBefore
<1>3. \A k : F!Rank(k)' = F!Rank(k)
  BY <1>2 DEF F!Rank
<1>4. \A k : Quotes(k)' = Quotes(k)
  BY <1>1 DEF Quotes, F!QuotesBefore
<1>5. F!Present' = F!Present
  BY <1>1, <1>2 DEF F!Present
<1>6. F!Rest' = F!Rest
  BY <1>1 DEF F!Rest, F!Starts, F!Commas, F!QuotesBefore, F!Rank
<1>7. F!IsNumber' = F!IsNumber
  BY <1>5, <1>6 DEF F!IsNumber
<1> QED
  BY <1>1, <1>2, <1>3, <1>4, <1>5, <1>6, <1>7

\* As many fields have begun as commas are passed; quotes are open or closed.
Counted ==
    /\ field <= index /\ F!Rank(p + 1) = field + 1
    /\ quoted <=> (op = "int" /\ Quotes(p) % 2 = 1)
    /\ field = index => FieldAt

Nothing == value = 0 /\ neg = FALSE /\ out = <<>>

Scanning ==
    /\ phase \in {"lead", "scan"} => Counted
    /\ phase \in {"skip", "first"} => FieldAt
    /\ phase = "first" => AtText
    /\ phase \in {"lead", "scan", "skip", "first"} => Nothing

\* What the line has from index on, behind its sign; behind its quote.
Unsigned == IF F!Rest[1] = "-" THEN Tail(F!Rest) ELSE F!Rest
Unquoted == IF ~F!Present \/ F!Rest = <<>> THEN <<>>
            ELSE IF F!Rest[1] = "q" THEN Tail(F!Rest) ELSE F!Rest

Plain == F!Character \ {"q", ","}

\* From b to p there are characters of C only.
Runs(b, C) == \A j \in b..(p - 1) : text[j] \in C

NumberSoFar(b) ==
    LET n == F!Number(SubSeq(text, b, p - 1)) IN n <= MaxInt => value = n

Counting ==
    phase = "digits" =>
        /\ op = "int" /\ F!IsNumber /\ neg = (F!Rest[1] = "-")
        /\ \E b \in 1..p : /\ Unsigned = SubSeq(text, b, Len(text))
                           /\ Runs(b, F!Digit) /\ NumberSoFar(b)

Copying ==
    phase = "copy" =>
        /\ op # "int"
        /\ \E b \in 1..p : /\ Unquoted = SubSeq(text, b, Len(text))
                           /\ Runs(b, Plain) /\ p - b <= OutSz - 1
                           /\ out = SubSeq(text, b, p - 1)

FieldInv == FieldTypes /\ Scanning /\ Counting /\ Copying /\ F!FieldIsReadRight

LEMMA NumbersAre ==
    ASSUME FieldTypes
    PROVE  /\ Len(text) \in Nat /\ p \in 1..(Len(text) + 1) /\ p \in Nat
           /\ field \in Nat /\ index \in Nat /\ quoted \in BOOLEAN
<1>1. Len(text) \in Nat
  BY TextFacts
<1>2. p \in 1..(Len(text) + 1) /\ field \in Nat /\ index \in Nat /\ quoted \in BOOLEAN
  BY DEF FieldTypes
<1> QED
  BY <1>1, <1>2

LEMMA CharIs ==
    ASSUME FieldTypes
    PROVE  /\ F!AtEnd => p = Len(text) + 1 /\ F!Ch = "end"
           /\ ~F!AtEnd => p \in 1..Len(text) /\ F!Ch = text[p] /\ F!Ch \in F!Character
           /\ F!Ch # "end" => ~F!AtEnd
           /\ "end" \notin F!Character
<1>1. Len(text) \in Nat /\ p \in 1..(Len(text) + 1)
  BY NumbersAre
<1>2. F!AtEnd <=> p > Len(text)
  BY DEF F!AtEnd
<1>3. ~F!AtEnd => p \in 1..Len(text)
  BY <1>1, <1>2
<1>4. F!AtEnd => p = Len(text) + 1
  BY <1>1, <1>2
<1>5. ~F!AtEnd => text[p] \in F!Character
  BY <1>3, TextFacts
<1>6. "end" \notin F!Character
  BY DEF F!Character, F!Digit
<1> QED
  BY <1>3, <1>4, <1>5, <1>6 DEF F!Ch

LEMMA Parity ==
    ASSUME NEW n \in Nat
    PROVE  /\ n % 2 = 0 <=> ~(n % 2 = 1)
           /\ (n + 1) % 2 = 1 <=> ~(n % 2 = 1)
OBVIOUS

Reads(c) == text[p] = c
AtSpace == Reads(" ")

\* One character further.
Passing ==
    /\ p' = p + 1
    /\ quoted' = IF op = "int" /\ Reads("q") THEN ~quoted ELSE quoted
    /\ field' = IF Reads(",") /\ ~quoted THEN field + 1 ELSE field

LEMMA PassCounted ==
    ASSUME FieldTypes, Counted, p \in 1..Len(text), UNCHANGED F!line, Passing
    PROVE  /\ F!Rank(p + 1)' = field' + 1
           /\ quoted' <=> (op' = "int" /\ Quotes(p)' % 2 = 1)
           /\ field' # field => p + 1 \in F!Starts
<1>1. p \in Nat /\ field \in Nat /\ quoted \in BOOLEAN
  BY NumbersAre
<1>2. Quotes(p) \in Nat /\ Quotes(p + 1) = IF Reads("q") THEN Quotes(p) + 1 ELSE Quotes(p)
  BY QuotesNext DEF Reads
<1>3. p + 1 \in F!Starts <=> Reads(",") /\ (op = "int" => Quotes(p) % 2 = 0)
  BY StartsNext DEF Reads
<1>4. quoted <=> (op = "int" /\ Quotes(p) % 2 = 1)
  BY DEF Counted
<1>5. /\ Quotes(p) % 2 = 0 <=> ~(Quotes(p) % 2 = 1)
      /\ (Quotes(p) + 1) % 2 = 1 <=> ~(Quotes(p) % 2 = 1)
  BY <1>2, Parity
<1>6. p + 1 \in F!Starts <=> Reads(",") /\ ~quoted
  BY <1>3, <1>4, <1>5
<1>7. F!Rank(p + 1 + 1) = IF p + 1 \in F!Starts THEN F!Rank(p + 1) + 1 ELSE F!Rank(p + 1)
  <2>1. PICK k \in Nat : k = p + 1
    BY <1>1
  <2> QED
    BY <2>1, RankNext
<1>8. F!Rank(p + 1) = field + 1
  BY DEF Counted
<1>9. p' = p + 1 /\ field' = IF Reads(",") /\ ~quoted THEN field + 1 ELSE field
  BY DEF Passing
<1>10. F!Rank(p + 1 + 1) = field' + 1
  BY <1>6, <1>7, <1>8, <1>9
<1>11. F!Rank(p + 1)' = F!Rank(p + 1 + 1)
  BY <1>9, LineStays
<1>12. quoted' <=> (op = "int" /\ Quotes(p + 1) % 2 = 1)
  <2>1. CASE op = "int" /\ Reads("q")
    <3>1. Quotes(p + 1) = Quotes(p) + 1 /\ quoted' = ~quoted
      BY <1>2, <2>1 DEF Passing
    <3> QED
      BY <1>1, <1>4, <1>5, <2>1, <3>1
  <2>2. CASE ~(op = "int" /\ Reads("q"))
    <3>1. (op = "int" => Quotes(p + 1) = Quotes(p)) /\ quoted' = quoted
      BY <1>2, <2>2 DEF Passing
    <3> QED
      BY <1>4, <2>2, <3>1
  <2> QED
    BY <2>1, <2>2
<1>13. Quotes(p)' = Quotes(p + 1) /\ op' = op
  BY <1>9, LineStays
<1>14. field' # field => p + 1 \in F!Starts
  BY <1>6, <1>9
<1> QED
  BY <1>10, <1>11, <1>12, <1>13, <1>14

\* A space within the spaces before a field.
LEMMA BlankGrows ==
    ASSUME FieldTypes, FieldAt, p \in 1..Len(text), AtSpace,
           UNCHANGED F!line, p' = p + 1
    PROVE  FieldAt'
<1>1. PICK s \in F!Starts : F!Rank(s) = index /\ Blank(s)
  BY DEF FieldAt
<1>2. s \in Nat /\ p \in Nat /\ s <= p
  BY <1>1, StartsAre, NumbersAre DEF Blank
<1>3. s \in F!Starts' /\ F!Rank(s)' = index'
  BY <1>1, LineStays
<1>4. Blank(s)'
  <2>1. s <= p + 1 /\ \A j \in s..((p + 1) - 1) : j \in s..(p - 1) \/ j = p
    BY <1>2
  <2>2. \A j \in s..((p + 1) - 1) : text[j] = " "
    BY <1>1, <2>1 DEF Blank, Reads, AtSpace
  <2>3. text' = text
    BY LineStays
  <2> QED
    BY <2>1, <2>2, <2>3 DEF Blank
<1> QED
  BY <1>3, <1>4 DEF FieldAt

LEMMA FieldAtStays ==
    ASSUME FieldAt, UNCHANGED F!line, p' = p
    PROVE  FieldAt'
BY LineStays DEF FieldAt, Blank

LEMMA LeadStep ==
    ASSUME FieldInv, F!Lead, UNCHANGED F!line PROVE FieldInv'
<1>1. /\ FieldTypes /\ Counted /\ Nothing /\ phase = "lead"
  BY DEF FieldInv, Scanning, F!Lead
<1>2. CASE F!Ch = " " /\ F!Passes /\ UNCHANGED <<field, quoted>>
  <2>1. p' = p + 1 /\ UNCHANGED <<phase, field, quoted, neg, value, out, fieldSt>>
    BY <1>2 DEF F!Passes, F!number
  <2>2. p \in 1..Len(text) /\ AtSpace
    BY <1>1, <1>2, CharIs DEF Reads, AtSpace
  <2>8. ~Reads("q") /\ ~Reads(",")
    BY <2>2 DEF Reads, AtSpace
  <2>7. Passing
    BY <1>2, <2>1, <2>8 DEF Passing
  <2>3. /\ F!Rank(p + 1)' = field' + 1
        /\ quoted' <=> (op' = "int" /\ Quotes(p)' % 2 = 1)
    BY <1>1, <2>2, <2>7, PassCounted
  <2>4. field' = index' => FieldAt'
    BY <1>1, <2>1, <2>2, BlankGrows, LineStays DEF Counted
  <2>5. Counted'
    BY <1>1, <2>1, <2>3, <2>4, LineStays DEF Counted
  <2>6. FieldTypes'
    <3>1. p + 1 \in 1..(Len(text) + 1)
      BY <1>1, <2>2, NumbersAre
    <3> QED
      BY <1>1, <2>1, <3>1, LineStays DEF FieldTypes
  <2> QED
    BY <1>1, <2>1, <2>5, <2>6
       DEF FieldInv, Scanning, Nothing, Counting, Copying, F!FieldIsReadRight
<1>3. CASE F!Ch # " " /\ F!Goes("scan")
  <2>1. phase' = "scan" /\ UNCHANGED <<p, field, quoted, neg, value, out, fieldSt>>
    BY <1>3 DEF F!Goes, F!number
  <2>2. Counted'
    BY <1>1, <2>1, LineStays, FieldAtStays DEF Counted
  <2>3. FieldTypes'
    BY <1>1, <2>1, LineStays DEF FieldTypes
  <2> QED
    BY <1>1, <2>1, <2>2, <2>3
       DEF FieldInv, Scanning, Nothing, Counting, Copying, F!FieldIsReadRight
<1> QED
  BY <1>2, <1>3 DEF F!Lead

\* A line without the field asked for.
LEMMA NotPresent ==
    ASSUME FieldTypes, Counted, field < index, F!AtEnd PROVE ~F!Present
<1>1. Len(text) \in Nat /\ p = Len(text) + 1 /\ field \in Nat /\ index \in Nat
  BY CharIs, NumbersAre
<1>2. {j \in F!Starts : j < p + 1} = F!Starts
  <2>1. \A j \in 1..(Len(text) + 1) : j < p + 1
    BY <1>1
  <2>2. \A j \in F!Starts : j < p + 1
    BY <2>1, StartsAre
  <2> QED
    BY <2>2
<1>3. F!Rank(p + 1) = Cardinality({j \in F!Starts : j < p + 1})
  BY RankIs
<1>4. F!Cardinality(F!Starts) = Cardinality(F!Starts)
  BY CardinalityIs
<1>5. F!Cardinality(F!Starts) = field + 1
  BY <1>2, <1>3, <1>4 DEF Counted
<1>6. ~(F!Cardinality(F!Starts) > index)
  BY <1>1, <1>5
<1> QED
  BY <1>6 DEF F!Present

LEMMA ScanStep ==
    ASSUME F!FieldAssumption, FieldInv, F!Scan, UNCHANGED F!line PROVE FieldInv'
<1>1. /\ FieldTypes /\ Counted /\ Nothing /\ phase = "scan"
  BY DEF FieldInv, Scanning, F!Scan
<1>2. CASE field = index /\ F!Goes("skip")
  <2>1. phase' = "skip" /\ UNCHANGED <<p, field, quoted, neg, value, out, fieldSt>>
    BY <1>2 DEF F!Goes, F!number
  <2>2. FieldAt'
    BY <1>1, <1>2, <2>1, FieldAtStays DEF Counted
  <2>3. FieldTypes'
    BY <1>1, <2>1, LineStays DEF FieldTypes
  <2> QED
    BY <1>1, <2>1, <2>2, <2>3
       DEF FieldInv, Scanning, Nothing, Counting, Copying, F!FieldIsReadRight
<1>3. CASE field < index /\ F!AtEnd /\ F!Ends(IF op = "int" THEN "PARSE" ELSE "OK")
  <2>1. /\ phase' = "done" /\ fieldSt' = (IF op = "int" THEN "PARSE" ELSE "OK")
        /\ UNCHANGED <<p, field, quoted, neg, value, out>>
    BY <1>3 DEF F!Ends, F!number
  <2>2. ~F!Present' /\ op' = op
    BY <1>1, <1>3, NotPresent, LineStays
  <2>3. ~F!IsNumber'
    BY <2>2 DEF F!IsNumber
  <2>4. Len(out') < OutSz /\ out' = <<>>
    BY <1>1, <2>1, EmptySeq DEF Nothing, F!FieldAssumption
  <2>5. SubSeq(<<>>, 1, F!Min({Len(<<>>), OutSz - 1})) = <<>>
    <3>1. Len(<<>>) = 0 /\ OutSz - 1 \in Nat
      BY EmptySeq DEF F!FieldAssumption
    <3>2. F!Min({0, OutSz - 1}) = 0
      <4>1. {0, OutSz - 1} \in SUBSET Nat /\ \A y \in {0, OutSz - 1} : 0 <= y
        BY <3>1
      <4> QED
        BY <4>1, LeastIs
    <3>3. SubSeq(<<>>, 1, 0) = <<>>
      BY SubSeqEmpty
    <3> QED
      BY <3>1, <3>2, <3>3
  <2>6. F!FieldIsReadRight'
    <3>1. CASE op = "int"
      BY <2>1, <2>2, <2>3, <3>1 DEF F!FieldIsReadRight
    <3>2. CASE op # "int"
      BY <2>1, <2>2, <2>4, <2>5, <3>2 DEF F!FieldIsReadRight
    <3> QED
      BY <3>1, <3>2
  <2>7. FieldTypes'
    BY <1>1, <2>1, LineStays DEF FieldTypes
  <2> QED
    BY <2>1, <2>6, <2>7 DEF FieldInv, Scanning, Counting, Copying
<1>4. ASSUME field < index, ~F!AtEnd, F!Passes,
             quoted' = (IF F!Quotes /\ F!Ch = "q" THEN ~quoted ELSE quoted),
             field' = (IF F!Ch = "," /\ ~quoted THEN field + 1 ELSE field)
      PROVE  FieldInv'
  <2>1. p' = p + 1 /\ UNCHANGED <<phase, neg, value, out, fieldSt>>
    BY <1>4 DEF F!Passes, F!number
  <2>2. p \in 1..Len(text) /\ F!Ch = text[p]
    BY <1>1, <1>4, CharIs
  <2>3. Passing
    BY <1>4, <2>1, <2>2 DEF Passing, Reads, F!Quotes
  <2>4. /\ F!Rank(p + 1)' = field' + 1
        /\ quoted' <=> (op' = "int" /\ Quotes(p)' % 2 = 1)
        /\ field' # field => p + 1 \in F!Starts
    BY <1>1, <2>2, <2>3, PassCounted
  <2>9. field \in Nat /\ index \in Nat /\ p \in Nat /\ quoted \in BOOLEAN
    BY <1>1, NumbersAre
  <2>5. field \in Nat /\ index \in Nat /\ p \in Nat /\ field' \in Nat /\ field' <= index
        /\ quoted' \in BOOLEAN
    <3>1. (field' = field \/ field' = field + 1) /\ quoted' \in BOOLEAN
      BY <2>3, <2>9 DEF Passing
    <3>2. field < index
      BY <1>4, Zenon
    <3> QED
      BY <2>9, <3>1, <3>2
  <2>6. field' = index' => FieldAt'
    <3> SUFFICES ASSUME field' = index' PROVE FieldAt'
      OBVIOUS
    <3>1. index' = index
      BY LineStays
    <3>2. field' # field
      <4>1. field < index
        BY <1>4, Zenon
      <4> QED
        BY <2>9, <3>1, <4>1
    <3>3. PICK s \in F!Starts : s = p + 1
      BY <2>4, <3>2
    <3>4. F!Rank(p + 1)' = F!Rank(s + 1)
      BY <2>1, <3>3, LineStays
    <3>5. F!Rank(s + 1) = F!Rank(s) + 1
      BY <2>5, <3>3, RankNext, <1>1
    <3>6. F!Rank(s) = index /\ F!Rank(s) \in Nat
      <4>1. F!Rank(s) \in Nat
        BY <1>1, RankIs
      <4> QED
        BY <2>4, <2>5, <3>1, <3>4, <3>5, <4>1
    <3>7. s \in F!Starts' /\ F!Rank(s)' = index'
      BY <3>1, <3>6, LineStays
    <3>8. Blank(s)'
      <4>1. s <= p' /\ s..(p' - 1) = {}
        BY <2>1, <2>5, <3>3
      <4> QED
        BY <4>1 DEF Blank
    <3> QED
      BY <3>7, <3>8 DEF FieldAt
  <2>7. Counted'
    BY <2>4, <2>5, <2>6, LineStays DEF Counted
  <2>8. FieldTypes'
    <3>1. p + 1 \in 1..(Len(text) + 1)
      BY <1>1, <2>2, NumbersAre
    <3> QED
      BY <1>1, <2>1, <2>5, <3>1, LineStays DEF FieldTypes
  <2> QED
    BY <1>1, <2>1, <2>7, <2>8
       DEF FieldInv, Scanning, Nothing, Counting, Copying, F!FieldIsReadRight
<1> QED
  BY <1>2, <1>3, <1>4 DEF F!Scan

LEMMA SkipStep ==
    ASSUME FieldInv, F!Skip, UNCHANGED F!line PROVE FieldInv'
<1>1. FieldTypes /\ FieldAt /\ Nothing /\ phase = "skip"
  BY DEF FieldInv, Scanning, F!Skip
<1>2. CASE F!Ch = " " /\ F!Passes /\ UNCHANGED <<field, quoted>>
  <2>1. p' = p + 1 /\ UNCHANGED <<phase, field, quoted, neg, value, out, fieldSt>>
    BY <1>2 DEF F!Passes, F!number
  <2>2. p \in 1..Len(text) /\ AtSpace
    BY <1>1, <1>2, CharIs DEF Reads, AtSpace
  <2>3. FieldAt'
    BY <1>1, <2>1, <2>2, BlankGrows
  <2>4. FieldTypes'
    <3>1. p + 1 \in 1..(Len(text) + 1)
      BY <1>1, <2>2, NumbersAre
    <3> QED
      BY <1>1, <2>1, <3>1, LineStays DEF FieldTypes
  <2> QED
    BY <1>1, <2>1, <2>3, <2>4
       DEF FieldInv, Scanning, Nothing, Counting, Copying, F!FieldIsReadRight
<1>3. CASE F!Ch # " " /\ F!Goes("first")
  <2>1. phase' = "first" /\ UNCHANGED <<p, field, quoted, neg, value, out, fieldSt>>
    BY <1>3 DEF F!Goes, F!number
  <2>2. FieldAt'
    BY <1>1, <2>1, FieldAtStays
  <2>3. AtText'
    <3>1. AtText
      BY <1>1, <1>3, CharIs, Zenon DEF AtText
    <3> QED
      BY <2>1, <3>1, LineStays DEF AtText
  <2>4. FieldTypes'
    BY <1>1, <2>1, LineStays DEF FieldTypes
  <2> QED
    BY <1>1, <2>1, <2>2, <2>3, <2>4
       DEF FieldInv, Scanning, Nothing, Counting, Copying, F!FieldIsReadRight
<1> QED
  BY <1>2, <1>3 DEF F!Skip

\* What the first character of a field says of the field.
LEMMA FirstIs ==
    ASSUME FieldTypes, FieldAt, AtText
    PROVE  /\ F!Present
           /\ F!AtEnd => F!Rest = <<>>
           /\ F!Rest = SubSeq(text, p, Len(text))
           /\ ~F!AtEnd => /\ F!Rest # <<>> /\ F!Rest[1] = F!Ch
                          /\ Tail(F!Rest) = SubSeq(text, p + 1, Len(text))
                          /\ p + 1 \in 1..(Len(text) + 1)
<1>1. F!Present /\ F!Rest = SubSeq(text, p, Len(text))
  BY RestIs
<1>2. p \in 1..(Len(text) + 1) /\ Len(text) \in Nat
  BY NumbersAre
<1>3. F!AtEnd => F!Rest = <<>>
  <2> SUFFICES ASSUME F!AtEnd PROVE F!Rest = <<>>
    OBVIOUS
  <2>1. p = Len(text) + 1
    BY CharIs
  <2>2. SubSeq(text, p, p - 1) = <<>>
    BY <1>2, PartEmpty
  <2>3. p - 1 = Len(text)
    BY <1>2, <2>1
  <2> QED
    BY <1>1, <2>2, <2>3
<1>4. ASSUME ~F!AtEnd
      PROVE  /\ F!Rest # <<>> /\ F!Rest[1] = F!Ch
             /\ Tail(F!Rest) = SubSeq(text, p + 1, Len(text))
             /\ p + 1 \in 1..(Len(text) + 1)
  <2>1. p \in 1..Len(text) /\ F!Ch = text[p]
    BY <1>4, CharIs
  <2>2. /\ SubSeq(text, p, Len(text)) # <<>>
        /\ SubSeq(text, p, Len(text))[1] = text[p]
        /\ Tail(SubSeq(text, p, Len(text))) = SubSeq(text, p + 1, Len(text))
    BY <2>1, PartTail
  <2>3. p + 1 \in 1..(Len(text) + 1)
    BY <1>2, <2>1
  <2> QED
    BY <1>1, <2>1, <2>2, <2>3
<1> QED
  BY <1>1, <1>3, <1>4

\* At the beginning of the digits, or of the text.
LEMMA NothingRead ==
    ASSUME FieldTypes, Nothing, NEW b \in 1..(Len(text) + 1)
    PROVE  /\ \A C : \A j \in b..(b - 1) : text[j] \in C
           /\ F!Number(SubSeq(text, b, b - 1)) = value
           /\ out = SubSeq(text, b, b - 1)
<1>1. b..(b - 1) = {}
  BY NumbersAre
<1>2. F!Number(SubSeq(text, b, b - 1)) = value
  BY NumberOfNone DEF Nothing
<1>3. out = SubSeq(text, b, b - 1)
  BY PartEmpty DEF Nothing
<1> QED
  BY <1>1, <1>2, <1>3

Signs == {"-"} \cup F!Digit
IsMinus == F!Ch = "-"
IsQuote == F!Ch = "q"

LEMMA FirstStep ==
    ASSUME F!FieldAssumption, FieldInv, F!First, UNCHANGED F!line PROVE FieldInv'
<1>1. FieldTypes /\ FieldAt /\ AtText /\ Nothing /\ phase = "first"
  BY DEF FieldInv, Scanning, F!First
<1>2. p \in Nat /\ p \in 1..(Len(text) + 1)
  BY <1>1, NumbersAre
<1>3. CASE op = "int" /\ F!Ch \notin Signs /\ F!Ends("PARSE")
  <2>1. /\ phase' = "done" /\ fieldSt' = "PARSE"
        /\ UNCHANGED <<p, field, quoted, neg, value, out>>
    BY <1>3 DEF F!Ends, F!number
  <2>2. ~F!IsNumber
    <3>1. CASE F!AtEnd
      BY <1>1, <3>1, FirstIs DEF F!IsNumber
    <3>2. CASE ~F!AtEnd
      <4>1. F!Rest[1] \notin Signs
        BY <1>1, <1>3, <3>2, FirstIs
      <4> QED
        BY <4>1, Zenon DEF F!IsNumber, Signs
    <3> QED
      BY <3>1, <3>2
  <2>3. ~F!IsNumber' /\ op' = "int"
    BY <1>3, <2>2, LineStays
  <2>4. F!FieldIsReadRight'
    BY <2>1, <2>3, Zenon DEF F!FieldIsReadRight
  <2>5. FieldTypes'
    BY <1>1, <2>1, LineStays DEF FieldTypes
  <2> QED
    BY <2>1, <2>4, <2>5 DEF FieldInv, Scanning, Counting, Copying
<1>4. ASSUME op = "int", F!Ch \in Signs, phase' = "digits", neg' = IsMinus,
             p' = IF IsMinus THEN p + 1 ELSE p,
             UNCHANGED <<field, quoted, value, out, fieldSt>>
      PROVE  FieldInv'
  <2>1. ~F!AtEnd
    <3>1. "end" \notin Signs
      BY DEF Signs, F!Digit
    <3> QED
      BY <1>1, <1>4, <3>1, CharIs
  <2>2. /\ F!Present /\ F!Rest # <<>> /\ F!Rest[1] = F!Ch
        /\ F!Rest = SubSeq(text, p, Len(text))
        /\ Tail(F!Rest) = SubSeq(text, p + 1, Len(text))
        /\ p + 1 \in 1..(Len(text) + 1)
    BY <1>1, <2>1, FirstIs
  <2>3. F!IsNumber
    BY <1>4, <2>2, Zenon DEF F!IsNumber, Signs
  <2>4. p' \in 1..(Len(text) + 1)
    BY <1>2, <1>4, <2>2
  <2>5. neg' = (F!Rest[1] = "-")
    BY <1>4, <2>2, Zenon DEF IsMinus
  <2>6. Unsigned = SubSeq(text, p', Len(text))
    <3>1. CASE IsMinus
      <4>1. Unsigned = Tail(F!Rest)
        BY <2>2, <3>1, Zenon DEF Unsigned, IsMinus
      <4> QED
        BY <1>4, <2>2, <3>1, <4>1
    <3>2. CASE ~IsMinus
      <4>1. Unsigned = F!Rest
        BY <2>2, <3>2, Zenon DEF Unsigned, IsMinus
      <4> QED
        BY <1>4, <2>2, <3>2, <4>1
    <3> QED
      BY <3>1, <3>2
  <2>7. PICK b \in 1..(Len(text) + 1) : b = p'
    BY <2>4
  <2>8. /\ \A j \in b..(b - 1) : text[j] \in F!Digit
        /\ F!Number(SubSeq(text, b, b - 1)) = value
    BY <1>1, NothingRead
  <2>9. Unsigned' = Unsigned
    BY LineStays DEF Unsigned
  <2>10. b \in 1..p' /\ text' = text
    BY <2>7, LineStays
  <2>11. Runs(b, F!Digit)' /\ NumberSoFar(b)'
    BY <1>4, <2>7, <2>8, <2>10 DEF Runs, NumberSoFar
  <2>12. Unsigned' = SubSeq(text', b, Len(text'))
    BY <2>6, <2>7, <2>9, <2>10
  <2>13. op' = "int" /\ F!IsNumber' /\ F!Rest' = F!Rest
    BY <1>4, <2>3, LineStays
  <2>14. Counting'
    BY <2>5, <2>10, <2>11, <2>12, <2>13, Zenon DEF Counting
  <2>15. FieldTypes'
    <3>1. IsMinus \in BOOLEAN
      BY DEF IsMinus
    <3>2. neg' \in BOOLEAN
      BY <1>4, <3>1
    <3> QED
      BY <1>1, <1>4, <2>4, <3>2, LineStays DEF FieldTypes
  <2> QED
    BY <1>4, <2>14, <2>15 DEF FieldInv, Scanning, Copying, F!FieldIsReadRight
<1>5. ASSUME op = "copy", phase' = "copy", p' = IF IsQuote THEN p + 1 ELSE p,
             UNCHANGED <<field, quoted, neg, value, out, fieldSt>>
      PROVE  FieldInv'
  <2>1. F!Present /\ F!Rest = SubSeq(text, p, Len(text))
    BY <1>1, FirstIs
  <2>2. p' \in 1..(Len(text) + 1) /\ Unquoted = SubSeq(text, p', Len(text))
    <3>1. CASE F!AtEnd
      <4>1. F!Rest = <<>> /\ ~IsQuote
        BY <1>1, <3>1, CharIs, FirstIs DEF IsQuote
      <4>2. Unquoted = <<>>
        BY <4>1 DEF Unquoted
      <4> QED
        BY <1>2, <1>5, <2>1, <4>1, <4>2
    <3>2. CASE ~F!AtEnd
      <4>1. /\ F!Rest # <<>> /\ F!Rest[1] = F!Ch
            /\ Tail(F!Rest) = SubSeq(text, p + 1, Len(text))
            /\ p + 1 \in 1..(Len(text) + 1)
        BY <1>1, <3>2, FirstIs
      <4>2. Unquoted = IF IsQuote THEN Tail(F!Rest) ELSE F!Rest
        BY <2>1, <4>1 DEF Unquoted, IsQuote
      <4> QED
        BY <1>2, <1>5, <2>1, <4>1, <4>2
    <3> QED
      BY <3>1, <3>2
  <2>3. PICK b \in 1..(Len(text) + 1) : b = p'
    BY <2>2
  <2>4. /\ \A j \in b..(b - 1) : text[j] \in Plain
        /\ out = SubSeq(text, b, b - 1)
    BY <1>1, NothingRead
  <2>5. Unquoted' = Unquoted
    BY LineStays DEF Unquoted
  <2>6. b \in 1..p' /\ text' = text /\ op' = "copy"
    BY <1>5, <2>3, LineStays
  <2>7. Runs(b, Plain)' /\ out' = SubSeq(text', b, p' - 1)
    BY <1>5, <2>3, <2>4, <2>6 DEF Runs
  <2>8. p' - b <= OutSz - 1
    <3>1. OutSz \in Nat \ {0}
      BY DEF F!FieldAssumption
    <3>2. b \in Nat
      BY <1>2, <1>1, NumbersAre
    <3>3. b - b = 0 /\ 0 <= OutSz - 1
      BY <3>1, <3>2
    <3>4. p' - b = b - b
      BY <2>3
    <3> QED
      BY <3>3, <3>4
  <2>9. Unquoted' = SubSeq(text', b, Len(text'))
    BY <2>2, <2>3, <2>5, <2>6
  <2>10. Copying'
    BY <2>6, <2>7, <2>8, <2>9 DEF Copying
  <2>11. FieldTypes'
    BY <1>1, <1>5, <2>2, LineStays DEF FieldTypes
  <2> QED
    BY <1>5, <2>10, <2>11 DEF FieldInv, Scanning, Counting, F!FieldIsReadRight
<1>6. \/ op = "int" /\ F!Ch \notin Signs /\ F!Ends("PARSE")
      \/ /\ op = "int" /\ F!Ch \in Signs /\ phase' = "digits" /\ neg' = IsMinus
         /\ p' = IF IsMinus THEN p + 1 ELSE p
         /\ UNCHANGED <<field, quoted, value, out, fieldSt>>
      \/ /\ op = "copy" /\ phase' = "copy" /\ p' = IF IsQuote THEN p + 1 ELSE p
         /\ UNCHANGED <<field, quoted, neg, value, out, fieldSt>>
  BY Zenon DEF F!First, Signs, IsMinus, IsQuote, F!number
<1> QED
  BY <1>3, <1>4, <1>5, <1>6

LEMMA DigitsStep ==
    ASSUME F!FieldAssumption, FieldInv, F!Digits, UNCHANGED F!line PROVE FieldInv'
<1>1. FieldTypes /\ phase = "digits" /\ op = "int" /\ F!IsNumber /\ neg = (F!Rest[1] = "-")
  BY DEF FieldInv, Counting, F!Digits
<1>2. PICK b \in 1..p : /\ Unsigned = SubSeq(text, b, Len(text))
                        /\ Runs(b, F!Digit) /\ NumberSoFar(b)
  BY <1>1 DEF FieldInv, Counting
<1>3. /\ p \in Nat /\ p \in 1..(Len(text) + 1) /\ Len(text) \in Nat
      /\ b \in 1..(Len(text) + 1) /\ p \in b..(Len(text) + 1)
  BY <1>1, <1>2, NumbersAre
<1> DEFINE n == F!Number(SubSeq(text, b, p - 1))
<1>4. n <= MaxInt => value = n
  BY <1>2 DEF NumberSoFar
<1>5. CASE F!Ch \notin F!Digit /\ F!Ends("OK")
  <2>1. /\ phase' = "done" /\ fieldSt' = "OK"
        /\ UNCHANGED <<p, field, quoted, neg, value, out>>
    BY <1>5 DEF F!Ends, F!number
  <2>2. p = Len(text) + 1 \/ text[p] \notin F!Digit
    BY <1>1, <1>5, CharIs
  <2>3. F!Run(Unsigned, F!Digit) = SubSeq(text, b, p - 1)
    BY <1>1, <1>2, <1>3, <2>2, RunIs DEF Runs
  <2>4. F!Number(F!Run(Unsigned, F!Digit)) = n
    BY <2>3
  <2>5. F!FieldIsReadRight'
    <3>1. /\ op' = "int" /\ F!IsNumber' /\ F!Rest' = F!Rest
      BY <1>1, LineStays
    <3>2. neg' = (F!Rest'[1] = "-") /\ value' = value
      BY <1>1, <2>1, <3>1, Zenon
    <3>3. LET digits == F!Run(Unsigned', F!Digit)
          IN  F!Number(digits) <= MaxInt => value' = F!Number(digits)
      <4>1. Unsigned' = Unsigned
        BY <3>1 DEF Unsigned
      <4> QED
        BY <1>4, <2>4, <3>2, <4>1
    <3> QED
      BY <2>1, <3>1, <3>2, <3>3, Zenon DEF F!FieldIsReadRight, Unsigned
  <2>6. FieldTypes'
    BY <1>1, <2>1, LineStays DEF FieldTypes
  <2> QED
    BY <2>1, <2>5, <2>6 DEF FieldInv, Scanning, Counting, Copying
<1>6. CASE /\ F!Ch \in F!Digit
           /\ LET m == 10 * value + F!DigitOf(F!Ch)
              IN  IF m <= MaxInt THEN value' = m ELSE value' \in 0..MaxInt
           /\ p' = p + 1 /\ UNCHANGED <<phase, field, quoted, neg, out, fieldSt>>
  <2>1. p \in 1..Len(text) /\ text[p] = F!Ch /\ text[p] \in F!Digit
    <3>1. "end" \notin F!Digit
      BY DEF F!Digit
    <3> QED
      BY <1>1, <1>6, <3>1, CharIs
  <2>2. F!Number(SubSeq(text, b, p)) = 10 * n + F!DigitOf(text[p])
    <3>1. p \in b..Len(text)
      BY <1>3, <2>1
    <3> QED
      BY <1>1, <1>3, <3>1, NumberNext
  <2>3. n \in Nat
    <3>1. p - 1 \in (b - 1)..Len(text)
      BY <1>3
    <3>2. Len(SubSeq(text, b, p - 1)) = (p - 1) - b + 1
      <4>1. PICK e \in (b - 1)..Len(text) : e = p - 1
        BY <3>1
      <4> QED
        BY <1>1, <1>3, <4>1, PartIs
    <3>3. Len(SubSeq(text, b, p - 1)) \in Nat
      BY <1>3, <3>2
    <3> QED
      BY <3>3, NumberIsNat
  <2>4. F!DigitOf(F!Ch) \in Nat /\ value \in Nat /\ MaxInt \in Nat
    BY <1>1 DEF F!DigitOf, FieldTypes, F!FieldAssumption
  <2> HIDE DEF n
  <2> DEFINE d == F!DigitOf(F!Ch)
             m == 10 * value + d
  <2>5. IF m <= MaxInt THEN value' = m ELSE value' \in 0..MaxInt
    BY <1>6
  <2>6. d \in Nat /\ F!Number(SubSeq(text, b, p)) = 10 * n + d
    BY <2>1, <2>2, <2>4
  <2> HIDE DEF d
  <2>7. value' \in Nat
    BY <2>4, <2>5, <2>6
  <2>8. 10 * n + d <= MaxInt => value' = 10 * n + d
    <3> SUFFICES ASSUME 10 * n + d <= MaxInt PROVE value' = 10 * n + d
      OBVIOUS
    <3>1. n <= MaxInt
      BY <2>3, <2>4, <2>6
    <3>2. m = 10 * n + d
      BY <1>4, <3>1
    <3> QED
      BY <2>5, <3>2
  <2>9. p' - 1 = p /\ p' = p + 1 /\ text' = text
    BY <1>3, <1>6, LineStays
  <2>10. NumberSoFar(b)'
    BY <2>6, <2>8, <2>9 DEF NumberSoFar
  <2>11. Runs(b, F!Digit)'
    <3>1. \A j \in b..p : j \in b..(p - 1) \/ j = p
      BY <1>3
    <3>2. \A j \in b..p : text[j] \in F!Digit
      BY <1>2, <2>1, <3>1 DEF Runs
    <3> QED
      BY <2>9, <3>2 DEF Runs
  <2>12. b \in 1..p' /\ Unsigned' = SubSeq(text', b, Len(text'))
    <3>1. Unsigned' = Unsigned
      BY LineStays DEF Unsigned
    <3> QED
      BY <1>2, <1>3, <2>9, <3>1
  <2>13. op' = "int" /\ F!IsNumber' /\ F!Rest' = F!Rest /\ neg' = neg
    BY <1>1, <1>6, LineStays
  <2>14. Counting'
    <3>1. neg' = (F!Rest'[1] = "-")
      BY <1>1, <2>13, Zenon
    <3> QED
      BY <2>10, <2>11, <2>12, <2>13, <3>1, Zenon DEF Counting
  <2>15. FieldTypes'
    <3>1. p + 1 \in 1..(Len(text) + 1)
      BY <1>3, <2>1
    <3> QED
      BY <1>1, <1>6, <2>7, <3>1, LineStays DEF FieldTypes
  <2>16. phase' = "digits"
    BY <1>1, <1>6
  <2> QED
    BY <2>14, <2>15, <2>16 DEF FieldInv, Scanning, Copying, F!FieldIsReadRight
<1>7. \/ F!Ch \notin F!Digit /\ F!Ends("OK")
      \/ /\ F!Ch \in F!Digit
         /\ LET m == 10 * value + F!DigitOf(F!Ch)
            IN  IF m <= MaxInt THEN value' = m ELSE value' \in 0..MaxInt
         /\ p' = p + 1 /\ UNCHANGED <<phase, field, quoted, neg, out, fieldSt>>
  BY Zenon DEF F!Digits
<1> QED
  BY <1>5, <1>6, <1>7


\* What the copied field should be, and how it is cut.
LEMMA CopyIs ==
    ASSUME FieldTypes, NEW b \in 1..p, NEW room \in Nat,
           Runs(b, Plain), p - b <= room,
           p = Len(text) + 1 \/ text[p] \notin Plain \/ p - b = room
    PROVE  LET whole == F!Run(SubSeq(text, b, Len(text)), Plain)
           IN  SubSeq(whole, 1, F!Min({Len(whole), room})) = SubSeq(text, b, p - 1)
<1>1. /\ p \in Nat /\ p \in 1..(Len(text) + 1) /\ Len(text) \in Nat
      /\ b \in 1..(Len(text) + 1) /\ b <= p
  BY NumbersAre
<1>2. PICK e \in p..(Len(text) + 1) :
         /\ \A j \in b..(e - 1) : text[j] \in Plain
         /\ e = Len(text) + 1 \/ text[e] \notin Plain
         /\ e = p \/ p - b = room
  <2>1. CASE p = Len(text) + 1 \/ text[p] \notin Plain
    <3>1. p \in p..(Len(text) + 1)
      BY <1>1
    <3>2. \A j \in b..(p - 1) : text[j] \in Plain
      BY DEF Runs
    <3> QED
      BY <2>1, <3>1, <3>2
  <2>2. CASE p - b = room
    <3>1. \E e \in p..(Len(text) + 1) :
             /\ \A j \in b..(e - 1) : text[j] \in Plain
             /\ e = Len(text) + 1 \/ text[e] \notin Plain
      BY <1>1, RunEnds DEF Runs
    <3> QED
      BY <2>2, <3>1
  <2> QED
    BY <2>1, <2>2
<1>3. e \in b..(Len(text) + 1)
  BY <1>1, <1>2
<1>4. F!Run(SubSeq(text, b, Len(text)), Plain) = SubSeq(text, b, e - 1)
  BY <1>1, <1>2, <1>3, RunIs
<1> DEFINE whole == SubSeq(text, b, e - 1)
<1>5. Len(whole) = e - b
  <2>1. PICK d \in (b - 1)..Len(text) : d = e - 1
    BY <1>1, <1>2
  <2>2. Len(SubSeq(text, b, d)) = d - b + 1
    BY <1>1, PartIs
  <2>3. d - b + 1 = e - b
    BY <1>1, <2>1
  <2> QED
    BY <2>1, <2>2, <2>3
<1> HIDE DEF whole
<1>6. F!Min({Len(whole), room}) = p - b
  <2>1. e - b \in Nat /\ p - b \in Nat /\ p - b <= e - b
    BY <1>1, <1>2
  <2>2. e - b = p - b \/ p - b = room
    BY <1>2
  <2>3. {e - b, room} \in SUBSET Nat /\ p - b \in {e - b, room}
    BY <2>1, <2>2
  <2>4. \A y \in {e - b, room} : p - b <= y
    BY <2>1
  <2>5. PICK x \in {e - b, room} : x = p - b
    BY <2>3
  <2>6. F!Min({e - b, room}) = x
    BY <2>3, <2>4, <2>5, LeastIs
  <2> QED
    BY <1>5, <2>5, <2>6
<1>7. SubSeq(whole, 1, p - b) = SubSeq(text, b, p - 1)
  <2>1. PICK d \in (b - 1)..Len(text) : d = e - 1
    BY <1>1, <1>2
  <2>2. PICK k \in 0..(d - b + 1) : k = p - b
    BY <1>1, <1>2, <2>1
  <2>3. SubSeq(SubSeq(text, b, d), 1, k) = SubSeq(text, b, b + k - 1)
    BY <1>1, PartOfPart
  <2>4. b + k - 1 = p - 1
    BY <1>1, <2>2
  <2> QED
    BY <2>1, <2>2, <2>3, <2>4 DEF whole
<1> QED
  BY <1>4, <1>6, <1>7 DEF whole

LEMMA PlainIs ==
    \A c \in F!Character : c \in Plain <=> c \notin {"q", ","}
BY Zenon DEF Plain

\* The field is at its end, or there is no more room.
LEMMA CopyEnds ==
    ASSUME F!FieldAssumption, FieldInv, phase = "copy", F!Ends("OK"), UNCHANGED F!line,
           p = Len(text) + 1 \/ text[p] \notin Plain \/ ~F!Room
    PROVE  FieldInv'
<1>1. FieldTypes /\ op # "int"
  BY DEF FieldInv, Copying
<1>2. PICK b \in 1..p : /\ Unquoted = SubSeq(text, b, Len(text))
                        /\ Runs(b, Plain) /\ p - b <= OutSz - 1
                        /\ out = SubSeq(text, b, p - 1)
  BY DEF FieldInv, Copying
<1>3. /\ p \in Nat /\ p \in 1..(Len(text) + 1) /\ Len(text) \in Nat
      /\ b \in 1..(Len(text) + 1) /\ b <= p
  BY <1>1, NumbersAre
<1>4. OutSz \in Nat \ {0}
  BY DEF F!FieldAssumption
<1>5. /\ phase' = "done" /\ fieldSt' = "OK"
      /\ UNCHANGED <<p, field, quoted, neg, value, out>>
  BY DEF F!Ends, F!number
<1>6. Len(out) = p - b
  <2>1. PICK d \in (b - 1)..Len(text) : d = p - 1
    BY <1>3
  <2>2. Len(SubSeq(text, b, d)) = d - b + 1
    BY <1>1, <1>3, PartIs
  <2>3. d - b + 1 = p - b
    BY <1>3, <2>1
  <2> QED
    BY <1>2, <2>1, <2>2, <2>3
<1>7. ~F!Room => p - b = OutSz - 1
  <2> SUFFICES ASSUME ~F!Room PROVE p - b = OutSz - 1
    OBVIOUS
  <2>1. ~(Len(out) + 1 < OutSz)
    BY DEF F!Room
  <2> QED
    BY <1>2, <1>3, <1>4, <1>6, <2>1
<1>8. PICK room \in Nat : room = OutSz - 1
  BY <1>4
<1>9. LET whole == F!Run(SubSeq(text, b, Len(text)), Plain)
      IN  SubSeq(whole, 1, F!Min({Len(whole), room})) = SubSeq(text, b, p - 1)
  <2>1. p - b <= room
    BY <1>2, <1>8
  <2>2. p = Len(text) + 1 \/ text[p] \notin Plain \/ p - b = room
    BY <1>7, <1>8
  <2> QED
    BY <1>1, <1>2, <2>1, <2>2, CopyIs
<1>10. LET whole == F!Run(Unquoted, Plain)
       IN  out = SubSeq(whole, 1, F!Min({Len(whole), OutSz - 1}))
  BY <1>2, <1>8, <1>9, Zenon
<1>11. Len(out) < OutSz
  BY <1>2, <1>3, <1>4, <1>6
<1> DEFINE Whole == IF ~F!Present \/ F!Rest = <<>> THEN <<>>
                    ELSE F!Run(IF F!Rest[1] = "q" THEN Tail(F!Rest) ELSE F!Rest, Plain)
<1>12. Whole = F!Run(Unquoted, Plain)
  <2>1. CASE ~F!Present \/ F!Rest = <<>>
    <3>1. Unquoted = <<>> /\ Whole = <<>>
      BY <2>1, Zenon DEF Unquoted
    <3>2. {j \in DOMAIN <<>> : <<>>[j] \notin Plain} = {}
      OBVIOUS
    <3>3. F!Run(<<>>, Plain) = <<>>
      BY <3>2 DEF F!Run
    <3> QED
      BY <3>1, <3>3
  <2>2. CASE ~(~F!Present \/ F!Rest = <<>>)
    BY <2>2, Zenon DEF Unquoted
  <2> QED
    BY <2>1, <2>2
<1>13. out = SubSeq(Whole, 1, F!Min({Len(Whole), OutSz - 1}))
  BY <1>10, <1>12, Zenon
<1> HIDE DEF Whole
<1>14. F!FieldIsReadRight'
  <2>1. /\ op' # "int" /\ F!Present' = F!Present /\ F!Rest' = F!Rest
    BY <1>1, LineStays
  <2>2. out' = out /\ Len(out') < OutSz
    BY <1>5, <1>11
  <2> QED
    BY <1>5, <1>13, <2>1, <2>2, Zenon DEF F!FieldIsReadRight, Whole, Plain
<1>15. FieldTypes'
  BY <1>1, <1>5, LineStays DEF FieldTypes
<1> QED
  BY <1>5, <1>14, <1>15 DEF FieldInv, Scanning, Counting, Copying

LEMMA CopyGoesOn ==
    ASSUME F!FieldAssumption, FieldInv, phase = "copy", UNCHANGED F!line,
           p \in 1..Len(text), F!Ch = text[p], text[p] \in Plain, F!Room,
           out' = Append(out, F!Ch), p' = p + 1,
           UNCHANGED <<phase, field, quoted, neg, value, fieldSt>>
    PROVE  FieldInv'
<1>1. FieldTypes /\ op # "int"
  BY DEF FieldInv, Copying
<1>2. PICK b \in 1..p : /\ Unquoted = SubSeq(text, b, Len(text))
                        /\ Runs(b, Plain) /\ p - b <= OutSz - 1
                        /\ out = SubSeq(text, b, p - 1)
  BY DEF FieldInv, Copying
<1>3. /\ p \in Nat /\ p \in 1..(Len(text) + 1) /\ Len(text) \in Nat
      /\ b \in 1..Len(text) /\ b \in 1..(Len(text) + 1) /\ p \in b..Len(text)
  BY <1>1, NumbersAre
<1>4. OutSz \in Nat \ {0}
  BY DEF F!FieldAssumption
<1>5. text \in Seq(F!Character) /\ out \in Seq(F!Character) /\ text[p] \in F!Character
  BY <1>1, TextFacts DEF FieldTypes
<1>6. out' = SubSeq(text, b, p) /\ out' \in Seq(F!Character)
  <2>1. out' = Append(out, text[p]) /\ out' \in Seq(F!Character)
    BY <1>5, AppendProperties
  <2>2. Append(out, text[p]) = out \o <<text[p]>>
    BY <1>5, AppendIsConcat
  <2>3. SubSeq(text, b, p) = SubSeq(text, b, p - 1) \o <<text[p]>>
    BY <1>3, <1>5, SubSeqRecursiveSecond
  <2> QED
    BY <1>2, <2>1, <2>2, <2>3
<1>7. Len(out) = p - b
  <2>1. PICK d \in (b - 1)..Len(text) : d = p - 1
    BY <1>3
  <2>2. Len(SubSeq(text, b, d)) = d - b + 1
    BY <1>1, <1>3, PartIs
  <2>3. d - b + 1 = p - b
    BY <1>3, <2>1
  <2> QED
    BY <1>2, <2>1, <2>2, <2>3
<1>8. p' - b <= OutSz - 1
  <2>1. Len(out) + 1 < OutSz
    BY DEF F!Room
  <2> QED
    BY <1>3, <1>4, <1>7, <2>1
<1>9. p' - 1 = p /\ b \in 1..p' /\ text' = text /\ op' = op
  BY <1>3, LineStays
<1>10. Runs(b, Plain)'
  <2>1. \A j \in b..p : j \in b..(p - 1) \/ j = p
    BY <1>3
  <2>2. \A j \in b..p : text[j] \in Plain
    BY <1>2, <2>1 DEF Runs
  <2> QED
    BY <1>9, <2>2 DEF Runs
<1>11. Unquoted' = SubSeq(text', b, Len(text'))
  <2>1. Unquoted' = Unquoted
    BY LineStays DEF Unquoted
  <2> QED
    BY <1>2, <1>9, <2>1
<1>12. out' = SubSeq(text', b, p' - 1)
  BY <1>6, <1>9
<1>13. Copying'
  BY <1>1, <1>8, <1>9, <1>10, <1>11, <1>12 DEF Copying
<1>14. FieldTypes'
  <2>1. p + 1 \in 1..(Len(text) + 1)
    BY <1>3
  <2> QED
    BY <1>1, <1>6, <2>1, LineStays DEF FieldTypes
<1> QED
  BY <1>13, <1>14 DEF FieldInv, Scanning, Counting, F!FieldIsReadRight

LEMMA CopyStep ==
    ASSUME F!FieldAssumption, FieldInv, F!Copy, UNCHANGED F!line PROVE FieldInv'
<1>1. FieldTypes /\ phase = "copy"
  BY DEF FieldInv, F!Copy
<1>2. CASE ~F!AtEnd /\ F!Ch \notin {"q", ","} /\ F!Room
  <2>1. /\ out' = Append(out, F!Ch) /\ p' = p + 1
        /\ UNCHANGED <<phase, field, quoted, neg, value, fieldSt>>
    BY <1>2, Zenon DEF F!Copy, F!number
  <2>2. p \in 1..Len(text) /\ F!Ch = text[p] /\ F!Ch \in F!Character
    BY <1>1, <1>2, CharIs, Zenon
  <2>3. text[p] \in Plain /\ F!Room
    BY <1>2, <2>2, PlainIs, Zenon
  <2> QED
    BY <1>1, <2>1, <2>2, <2>3, CopyGoesOn
<1>3. CASE ~(~F!AtEnd /\ F!Ch \notin {"q", ","} /\ F!Room)
  <2>1. F!Ends("OK")
    BY <1>3, Zenon DEF F!Copy
  <2>2. p = Len(text) + 1 \/ text[p] \notin Plain \/ ~F!Room
    BY <1>1, <1>3, CharIs, PlainIs, Zenon
  <2> QED
    BY <1>1, <2>1, <2>2, CopyEnds
<1> QED
  BY <1>2, <1>3

-----------------------------------------------------------------------------

LEMMA FieldUnchanged == ASSUME FieldInv, UNCHANGED F!vars PROVE FieldInv'
<1>1. /\ UNCHANGED <<op, text, index, phase, p, field, quoted, neg, value, out, fieldSt>>
      /\ UNCHANGED F!line
  BY DEF F!vars, F!line, F!number
<1>2. FieldTypes'
  BY <1>1 DEF FieldInv, FieldTypes
<1>3. Scanning'
  <2>1. Counted => Counted'
    BY <1>1, LineStays, FieldAtStays DEF Counted
  <2>2. FieldAt => FieldAt'
    BY <1>1, FieldAtStays
  <2>3. AtText => AtText'
    BY <1>1, Zenon DEF AtText
  <2>4. Nothing => Nothing'
    BY <1>1 DEF Nothing
  <2> QED
    BY <1>1, <2>1, <2>2, <2>3, <2>4 DEF FieldInv, Scanning
<1>4. Counting'
  <2>1. Unsigned' = Unsigned
    BY <1>1, LineStays DEF Unsigned
  <2>2. \A b : Runs(b, F!Digit)' = Runs(b, F!Digit) /\ NumberSoFar(b)' = NumberSoFar(b)
    BY <1>1 DEF Runs, NumberSoFar
  <2>3. F!IsNumber' = F!IsNumber /\ F!Rest' = F!Rest
    BY <1>1, LineStays
  <2> QED
    BY <1>1, <2>1, <2>2, <2>3, Zenon DEF FieldInv, Counting
<1>5. Copying'
  <2>1. Unquoted' = Unquoted
    BY <1>1, LineStays DEF Unquoted
  <2>2. \A b : Runs(b, Plain)' = Runs(b, Plain)
    BY <1>1 DEF Runs
  <2> QED
    BY <1>1, <2>1, <2>2, Zenon DEF FieldInv, Copying
<1>6. F!FieldIsReadRight'
  <2>1. F!IsNumber' = F!IsNumber /\ F!Rest' = F!Rest /\ F!Present' = F!Present
    BY <1>1, LineStays
  <2> QED
    BY <1>1, <2>1, Zenon DEF FieldInv, F!FieldIsReadRight
<1> QED
  BY <1>2, <1>3, <1>4, <1>5, <1>6 DEF FieldInv

LEMMA FieldStep == F!FieldAssumption /\ FieldInv /\ [F!Next]_(F!vars) => FieldInv'
<1> SUFFICES ASSUME F!FieldAssumption, FieldInv, [F!Next]_(F!vars) PROVE FieldInv'
  OBVIOUS
<1>1. CASE F!Next
  <2>1. UNCHANGED F!line
    BY <1>1 DEF F!Next
  <2> QED
    BY <1>1, <2>1, LeadStep, ScanStep, SkipStep, FirstStep, DigitsStep, CopyStep DEF F!Next
<1>2. CASE UNCHANGED F!vars
  BY <1>2, FieldUnchanged
<1> QED
  BY <1>1, <1>2

LEMMA FieldInit == F!FieldAssumption /\ F!Init => FieldInv
<1> SUFFICES ASSUME F!FieldAssumption, F!Init PROVE FieldInv
  OBVIOUS
<1>1. /\ op \in {"int", "copy"} /\ index \in 0..MaxIndex
      /\ phase \in {"lead", "scan"}
      /\ p = 1 /\ field = 0 /\ quoted = FALSE /\ neg = FALSE /\ value = 0
      /\ out = <<>>
  BY DEF F!Init
<1>2. PICK n \in 0..MaxLen : text \in [1..n -> Symbols]
  BY DEF F!Init
<1>3. text \in Seq(F!Character)
  <2>1. n \in Nat /\ Symbols \in SUBSET F!Character
    BY DEF F!FieldAssumption
  <2>2. text = [i \in 1..n |-> text[i]] /\ \A i \in 1..n : text[i] \in F!Character
    BY <1>2, <2>1
  <2>3. [i \in 1..n |-> text[i]] \in Seq(F!Character)
    BY <2>1, <2>2, IsASeq
  <2> QED
    BY <2>2, <2>3
<1>4. FieldTypes
  <2>1. Len(text) \in Nat
    BY <1>3, LenProperties
  <2>2. 1 \in 1..(Len(text) + 1)
    BY <2>1
  <2>3. index \in Nat
    BY <1>1 DEF F!FieldAssumption
  <2>4. out \in Seq(F!Character)
    BY <1>1, EmptySeq
  <2> QED
    BY <1>1, <1>3, <2>2, <2>3, <2>4 DEF FieldTypes
<1>5. F!Rank(1) = 0 /\ F!Rank(2) = 1 /\ 1 \in F!Starts
  <2>1. 1 \in F!Starts /\ F!Starts \in SUBSET (1..(Len(text) + 1))
    BY <1>4, StartsAre
  <2>2. {j \in F!Starts : j < 1} = {}
    <3>1. \A j \in 1..(Len(text) + 1) : ~(j < 1)
      BY <1>4, NumbersAre
    <3>2. \A j \in F!Starts : ~(j < 1)
      BY <2>1, <3>1
    <3> QED
      BY <3>2
  <2>3. F!Rank(1) = 0
    BY <1>4, <2>2, RankIs, FS_EmptySet
  <2>4. PICK k \in Nat : k = 1
    OBVIOUS
  <2>5. F!Rank(k + 1) = IF k \in F!Starts THEN F!Rank(k) + 1 ELSE F!Rank(k)
    BY <1>4, RankNext
  <2> QED
    BY <2>1, <2>3, <2>4, <2>5
<1>6. Counted
  <2>1. index \in Nat
    BY <1>4 DEF FieldTypes
  <2>2. Quotes(p) % 2 # 1
    BY <1>1, NoQuotesAtFirst
  <2>3. Blank(1)
    BY <1>1 DEF Blank
  <2>4. index = 0 => FieldAt
    BY <1>5, <2>3 DEF FieldAt
  <2> QED
    BY <1>1, <1>5, <2>1, <2>2, <2>4 DEF Counted
<1> QED
  BY <1>1, <1>4, <1>6
     DEF FieldInv, Scanning, Nothing, Counting, Copying, F!FieldIsReadRight

LEMMA FieldAtRest == ASSUME FieldRests PROVE FieldInv
<1>1. /\ op = "none" /\ text = <<>> /\ index = 0 /\ phase = "rests" /\ p = 1
      /\ field = 0 /\ quoted = FALSE /\ neg = FALSE /\ value = 0 /\ out = <<>>
  BY DEF FieldRests
<1>2. <<>> \in Seq(F!Character) /\ Len(<<>>) = 0
  BY EmptySeq
<1>3. FieldTypes
  <2>1. 1 \in 1..(0 + 1) /\ 0 \in Nat /\ FALSE \in BOOLEAN
    OBVIOUS
  <2>2. p \in 1..(Len(text) + 1)
    BY <1>1, <1>2, <2>1
  <2> QED
    BY <1>1, <1>2, <2>1, <2>2 DEF FieldTypes
<1> QED
  BY <1>1, <1>3 DEF FieldInv, Scanning, Counting, Copying, F!FieldIsReadRight

LEMMA FieldInvHolds == Spec => []FieldInv
<1>1. F!FieldAssumption
  BY RepliesAssumption
<1>2. Init => FieldInv
  BY <1>1, FieldInit, FieldAtRest DEF Init
<1>3. FieldInv /\ [Next]_vars => FieldInv'
  <2> SUFFICES ASSUME FieldInv, [Next]_vars PROVE FieldInv'
    OBVIOUS
  <2>1. F!Next \/ UNCHANGED fieldVars
    BY DEF Next, vars
  <2>2. UNCHANGED fieldVars => UNCHANGED F!vars
    BY DEF fieldVars, F!vars, F!line, F!number
  <2> QED
    BY <1>1, <2>1, <2>2, FieldStep
<1> QED
  BY <1>2, <1>3, PTL DEF Spec

-----------------------------------------------------------------------------
(* The theorems *)

\* read_body_until_ok: for bodies of any length and content the reader stops with
\* the last byte of the first trailer in the stream.
THEOREM StopsAtTrailerHolds == Spec => []StopsAtTrailer
<1>1. BodyInv => StopsAtTrailer
  BY RepliesAssumption, BodyProperties DEF StopsAtTrailer
<1> QED
  BY <1>1, BodyInvHolds, PTL

\* read_body_until_ok: for every buffer size it hands out the body cut to the
\* buffer, and the status tells whether it was cut.
THEOREM BodyExactHolds == Spec => []BodyExact
<1>1. BodyInv => BodyExact
  BY RepliesAssumption, BodyProperties DEF BodyExact
<1> QED
  BY <1>1, BodyInvHolds, PTL

\* HTTP_MAX_DISCARD: whatever is sent, no more bytes are read than fit, may be
\* discarded, and make up one trailer.
THEOREM DiscardBoundedHolds == Spec => []DiscardBounded
<1>1. BodyInv => DiscardBounded
  BY RepliesAssumption, BodyProperties DEF DiscardBounded
<1> QED
  BY <1>1, BodyInvHolds, PTL

\* ec200_sms_list: for every mailbox and every buffer messages keep their order
\* and none comes twice; and when no other line came in between, one that was
\* stored whole keeps its own text, whatever lines did not fit.
THEOREM StoredWholeIsOwnHolds == Spec => []StoredWholeIsOwn
<1>1. ListInv => StoredWholeIsOwn
  BY RepliesAssumption, StoredWholeIsOwnInv DEF StoredWholeIsOwn
<1> QED
  BY <1>1, ListInvHolds, PTL

\* ec200_sms_list: a listing of which only blank lines were left out, and into
\* which nothing came, is returned exactly, as far as the caller's array goes.
THEOREM ExactWhenItFitsHolds == Spec => []ExactWhenItFits
<1>1. ListInv => ExactWhenItFits
  BY RepliesAssumption, ExactWhenItFitsInv DEF ExactWhenItFits
<1> QED
  BY <1>1, ListInvHolds, PTL

\* ec200_at_parse_int_field and copy_field: for every line and every field asked
\* for, a number is read if and only if one begins there, and is the one that
\* stands there if an int can hold it; the copy is the plain part of the field, as
\* far as the buffer holds it.
THEOREM FieldIsReadRightHolds == Spec => []FieldIsReadRight
<1>1. FieldInv => FieldIsReadRight
  BY DEF FieldInv, FieldIsReadRight
<1> QED
  BY <1>1, FieldInvHolds, PTL
=============================================================================
