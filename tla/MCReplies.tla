----------------------------- MODULE MCReplies -----------------------------
(***************************************************************************)
(* Replies for TLC.  Texts of no line, of an empty line, of a short or a   *)
(* long line, and of two lines; the response buffer holds three messages   *)
(* of short texts, or one with a long text and one with a short one.       *)
(***************************************************************************)
EXTENDS Replies

Shapes == {<<>>, <<0>>, <<1>>, <<6>>, <<0, 1>>, <<1, 1>>, <<6, 1>>}
=============================================================================
