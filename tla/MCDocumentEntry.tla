-------------------------- MODULE MCDocumentEntry --------------------------
(***************************************************************************)
(* Input domains for checking DocumentEntry.  Hex fields range over every  *)
(* string of up to four characters drawn from digits, the characters       *)
(* int(s, 16) accepts besides digits (x of a 0x prefix, sign, underscore,  *)
(* space) and one it rejects; the E-FUSES lengths 256/1024 are scaled to   *)
(* 1/2 bytes, which four characters reach.                                 *)
(***************************************************************************)
EXTENDS DocumentEntry
LOCAL INSTANCE SequencesExt

\* A Python string literal as a sequence of characters.
Str(s) == [i \in 1..Len(s) |-> SubSeq(s, i, i)]

MCHexInputs == SeqOf({"0", "a", "x", "-", " ", "_", "g"}, 4)

\* Numeric lists as typed: digits, sign, comma, underscore, space, a letter.
MCListInputs == SeqOf({"1", "0", "-", ",", "_", " ", "a"}, 3)

MCIdInputs == {<<>>, Str("b"), Str("b,c")}
MCKeyNameInputs == {<<>>, Str("k")}
MCJsonNumLists == SeqOf({0, 7, 10, -1}, 2)
MCJsonIdLists == SeqOf({<<>>, Str("b"), Str("b,c")}, 2)
MCGoodHex == Str("0a")
=============================================================================
