---------------------------- MODULE MCDocoptCommand ----------------------------
(* Model-checking instance of DocoptCommand: argument strings that reach   *)
(* every branch of int(), is_hex and the length check.                     *)
EXTENDS DocoptCommand

Chars(s) == [i \in 1..Len(s) |-> SubSeq(s, i, i)]

\* A decimal ID, one with a leading zero, one int() refuses, and the empty
\* string (--id "").
MCIdInputs == {Chars("7"), Chars("07"), Chars("x"), <<>>}

\* UidBytes = 2: a valid UID, a 0x-prefixed one of the right text length,
\* an odd-length one and one of the wrong length.
MCUidInputs == {Chars("0a0b"), Chars("0x0b"), Chars("0a0"), Chars("0a")}

MCAliasInputs == {Chars("a")}
MCRoleInputs == {Chars("ROLE_ADMIN")}
MCTokenInputs == {Chars("t")}
=============================================================================
