----------------------------- MODULE Validator -----------------------------
(***************************************************************************)
(* The pure validation helpers of Modules/Utilities.py, on strings.       *)
(*                                                                         *)
(* A Python str is a sequence of one-character strings.  The helpers are   *)
(* thin wrappers around Python's int(s, base), str.split and len, so those *)
(* builtins are modelled by what they do: int() accepts surrounding        *)
(* whitespace, a sign, a 0x prefix in base 16 and underscores between      *)
(* digits, which is exactly where the helpers and the spec part ways.      *)
(* bytes.fromhex, which Encryptor applies to the values, is the reference   *)
(* for what "hex encoded bytes" means.                                     *)
(***************************************************************************)
EXTENDS Integers, Sequences
LOCAL INSTANCE SequencesExt

CONSTANT None

HexDigits == <<"0", "1", "2", "3", "4", "5", "6", "7",
               "8", "9", "a", "b", "c", "d", "e", "f">>
UpperHexLetters == <<"A", "B", "C", "D", "E", "F">>

\* The value of a digit character, for base 10 and base 16.
DigitValue ==
    [c \in {HexDigits[i] : i \in 1..16} \cup {UpperHexLetters[i] : i \in 1..6} |->
        IF \E i \in 1..16 : HexDigits[i] = c
        THEN CHOOSE v \in 0..15 : HexDigits[v + 1] = c
        ELSE CHOOSE v \in 10..15 : UpperHexLetters[v - 9] = c]

IsDigit(c, base) == c \in DOMAIN DigitValue /\ DigitValue[c] < base

-----------------------------------------------------------------------------
(* Python builtins *)

\* str.strip() (the space is the whitespace the model uses).
RECURSIVE StripLeft(_)
StripLeft(s) == IF s # <<>> /\ Head(s) = " " THEN StripLeft(Tail(s)) ELSE s
Strip(s) == Reverse(StripLeft(Reverse(StripLeft(s))))

\* Digits with single underscores between them.
DigitRun(s, base) ==
    /\ s # <<>>
    /\ IsDigit(Head(s), base)
    /\ IsDigit(Last(s), base)
    /\ \A i \in 1..Len(s) : IsDigit(s[i], base) \/ (s[i] = "_" /\ IsDigit(s[i + 1], base))

RECURSIVE DigitsValue(_, _)
DigitsValue(s, base) ==
    IF s = <<>> THEN 0
    ELSE IF Last(s) = "_" THEN DigitsValue(Front(s), base)
    ELSE DigitsValue(Front(s), base) * base + DigitValue[Last(s)]

\* int(s, base) for base 10 and 16: None where Python raises ValueError.
PyInt(s, base) ==
    LET t   == Strip(s)
        neg == t # <<>> /\ Head(t) = "-"
        u   == IF t # <<>> /\ Head(t) \in {"+", "-"} THEN Tail(t) ELSE t
        pre == base = 16 /\ Len(u) >= 2 /\ u[1] = "0" /\ u[2] \in {"x", "X"}
        v   == IF pre THEN SubSeq(u, 3, Len(u)) ELSE u
        ds  == IF pre /\ v # <<>> /\ Head(v) = "_" THEN Tail(v) ELSE v
    IN  IF DigitRun(ds, base)
        THEN (IF neg THEN -1 ELSE 1) * DigitsValue(ds, base)
        ELSE None

\* str.split(sep) for a one-character separator.
Split(s, sep) ==
    LET RECURSIVE Go(_, _)
        Go(rest, cur) ==
            IF rest = <<>> THEN <<cur>>
            ELSE IF Head(rest) = sep THEN <<cur>> \o Go(Tail(rest), <<>>)
            ELSE Go(Tail(rest), Append(cur, Head(rest)))
    IN  Go(s, <<>>)

\* sep.join(l)
RECURSIVE JoinSeq(_, _)
JoinSeq(l, sep) ==
    IF l = <<>> THEN <<>>
    ELSE IF Len(l) = 1 THEN l[1]
    ELSE l[1] \o <<sep>> \o JoinSeq(Tail(l), sep)

\* str(n) for an int.
RECURSIVE NatStr(_)
NatStr(n) == IF n < 10 THEN <<HexDigits[n + 1]>>
             ELSE NatStr(n \div 10) \o <<HexDigits[(n % 10) + 1]>>
PyStr(n) == IF n < 0 THEN <<"-">> \o NatStr(-n) ELSE NatStr(n)

\* bytes.fromhex: pairs of hex digits, whitespace allowed before a pair;
\* the number of bytes, or -1 where it raises ValueError.
RECURSIVE FromHexLen(_)
FromHexLen(s) ==
    CASE s = <<>> -> 0
      [] Head(s) = " " -> FromHexLen(Tail(s))
      [] Len(s) >= 2 /\ IsDigit(s[1], 16) /\ IsDigit(s[2], 16) ->
            LET r == FromHexLen(SubSeq(s, 3, Len(s))) IN IF r < 0 THEN -1 ELSE r + 1
      [] OTHER -> -1

-----------------------------------------------------------------------------
(* Modules/Utilities.py *)

\* `if x` on a str or None.
Truthy(s) == s \notin {None, <<>>}

check_number(n, base) == PyInt(n, base) # None

is_hex(s) == check_number(s, 16)

check_number_non_negative(n) == check_number(n, 10) /\ PyInt(n, 10) >= 0

\* Variant: no empty-list sentinel.
check_list_numbers_nosentinel(l) ==
    \A i \in DOMAIN l : check_number(l[i], 10) /\ check_number_non_negative(l[i])

\* [""] is the empty-list sentinel; otherwise every token is a
\* non-negative base-10 int.
check_list_numbers(l) ==
    \/ l = <<<<>>>>
    \/ \A i \in DOMAIN l : check_number(l[i], 10) /\ check_number_non_negative(l[i])

\* Variant: int() applied to every token, without the try.
parse_list_numbers_all(l) == [i \in DOMAIN l |-> PyInt(l[i], 10)]

\* Variant: only tokens made of digits alone (str.isdigit) are kept.
parse_list_numbers_digits(l) ==
    LET ok == SelectSeq(l, LAMBDA t : t # <<>> /\ \A i \in DOMAIN t : IsDigit(t[i], 10))
    IN  [i \in DOMAIN ok |-> PyInt(ok[i], 10)]

\* Tokens int() rejects are dropped.
parse_list_numbers(l) ==
    LET ok == SelectSeq(l, LAMBDA t : check_number(t, 10))
    IN  [i \in DOMAIN ok |-> PyInt(ok[i], 10)]

split_array(s) == IF s = None THEN <<>> ELSE Split(s, ",")

\* len(s) / 2 is true division: an odd length is never in the set.
contains_hex_encoded_length_one_of(s, lengths) == \E n \in lengths : Len(s) = 2 * n
contains_hex_encoded_length(s, n) == Len(s) = 2 * n

\* The value when it is non-empty hex, None otherwise (after a message).
verify_hex_input(s) == IF Truthy(s) /\ is_hex(s) THEN s ELSE None

is_hex_x_bytes_long(s, n) == is_hex(s) /\ contains_hex_encoded_length(s, n)
=============================================================================
