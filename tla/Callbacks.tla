------------------------------ MODULE Callbacks ------------------------------
(***************************************************************************)
(* The number in a button's callback data (core/callbacks.py).  The data   *)
(* comes from the client and may be anything.  Of a character only what    *)
(* the parser asks of it is kept.                                          *)
(***************************************************************************)
EXTENDS Naturals, Sequences, SequencesExt

CONSTANTS
    MaxDigits,              \* 18 in the code
    MAX_CALLBACK_BYTES,     \* 64 in the code
    None

ASSUME DigitsAssumption == MaxDigits \in Nat /\ MAX_CALLBACK_BYTES \in Nat

\* A character: is it ASCII, does str.isdigit call it a digit, its value as
\* one, the bytes it is encoded in.
Character(ascii, digit, value, bytes) ==
    [ascii |-> ascii, digit |-> digit, value |-> value, bytes |-> bytes]
Digit(n) == Character(TRUE, TRUE, n, 1)
Sign == Character(TRUE, FALSE, 0, 1)            \* "-", " ", "_", ":"
Superscript == Character(FALSE, TRUE, 2, 2)     \* a digit to isdigit, not to int
Cyrillic == Character(FALSE, FALSE, 0, 2)

\* What int makes of ASCII digits.
int(raw) == FoldLeft(LAMBDA n, c : 10 * n + c.value, 0, raw)

encoded(data) == FoldLeft(LAMBDA n, c : n + c.bytes, 0, data)

parse_callback_int(data, prefix) ==
    IF data \in {None, <<>>} \/ ~ IsPrefix(prefix, data) THEN None
    ELSE LET raw == SubSeq(data, Len(prefix) + 1, Len(data)) IN
         IF \/ raw = <<>> \/ Len(raw) > MaxDigits
            \/ \E i \in DOMAIN raw : ~ (raw[i].ascii /\ raw[i].digit)
         THEN None
         ELSE int(raw)

callback_is_wellformed(data, prefix) ==
    /\ data # None => encoded(data) <= MAX_CALLBACK_BYTES
    /\ parse_callback_int(data, prefix) # None
=============================================================================
