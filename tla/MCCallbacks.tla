----------------------------- MODULE MCCallbacks -----------------------------
(* The parser of callback data against what its callers need, over all     *)
(* data of a few characters.                                               *)
EXTENDS Callbacks, FiniteSets

\* The prefixes of two handlers that share their beginning, as "store_cat:"
\* and "store_cart:" do.
ButtonPrefix == {<<Cyrillic, Sign>>, <<Cyrillic, Cyrillic>>}
Alphabet == {Digit(0), Digit(1), Digit(9), Sign, Superscript, Cyrillic}
Data == UNION {[1..k -> Alphabet] : k \in 0..MaxDigits + 3} \cup {None}

\* How a keyboard writes an id: f"{prefix}{id}".
Numeral(n) ==
    LET digits == IF n < 10 THEN 1 ELSE IF n < 100 THEN 2 ELSE IF n < 1000 THEN 3 ELSE 4
    IN [i \in 1..digits |-> Digit((n \div 10^(digits - i)) % 10)]

\* Exactly the prefix and one to MaxDigits ASCII digits is accepted.
ASSUME AcceptsDigitsOnly ==
    \A prefix \in ButtonPrefix, data \in Data :
        parse_callback_int(data, prefix) # None <=>
            \E k \in 1..MaxDigits : \E digits \in [1..k -> {Digit(0), Digit(1), Digit(9)}] :
                data = prefix \o digits

\* The handler a button is for reads the id the keyboard wrote, and no other
\* handler reads anything; an id too long for the limit is not cut short.
ASSUME ReadsWhatWasWritten ==
    \A prefix \in ButtonPrefix, other \in ButtonPrefix, n \in 0..10^MaxDigits :
        parse_callback_int(prefix \o Numeral(n), other) =
            IF prefix = other /\ n < 10^MaxDigits THEN n ELSE None

\* The cap counts bytes, and the parser has the last word below it.
ASSUME CapIsInBytes ==
    \A prefix \in ButtonPrefix, data \in Data \ {None} :
        callback_is_wellformed(data, prefix) <=>
            /\ Len(data) + Cardinality({i \in DOMAIN data : ~ data[i].ascii}) <= MAX_CALLBACK_BYTES
            /\ parse_callback_int(data, prefix) # None
=============================================================================
