------------------------------ MODULE Options -------------------------------
(***************************************************************************)
(* Rust's Option: a value, or NONE.                                        *)
(***************************************************************************)
EXTENDS Sequences, Integers

CONSTANT NONE   \* Rust's None

Option(S) == S \cup {NONE}

\* Option::or
or(a, b) == IF a # NONE THEN a ELSE b

\* Iterator::find
find(s, P(_)) ==
    IF \E n \in DOMAIN s : P(s[n])
    THEN s[CHOOSE n \in DOMAIN s : P(s[n]) /\ \A m \in 1..(n - 1) : ~ P(s[m])]
    ELSE NONE
=============================================================================
