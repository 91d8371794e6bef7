---------------------------- MODULE MCHandshake ----------------------------
(* Handshake for TLC: session IDs of one byte, which is two hex digits. *)
EXTENDS Handshake, SequencesExt

Digit == {"a", "A", "b"}
Rest  == {"-", "g"}

DigitValue == [c \in Digit |-> IF c = "b" THEN 11 ELSE 10]

Strings == UNION {[1 .. n -> Digit \cup Rest] : n \in 1 .. 3}

Code(c) == CHOOSE n \in 1 .. 5 : <<"a", "A", "b", "-", "g">>[n] = c

\* One hash byte for every string, none of which is a decoded byte.
Hashed(s) == <<FoldLeft(LAMBDA n, c : 6 * n + Code(c), 300, s)>>
HashBytes == {Hashed(s)[1] : s \in Strings}

ASSUME HashedIsInjective == NoCollision

MagicBytes == <<83, 49>>
=============================================================================
