-------------------------------- MODULE Texts --------------------------------
(* Texts as sequences of characters, with positions from 0.                *)
EXTENDS Integers, Sequences

Least(a, b) == IF a <= b THEN a ELSE b

\* t with s put in at position p, and t without the n characters from p.
Inserted(t, p, s) ==
    [i \in 1 .. Len(t) + Len(s) |->
       IF i <= p THEN t[i] ELSE IF i <= p + Len(s) THEN s[i - p] ELSE t[i - Len(s)]]
Deleted(t, p, n) ==
    [i \in 1 .. Len(t) - n |-> IF i <= p THEN t[i] ELSE t[i + n]]
=============================================================================
