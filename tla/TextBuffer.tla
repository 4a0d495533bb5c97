----------------------------- MODULE TextBuffer -----------------------------
(***************************************************************************)
(* What gap.h promises the editor: a text of at most Cap characters with   *)
(* positions from 0, "the gap is invisible to callers".                    *)
(***************************************************************************)
EXTENDS Texts

CONSTANTS
    Chars,
    Cap,
    MaxBlock    \* the longest text a caller inserts or loads at once

Blocks == UNION {[1 .. n -> Chars] : n \in 0 .. MaxBlock}

VARIABLES
    text,
    call        \* the last call, with its arguments and what it returned

Init == text = << >> /\ call = [op |-> "reset"]

Insert(p, s) ==
    \/ /\ Len(text) + Len(s) <= Cap
       /\ text' = Inserted(text, p, s)
       /\ call' = [op |-> "insert", at |-> p, what |-> s, ok |-> TRUE]
    \/ /\ Len(text) + Len(s) > Cap
       /\ text' = text
       /\ call' = [op |-> "insert", at |-> p, what |-> s, ok |-> FALSE]

Delete(p, n) ==
    /\ text' = IF p >= Len(text) THEN text ELSE Deleted(text, p, Least(n, Len(text) - p))
    /\ call' = [op |-> "delete", at |-> p, n |-> n]

Reset == text' = << >> /\ call' = [op |-> "reset"]

\* The whole text is replaced by s, or looked at in one piece.
Load(s) == text' = s /\ call' = [op |-> "load", what |-> s]
Raw     == text' = text /\ call' = [op |-> "raw", what |-> text]

Next ==
    \/ \E p \in 0 .. Len(text), s \in Blocks : Insert(p, s)
    \/ \E p \in 0 .. Cap, n \in 0 .. Cap : Delete(p, n)
    \/ \E s \in Blocks : Len(s) <= Cap /\ Load(s)
    \/ Reset
    \/ Raw

vars == <<text, call>>

Spec == Init /\ [][Next]_vars
=============================================================================
