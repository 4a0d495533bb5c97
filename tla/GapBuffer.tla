----------------------------- MODULE GapBuffer -----------------------------
(***************************************************************************)
(* Any sequence of calls of gap.c, and that they implement TextBuffer.     *)
(***************************************************************************)
EXTENDS Gap

CONSTANT MaxBlock       \* the longest text inserted or loaded at once

Blocks == UNION {[1 .. n -> Chars] : n \in 0 .. MaxBlock}

VARIABLES g, call

GbVars == <<g, call>>

GbInit ==
    /\ g \in GapBuffers
    /\ g.gs = 0 /\ g.ge = Cap
    /\ call = [op |-> "reset"]

GbInsert(p, s) ==
    \/ /\ Fits(g, s)
       /\ g' = Put(g, p, s)
       /\ call' = [op |-> "insert", at |-> p, what |-> s, ok |-> TRUE]
    \/ /\ ~Fits(g, s)
       /\ g' = g
       /\ call' = [op |-> "insert", at |-> p, what |-> s, ok |-> FALSE]

GbDel(p, n) == g' = Cut(g, p, n) /\ call' = [op |-> "delete", at |-> p, n |-> n]

GbReset == g' = Emptied(g) /\ call' = [op |-> "reset"]

\* doc_load: reset, fill the block from the file, declare the length.
GbLoad(s) ==
    /\ Len(s) <= Cap
    /\ g' = Filled(Flat(Emptied(g)), s)
    /\ call' = [op |-> "load", what |-> s]

\* doc_save: the text in one piece at the start of the block.
GbRaw ==
    /\ g' = Flat(g)
    /\ call' = [op |-> "raw", what |-> [i \in 1 .. GbLen(g) |-> Flat(g).buf[i - 1]]]

GbNext ==
    \/ \E p \in 0 .. GbLen(g), s \in Blocks : GbInsert(p, s)
    \/ \E p \in 0 .. Cap, n \in 0 .. Cap : GbDel(p, n)
    \/ \E s \in Blocks : GbLoad(s)
    \/ GbReset
    \/ GbRaw

GbSpec == GbInit /\ [][GbNext]_GbVars

TypeOK == g \in GapBuffers

Text == INSTANCE TextBuffer WITH text <- TextOf(g)

\* The calls of gap.c act on the text as the calls gap.h describes: the gap is
\* invisible, wherever it is, whatever is left in it.
ImplementsText == Text!Spec
=============================================================================
