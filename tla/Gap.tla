-------------------------------- MODULE Gap --------------------------------
(***************************************************************************)
(* gap.c of the editor: a text kept in one block of memory with a gap of   *)
(* unused bytes, [gs, ge), at the place of the last change.  A buffer is a *)
(* record [buf, gs, ge]; what a call leaves in the gap is left there.      *)
(***************************************************************************)
EXTENDS Texts

CONSTANTS
    Chars,
    Cap         \* size of the block

ASSUME CapAssumption == Cap \in Nat

GapBuffers ==
    {g \in [buf : [0 .. Cap - 1 -> Chars], gs : 0 .. Cap, ge : 0 .. Cap] : g.gs <= g.ge}

Hole(g)  == g.ge - g.gs
GbLen(g) == Cap - Hole(g)

\* The character at position p, on the far side of the gap if p is past it.
GbAt(g, p) == IF p < g.gs THEN g.buf[p] ELSE g.buf[p + Hole(g)]

\* The text, as a sequence.
TextOf(g) == [i \in 1 .. GbLen(g) |-> GbAt(g, i - 1)]

\* The gap moved to position p: the bytes between are moved across it.
Moved(g, p) ==
    [buf |-> [i \in 0 .. Cap - 1 |->
                IF p <= i - Hole(g) /\ i < g.ge
                THEN g.buf[i - Hole(g)]
                ELSE IF g.gs <= i /\ i < p THEN g.buf[i + Hole(g)] ELSE g.buf[i]],
     gs |-> p,
     ge |-> p + Hole(g)]

\* s copied into the gap at position p; the caller has seen that it fits.
Fits(g, s) == Len(s) <= Hole(g)
Put(g, p, s) ==
    LET m == Moved(g, p)
    IN  [buf |-> [i \in 0 .. Cap - 1 |->
                    IF m.gs <= i /\ i < m.gs + Len(s) THEN s[i - m.gs + 1] ELSE m.buf[i]],
         gs |-> m.gs + Len(s),
         ge |-> m.ge]

\* The gap grown over n characters at position p, or over what there is.
Cut(g, p, n) ==
    IF p >= GbLen(g)
    THEN g
    ELSE LET m == Moved(g, p)
         IN  [buf |-> m.buf, gs |-> m.gs, ge |-> m.ge + Least(n, GbLen(g) - p)]

Emptied(g)   == [buf |-> g.buf, gs |-> 0, ge |-> Cap]
Flat(g)      == Moved(g, GbLen(g))
\* The first n bytes are the text: after a load filled them with s.
Filled(g, s) ==
    [buf |-> [i \in 0 .. Cap - 1 |-> IF i < Len(s) THEN s[i + 1] ELSE g.buf[i]],
     gs |-> Len(s), ge |-> Cap]
=============================================================================
