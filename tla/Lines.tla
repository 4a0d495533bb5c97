-------------------------------- MODULE Lines --------------------------------
(***************************************************************************)
(* The lines and screen rows of a text: the line helpers of doc.c and the  *)
(* word wrap of edit.c.  A text is a sequence, a position counts the       *)
(* characters before it.                                                   *)
(***************************************************************************)
EXTENDS Texts, FiniteSets, FiniteSetsExt

CONSTANTS
    CR, LF, Space,
    WrapCol     \* columns 0 .. WrapCol - 2 hold a row

At(t, p) == t[p + 1]
IsPair(t, p) == p >= 0 /\ p + 1 < Len(t) /\ At(t, p) = CR /\ At(t, p + 1) = LF

\* Only a line feed begins a line, but a lone carriage return ends one.
LineHome(t, p) == Max({0} \cup {q \in 1 .. p : At(t, q - 1) = LF})
LineEnd(t, p)  == Min({Max({p, Len(t)})} \cup {q \in p .. Len(t) - 1 : At(t, q) \in {CR, LF}})

NextLine(t, e) ==
    IF e >= Len(t) THEN Len(t) ELSE IF IsPair(t, e) THEN e + 2 ELSE e + 1
PrevLine(t, h) ==
    IF h = 0 THEN 0 ELSE LineHome(t, IF IsPair(t, h - 2) THEN h - 2 ELSE h - 1)

CountLine(t, p) == 1 + Cardinality({q \in 1 .. p : At(t, q - 1) = LF})

\* The screen row from p of a line that ends at e goes on at RowNext: after
\* the last space before the margin, or at the margin.
RowNext(t, p, e) ==
    IF e - p < WrapCol THEN e
    ELSE LET spaces == {q \in p .. p + WrapCol - 2 : At(t, q) = Space}
         IN  IF spaces = {} THEN p + WrapCol - 1 ELSE Max(spaces) + 1

\* Where the row's characters end: a space it goes on after is not shown.
RowEnd(t, p, e) ==
    LET n == RowNext(t, p, e) IN IF n < e /\ At(t, n - 1) = Space THEN n - 1 ELSE n

\* The starts of the rows of the line [p, e).
RowStarts(t, h, e) ==
    LET rest[p \in 0 .. e] ==
          LET n == RowNext(t, p, e) IN {p} \cup (IF n < e THEN rest[n] ELSE {})
    IN  rest[h]
=============================================================================
