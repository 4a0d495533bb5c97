--------------------------- MODULE Document_proofs ---------------------------
(***************************************************************************)
(* Proofs about the editor's text and its documents, for every buffer,     *)
(* alphabet, set of directories and names, and every answer to every       *)
(* question.  What the functions of gap.c return: a well-formed buffer and *)
(* the text a caller expects; their calls act on that text as TextBuffer   *)
(* says (of GapBuffer).  A text that is not shown as modified is the one   *)
(* in its file, and changes are not lost unasked (of Document).            *)
(***************************************************************************)
EXTENDS Document, GapBuffer, SequenceTheorems, TLAPS

----------------------------------------------------------------------------
(* The gap buffer *)

LEMMA Sizes ==
  ASSUME NEW b \in GapBuffers
  PROVE  /\ Hole(b) \in 0 .. Cap
         /\ GbLen(b) \in 0 .. Cap
         /\ b.gs <= GbLen(b)
         /\ b.gs \in Nat /\ b.ge \in Nat
  BY CapAssumption DEF GapBuffers, Hole, GbLen

\* Each character of the text is one of the block outside the gap.
LEMMA CharAt ==
  ASSUME NEW b \in GapBuffers, NEW p \in 0 .. GbLen(b) - 1
  PROVE  GbAt(b, p) \in Chars
<1>1. p \in Int /\ 0 <= p /\ p < Cap /\ p + Hole(b) < Cap /\ p + Hole(b) \in Nat
  BY Sizes, CapAssumption DEF GbLen
<1>2. b.buf \in [0 .. Cap - 1 -> Chars]
  BY DEF GapBuffers
<1> QED
  BY <1>1, <1>2, CapAssumption DEF GbAt

LEMMA TextIsSeq ==
  ASSUME NEW b \in GapBuffers
  PROVE  /\ TextOf(b) \in Seq(Chars)
         /\ Len(TextOf(b)) = GbLen(b)
         /\ \A i \in 1 .. GbLen(b) : TextOf(b)[i] = GbAt(b, i - 1)
<1>1. GbLen(b) \in Nat
  BY Sizes, CapAssumption
<1>2. \A i \in 1 .. GbLen(b) : GbAt(b, i - 1) \in Chars
  BY <1>1, CharAt
<1>3. TextOf(b) \in [1 .. GbLen(b) -> Chars]
  BY <1>2 DEF TextOf
<1> QED
  BY <1>1, <1>3 DEF TextOf

\* The text is told by its length and its characters.
LEMMA SameText ==
  ASSUME NEW b \in GapBuffers, NEW c \in GapBuffers,
         GbLen(b) = GbLen(c),
         \A p \in 0 .. GbLen(b) - 1 : GbAt(b, p) = GbAt(c, p)
  PROVE  TextOf(b) = TextOf(c)
<1>1. \A i \in 1 .. GbLen(b) : GbAt(b, i - 1) = GbAt(c, i - 1)
  BY Sizes, CapAssumption
<1> QED
  BY <1>1 DEF TextOf

\* Moving the gap changes nothing a caller can see.
LEMMA MovedKeepsText ==
  ASSUME NEW b \in GapBuffers, NEW p \in 0 .. GbLen(b)
  PROVE  /\ Moved(b, p) \in GapBuffers
         /\ Hole(Moved(b, p)) = Hole(b)
         /\ GbLen(Moved(b, p)) = GbLen(b)
         /\ TextOf(Moved(b, p)) = TextOf(b)
<1> DEFINE m == Moved(b, p)
<1>1. /\ b.buf \in [0 .. Cap - 1 -> Chars]
      /\ b.gs \in 0 .. Cap /\ b.ge \in 0 .. Cap /\ b.gs <= b.ge
  BY DEF GapBuffers
<1>2. /\ m.gs = p /\ m.ge = p + Hole(b)
      /\ m = [buf |-> m.buf, gs |-> m.gs, ge |-> m.ge]
      /\ \A i \in 0 .. Cap - 1 : m.buf[i] =
           IF p <= i - Hole(b) /\ i < b.ge
           THEN b.buf[i - Hole(b)]
           ELSE IF b.gs <= i /\ i < p THEN b.buf[i + Hole(b)] ELSE b.buf[i]
      /\ DOMAIN m.buf = 0 .. Cap - 1
      /\ m.buf = [i \in 0 .. Cap - 1 |-> m.buf[i]]
  BY DEF Moved
<1>3. p \in Nat /\ p + Hole(b) \in 0 .. Cap /\ Hole(b) \in Nat
  BY Sizes, CapAssumption DEF GbLen
<1>4. \A i \in 0 .. Cap - 1 : m.buf[i] \in Chars
  <2> SUFFICES ASSUME NEW i \in 0 .. Cap - 1 PROVE m.buf[i] \in Chars
    OBVIOUS
  <2>1. CASE p <= i - Hole(b) /\ i < b.ge
    <3>1. i - Hole(b) \in 0 .. Cap - 1
      BY <2>1, <1>3, CapAssumption
    <3> QED
      BY <3>1, <2>1, <1>1, <1>2
  <2>2. CASE ~(p <= i - Hole(b) /\ i < b.ge) /\ b.gs <= i /\ i < p
    <3>1. i + Hole(b) \in 0 .. Cap - 1
      BY <2>2, <1>3, CapAssumption
    <3> QED
      BY <3>1, <2>2, <1>1, <1>2
  <2>3. CASE ~(p <= i - Hole(b) /\ i < b.ge) /\ ~(b.gs <= i /\ i < p)
    BY <2>3, <1>1, <1>2
  <2> QED
    BY <2>1, <2>2, <2>3
<1>5. m.buf \in [0 .. Cap - 1 -> Chars]
  BY <1>2, <1>4
<1>6. m \in GapBuffers
  BY <1>2, <1>3, <1>5, CapAssumption DEF GapBuffers
<1>7. Hole(m) = Hole(b) /\ GbLen(m) = GbLen(b)
  BY <1>2, <1>3, CapAssumption DEF Hole, GbLen
<1>8. \A q \in 0 .. GbLen(b) - 1 : GbAt(m, q) = GbAt(b, q)
  <2> SUFFICES ASSUME NEW q \in 0 .. GbLen(b) - 1 PROVE GbAt(m, q) = GbAt(b, q)
    OBVIOUS
  <2>1. /\ q \in 0 .. Cap - 1
        /\ q + Hole(b) \in 0 .. Cap - 1
    BY Sizes, CapAssumption DEF GbLen
  <2>2. b.ge = b.gs + Hole(b)
    BY <1>1 DEF Hole
  <2> HIDE DEF m
  <2>3. CASE q < p
    <3>1. GbAt(m, q) = m.buf[q]
      BY <2>3, <1>2 DEF GbAt
    <3>2. ~(p <= q - Hole(b))
      BY <2>3, <1>3, <2>1
    <3>3. m.buf[q] = IF b.gs <= q THEN b.buf[q + Hole(b)] ELSE b.buf[q]
      BY <3>2, <2>1, <2>3, <1>2
    <3> QED
      BY <3>1, <3>3, <1>1, <2>1 DEF GbAt
  <2>4. CASE ~(q < p)
    <3>1. GbAt(m, q) = m.buf[q + Hole(b)]
      BY <2>4, <1>2, <1>7 DEF GbAt
    <3>2. p <= (q + Hole(b)) - Hole(b) /\ (q + Hole(b)) - Hole(b) = q
      BY <2>4, <1>3, <2>1
    <3>3. q + Hole(b) < b.ge <=> q < b.gs
      BY <2>2, <1>1, <1>3, <2>1
    <3>4. ~(q + Hole(b) < p)
      BY <2>4, <1>3, <2>1
    <3>5. m.buf[q + Hole(b)] = IF q < b.gs THEN b.buf[q] ELSE b.buf[q + Hole(b)]
      BY <3>2, <3>3, <3>4, <2>1, <1>2
    <3> QED
      BY <3>1, <3>5 DEF GbAt
  <2> QED
    BY <2>3, <2>4
<1>9. TextOf(m) = TextOf(b)
  BY <1>6, <1>7, <1>8, SameText
<1> QED
  BY <1>6, <1>7, <1>9

\* What is put in stands where it was asked for, at the end of the moved part.
LEMMA PutText ==
  ASSUME NEW b \in GapBuffers, NEW p \in 0 .. GbLen(b), NEW s \in Seq(Chars), Fits(b, s)
  PROVE  Put(b, p, s) \in GapBuffers /\ TextOf(Put(b, p, s)) = Inserted(TextOf(b), p, s)
<1> DEFINE m == Moved(b, p)
           w == Put(b, p, s)
           k == Len(s)
<1>1. /\ m \in GapBuffers /\ Hole(m) = Hole(b) /\ GbLen(m) = GbLen(b)
      /\ TextOf(m) = TextOf(b) /\ m.gs = p /\ m.ge = p + Hole(b)
  BY MovedKeepsText DEF Moved
<1>2. /\ m.buf \in [0 .. Cap - 1 -> Chars]
      /\ m.gs \in 0 .. Cap /\ m.ge \in 0 .. Cap
      /\ m = [buf |-> m.buf, gs |-> m.gs, ge |-> m.ge]
  BY <1>1 DEF GapBuffers
<1> HIDE DEF m
<1>3. k \in Nat /\ k <= Hole(b) /\ p \in Nat /\ Hole(b) \in Nat /\ p + Hole(b) <= Cap
  BY Sizes, CapAssumption DEF Fits, GbLen
<1>4. /\ w = [buf |-> w.buf, gs |-> p + k, ge |-> m.ge]
      /\ w.buf = [i \in 0 .. Cap - 1 |->
                    IF p <= i /\ i < p + k THEN s[i - p + 1] ELSE m.buf[i]]
  BY <1>1, <1>2 DEF Put, m
<1> HIDE DEF w
<1>5. \A i \in 0 .. Cap - 1 : p <= i /\ i < p + k => s[i - p + 1] \in Chars
  <2> SUFFICES ASSUME NEW i \in 0 .. Cap - 1, p <= i, i < p + k PROVE s[i - p + 1] \in Chars
    OBVIOUS
  <2>1. i - p + 1 \in 1 .. k
    BY <1>3, CapAssumption
  <2> QED
    BY <2>1
<1>6. w.buf \in [0 .. Cap - 1 -> Chars]
  BY <1>2, <1>4, <1>5
<1>7. w \in GapBuffers
  <2>1. p + k \in 0 .. Cap /\ m.ge \in 0 .. Cap /\ p + k <= m.ge
    BY <1>1, <1>2, <1>3, CapAssumption
  <2> QED
    BY <2>1, <1>4, <1>6 DEF GapBuffers
<1>8. Hole(w) = Hole(b) - k /\ GbLen(w) = GbLen(b) + k /\ w.gs = p + k
  BY <1>1, <1>3, <1>4, CapAssumption DEF Hole, GbLen
<1>9. GbLen(b) \in Nat /\ p <= GbLen(b)
  BY Sizes, CapAssumption
<1>10. \A i \in 1 .. GbLen(b) + k :
         GbAt(w, i - 1) = IF i <= p THEN GbAt(m, i - 1)
                          ELSE IF i <= p + k THEN s[i - p] ELSE GbAt(m, i - k - 1)
  <2> SUFFICES ASSUME NEW i \in 1 .. GbLen(b) + k
               PROVE  GbAt(w, i - 1) = IF i <= p THEN GbAt(m, i - 1)
                                       ELSE IF i <= p + k THEN s[i - p]
                                       ELSE GbAt(m, i - k - 1)
    OBVIOUS
  <2>1. i \in Nat /\ i >= 1 /\ i <= Cap - Hole(b) + k
    BY <1>3, <1>9, CapAssumption DEF GbLen
  <2>2. CASE i <= p
    <3>1. i - 1 \in 0 .. Cap - 1 /\ i - 1 < p
      BY <2>1, <2>2, <1>3, CapAssumption
    <3> QED
      BY <3>1, <2>2, <2>1, <1>1, <1>3, <1>4, <1>8 DEF GbAt
  <2>3. CASE ~(i <= p) /\ i <= p + k
    <3>1. i - 1 \in 0 .. Cap - 1 /\ p <= i - 1 /\ i - 1 < p + k
      BY <2>1, <2>3, <1>3, CapAssumption
    <3>2. GbAt(w, i - 1) = s[(i - 1) - p + 1]
      BY <3>1, <1>4, <1>8 DEF GbAt
    <3>3. (i - 1) - p + 1 = i - p
      BY <2>1, <1>3
    <3> QED
      BY <3>2, <3>3, <2>3
  <2>4. CASE ~(i <= p + k)
    <3>1. ~(i <= p) /\ ~(i - 1 < p + k) /\ ~(i - k - 1 < p)
      BY <2>1, <2>4, <1>3
    <3>2. i - 1 + Hole(w) = i - k - 1 + Hole(m)
      BY <2>1, <1>1, <1>3, <1>8
    <3>3. i - 1 + Hole(w) \in 0 .. Cap - 1 /\ ~(i - 1 + Hole(w) < p + k)
      BY <2>1, <2>4, <1>3, <1>8, CapAssumption
    <3>4. GbAt(w, i - 1) = m.buf[i - 1 + Hole(w)]
      BY <3>1, <3>3, <1>4, <1>8 DEF GbAt
    <3>5. GbAt(m, i - k - 1) = m.buf[i - k - 1 + Hole(m)]
      BY <3>1, <1>1 DEF GbAt
    <3> QED
      BY <3>1, <3>2, <3>4, <3>5, <2>4
  <2> QED
    BY <2>2, <2>3, <2>4
<1>11. TextOf(w) = [i \in 1 .. GbLen(b) + k |-> GbAt(w, i - 1)]
  BY <1>8 DEF TextOf
<1>12. \A i \in 1 .. GbLen(b) + k :
         GbAt(w, i - 1) = IF i <= p THEN TextOf(b)[i]
                          ELSE IF i <= p + k THEN s[i - p] ELSE TextOf(b)[i - k]
  <2> SUFFICES ASSUME NEW i \in 1 .. GbLen(b) + k
               PROVE  GbAt(w, i - 1) = IF i <= p THEN TextOf(b)[i]
                                       ELSE IF i <= p + k THEN s[i - p] ELSE TextOf(b)[i - k]
    OBVIOUS
  <2>1. \A j \in 1 .. GbLen(b) : TextOf(b)[j] = GbAt(m, j - 1)
    BY <1>1, TextIsSeq
  <2>2. i <= p => i \in 1 .. GbLen(b)
    BY <1>3, <1>9
  <2>3. ~(i <= p + k) => i - k \in 1 .. GbLen(b)
    BY <1>3, <1>9
  <2> QED
    BY <1>10, <2>1, <2>2, <2>3, <1>3, <1>9
<1>13. Len(TextOf(b)) = GbLen(b)
  BY TextIsSeq
<1> QED
  BY <1>7, <1>11, <1>12, <1>13 DEF Inserted, w

\* What is cut goes, and no more than there is.
LEMMA CutText ==
  ASSUME NEW b \in GapBuffers, NEW p \in Nat, NEW n \in Nat
  PROVE  /\ Cut(b, p, n) \in GapBuffers
         /\ TextOf(Cut(b, p, n)) =
              IF p >= GbLen(b) THEN TextOf(b)
              ELSE Deleted(TextOf(b), p, Least(n, GbLen(b) - p))
<1>1. CASE p >= GbLen(b)
  BY <1>1 DEF Cut
<1>2. CASE ~(p >= GbLen(b))
  <2> DEFINE m == Moved(b, p)
             k == Least(n, GbLen(b) - p)
             w == Cut(b, p, n)
  <2>1. GbLen(b) \in 0 .. Cap /\ p \in 0 .. GbLen(b) /\ Hole(b) \in Nat
    BY <1>2, Sizes, CapAssumption
  <2>2. /\ m \in GapBuffers /\ Hole(m) = Hole(b) /\ GbLen(m) = GbLen(b)
        /\ TextOf(m) = TextOf(b) /\ m.gs = p /\ m.ge = p + Hole(b)
    BY <2>1, MovedKeepsText DEF Moved
  <2>3. k \in Nat /\ p + k <= GbLen(b) /\ GbLen(b) = Cap - Hole(b)
    BY <1>2, <2>1, CapAssumption DEF Least, GbLen
  <2>4. w = [buf |-> m.buf, gs |-> p, ge |-> p + Hole(b) + k]
    BY <1>2, <2>2 DEF Cut, GapBuffers
  <2> HIDE DEF m, k, w
  <2>5. m.buf \in [0 .. Cap - 1 -> Chars]
    BY <2>2 DEF GapBuffers
  <2>6. w \in GapBuffers
    BY <2>1, <2>3, <2>4, <2>5, CapAssumption DEF GapBuffers
  <2>7. Hole(w) = Hole(b) + k /\ GbLen(w) = GbLen(b) - k
    BY <2>1, <2>3, <2>4, CapAssumption DEF Hole, GbLen
  <2>8. \A j \in 1 .. GbLen(b) : TextOf(b)[j] = GbAt(m, j - 1)
    BY <2>2, TextIsSeq
  <2>9. \A i \in 1 .. GbLen(b) - k :
          GbAt(w, i - 1) = IF i <= p THEN TextOf(b)[i] ELSE TextOf(b)[i + k]
    <3> SUFFICES ASSUME NEW i \in 1 .. GbLen(b) - k
                 PROVE  GbAt(w, i - 1) = IF i <= p THEN TextOf(b)[i] ELSE TextOf(b)[i + k]
      OBVIOUS
    <3>1. i \in 1 .. GbLen(b) /\ i + k \in 1 .. GbLen(b)
      BY <2>1, <2>3
    <3>2. CASE i <= p
      <4>1. i - 1 < p
        BY <3>1, <3>2, <2>1
      <4>2. GbAt(w, i - 1) = GbAt(m, i - 1)
        BY <4>1, <2>2, <2>4 DEF GbAt
      <4> QED
        BY <4>2, <3>1, <3>2, <2>8
    <3>3. CASE ~(i <= p)
      <4>1. ~(i - 1 < p) /\ ~(i + k - 1 < p) /\ i - 1 + Hole(w) = i + k - 1 + Hole(m)
        BY <3>1, <3>3, <2>1, <2>2, <2>3, <2>7
      <4>2. GbAt(w, i - 1) = GbAt(m, i + k - 1)
        BY <4>1, <2>2, <2>4 DEF GbAt
      <4>3. TextOf(b)[i + k] = GbAt(m, i + k - 1)
        BY <3>1, <2>1, <2>3, <2>8
      <4> QED
        BY <4>2, <4>3, <3>3
    <3> QED
      BY <3>2, <3>3
  <2>10. TextOf(w) = [i \in 1 .. GbLen(b) - k |-> GbAt(w, i - 1)]
    BY <2>7 DEF TextOf
  <2>11. Len(TextOf(b)) = GbLen(b)
    BY TextIsSeq
  <2>12. TextOf(w) = Deleted(TextOf(b), p, k)
    BY <2>9, <2>10, <2>11 DEF Deleted
  <2> QED
    BY <1>2, <2>6, <2>12 DEF w, k
<1> QED
  BY <1>1, <1>2

\* An empty block holds no text, and a filled one the text it was filled with.
LEMMA EmptiedText ==
  ASSUME NEW b \in GapBuffers
  PROVE  Emptied(b) \in GapBuffers /\ TextOf(Emptied(b)) = << >>
<1>1. Emptied(b) \in GapBuffers /\ Emptied(b).gs = 0 /\ Emptied(b).ge = Cap
  BY CapAssumption DEF Emptied, GapBuffers
<1>2. GbLen(Emptied(b)) = 0
  BY <1>1, CapAssumption DEF GbLen, Hole
<1>3. TextOf(Emptied(b)) \in Seq(Chars) /\ Len(TextOf(Emptied(b))) = 0
  BY <1>1, <1>2, TextIsSeq
<1> QED
  BY <1>1, <1>3

LEMMA FilledText ==
  ASSUME NEW b \in GapBuffers, NEW s \in Seq(Chars), Len(s) <= Cap
  PROVE  Filled(b, s) \in GapBuffers /\ TextOf(Filled(b, s)) = s
<1> DEFINE w == Filled(b, s)
           k == Len(s)
<1>1. /\ k \in Nat /\ w.gs = k /\ w.ge = Cap
      /\ w = [buf |-> w.buf, gs |-> k, ge |-> Cap]
      /\ w.buf = [i \in 0 .. Cap - 1 |-> IF i < k THEN s[i + 1] ELSE b.buf[i]]
  BY DEF Filled
<1>2. b.buf \in [0 .. Cap - 1 -> Chars]
  BY DEF GapBuffers
<1> HIDE DEF w
<1>3. \A i \in 0 .. Cap - 1 : i < k => s[i + 1] \in Chars
  <2> SUFFICES ASSUME NEW i \in 0 .. Cap - 1, i < k PROVE s[i + 1] \in Chars
    OBVIOUS
  <2>1. i + 1 \in 1 .. k
    BY <1>1, CapAssumption
  <2> QED
    BY <2>1
<1>4. w \in GapBuffers
  <2>1. w.buf \in [0 .. Cap - 1 -> Chars]
    BY <1>1, <1>2, <1>3
  <2>2. k \in 0 .. Cap /\ Cap \in 0 .. Cap
    BY <1>1, CapAssumption
  <2> QED
    BY <2>1, <2>2, <1>1 DEF GapBuffers
<1>5. GbLen(w) = k
  BY <1>1, CapAssumption DEF GbLen, Hole
<1>6. \A i \in 1 .. k : GbAt(w, i - 1) = s[i]
  <2> SUFFICES ASSUME NEW i \in 1 .. k PROVE GbAt(w, i - 1) = s[i]
    OBVIOUS
  <2>1. i - 1 \in 0 .. Cap - 1 /\ i - 1 < k /\ (i - 1) + 1 = i
    BY <1>1, CapAssumption
  <2> QED
    BY <2>1, <1>1 DEF GbAt
<1>7. TextOf(w) \in Seq(Chars) /\ Len(TextOf(w)) = k /\ \A i \in 1 .. k : TextOf(w)[i] = s[i]
  BY <1>4, <1>5, <1>6, TextIsSeq
<1> QED
  BY <1>4, <1>7 DEF w

----------------------------------------------------------------------------
(* Calls *)

LEMMA BlocksAreTexts ==
  ASSUME NEW s \in Blocks
  PROVE  s \in Seq(Chars)
<1>1. PICK n \in 0 .. MaxBlock : s \in [1 .. n -> Chars]
  BY DEF Blocks
<1>2. n \in Nat
  OBVIOUS
<1> QED
  BY <1>1, <1>2

\* A step of gap.c is the same step of TextBuffer on the text it stands for,
\* and leaves a well-formed buffer.
LEMMA StepSimulates ==
  ASSUME g \in GapBuffers, GbNext
  PROVE  g' \in GapBuffers /\ Text!Next
<1>1. GbLen(g) \in 0 .. Cap /\ Hole(g) = Cap - GbLen(g) /\ Len(TextOf(g)) = GbLen(g)
  BY Sizes, TextIsSeq, CapAssumption DEF GbLen, Hole, GapBuffers
<1>2. ASSUME NEW p \in 0 .. GbLen(g), NEW s \in Blocks, GbInsert(p, s)
      PROVE  g' \in GapBuffers /\ Text!Next
  <2>1. s \in Seq(Chars) /\ Len(s) \in Nat
    BY BlocksAreTexts
  <2>2. Fits(g, s) <=> Len(TextOf(g)) + Len(s) <= Cap
    BY <1>1, <2>1, CapAssumption DEF Fits
  <2>3. CASE /\ Fits(g, s)
             /\ g' = Put(g, p, s)
             /\ call' = [op |-> "insert", at |-> p, what |-> s, ok |-> TRUE]
    <3>1. g' \in GapBuffers /\ TextOf(g') = Inserted(TextOf(g), p, s)
      BY <2>1, <2>3, PutText
    <3>2. TextOf(g)' = TextOf(g')
      BY DEF TextOf, GbLen, GbAt, Hole
    <3>3. Text!Insert(p, s)
      BY <2>2, <2>3, <3>1, <3>2 DEF Text!Insert, Text!Inserted, Inserted
    <3> QED
      BY <1>1, <3>1, <3>3 DEF Text!Next, Text!Blocks, Blocks
  <2>4. CASE /\ ~Fits(g, s)
             /\ g' = g
             /\ call' = [op |-> "insert", at |-> p, what |-> s, ok |-> FALSE]
    <3>1. TextOf(g)' = TextOf(g)
      BY <2>4 DEF TextOf, GbLen, GbAt, Hole
    <3>2. Len(TextOf(g)) + Len(s) > Cap
      BY <1>1, <2>1, <2>2, <2>4, CapAssumption
    <3>3. Text!Insert(p, s)
      BY <2>4, <3>1, <3>2 DEF Text!Insert
    <3> QED
      BY <1>1, <2>4, <3>3 DEF Text!Next, Text!Blocks, Blocks
  <2> QED
    BY <1>2, <2>3, <2>4 DEF GbInsert
<1>3. ASSUME NEW p \in 0 .. Cap, NEW n \in 0 .. Cap, GbDel(p, n)
      PROVE  g' \in GapBuffers /\ Text!Next
  <2>1. p \in Nat /\ n \in Nat
    BY CapAssumption
  <2>2. /\ g' \in GapBuffers
        /\ TextOf(g') = IF p >= GbLen(g) THEN TextOf(g)
                         ELSE Deleted(TextOf(g), p, Least(n, GbLen(g) - p))
    BY <1>3, <2>1, CutText DEF GbDel
  <2>3. TextOf(g)' = TextOf(g')
    BY DEF TextOf, GbLen, GbAt, Hole
  <2>4. Text!Delete(p, n)
    BY <1>1, <1>3, <2>2, <2>3 DEF GbDel, Text!Delete, Text!Deleted, Deleted, Text!Least, Least
  <2> QED
    BY <2>2, <2>4 DEF Text!Next
<1>4. ASSUME NEW s \in Blocks, GbLoad(s)
      PROVE  g' \in GapBuffers /\ Text!Next
  <2>1. s \in Seq(Chars) /\ Len(s) <= Cap
    BY <1>4, BlocksAreTexts DEF GbLoad
  <2>2. Flat(Emptied(g)) \in GapBuffers
    <3>1. Emptied(g) \in GapBuffers
      BY EmptiedText
    <3>2. GbLen(Emptied(g)) \in 0 .. GbLen(Emptied(g))
      BY <3>1, Sizes, CapAssumption
    <3> QED
      BY <3>1, <3>2, MovedKeepsText DEF Flat
  <2>3. g' \in GapBuffers /\ TextOf(g') = s
    BY <1>4, <2>1, <2>2, FilledText DEF GbLoad
  <2>4. TextOf(g)' = TextOf(g')
    BY DEF TextOf, GbLen, GbAt, Hole
  <2>5. Text!Load(s)
    BY <1>4, <2>3, <2>4 DEF GbLoad, Text!Load
  <2> QED
    BY <2>1, <2>3, <2>5 DEF Text!Next, Text!Blocks, Blocks
<1>5. ASSUME GbReset
      PROVE  g' \in GapBuffers /\ Text!Next
  <2>1. g' \in GapBuffers /\ TextOf(g') = << >>
    BY <1>5, EmptiedText DEF GbReset
  <2>2. TextOf(g)' = TextOf(g')
    BY DEF TextOf, GbLen, GbAt, Hole
  <2> QED
    BY <1>5, <2>1, <2>2 DEF GbReset, Text!Next, Text!Reset
<1>6. ASSUME GbRaw
      PROVE  g' \in GapBuffers /\ Text!Next
  <2>1. /\ g' \in GapBuffers /\ TextOf(g') = TextOf(g) /\ GbLen(g') = GbLen(g)
        /\ g' = Flat(g) /\ g'.gs = GbLen(g)
    <3>1. GbLen(g) \in 0 .. GbLen(g)
      BY <1>1
    <3> QED
      BY <1>6, <3>1, MovedKeepsText DEF GbRaw, Flat, Moved
  <2>2. TextOf(g)' = TextOf(g')
    BY DEF TextOf, GbLen, GbAt, Hole
  <2>3. \A i \in 1 .. GbLen(g) : Flat(g).buf[i - 1] = TextOf(g)[i]
    <3> SUFFICES ASSUME NEW i \in 1 .. GbLen(g) PROVE Flat(g).buf[i - 1] = TextOf(g)[i]
      OBVIOUS
    <3>1. TextOf(g)[i] = GbAt(g', i - 1)
      BY <2>1, TextIsSeq
    <3>2. i - 1 < g'.gs
      BY <1>1, <2>1
    <3> QED
      BY <3>1, <3>2, <2>1 DEF GbAt
  <2>4. [i \in 1 .. GbLen(g) |-> Flat(g).buf[i - 1]] = TextOf(g)
    <3>1. TextOf(g) = [i \in 1 .. GbLen(g) |-> TextOf(g)[i]]
      BY DEF TextOf
    <3> QED
      BY <2>3, <3>1
  <2>5. Text!Raw
    BY <1>6, <2>1, <2>2, <2>4 DEF GbRaw, Text!Raw
  <2> QED
    BY <2>1, <2>5 DEF Text!Next
<1> QED
  BY <1>2, <1>3, <1>4, <1>5, <1>6 DEF GbNext

\* The gap stays inside the block, and the bytes around it are characters:
\* no sequence of calls of gap.c, with the gap wherever it is, breaks that.
THEOREM GapInBlock == GbSpec => []TypeOK
<1>1. GbInit => TypeOK
  BY DEF GbInit, TypeOK
<1>2. TypeOK /\ [GbNext]_GbVars => TypeOK'
  BY StepSimulates DEF TypeOK, GbVars
<1> QED
  BY <1>1, <1>2, PTL DEF GbSpec

\* gap.c keeps what gap.h promises: of every size of block and whatever is
\* left in the gap, each call acts on the text as that of TextBuffer does.
THEOREM GapInvisible == GbSpec => ImplementsText
<1>1. GbInit => Text!Init
  <2> SUFFICES ASSUME GbInit PROVE Text!Init
    OBVIOUS
  <2>1. g \in GapBuffers /\ GbLen(g) = 0
    BY CapAssumption DEF GbInit, GbLen, Hole
  <2>2. TextOf(g) = << >>
    BY <2>1, TextIsSeq
  <2> QED
    BY <2>2 DEF GbInit, Text!Init
<1>2. TypeOK /\ [GbNext]_GbVars => [Text!Next]_(Text!vars)
  <2> SUFFICES ASSUME TypeOK, [GbNext]_GbVars PROVE [Text!Next]_(Text!vars)
    OBVIOUS
  <2>1. CASE GbNext
    BY <2>1, StepSimulates DEF TypeOK
  <2>2. CASE UNCHANGED GbVars
    <3>1. g' = g /\ call' = call
      BY <2>2 DEF GbVars
    <3>2. TextOf(g)' = TextOf(g)
      BY <3>1 DEF TextOf, GbLen, GbAt, Hole
    <3> QED
      BY <3>1, <3>2 DEF Text!vars
  <2> QED
    BY <2>1, <2>2
<1>3. GbSpec => []TypeOK
  BY GapInBlock
<1> QED
  BY <1>1, <1>2, <1>3, PTL DEF GbSpec, ImplementsText, Text!Spec

----------------------------------------------------------------------------
(* The documents *)

Documents ==
    [g : GapBuffers, name : Names \cup {None}, modified : BOOLEAN, cwd : Dirs,
     disk : [Files -> {Absent} \cup Texts]]

\* The text of s is that of its file o, or empty without one.
Agrees(s, o) == IF o = None THEN TextOf(s.g) = << >> ELSE TextOf(s.g) = s.disk[o]

\* A file is read to its end.
NoReadErrors == "read error" \notin Risky

Inv ==
    /\ ed \in Documents
    /\ origin \in Files \cup {None}
    /\ origin # None => ed.disk[origin] # Absent
    /\ running \in BOOLEAN
    /\ NoReadErrors /\ running /\ ~ed.modified => Agrees(ed, origin)

----------------------------------------------------------------------------
(* Texts and files *)

LEMMA ShownIsText ==
  ASSUME NEW b \in GapBuffers
  PROVE  TextOf(b) \in Texts
<1>1. GbLen(b) \in 0 .. Cap
  BY Sizes
<1>2. TextOf(b) \in [1 .. GbLen(b) -> Chars]
  BY <1>1, CharAt, CapAssumption DEF TextOf
<1> QED
  BY <1>1, <1>2 DEF Texts

LEMMA TextsAreSeqs ==
  ASSUME NEW t \in Texts
  PROVE  t \in Seq(Chars) /\ Len(t) \in 0 .. Cap
<1>1. PICK n \in 0 .. Cap : t \in [1 .. n -> Chars]
  BY DEF Texts
<1> QED
  BY <1>1, CapAssumption

LEMMA PartIsText ==
  ASSUME NEW t \in Texts, NEW k \in 0 .. Len(t)
  PROVE  SubSeq(t, 1, k) \in Texts /\ Len(SubSeq(t, 1, k)) = k
<1>1. t \in Seq(Chars) /\ Len(t) \in 0 .. Cap /\ k \in 0 .. Cap
  BY TextsAreSeqs, CapAssumption
<1>2. SubSeq(t, 1, k) \in Seq(Chars) /\ Len(SubSeq(t, 1, k)) = k
  BY <1>1, CapAssumption
<1>3. SubSeq(t, 1, k) \in [1 .. k -> Chars]
  <2>1. \A x \in Seq(Chars) : x \in [1 .. Len(x) -> Chars]
    OBVIOUS
  <2> QED
    BY <2>1, <1>2, Zenon
<1> QED
  BY <1>1, <1>2, <1>3 DEF Texts

LEMMA WholeText ==
  ASSUME NEW t \in Texts
  PROVE  SubSeq(t, 1, Len(t)) = t
<1>1. t \in Seq(Chars) /\ Len(t) \in Nat
  BY TextsAreSeqs
<1> QED
  BY <1>1

LEMMA FlatText ==
  ASSUME NEW b \in GapBuffers
  PROVE  Flat(b) \in GapBuffers /\ TextOf(Flat(b)) = TextOf(b)
<1>1. GbLen(b) \in 0 .. GbLen(b)
  BY Sizes, CapAssumption
<1> QED
  BY <1>1, MovedKeepsText DEF Flat

LEMMA HereIsFile ==
  ASSUME NEW s \in Documents, NEW n \in Names
  PROVE  Here(s, n) \in Files
  BY DEF Here, Files, Documents

\* gb_reset and edit_init leave an empty text that is not modified.
LEMMA FreshIsEmpty ==
  ASSUME NEW s \in Documents
  PROVE  /\ Fresh(s) \in Documents
         /\ TextOf(Fresh(s).g) = << >>
         /\ Fresh(s).modified = FALSE
         /\ Fresh(s).disk = s.disk /\ Fresh(s).cwd = s.cwd
<1>1. Emptied(s.g) \in GapBuffers /\ TextOf(Emptied(s.g)) = << >>
  BY EmptiedText DEF Documents
<1> QED
  BY <1>1 DEF Fresh, Documents

----------------------------------------------------------------------------
(* Commands *)

\* What doc_save leaves: the text as it was, no file that was there changed,
\* and after a success the text in its file.
LEMMA DocSaveKeeps ==
  ASSUME NEW s \in Documents, NEW n \in Names, NEW o \in DocSave(s, n)
  PROVE  /\ o.s \in Documents
         /\ TextOf(o.s.g) = TextOf(s.g)
         /\ o.s.modified = s.modified /\ o.s.cwd = s.cwd
         /\ \A f \in Files : s.disk[f] # Absent => o.s.disk[f] = s.disk[f]
         /\ o.result = "ok" => o.s.disk[Here(s, n)] = TextOf(s.g)
<1> DEFINE h == Here(s, n)
           t == TextOf(s.g)
<1>1. h \in Files /\ t \in Texts /\ s.g \in GapBuffers
  BY HereIsFile, ShownIsText DEF Documents
<1>2. CASE o.s = s /\ o.result \in {"exists", "no room"}
  BY <1>2
<1>3. ASSUME Creatable(s, n), NEW w \in WriteFar(t),
             o = [s |-> [s EXCEPT !.g = Flat(s.g), !.disk[h] = w],
                  result |-> IF w = t THEN "ok" ELSE "no room"]
      PROVE  /\ o.s \in Documents
             /\ TextOf(o.s.g) = TextOf(s.g)
             /\ o.s.modified = s.modified /\ o.s.cwd = s.cwd
             /\ \A f \in Files : s.disk[f] # Absent => o.s.disk[f] = s.disk[f]
             /\ o.result = "ok" => o.s.disk[h] = t
  <2>1. w \in Texts
    BY <1>1, PartIsText DEF WriteFar
  <2>2. Flat(s.g) \in GapBuffers /\ TextOf(Flat(s.g)) = t
    BY <1>1, FlatText
  <2>3. s.disk[h] = Absent
    BY <1>3 DEF Creatable
  <2> HIDE DEF h, t
  <2>4. /\ o.s \in Documents
        /\ o.s.g = Flat(s.g) /\ o.s.modified = s.modified /\ o.s.cwd = s.cwd
        /\ o.s.disk = [s.disk EXCEPT ![h] = w]
        /\ o.result = IF w = t THEN "ok" ELSE "no room"
    BY <1>1, <1>3, <2>1, <2>2 DEF Documents
  <2>5. s.disk \in [Files -> {Absent} \cup Texts]
    BY DEF Documents
  <2> QED
    BY <1>1, <2>2, <2>3, <2>4, <2>5 DEF t
<1>4. CASE ~Creatable(s, n)
  <2>1. o = [s |-> s, result |-> "exists"]
    BY <1>4 DEF DocSave
  <2> QED
    BY <2>1, <1>2
<1>5. CASE Creatable(s, n)
  <2> HIDE DEF h, t
  <2>1. \/ o = [s |-> s, result |-> "no room"]
        \/ \E w \in WriteFar(t) :
             o = [s |-> [s EXCEPT !.g = Flat(s.g), !.disk[h] = w],
                  result |-> IF w = t THEN "ok" ELSE "no room"]
    BY <1>5, Zenon DEF DocSave, h, t
  <2>2. CASE o = [s |-> s, result |-> "no room"]
    BY <2>2, <1>2
  <2>3. CASE \E w \in WriteFar(t) :
             o = [s |-> [s EXCEPT !.g = Flat(s.g), !.disk[h] = w],
                  result |-> IF w = t THEN "ok" ELSE "no room"]
    BY <2>3, <1>3, <1>5 DEF t, h
  <2> QED
    BY <2>1, <2>2, <2>3
<1> QED
  BY <1>4, <1>5

\* What a command leaves that may save: the text, and every file that was there;
\* it says which file it wrote, and that holds the text then.
Kept(s, o) ==
    /\ o = Outcome(o.s, o.result, o.ans, o.wrote)
    /\ o.s \in Documents
    /\ TextOf(o.s.g) = TextOf(s.g)
    /\ \A f \in Files : s.disk[f] # Absent => o.s.disk[f] = s.disk[f]
    /\ o.wrote # None => o.wrote \in Files /\ o.s.disk[o.wrote] = TextOf(s.g)
    /\ o.wrote = None => o.s.modified = s.modified

LEMMA SavedToKeeps ==
  ASSUME NEW s \in Documents, NEW n \in Names, NEW o \in SavedTo(s, n)
  PROVE  Kept(s, o) /\ (o.result = "ok" => o.wrote # None)
<1>1. PICK d \in DocSave(s, n) :
        o = IF d.result = "ok"
            THEN Outcome([d.s EXCEPT !.name = n, !.modified = FALSE], "ok", None, Here(s, n))
            ELSE Outcome(d.s, d.result, None, None)
  BY DEF SavedTo
<1>2. /\ d.s \in Documents
      /\ TextOf(d.s.g) = TextOf(s.g)
      /\ d.s.modified = s.modified
      /\ \A f \in Files : s.disk[f] # Absent => d.s.disk[f] = s.disk[f]
      /\ d.result = "ok" => d.s.disk[Here(s, n)] = TextOf(s.g)
  BY DocSaveKeeps
<1>3. CASE d.result = "ok"
  <2>1. /\ [d.s EXCEPT !.name = n, !.modified = FALSE] \in Documents
        /\ [d.s EXCEPT !.name = n, !.modified = FALSE].g = d.s.g
        /\ [d.s EXCEPT !.name = n, !.modified = FALSE].disk = d.s.disk
    BY <1>2 DEF Documents
  <2>2. Here(s, n) \in Files /\ Here(s, n) # None
    BY HereIsFile, MarksAssumption
  <2>3. /\ o.s = [d.s EXCEPT !.name = n, !.modified = FALSE]
        /\ o.wrote = Here(s, n)
        /\ o = Outcome(o.s, o.result, o.ans, o.wrote)
    BY <1>1, <1>3 DEF Outcome
  <2> QED
    BY ZenonT(30), <1>2, <1>3, <2>1, <2>2, <2>3 DEF Kept
<1>4. CASE d.result # "ok"
  BY <1>1, <1>2, <1>4 DEF Kept, Outcome
<1> QED
  BY <1>3, <1>4

LEMMA MovedThere ==
  ASSUME NEW s \in Documents, NEW c \in Filebox(s)
  PROVE  /\ c[1] \in Documents /\ c[2] \in Names \cup {None}
         /\ c[1].g = s.g /\ c[1].disk = s.disk /\ c[1].modified = s.modified
<1>1. PICK d \in Dirs, n \in Names \cup {None} : c = <<[s EXCEPT !.cwd = d], n>>
  BY DEF Filebox
<1>2. /\ [s EXCEPT !.cwd = d] \in Documents
      /\ [s EXCEPT !.cwd = d].g = s.g
      /\ [s EXCEPT !.cwd = d].disk = s.disk
      /\ [s EXCEPT !.cwd = d].modified = s.modified
  BY DEF Documents
<1> QED
  BY <1>1, <1>2

LEMMA SaveAsKeeps ==
  ASSUME NEW s \in Documents, NEW o \in DoSaveAs(s)
  PROVE  Kept(s, o) /\ (o.result = "ok" => o.wrote # None)
<1>1. PICK c \in Filebox(s) :
        o \in IF c[2] = None THEN {Outcome(c[1], "left", None, None)} ELSE SavedTo(c[1], c[2])
  BY DEF DoSaveAs
<1>2. /\ c[1] \in Documents /\ c[2] \in Names \cup {None}
      /\ c[1].g = s.g /\ c[1].disk = s.disk /\ c[1].modified = s.modified
  BY MovedThere
<1>3. CASE c[2] = None
  BY <1>1, <1>2, <1>3 DEF Kept, Outcome
<1>4. CASE c[2] # None
  <2>1. Kept(c[1], o) /\ (o.result = "ok" => o.wrote # None)
    BY <1>1, <1>2, <1>4, SavedToKeeps
  <2> QED
    BY <1>2, <2>1 DEF Kept
<1> QED
  BY <1>3, <1>4

LEMMA SaveKeeps ==
  ASSUME NEW s \in Documents, NEW o \in DoSave(s)
  PROVE  Kept(s, o) /\ (o.result = "ok" => o.wrote # None)
  BY SaveAsKeeps, SavedToKeeps DEF DoSave, Documents

\* Whoever is asked whether to save and lets the command go on has saved or
\* answered Nei.
LEMMA ConfirmKeeps ==
  ASSUME NEW s \in Documents, NEW o \in ConfirmDiscard(s)
  PROVE  /\ Kept(s, o)
         /\ o.result = "ok" /\ s.modified => o.ans = "nei" \/ o.wrote # None
<1>1. CASE s.modified /\ \E d \in DoSave(s) : o = [d EXCEPT !.ans = "ja"]
  <2>1. PICK d \in DoSave(s) : o = [d EXCEPT !.ans = "ja"]
    BY <1>1
  <2>2. Kept(s, d) /\ (d.result = "ok" => d.wrote # None)
    BY SaveKeeps
  <2>3. o.s = d.s /\ o.wrote = d.wrote /\ o.result = d.result
    <3>1. d = Outcome(d.s, d.result, d.ans, d.wrote)
      BY <2>2 DEF Kept
    <3>2. o = Outcome(d.s, d.result, "ja", d.wrote)
      BY <2>1, <3>1 DEF Outcome
    <3> QED
      BY <3>2 DEF Outcome
  <2>4. o = Outcome(o.s, o.result, o.ans, o.wrote)
    BY <2>1, <2>2 DEF Kept, Outcome
  <2> QED
    BY <2>2, <2>3, <2>4 DEF Kept
<1>2. CASE o \in {Outcome(s, "ok", "nei", None), Outcome(s, "left", "avbryt", None)}
  BY <1>2 DEF Kept, Outcome
<1>3. CASE ~s.modified /\ o = Outcome(s, "ok", None, None)
  BY <1>3 DEF Kept, Outcome
<1> QED
  BY <1>1, <1>2, <1>3 DEF ConfirmDiscard

\* What of a file is read fits the buffer, and is the whole file if it is no
\* larger than what can be edited and no read fails.
LEMMA ReadText ==
  ASSUME NEW f \in Texts, NEW t \in ReadFar(f)
  PROVE  /\ t \in Texts
         /\ NoReadErrors /\ Len(t) <= MaxText => t = f
<1> DEFINE most == Least(Len(f), MaxText + 1)
<1>1. Len(f) \in Nat /\ MaxText \in Nat
  BY TextsAreSeqs, CapAssumption, MaxTextAssumption
<1>2. /\ most \in 0 .. Len(f) /\ (most <= MaxText => most = Len(f))
      /\ \A k \in 0 .. most : k \in 0 .. Len(f)
  BY <1>1 DEF Least
<1>3. PICK k \in IF "read error" \in Risky THEN 0 .. most ELSE {most} : t = SubSeq(f, 1, k)
  BY DEF ReadFar
<1>4. k \in 0 .. Len(f)
  <2> HIDE DEF most
  <2>1. CASE "read error" \in Risky
    <3>1. k \in 0 .. most
      BY <2>1, <1>3
    <3> QED
      BY <3>1, <1>2, Zenon
  <2>2. CASE "read error" \notin Risky
    <3>1. k = most
      BY <2>2, <1>3
    <3> QED
      BY <3>1, <1>2
  <2> QED
    BY <2>1, <2>2
<1>5. t \in Texts /\ Len(t) = k
  BY <1>3, <1>4, PartIsText
<1>6. ASSUME NoReadErrors, Len(t) <= MaxText PROVE t = f
  <2>1. k = most
    BY <1>3, <1>6 DEF NoReadErrors
  <2>2. k = Len(f)
    BY <2>1, <1>2, <1>5, <1>6
  <2> QED
    BY <2>2, <1>3, WholeText
<1> QED
  BY <1>5, <1>6

\* What doc_load leaves: no file changed, and after a success the file's text.
LEMMA LoadReads ==
  ASSUME NEW s \in Documents, NEW n \in Names, NEW o \in DocLoad(s, n)
  PROVE  /\ o.s \in Documents /\ o.s.disk = s.disk /\ o.s.cwd = s.cwd
         /\ o.result \in {"ok", "open", "big"}
         /\ o.result = "ok" => /\ s.disk[Here(s, n)] # Absent
                               /\ NoReadErrors => TextOf(o.s.g) = s.disk[Here(s, n)]
<1> DEFINE f == s.disk[Here(s, n)]
           Got(t) == [s EXCEPT !.g = Filled(Flat(Emptied(s.g)), t)]
<1>1. f \in {Absent} \cup Texts
  BY HereIsFile DEF Documents
<1>2. CASE o = [s |-> s, result |-> "open"]
  BY <1>2
<1>3. ASSUME f # Absent, NEW t \in ReadFar(f),
             o = IF Len(t) > MaxText
                 THEN [s |-> [s EXCEPT !.g = Emptied(Got(t).g)], result |-> "big"]
                 ELSE [s |-> Got(t), result |-> "ok"]
      PROVE  /\ o.s \in Documents /\ o.s.disk = s.disk /\ o.s.cwd = s.cwd
             /\ o.result \in {"ok", "open", "big"}
             /\ o.result = "ok" => f # Absent /\ (NoReadErrors => TextOf(o.s.g) = f)
  <2>1. t \in Texts /\ (NoReadErrors /\ Len(t) <= MaxText => t = f)
    BY <1>1, <1>3, ReadText
  <2>2. t \in Seq(Chars) /\ Len(t) \in Nat /\ Len(t) <= Cap /\ MaxText \in Nat
    BY <2>1, TextsAreSeqs, CapAssumption, MaxTextAssumption
  <2>3. Flat(Emptied(s.g)) \in GapBuffers
    BY EmptiedText, FlatText DEF Documents
  <2>4. /\ Filled(Flat(Emptied(s.g)), t) \in GapBuffers
        /\ TextOf(Filled(Flat(Emptied(s.g)), t)) = t
    BY <2>2, <2>3, FilledText
  <2>5. Got(t) \in Documents /\ Got(t).g = Filled(Flat(Emptied(s.g)), t)
        /\ Got(t).disk = s.disk /\ Got(t).cwd = s.cwd
    BY <2>4 DEF Documents
  <2> HIDE DEF Got, f
  <2>6. Emptied(Got(t).g) \in GapBuffers
    BY <2>4, <2>5, EmptiedText
  <2>7. CASE Len(t) > MaxText
    <3>1. o.s = [s EXCEPT !.g = Emptied(Got(t).g)] /\ o.result = "big"
      BY <1>3, <2>7
    <3> QED
      BY <3>1, <2>6 DEF Documents
  <2>8. CASE ~(Len(t) > MaxText)
    <3>1. o.s = Got(t) /\ o.result = "ok"
      BY <1>3, <2>8
    <3>2. NoReadErrors => t = f
      BY <2>1, <2>2, <2>8
    <3> QED
      BY <3>1, <3>2, <1>3, <2>4, <2>5
  <2> QED
    BY <2>7, <2>8
<1>4. \/ o = [s |-> s, result |-> "open"]
      \/ /\ f # Absent
         /\ \E t \in ReadFar(f) :
              o = IF Len(t) > MaxText
                  THEN [s |-> [s EXCEPT !.g = Emptied(Got(t).g)], result |-> "big"]
                  ELSE [s |-> Got(t), result |-> "ok"]
  <2> HIDE DEF Got, f
  <2>1. o \in (IF f = Absent \/ "open error" \in Risky
               THEN {[s |-> s, result |-> "open"]} ELSE {})
              \cup
              (IF f = Absent THEN {}
               ELSE {IF Len(t) > MaxText
                     THEN [s |-> [s EXCEPT !.g = Emptied(Got(t).g)], result |-> "big"]
                     ELSE [s |-> Got(t), result |-> "ok"] : t \in ReadFar(f)})
    BY Zenon DEF DocLoad, f, Got
  <2> QED
    BY <2>1, Zenon
<1> QED
  BY <1>2, <1>3, <1>4

\* What opening leaves: no file changed, and a text that is its file's, or
\* empty, and not modified.
LEMMA OpenedAgrees ==
  ASSUME NEW s \in Documents, NEW n \in Names, NEW r \in Opened(s, n)
  PROVE  /\ r[1] \in Documents /\ r[1].modified = FALSE /\ r[1].disk = s.disk
         /\ r[2] \in Files \cup {None}
         /\ r[2] # None => s.disk[r[2]] # Absent
         /\ NoReadErrors => Agrees(r[1], r[2])
<1>1. PICK o \in DocLoad(s, n) :
        r = CASE o.result = "ok"   -> <<[Fresh(o.s) EXCEPT !.g = o.s.g, !.name = n], Here(s, n), "ok">>
              [] o.result = "open" -> <<[Fresh(o.s) EXCEPT !.name = n], None, "open">>
              [] o.result = "big"  -> <<Fresh(o.s), None, "big">>
  BY DEF Opened
<1>2. /\ o.s \in Documents /\ o.s.disk = s.disk /\ o.s.cwd = s.cwd
      /\ o.result \in {"ok", "open", "big"}
      /\ o.result = "ok" => /\ s.disk[Here(s, n)] # Absent
                            /\ NoReadErrors => TextOf(o.s.g) = s.disk[Here(s, n)]
  BY LoadReads
<1>3. /\ Fresh(o.s) \in Documents /\ TextOf(Fresh(o.s).g) = << >>
      /\ Fresh(o.s).modified = FALSE /\ Fresh(o.s).disk = s.disk
  BY <1>2, FreshIsEmpty
<1>4. Here(s, n) \in Files /\ Here(s, n) # None
  BY HereIsFile, MarksAssumption
<1>5. CASE o.result = "ok"
  <2>1. r[1] = [Fresh(o.s) EXCEPT !.g = o.s.g, !.name = n] /\ r[2] = Here(s, n)
    BY <1>1, <1>5
  <2>2. /\ r[1] \in Documents /\ r[1].g = o.s.g
        /\ r[1].modified = FALSE /\ r[1].disk = s.disk
    BY <2>1, <1>2, <1>3 DEF Documents
  <2> QED
    BY <2>1, <2>2, <1>2, <1>4, <1>5 DEF Agrees
<1>6. CASE o.result = "open"
  <2>1. r[1] = [Fresh(o.s) EXCEPT !.name = n] /\ r[2] = None
    BY <1>1, <1>6
  <2>2. /\ r[1] \in Documents /\ r[1].g = Fresh(o.s).g
        /\ r[1].modified = FALSE /\ r[1].disk = s.disk
    BY <2>1, <1>3 DEF Documents
  <2> QED
    BY <2>1, <2>2, <1>3 DEF Agrees
<1>7. CASE o.result = "big"
  <2>1. r[1] = Fresh(o.s) /\ r[2] = None
    BY <1>1, <1>7
  <2> QED
    BY <2>1, <1>3 DEF Agrees
<1> QED
  BY <1>2, <1>5, <1>6, <1>7

----------------------------------------------------------------------------
(* The invariant and the steps *)

LEMMA Begin == Init => Inv
<1> SUFFICES ASSUME Init PROVE Inv
  OBVIOUS
<1>1. /\ ed \in [g : {x \in GapBuffers : x.gs = 0 /\ x.ge = Cap}, name : {None},
                 modified : {FALSE}, cwd : Dirs, disk : [Files -> {Absent} \cup Texts]]
      /\ running = FALSE /\ origin = None
  BY DEF Init
<1> QED
  BY <1>1 DEF Inv, Documents

\* What Inv asks of a state s whose text is that of o.
Sound(s, o) ==
    /\ s \in Documents
    /\ o \in Files \cup {None}
    /\ o # None => s.disk[o] # Absent
    /\ NoReadErrors /\ ~s.modified => Agrees(s, o)

\* After a command that may save, whether it did or not.
LEMMA KeptSound ==
  ASSUME Inv, running, NEW o, Kept(ed, o)
  PROVE  Sound(o.s, Wrote(o))
<1>1. /\ ed \in Documents /\ origin \in Files \cup {None}
      /\ origin # None => ed.disk[origin] # Absent
      /\ NoReadErrors /\ ~ed.modified => Agrees(ed, origin)
  BY DEF Inv
<1>2. /\ o.s \in Documents
      /\ TextOf(o.s.g) = TextOf(ed.g)
      /\ \A f \in Files : ed.disk[f] # Absent => o.s.disk[f] = ed.disk[f]
      /\ o.wrote # None => o.wrote \in Files /\ o.s.disk[o.wrote] = TextOf(ed.g)
      /\ o.wrote = None => o.s.modified = ed.modified
  BY DEF Kept
<1>3. CASE o.wrote = None
  BY <1>1, <1>2, <1>3 DEF Sound, Wrote, Agrees
<1>4. CASE o.wrote # None
  <2>1. TextOf(ed.g) # Absent
    BY <1>1, ShownIsText, MarksAssumption DEF Documents
  <2> QED
    BY <1>2, <1>4, <2>1 DEF Sound, Wrote, Agrees
<1> QED
  BY <1>3, <1>4

LEMMA FreshSound ==
  ASSUME NEW s \in Documents
  PROVE  Sound(Fresh(s), None)
  BY FreshIsEmpty DEF Sound, Agrees

LEMMA OpenedSound ==
  ASSUME NEW s \in Documents, NEW n \in Names, NEW r \in Opened(s, n)
  PROVE  Sound(r[1], r[2])
  BY OpenedAgrees DEF Sound

LEMMA Step == Inv /\ [Next]_vars => Inv'
<1> SUFFICES ASSUME Inv, [Next]_vars PROVE Inv'
  OBVIOUS
<1>1. ed \in Documents
  BY DEF Inv
<1>2. Sound(ed', origin') => Inv'
  <2>1. running' \in BOOLEAN
    BY DEF Inv, Next, vars, Start, Type, Erase, Save, SaveAs, New, Open, Quit
  <2> QED
    BY <2>1 DEF Sound, Inv, Agrees
<1>3. ASSUME NEW n \in Names \cup {None}, Start(n) PROVE Inv'
  <2>1. Fresh(ed) \in Documents
    BY <1>1, FreshIsEmpty
  <2>2. CASE n = None
    BY <1>1, <1>2, <1>3, <2>2, FreshSound DEF Start
  <2>3. CASE n # None
    BY <1>2, <1>3, <2>1, <2>3, OpenedSound DEF Start
  <2> QED
    BY <2>2, <2>3
<1>4. ASSUME NEW p \in 0 .. GbLen(ed.g), NEW c \in Chars, Type(p, c) PROVE Inv'
  <2>1. <<c>> \in Seq(Chars) /\ ed.g \in GapBuffers /\ Fits(ed.g, <<c>>)
    BY <1>1, <1>4 DEF Type, Documents
  <2>2. Put(ed.g, p, <<c>>) \in GapBuffers
    BY <2>1, PutText
  <2>3. /\ ed' = [ed EXCEPT !.g = Put(ed.g, p, <<c>>), !.modified = TRUE]
        /\ origin' = origin /\ running' = running
    BY <1>4 DEF Type
  <2>4. ed' \in Documents /\ ed'.modified = TRUE /\ ed'.disk = ed.disk
    BY <1>1, <2>2, <2>3 DEF Documents
  <2> QED
    BY <2>3, <2>4 DEF Inv
<1>5. ASSUME NEW p \in 0 .. GbLen(ed.g) - 1, Erase(p) PROVE Inv'
  <2>1. p \in Nat /\ 1 \in Nat /\ ed.g \in GapBuffers
    BY <1>1 DEF Documents
  <2>2. Cut(ed.g, p, 1) \in GapBuffers
    BY <2>1, CutText
  <2>3. /\ ed' = [ed EXCEPT !.g = Cut(ed.g, p, 1), !.modified = TRUE]
        /\ origin' = origin /\ running' = running
    BY <1>5 DEF Erase
  <2>4. ed' \in Documents /\ ed'.modified = TRUE /\ ed'.disk = ed.disk
    BY <1>1, <2>2, <2>3 DEF Documents
  <2> QED
    BY <2>3, <2>4 DEF Inv
<1>6. CASE Save
  <2>1. PICK o \in DoSave(ed) : running /\ ed' = o.s /\ origin' = Wrote(o)
    BY <1>6 DEF Save
  <2>2. Kept(ed, o)
    BY <1>1, SaveKeeps
  <2> QED
    BY <1>2, <2>1, <2>2, KeptSound
<1>7. CASE SaveAs
  <2>1. PICK o \in DoSaveAs(ed) : running /\ ed' = o.s /\ origin' = Wrote(o)
    BY <1>7 DEF SaveAs
  <2>2. Kept(ed, o)
    BY <1>1, SaveAsKeeps
  <2> QED
    BY <1>2, <2>1, <2>2, KeptSound
<1>8. CASE New
  <2>1. PICK o \in ConfirmDiscard(ed) :
          /\ running
          /\ \/ ed' = Fresh(o.s) /\ origin' = None
             \/ ed' = o.s /\ origin' = Wrote(o)
    BY <1>8 DEF New
  <2>2. Kept(ed, o) /\ o.s \in Documents
    BY <1>1, ConfirmKeeps DEF Kept
  <2> QED
    BY <1>2, <2>1, <2>2, KeptSound, FreshSound
<1>9. CASE Open
  <2>1. PICK o \in ConfirmDiscard(ed) :
          /\ running
          /\ \/ ed' = o.s /\ origin' = Wrote(o)
             \/ \E c \in Filebox(o.s) :
                  IF c[2] = None
                  THEN ed' = c[1] /\ origin' = Wrote(o)
                  ELSE \E r \in Opened(c[1], c[2]) : ed' = r[1] /\ origin' = r[2]
    BY <1>9 DEF Open
  <2>2. Kept(ed, o) /\ o.s \in Documents
    BY <1>1, ConfirmKeeps DEF Kept
  <2>3. Sound(o.s, Wrote(o))
    BY <2>1, <2>2, KeptSound
  <2>4. CASE ed' = o.s /\ origin' = Wrote(o)
    BY <1>2, <2>3, <2>4
  <2>5. ASSUME NEW c \in Filebox(o.s),
               IF c[2] = None
               THEN ed' = c[1] /\ origin' = Wrote(o)
               ELSE \E r \in Opened(c[1], c[2]) : ed' = r[1] /\ origin' = r[2]
        PROVE  Inv'
    <3>1. /\ c[1] \in Documents /\ c[2] \in Names \cup {None}
          /\ c[1].g = o.s.g /\ c[1].disk = o.s.disk /\ c[1].modified = o.s.modified
      BY <2>2, MovedThere
    <3>2. CASE c[2] = None
      <4>1. Sound(c[1], Wrote(o))
        BY <2>3, <3>1 DEF Sound, Agrees
      <4> QED
        BY <1>2, <2>5, <3>2, <4>1
    <3>3. CASE c[2] # None
      BY <1>2, <2>5, <3>1, <3>3, OpenedSound
    <3> QED
      BY <3>2, <3>3
  <2> QED
    BY <2>1, <2>4, <2>5
<1>10. CASE Quit
  <2>1. PICK o \in ConfirmDiscard(ed) : running /\ ed' = o.s /\ origin' = Wrote(o)
    BY <1>10 DEF Quit
  <2>2. Kept(ed, o)
    BY <1>1, ConfirmKeeps
  <2> QED
    BY <1>2, <2>1, <2>2, KeptSound
<1>11. CASE UNCHANGED vars
  BY <1>11 DEF vars, Inv, Agrees
<1> QED
  BY <1>3, <1>4, <1>5, <1>6, <1>7, <1>8, <1>9, <1>10, <1>11 DEF Next

LEMMA Always == Spec => []Inv
  BY Begin, Step, PTL DEF Spec

\* With no read that fails, a text that is not shown as modified is the one in
\* its file: every load and save of doc.c reads and writes it whole or says so.
THEOREM UnmodifiedSaved == NoReadErrors => (Spec => []UnmodifiedIsSaved)
<1> SUFFICES ASSUME NoReadErrors PROVE Spec => []UnmodifiedIsSaved
  OBVIOUS
<1>1. Inv => UnmodifiedIsSaved
  BY DEF Inv, UnmodifiedIsSaved, Agrees, Shown
<1> QED
  BY <1>1, Always, PTL

EditsKept ==
    running /\ ed.modified /\ did'.op # "edit" /\ (TextOf(ed'.g) # Shown \/ running # running')
      => did'.ans = "nei" \/ (did'.wrote # None /\ ed'.disk[did'.wrote] = Shown)

LEMMA StepKeepsEdits == Inv /\ [Next]_vars => [EditsKept]_vars
<1> SUFFICES ASSUME Inv, Next, running, ed.modified PROVE EditsKept
  BY DEF EditsKept
<1>1. ed \in Documents /\ running = TRUE
  BY DEF Inv
<1>2. ASSUME NEW n \in Names \cup {None}, Start(n) PROVE EditsKept
  BY <1>2 DEF Start
<1>3. ASSUME NEW p \in 0 .. GbLen(ed.g), NEW c \in Chars, Type(p, c) PROVE EditsKept
  BY <1>3 DEF Type, DidOnly, EditsKept
<1>4. ASSUME NEW p \in 0 .. GbLen(ed.g) - 1, Erase(p) PROVE EditsKept
  BY <1>4 DEF Erase, DidOnly, EditsKept
<1>5. CASE Save
  <2>1. PICK o \in DoSave(ed) : ed' = o.s /\ running' = running
    BY <1>5 DEF Save
  <2>2. TextOf(o.s.g) = Shown
    BY <1>1, SaveKeeps DEF Kept, Shown
  <2> QED
    BY <2>1, <2>2 DEF EditsKept
<1>6. CASE SaveAs
  <2>1. PICK o \in DoSaveAs(ed) : ed' = o.s /\ running' = running
    BY <1>6 DEF SaveAs
  <2>2. TextOf(o.s.g) = Shown
    BY <1>1, SaveAsKeeps DEF Kept, Shown
  <2> QED
    BY <2>1, <2>2 DEF EditsKept
\* The commands that ask first: what was asked is settled before the rest.
<1>7. ASSUME NEW o \in ConfirmDiscard(ed), ed'.disk = o.s.disk,
             did'.ans = o.ans, did'.wrote = o.wrote,
             o.result = "ok" \/ (ed' = o.s /\ running' = running)
      PROVE  EditsKept
  <2>1. /\ TextOf(o.s.g) = Shown
        /\ o.wrote # None => o.s.disk[o.wrote] = Shown
        /\ o.result = "ok" /\ ed.modified => o.ans = "nei" \/ o.wrote # None
    BY <1>1, ConfirmKeeps DEF Kept, Shown
  <2> QED
    BY <1>7, <2>1 DEF EditsKept
<1>8. CASE New
  <2>1. PICK o \in ConfirmDiscard(ed) :
          /\ did'.ans = o.ans /\ did'.wrote = o.wrote
          /\ \/ o.result = "ok" /\ ed' = Fresh(o.s)
             \/ ed' = o.s
          /\ running' = running
    BY <1>8 DEF New, Did
  <2>2. o.s \in Documents
    BY <1>1, ConfirmKeeps DEF Kept
  <2>3. ed'.disk = o.s.disk
    BY <2>1, <2>2, FreshIsEmpty
  <2> QED
    BY <1>7, <2>1, <2>3
<1>9. CASE Open
  <2>1. PICK o \in ConfirmDiscard(ed) :
          /\ did'.ans = o.ans /\ did'.wrote = o.wrote
          /\ \/ ed' = o.s
             \/ /\ o.result = "ok"
                /\ \E c \in Filebox(o.s) :
                     IF c[2] = None
                     THEN ed' = c[1]
                     ELSE \E r \in Opened(c[1], c[2]) : ed' = r[1]
          /\ running' = running
    BY <1>9 DEF Open, Did
  <2>2. o.s \in Documents
    BY <1>1, ConfirmKeeps DEF Kept
  <2>3. ed'.disk = o.s.disk
    <3>1. ASSUME NEW c \in Filebox(o.s),
                 IF c[2] = None THEN ed' = c[1] ELSE \E r \in Opened(c[1], c[2]) : ed' = r[1]
          PROVE  ed'.disk = o.s.disk
      <4>1. c[1] \in Documents /\ c[2] \in Names \cup {None} /\ c[1].disk = o.s.disk
        BY <2>2, MovedThere
      <4>2. CASE c[2] = None
        BY <3>1, <4>1, <4>2
      <4>3. CASE c[2] # None
        BY ZenonT(30), <3>1, <4>1, <4>3, OpenedAgrees
      <4> QED
        BY <4>2, <4>3
    <3> QED
      BY <2>1, <3>1
  <2> QED
    BY <1>7, <2>1, <2>3
<1>10. CASE Quit
  <2>1. PICK o \in ConfirmDiscard(ed) :
          /\ did'.ans = o.ans /\ did'.wrote = o.wrote
          /\ ed' = o.s
          /\ running' = (o.result # "ok")
    BY <1>10 DEF Quit, Did
  <2>2. o.result = "ok" \/ running' = running
    BY <1>1, <2>1
  <2> QED
    BY <1>7, <2>1, <2>2
<1> QED
  BY <1>2, <1>3, <1>4, <1>5, <1>6, <1>8, <1>9, <1>10 DEF Next

\* No command of the editor throws changes away that the user did not give up
\* and that are not in the file it wrote first.
THEOREM EditsAreKept == Spec => KeepsEdits
  BY Always, StepKeepsEdits, PTL DEF Spec, KeepsEdits, EditsKept
=============================================================================
