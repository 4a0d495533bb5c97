---------------------------- MODULE Editor_proofs ----------------------------
(***************************************************************************)
(* Proofs about the editing core, for texts, buffers and screens of every  *)
(* size: the cursor and the selection stay in the text; and from texts     *)
(* without a lone CR, which edit.c gets wrong, line ends stay whole, the   *)
(* screen stays in the text and shows the cursor, and the number of the    *)
(* line at its top is right.                                               *)
(***************************************************************************)
EXTENDS Editor, FiniteSetTheorems, SequenceTheorems, WellFoundedInduction, TLAPS

\* Texts with any carriage returns are loaded, of which less is true.
Loose == "lone CR" \in Risky

\* A text without a lone carriage return, and a position not inside a line end,
\* unless texts are loose.
Whole(t) == Loose \/ \A p \in 0 .. Len(t) - 1 : At(t, p) = CR => p + 1 < Len(t) /\ At(t, p + 1) = LF
Between(t, p) == p \in 0 .. Len(t) /\ (Loose \/ (p > 0 => At(t, p - 1) # CR))

\* The first position of a line.
Home(t, p) == p \in 0 .. Len(t) /\ (p > 0 => At(t, p - 1) = LF)

\* No line feed in [a, b).
OneLine(t, a, b) == \A q \in a .. b - 1 : At(t, q) # LF

----------------------------------------------------------------------------
(* Numbers *)

LEMMA Smallest ==
    ASSUME NEW T \in SUBSET Nat, T # {}
    PROVE  \E x \in T : \A y \in T : x <= y
<1>1. PICK R : IsWellFoundedOn(R, Nat) /\ \A x, y \in Nat : y < x => <<y, x>> \in R
  <2> WITNESS OpToRel(<, Nat)
  <2>1. IsWellFoundedOn(OpToRel(<, Nat), Nat)
    BY NatLessThanWellFounded
  <2>2. \A x, y \in Nat : y < x => <<y, x>> \in OpToRel(<, Nat)
    BY DEF OpToRel
  <2> QED
    BY <2>1, <2>2, Zenon
<1>2. \E x \in T : \A y \in T : ~(<<y, x>> \in R)
  BY <1>1, WFMin
<1>3. \A x, y \in T : ~(<<y, x>> \in R) => x <= y
  BY <1>1
<1> QED
  BY <1>2, <1>3, Zenon

LEMMA MinIs ==
    ASSUME NEW T \in SUBSET Nat, T # {}
    PROVE  Min(T) \in T /\ \A y \in T : Min(T) <= y
  BY Smallest DEF Min

LEMMA MaxIs ==
    ASSUME NEW n \in Nat, NEW T \in SUBSET (0 .. n), T # {}
    PROVE  Max(T) \in T /\ \A y \in T : y <= Max(T)
<1> DEFINE U == {k \in 0 .. n : n - k \in T}
<1>1. U \in SUBSET Nat /\ U # {}
  <2>1. PICK y \in T : TRUE
    OBVIOUS
  <2>2. y \in 0 .. n /\ n - y \in 0 .. n /\ n - (n - y) = y
    BY <2>1
  <2>3. n - y \in U
    BY <2>1, <2>2
  <2>4. U \subseteq 0 .. n
    OBVIOUS
  <2> HIDE DEF U
  <2> QED
    BY <2>3, <2>4
<1>2. PICK k \in U : \A j \in U : k <= j
  BY <1>1, Smallest, Zenon
<1>3. n - k \in T /\ \A y \in T : y <= n - k
  <2>1. n - k \in T
    BY <1>2
  <2>2. ASSUME NEW y \in T PROVE y <= n - k
    <3>1. y \in 0 .. n /\ n - y \in 0 .. n /\ n - (n - y) = y /\ k \in 0 .. n
      BY <1>2
    <3>2. n - y \in U
      BY <3>1
    <3>3. k <= n - y
      BY <1>2, <3>2
    <3> QED
      BY <3>1, <3>3
  <2> QED
    BY <2>1, <2>2
<1> QED
  BY <1>3 DEF Max

\* A function f from D to S defined by recursion: on B it is given by b, elsewhere
\* by k from its value at the next place g, where the measure m is less.
Descends(D, S, m, g, B, b, k) ==
    /\ m \in [D -> Nat] /\ g \in [D -> D] /\ B \in SUBSET D
    /\ b \in [D -> S] /\ k \in [D -> [S -> S]]
    /\ \A x \in D \ B : m[g[x]] < m[x]

Solves(f, D, S, g, B, b, k) ==
    f \in [D -> S] /\ \A x \in D : f[x] = IF x \in B THEN b[x] ELSE k[x][f[g[x]]]

LEMMA Recursion ==
    ASSUME NEW D, NEW S, NEW m, NEW g, NEW B, NEW b, NEW k, Descends(D, S, m, g, B, b, k)
    PROVE  \E f : Solves(f, D, S, g, B, b, k)
<1>0. /\ m \in [D -> Nat] /\ g \in [D -> D] /\ B \in SUBSET D
      /\ b \in [D -> S] /\ k \in [D -> [S -> S]]
      /\ \A x \in D \ B : m[g[x]] < m[x]
  BY DEF Descends
<1> USE <1>0
<1> DEFINE Low(n) == {x \in D : m[x] < n}
           Rule(f, x) == f[x] = IF x \in B THEN b[x] ELSE k[x][f[g[x]]]
           Good(n, f) == f \in [Low(n) -> S] /\ \A x \in Low(n) : Rule(f, x)
           T == {n \in Nat : ~\E f : Good(n, f)}
<1>1. T = {}
  <2> SUFFICES ASSUME T # {} PROVE FALSE
    OBVIOUS
  <2>1. PICK n \in T : \A y \in T : n <= y
    <3>1. T \in SUBSET Nat
      OBVIOUS
    <3> QED
      BY <3>1, Smallest, Zenon
  <2>2. n # 0
    <3>1. Low(0) = {}
      OBVIOUS
    <3>2. Good(0, [x \in {} |-> CHOOSE s \in S : TRUE])
      BY <3>1
    <3>3. n \in Nat /\ ~\E f : Good(n, f)
      BY <2>1
    <3> HIDE DEF Good
    <3> QED
      BY <3>2, <3>3
  <2>3. n - 1 \in Nat /\ n - 1 \notin T
    <3> n \in Nat
      BY <2>1
    <3>1. n - 1 \in Nat /\ ~(n <= n - 1)
      BY <2>2
    <3> QED
      BY <2>1, <3>1
  <2>4. PICK f : Good(n - 1, f)
    BY <2>3
  <2> DEFINE h == [x \in Low(n) |-> IF x \in B THEN b[x] ELSE k[x][f[g[x]]]]
  <2>5. \A x \in Low(n) : x \notin B => g[x] \in Low(n - 1)
    BY <2>1, <2>3
  <2>6. \A x \in Low(n) : h[x] \in S
    <3> SUFFICES ASSUME NEW x \in Low(n) PROVE h[x] \in S
      OBVIOUS
    <3>1. CASE x \in B
      BY <3>1
    <3>2. CASE x \notin B
      <4>1. f[g[x]] \in S
        BY <2>4, <2>5, <3>2
      <4> QED
        BY <3>2, <4>1
    <3> QED
      BY <3>1, <3>2
  <2>7. \A x \in Low(n - 1) : x \in Low(n) /\ h[x] = f[x]
    BY <2>1, <2>3, <2>4
  <2>8. Good(n, h)
    <3>1. h \in [Low(n) -> S]
      BY <2>6
    <3>2. ASSUME NEW x \in Low(n) PROVE Rule(h, x)
      <4>1. CASE x \in B
        BY <4>1
      <4>2. CASE x \notin B
        <5>1. h[g[x]] = f[g[x]]
          BY <2>5, <2>7, <4>2
        <5> QED
          BY <4>2, <5>1
      <4> QED
        BY <4>1, <4>2
    <3> QED
      BY <3>1, <3>2
  <2> QED
    BY <2>1, <2>8
<1>2. \A n \in Nat : \E f : Good(n, f)
  BY <1>1
<1> DEFINE F == [n \in Nat |-> CHOOSE f : Good(n, f)]
<1>3. \A n \in Nat : Good(n, F[n])
  BY <1>2
<1> HIDE DEF F
<1>4. ASSUME NEW i \in Nat, NEW j \in Nat, NEW y \in D, m[y] < i, m[y] < j
      PROVE  F[i][y] = F[j][y]
  <2> DEFINE V == {n \in Nat : \E x \in D : m[x] = n /\ n < i /\ n < j /\ F[i][x] # F[j][x]}
  <2>1. SUFFICES ASSUME V # {} PROVE FALSE
    BY <1>4
  <2>2. PICK n \in V : \A z \in V : n <= z
    <3>1. V \in SUBSET Nat
      OBVIOUS
    <3> QED
      BY <2>1, <3>1, Smallest, Zenon
  <2>3. PICK x \in D : m[x] = n /\ n < i /\ n < j /\ F[i][x] # F[j][x]
    BY <2>2
  <2>4. x \in Low(i) /\ x \in Low(j)
    BY <2>3
  <2>5. Rule(F[i], x) /\ Rule(F[j], x)
    BY <1>3, <2>4
  <2>6. x \notin B
    BY <2>3, <2>5
  <2>7. m[g[x]] \in Nat /\ m[g[x]] < n
    BY <2>3, <2>6
  <2>8. F[i][g[x]] # F[j][g[x]]
    BY <2>3, <2>5, <2>6
  <2> QED
    BY <2>2, <2>3, <2>7, <2>8
<1> DEFINE e == [x \in D |-> F[m[x] + 1][x]]
<1>5. ASSUME NEW x \in D
      PROVE  e[x] \in S /\ e[x] = IF x \in B THEN b[x] ELSE k[x][e[g[x]]]
  <2>1. x \in Low(m[x] + 1) /\ m[x] + 1 \in Nat
    OBVIOUS
  <2>2. Good(m[x] + 1, F[m[x] + 1])
    BY <1>3, <2>1
  <2>3. e[x] \in S /\ Rule(F[m[x] + 1], x)
    BY <2>1, <2>2
  <2>4. CASE x \in B
    BY <2>3, <2>4
  <2>5. CASE x \notin B
    <3>1. m[g[x]] < m[x] /\ g[x] \in D
      BY <2>5
    <3>2. F[m[x] + 1][g[x]] = F[m[g[x]] + 1][g[x]]
      BY <1>4, <3>1
    <3> QED
      BY <2>3, <2>5, <3>1, <3>2
  <2> QED
    BY <2>3, <2>4, <2>5
<1>6. e \in [D -> S]
  BY <1>5
<1> QED
  BY <1>5, <1>6 DEF Solves

\* Any function defined so has its values in S.

----------------------------------------------------------------------------
(* Lines *)

LEMMA Strict ==
    ASSUME Risky = {}
    PROVE  ~Loose
  BY DEF Loose

LEMMA TextPositions ==
    ASSUME NEW t \in Seq(Chars), NEW p \in 0 .. Len(t) - 1
    PROVE  At(t, p) \in Chars
  BY DEF At

LEMMA WholeIs ==
    ASSUME NEW t \in Seq(Chars), ~Loose
    PROVE  Whole(t) <=> LoneCR(t) = {}
<1>1. LoneCR(t) = {} <=> \A p \in 0 .. Len(t) - 1 : At(t, p) = CR => IsPair(t, p)
  BY DEF LoneCR
<1>2. \A p \in 0 .. Len(t) - 1 :
        At(t, p) = CR => (IsPair(t, p) <=> p + 1 < Len(t) /\ At(t, p + 1) = LF)
  BY DEF IsPair
<1> QED
  BY <1>1, <1>2 DEF Whole

LEMMA BetweenIs ==
    ASSUME ~Loose, NEW t \in Seq(Chars), Whole(t), NEW p \in 0 .. Len(t)
    PROVE  Between(t, p) <=> ~IsPair(t, p - 1)
<1>1. CASE p = 0
  BY <1>1 DEF Between, IsPair
<1>2. CASE p > 0
  <2>1. p - 1 \in 0 .. Len(t) - 1 /\ (p - 1) + 1 = p
    BY <1>2
  <2>2. At(t, p - 1) = CR => p < Len(t) /\ At(t, p) = LF
    BY <2>1 DEF Whole
  <2>3. IsPair(t, p - 1) <=> At(t, p - 1) = CR
    BY <1>2, <2>1, <2>2 DEF IsPair
  <2> QED
    BY <1>2, <2>3 DEF Between
<1> QED
  BY <1>1, <1>2

LEMMA HomeBetween ==
    ASSUME NEW t \in Seq(Chars), NEW p, Home(t, p)
    PROVE  Between(t, p)
  BY EditorAssumption DEF Home, Between

LEMMA LineHomeIs ==
    ASSUME NEW t \in Seq(Chars), NEW p \in 0 .. Len(t)
    PROVE  LineHome(t, p) \in 0 .. p /\ Home(t, LineHome(t, p)) /\ OneLine(t, LineHome(t, p), p)
<1> DEFINE T == {0} \cup {q \in 1 .. p : At(t, q - 1) = LF}
<1>1. T \in SUBSET (0 .. p) /\ T # {} /\ p \in Nat
  OBVIOUS
<1>2. LineHome(t, p) = Max(T)
  BY DEF LineHome
<1>3. Max(T) \in T /\ \A y \in T : y <= Max(T)
  <2> HIDE DEF T
  <2> QED
    BY <1>1, MaxIs
<1>4. Home(t, Max(T))
  BY <1>3 DEF Home
<1>5. ASSUME NEW q \in Max(T) .. p - 1, At(t, q) = LF
      PROVE  FALSE
  <2>1. Max(T) \in 0 .. p
    BY <1>1, <1>3
  <2> HIDE DEF T
  <2>2. q + 1 \in 1 .. p /\ (q + 1) - 1 = q /\ ~(q + 1 <= Max(T))
    BY <2>1
  <2>3. q + 1 \in T
    BY <1>5, <2>2 DEF T
  <2> QED
    BY <1>3, <2>2, <2>3
<1> HIDE DEF T
<1> QED
  BY <1>1, <1>2, <1>3, <1>4, <1>5 DEF OneLine

LEMMA LineHomeUnique ==
    ASSUME NEW t \in Seq(Chars), NEW p \in 0 .. Len(t), NEW h \in 0 .. p,
           Home(t, h), OneLine(t, h, p)
    PROVE  LineHome(t, p) = h
<1>1. LineHome(t, p) \in 0 .. p /\ Home(t, LineHome(t, p)) /\ OneLine(t, LineHome(t, p), p)
  BY LineHomeIs
<1>2. CASE h < LineHome(t, p)
  <2>1. LineHome(t, p) - 1 \in h .. p - 1 /\ At(t, LineHome(t, p) - 1) = LF
    BY <1>1, <1>2 DEF Home
  <2> QED
    BY <2>1 DEF OneLine
<1>3. CASE LineHome(t, p) < h
  <2>1. h - 1 \in LineHome(t, p) .. p - 1 /\ At(t, h - 1) = LF
    BY <1>1, <1>3 DEF Home
  <2> QED
    BY <1>1, <2>1 DEF OneLine
<1> QED
  BY <1>1, <1>2, <1>3

LEMMA LineEndIs ==
    ASSUME NEW t \in Seq(Chars), NEW p \in 0 .. Len(t)
    PROVE  LET e == LineEnd(t, p)
           IN  /\ e \in p .. Len(t)
               /\ e = Len(t) \/ At(t, e) \in {CR, LF}
               /\ \A q \in p .. e - 1 : At(t, q) \notin {CR, LF}
<1> DEFINE T == {Len(t)} \cup {q \in p .. Len(t) - 1 : At(t, q) \in {CR, LF}}
<1>1. T \in SUBSET Nat /\ T # {} /\ \A q \in T : q \in p .. Len(t)
  OBVIOUS
<1>2. Max({p, Len(t)}) = Len(t)
  <2> DEFINE U == {p, Len(t)}
  <2>1. U \in SUBSET (0 .. Len(t)) /\ U # {} /\ Len(t) \in Nat
    OBVIOUS
  <2>2. Max(U) \in U /\ \A y \in U : y <= Max(U)
    <3> HIDE DEF U
    <3> QED
      BY <2>1, MaxIs
  <2>3. Max(U) = Len(t)
    <3>1. Max(U) \in {p, Len(t)} /\ Len(t) <= Max(U)
      BY <2>2
    <3> HIDE DEF U
    <3> QED
      BY <3>1
  <2> QED
    BY <2>3
<1>3. LineEnd(t, p) = Min(T)
  BY <1>2 DEF LineEnd
<1>4. Min(T) \in T /\ \A y \in T : Min(T) <= y
  <2> HIDE DEF T
  <2> QED
    BY <1>1, MinIs
<1>5. Min(T) \in p .. Len(t) /\ (Min(T) = Len(t) \/ At(t, Min(T)) \in {CR, LF})
  BY <1>4
<1>6. ASSUME NEW q \in p .. Min(T) - 1, At(t, q) \in {CR, LF}
      PROVE  FALSE
  <2>1. q \in p .. Len(t) - 1 /\ ~(Min(T) <= q)
    <3> HIDE DEF T
    <3> QED
      BY <1>5
  <2>2. q \in T
    BY <1>6, <2>1
  <2> HIDE DEF T
  <2> QED
    BY <1>4, <2>1, <2>2
<1> HIDE DEF T
<1> QED
  BY <1>3, <1>5, <1>6

LEMMA CountIs ==
    ASSUME NEW t \in Seq(Chars), NEW p \in 0 .. Len(t)
    PROVE  /\ CountLine(t, p) \in Nat \ {0}
           /\ p = 0 => CountLine(t, p) = 1
           /\ IsFiniteSet({q \in 1 .. p : At(t, q - 1) = LF})
<1> DEFINE T == {q \in 1 .. p : At(t, q - 1) = LF}
<1>1. IsFiniteSet(1 .. p)
  BY FS_Interval
<1>2. T \subseteq 1 .. p
  OBVIOUS
<1>3. IsFiniteSet(T) /\ Cardinality(T) \in Nat
  <2> HIDE DEF T
  <2> QED
    BY <1>1, <1>2, FS_Subset, FS_CardinalityType
<1>4. p = 0 => Cardinality(T) = 0
  BY FS_EmptySet
<1>5. CountLine(t, p) = 1 + Cardinality(T)
  BY DEF CountLine
<1> HIDE DEF T
<1> QED
  BY <1>3, <1>4, <1>5 DEF T

LEMMA CountSame ==
    ASSUME NEW t \in Seq(Chars), NEW b \in 0 .. Len(t), NEW a \in 0 .. b, OneLine(t, a, b)
    PROVE  CountLine(t, b) = CountLine(t, a)
<1>1. ASSUME NEW q \in 1 .. b, At(t, q - 1) = LF
      PROVE  q \in 1 .. a
  <2>1. q - 1 \notin a .. b - 1
    BY <1>1 DEF OneLine
  <2> QED
    BY <2>1
<1>2. {q \in 1 .. b : At(t, q - 1) = LF} = {q \in 1 .. a : At(t, q - 1) = LF}
  BY <1>1
<1> QED
  BY <1>2 DEF CountLine

LEMMA CountNext ==
    ASSUME NEW t \in Seq(Chars), NEW b \in 0 .. Len(t), NEW a \in 0 .. b - 1,
           At(t, b - 1) = LF, OneLine(t, a, b - 1)
    PROVE  CountLine(t, b) = CountLine(t, a) + 1
<1>0. b - 1 \in 0 .. Len(t) /\ a \in 0 .. b - 1 /\ b \in Nat
  OBVIOUS
<1>1. CountLine(t, b - 1) = CountLine(t, a)
  BY <1>0, CountSame
<1> DEFINE T == {q \in 1 .. b - 1 : At(t, q - 1) = LF}
           U == {q \in 1 .. b : At(t, q - 1) = LF}
<1>2. IsFiniteSet(T) /\ b \notin T
  BY <1>0, CountIs
<1>3. U = T \cup {b}
  <2>1. \A q \in 1 .. b : q \in 1 .. b - 1 \/ q = b
    BY <1>0
  <2>2. b \in U
    BY <1>0
  <2> QED
    BY <1>0, <2>1, <2>2
<1>4. Cardinality(T \cup {b}) = Cardinality(T) + 1 /\ Cardinality(T) \in Nat
  <2> HIDE DEF T
  <2> QED
    BY <1>2, FS_AddElement, FS_CardinalityType
<1>5. CountLine(t, b) = 1 + Cardinality(U) /\ CountLine(t, b - 1) = 1 + Cardinality(T)
  BY DEF CountLine
<1> HIDE DEF T, U
<1> QED
  BY <1>1, <1>3, <1>4, <1>5

\* The line before one that begins at h, and the one behind p.
LEMMA PrevLineIs ==
    ASSUME NEW t \in Seq(Chars), NEW h, Home(t, h), h > 0
    PROVE  LET p == PrevLine(t, h)
           IN  /\ p \in 0 .. h - 1 /\ Home(t, p)
               /\ CountLine(t, h) = CountLine(t, p) + 1
               /\ \A g : Home(t, g) /\ g < h => g <= p
<1>1. h \in 1 .. Len(t) /\ At(t, h - 1) = LF
  BY DEF Home
<1> DEFINE k == IF IsPair(t, h - 2) THEN h - 2 ELSE h - 1
<1>2. k \in 0 .. h - 1 /\ OneLine(t, k, h - 1)
  <2>1. CASE IsPair(t, h - 2)
    <3>1. h - 2 >= 0 /\ At(t, h - 2) = CR
      BY <2>1 DEF IsPair
    <3>2. \A q \in h - 2 .. h - 2 : At(t, q) # LF
      BY <1>1, <3>1, EditorAssumption
    <3>3. k = h - 2
      BY <2>1
    <3> QED
      BY <1>1, <3>1, <3>2, <3>3 DEF OneLine
  <2>2. CASE ~IsPair(t, h - 2)
    <3>1. k = h - 1
      BY <2>2
    <3> QED
      BY <1>1, <3>1 DEF OneLine
  <2> QED
    BY <2>1, <2>2
<1>3. PrevLine(t, h) = LineHome(t, k)
  BY <1>1 DEF PrevLine
<1> HIDE DEF k
<1>4. k \in 0 .. Len(t)
  BY <1>1, <1>2
<1> DEFINE p == LineHome(t, k)
<1>5. p \in 0 .. k /\ Home(t, p) /\ OneLine(t, p, k)
  BY <1>4, LineHomeIs
<1> HIDE DEF p
<1>6. OneLine(t, p, h - 1)
  <2> SUFFICES ASSUME NEW q \in p .. (h - 1) - 1 PROVE At(t, q) # LF
    BY DEF OneLine
  <2>1. q \in p .. k - 1 \/ q \in k .. (h - 1) - 1
    BY <1>1, <1>2, <1>5
  <2> QED
    BY <1>2, <1>5, <2>1 DEF OneLine
<1>7. CountLine(t, h) = CountLine(t, p) + 1
  BY <1>1, <1>2, <1>5, <1>6, CountNext
<1>8. ASSUME NEW g, Home(t, g), g < h
      PROVE  g <= p
  <2>1. g \in 0 .. Len(t)
    BY <1>8 DEF Home
  <2>2. CASE g > p
    <3>1. g - 1 \in p .. (h - 1) - 1 /\ At(t, g - 1) = LF
      BY <1>1, <1>2, <1>5, <1>8, <2>1, <2>2 DEF Home
    <3> QED
      BY <1>6, <3>1 DEF OneLine
  <2> QED
    BY <1>2, <1>5, <2>1, <2>2
<1> QED
  BY <1>1, <1>2, <1>3, <1>5, <1>7, <1>8 DEF p

LEMMA NextLineIs ==
    ASSUME NEW t \in Seq(Chars), NEW e \in 0 .. Len(t)
    PROVE  /\ NextLine(t, e) \in e .. Len(t)
           /\ e < Len(t) => NextLine(t, e) > e
           /\ e = Len(t) => NextLine(t, e) = e
  BY DEF NextLine, IsPair

LEMMA AfterIsBehind ==
    ASSUME NEW t \in Seq(Chars), NEW p \in 0 .. Len(t)
    PROVE  After(t, p) \in p .. Len(t) /\ (p < Len(t) => After(t, p) > p)
  BY LineEndIs, NextLineIs DEF After

LEMMA AfterIs ==
    ASSUME ~Loose, NEW t \in Seq(Chars), Whole(t), NEW p \in 0 .. Len(t), NEW c, Home(t, c), p < c
    PROVE  /\ After(t, p) \in p + 1 .. c /\ Home(t, After(t, p))
           /\ CountLine(t, After(t, p)) = CountLine(t, p) + 1
<1> DEFINE e == LineEnd(t, p)
<1>1. /\ e \in p .. Len(t)
      /\ e = Len(t) \/ At(t, e) \in {CR, LF}
      /\ \A q \in p .. e - 1 : At(t, q) \notin {CR, LF}
  BY LineEndIs
<1> HIDE DEF e
<1>2. c \in p + 1 .. Len(t) /\ At(t, c - 1) = LF
  BY DEF Home
<1>3. e <= c - 1
  <2>1. c - 1 \notin p .. e - 1
    BY <1>1, <1>2
  <2> QED
    BY <1>1, <1>2, <2>1
<1>4. e \in 0 .. Len(t) - 1 /\ At(t, e) \in {CR, LF} /\ After(t, p) = NextLine(t, e)
  BY <1>1, <1>2, <1>3 DEF After, e
<1>5. CASE At(t, e) = LF
  <2>1. ~IsPair(t, e)
    BY <1>5, EditorAssumption DEF IsPair
  <2>2. After(t, p) = e + 1
    BY <1>4, <2>1 DEF NextLine
  <2>3. (e + 1) - 1 = e /\ e + 1 \in 0 .. Len(t) /\ p \in 0 .. (e + 1) - 1 /\ OneLine(t, p, (e + 1) - 1)
    BY <1>1, <1>4 DEF OneLine
  <2>4. CountLine(t, e + 1) = CountLine(t, p) + 1
    BY <1>5, <2>3, CountNext
  <2> QED
    BY <1>1, <1>2, <1>3, <1>5, <2>2, <2>3, <2>4 DEF Home
<1>6. CASE At(t, e) = CR
  <2>1. IsPair(t, e) /\ e + 1 < Len(t) /\ At(t, e + 1) = LF
    BY <1>4, <1>6 DEF IsPair, Whole
  <2>2. After(t, p) = e + 2
    BY <1>4, <2>1 DEF NextLine
  <2>3. ASSUME NEW q \in p .. ((e + 2) - 1) - 1
        PROVE  At(t, q) # LF
    <3>1. q \in p .. e - 1 \/ q = e
      BY <1>1
    <3> QED
      BY <1>1, <1>6, <3>1, EditorAssumption
  <2>4. (e + 2) - 1 = e + 1 /\ e + 2 \in 0 .. Len(t) /\ p \in 0 .. (e + 2) - 1
    BY <1>1, <1>4, <2>1
  <2>5. CountLine(t, e + 2) = CountLine(t, p) + 1
    BY <2>1, <2>3, <2>4, CountNext DEF OneLine
  <2>6. e + 1 <= c - 1
    <3>1. e # c - 1
      BY <1>2, <1>6, EditorAssumption
    <3> QED
      BY <1>1, <1>2, <1>3, <3>1
  <2> QED
    BY <1>1, <1>2, <2>1, <2>2, <2>4, <2>5, <2>6 DEF Home
<1> QED
  BY <1>4, <1>5, <1>6

----------------------------------------------------------------------------
(* Rows *)

LEMMA RowNextIs ==
    ASSUME NEW t \in Seq(Chars), NEW e \in 0 .. Len(t), NEW p \in 0 .. e
    PROVE  LET n == RowNext(t, p, e)
           IN  n \in p .. e /\ (n < e => n > p) /\ (n < e <=> e - p >= WrapCol)
<1>1. CASE e - p < WrapCol
  BY <1>1, EditorAssumption DEF RowNext
<1>2. CASE e - p >= WrapCol
  <2> DEFINE T == {q \in p .. p + WrapCol - 2 : At(t, q) = Space}
  <2>1. T = {} => RowNext(t, p, e) = p + WrapCol - 1
    BY <1>2, EditorAssumption DEF RowNext
  <2>2. T # {} => RowNext(t, p, e) = Max(T) + 1
    BY <1>2, EditorAssumption DEF RowNext
  <2>3. ASSUME T # {}
        PROVE  Max(T) \in T
    <3>1. T \in SUBSET (0 .. p + WrapCol - 2) /\ p + WrapCol - 2 \in Nat
      BY EditorAssumption
    <3> HIDE DEF T
    <3> QED
      BY <2>3, <3>1, MaxIs
  <2>4. T # {} => Max(T) \in p .. p + WrapCol - 2
    BY <2>3
  <2> HIDE DEF T
  <2> QED
    BY <1>2, <2>1, <2>2, <2>4, EditorAssumption
<1> QED
  BY <1>1, <1>2, EditorAssumption

LEMMA RowStartsIs ==
    ASSUME NEW t \in Seq(Chars), NEW e \in 0 .. Len(t)
    PROVE  \A p \in 0 .. e :
             RowStarts(t, p, e) = {p} \cup (IF RowNext(t, p, e) < e
                                            THEN RowStarts(t, RowNext(t, p, e), e) ELSE {})
<1> DEFINE D == 0 .. e
           S == SUBSET (0 .. e)
           g == [p \in D |-> RowNext(t, p, e)]
           B == {p \in D : RowNext(t, p, e) >= e}
           Rows(f) == [p \in D |-> LET n == RowNext(t, p, e)
                                   IN  {p} \cup (IF n < e THEN f[n] ELSE {})]
<1>1. \A p \in D : RowNext(t, p, e) \in 0 .. e /\ (RowNext(t, p, e) < e => RowNext(t, p, e) > p)
  BY RowNextIs
<1>2. \E f : f = Rows(f)
  <2> DEFINE m == [p \in D |-> e - p]
             b == [p \in D |-> {p}]
             k == [p \in D |-> [s \in S |-> {p} \cup s]]
  <2>1. m \in [D -> Nat] /\ g \in [D -> D] /\ B \in SUBSET D /\ b \in [D -> S] /\ k \in [D -> [S -> S]]
    BY <1>1
  <2>2. \A p \in D \ B : m[g[p]] < m[p]
    <3> SUFFICES ASSUME NEW p \in D, p \notin B PROVE m[g[p]] < m[p]
      OBVIOUS
    <3>1. RowNext(t, p, e) \in 0 .. e /\ RowNext(t, p, e) > p
      BY <1>1
    <3>2. g[p] = RowNext(t, p, e) /\ m[g[p]] = e - RowNext(t, p, e) /\ m[p] = e - p
      BY <3>1
    <3> QED
      BY <3>1, <3>2
  <2>3. PICK f : f \in [D -> S] /\ \A p \in D : f[p] = IF p \in B THEN b[p] ELSE k[p][f[g[p]]]
    <3> HIDE DEF D, S, m, g, B, b, k
    <3>1. Descends(D, S, m, g, B, b, k)
      BY <2>1, <2>2 DEF Descends
    <3>2. PICK f : Solves(f, D, S, g, B, b, k)
      BY <3>1, Recursion, Zenon
    <3> QED
      BY <3>2 DEF Solves
  <2>4. \A p \in D : f[p] = {p} \cup (IF RowNext(t, p, e) < e THEN f[RowNext(t, p, e)] ELSE {})
    <3> SUFFICES ASSUME NEW p \in D
                 PROVE  f[p] = {p} \cup (IF RowNext(t, p, e) < e THEN f[RowNext(t, p, e)] ELSE {})
      OBVIOUS
    <3>1. f[p] = IF p \in B THEN {p} ELSE {p} \cup f[RowNext(t, p, e)]
      BY <1>1, <2>3
    <3> QED
      BY <1>1, <3>1, SMTT(30)
  <2>5. f = Rows(f)
    BY <2>3, <2>4
  <2> QED
    BY <2>5
<1> DEFINE r == CHOOSE f : f = Rows(f)
<1>3. r = Rows(r)
  BY <1>2
<1>4. \A h : RowStarts(t, h, e) = r[h]
  BY DEF RowStarts
<1> HIDE DEF r
<1>5. \A p \in D : r[p] = {p} \cup (IF RowNext(t, p, e) < e THEN r[RowNext(t, p, e)] ELSE {})
  BY <1>3
<1> QED
  BY <1>4, <1>5

LEMMA RowStartsBounds ==
    ASSUME NEW t \in Seq(Chars), NEW e \in 0 .. Len(t), NEW h \in 0 .. e
    PROVE  /\ RowStarts(t, h, e) \subseteq h .. e /\ h \in RowStarts(t, h, e)
           /\ IsFiniteSet(RowStarts(t, h, e)) /\ Cardinality(RowStarts(t, h, e)) \in Nat \ {0}
<1> DEFINE T == {d \in Nat : \E p \in 0 .. e : d = e - p /\ ~(RowStarts(t, p, e) \subseteq p .. e)}
<1>1. T = {}
  <2> SUFFICES ASSUME T # {} PROVE FALSE
    OBVIOUS
  <2>1. PICK d \in T : \A x \in T : d <= x
    <3>1. T \in SUBSET Nat
      OBVIOUS
    <3> HIDE DEF T
    <3> QED
      BY <3>1, Smallest
  <2>2. PICK p \in 0 .. e : d = e - p /\ ~(RowStarts(t, p, e) \subseteq p .. e)
    BY <2>1
  <2> DEFINE n == RowNext(t, p, e)
  <2>3. RowStarts(t, p, e) = {p} \cup (IF n < e THEN RowStarts(t, n, e) ELSE {})
    BY RowStartsIs
  <2>4. n \in p .. e /\ (n < e => n > p)
    BY RowNextIs
  <2> HIDE DEF n
  <2>5. n < e /\ ~(RowStarts(t, n, e) \subseteq p .. e)
    BY <2>2, <2>3
  <2>6. ~(RowStarts(t, n, e) \subseteq n .. e)
    BY <2>4, <2>5
  <2>7. e - n \in T /\ e - n < d
    BY <2>2, <2>4, <2>5, <2>6
  <2>8. d \in Nat /\ e - n \in Nat
    BY <2>2, <2>4
  <2> QED
    BY <2>1, <2>7, <2>8
<1>2. RowStarts(t, h, e) \subseteq h .. e
  <2>1. e - h \in Nat
    OBVIOUS
  <2>2. e - h \notin T
    BY <1>1, Zenon
  <2> QED
    BY <2>1, <2>2
<1>3. h \in RowStarts(t, h, e)
  BY RowStartsIs
<1>4. IsFiniteSet(RowStarts(t, h, e))
  <2>1. IsFiniteSet(h .. e)
    BY FS_Interval
  <2> QED
    BY <1>2, <2>1, FS_Subset
<1>5. Cardinality(RowStarts(t, h, e)) \in Nat /\ Cardinality(RowStarts(t, h, e)) # 0
  BY <1>3, <1>4, FS_CardinalityType, FS_EmptySet
<1> QED
  BY <1>2, <1>3, <1>4, <1>5

\* RowsOf, RowsTo and RowsIn, for lines that are wrapped when w holds: the model has
\* them with the redraw's wrap'.
Rows(w, t, h) == IF w THEN Cardinality(RowStarts(t, h, LineEnd(t, h))) ELSE 1
RowsUntil(w, t, h, home) ==
    LET sum[p \in 0 .. Len(t)] == IF p >= home THEN 0 ELSE Rows(w, t, p) + sum[After(t, p)]
    IN  sum[h]
RowsWithin(w, t, c, h) ==
    IF w THEN Cardinality({s \in RowStarts(t, h, LineEnd(t, h)) : h < s /\ s <= c}) ELSE 0

LEMMA RowsIs ==
    ASSUME NEW w, NEW t \in Seq(Chars), NEW h \in 0 .. Len(t)
    PROVE  Rows(w, t, h) \in Nat \ {0}
<1>1. LineEnd(t, h) \in 0 .. Len(t) /\ h \in 0 .. LineEnd(t, h)
  BY LineEndIs
<1> QED
  BY <1>1, RowStartsBounds DEF Rows

LEMMA RowsWithinIs ==
    ASSUME NEW w, NEW t \in Seq(Chars), NEW c \in 0 .. Len(t), NEW h \in 0 .. Len(t)
    PROVE  RowsWithin(w, t, c, h) \in Nat
<1> DEFINE R == RowStarts(t, h, LineEnd(t, h))
           T == {s \in R : h < s /\ s <= c}
<1>1. LineEnd(t, h) \in 0 .. Len(t) /\ h \in 0 .. LineEnd(t, h)
  BY LineEndIs
<1>2. IsFiniteSet(R)
  BY <1>1, RowStartsBounds
<1>3. Cardinality(T) \in Nat
  <2>1. T \subseteq R
    OBVIOUS
  <2> HIDE DEF T, R
  <2> QED
    BY <1>2, <2>1, FS_Subset, FS_CardinalityType
<1> QED
  BY <1>3 DEF RowsWithin

----------------------------------------------------------------------------
(* ensure_visible *)

\* Going up from a line to the line of the cursor, or staying on it.
LEMMA UpIs ==
    ASSUME NEW t \in Seq(Chars), NEW home, Home(t, home), NEW h, Home(t, h)
    PROVE  LET u == Up(t, h, home)
           IN  /\ u.top \in 0 .. home /\ Home(t, u.top)
               /\ u.up \in Nat /\ CountLine(t, u.top) = CountLine(t, h) - u.up
<1> DEFINE D == 0 .. Len(t)
           S == [top : Int, up : Int]
           Climb(f) == [p \in D |-> IF p <= home THEN [top |-> p, up |-> 0]
                                    ELSE [f[PrevLine(t, p)] EXCEPT !.up = @ + 1]]
<1>0. home \in D /\ h \in D
  BY DEF Home
<1>1. \A p \in D : p > 0 => PrevLine(t, p) \in 0 .. p - 1
  <2> SUFFICES ASSUME NEW p \in D, p > 0 PROVE PrevLine(t, p) \in 0 .. p - 1
    OBVIOUS
  <2>1. CASE IsPair(t, p - 2)
    <3>1. p - 2 \in 0 .. Len(t) /\ PrevLine(t, p) = LineHome(t, p - 2)
      BY <2>1 DEF IsPair, PrevLine
    <3>2. LineHome(t, p - 2) \in 0 .. p - 2
      BY <3>1, LineHomeIs
    <3> QED
      BY <3>1, <3>2
  <2>2. CASE ~IsPair(t, p - 2)
    <3>1. p - 1 \in 0 .. Len(t) /\ PrevLine(t, p) = LineHome(t, p - 1)
      BY <2>2 DEF PrevLine
    <3>2. LineHome(t, p - 1) \in 0 .. p - 1
      BY <3>1, LineHomeIs
    <3> QED
      BY <3>1, <3>2
  <2> QED
    BY <2>1, <2>2
<1>2. \E f : f = Climb(f)
  <2> DEFINE m == [p \in D |-> p]
             g == [p \in D |-> IF p > 0 THEN PrevLine(t, p) ELSE 0]
             B == {p \in D : p <= home}
             b == [p \in D |-> [top |-> p, up |-> 0]]
             k == [p \in D |-> [s \in S |-> [s EXCEPT !.up = @ + 1]]]
  <2>1. m \in [D -> Nat] /\ g \in [D -> D] /\ B \in SUBSET D /\ b \in [D -> S] /\ k \in [D -> [S -> S]]
    BY <1>1
  <2>2. \A p \in D \ B : m[g[p]] < m[p]
    <3> SUFFICES ASSUME NEW p \in D, p \notin B PROVE m[g[p]] < m[p]
      OBVIOUS
    <3>1. p > 0 /\ PrevLine(t, p) \in 0 .. p - 1 /\ PrevLine(t, p) \in D
      BY <1>0, <1>1
    <3> QED
      BY <3>1
  <2>3. PICK f : f \in [D -> S] /\ \A p \in D : f[p] = IF p \in B THEN b[p] ELSE k[p][f[g[p]]]
    <3> HIDE DEF D, S, m, g, B, b, k
    <3>1. Descends(D, S, m, g, B, b, k)
      BY <2>1, <2>2 DEF Descends
    <3>2. PICK f : Solves(f, D, S, g, B, b, k)
      BY <3>1, Recursion, Zenon
    <3> QED
      BY <3>2 DEF Solves
  <2>4. \A p \in D : f[p] = IF p <= home THEN [top |-> p, up |-> 0]
                            ELSE [f[PrevLine(t, p)] EXCEPT !.up = @ + 1]
    <3> SUFFICES ASSUME NEW p \in D, ~(p <= home)
                 PROVE  f[p] = [f[PrevLine(t, p)] EXCEPT !.up = @ + 1]
      BY <2>3
    <3>1. p > 0 /\ PrevLine(t, p) \in D /\ g[p] = PrevLine(t, p)
      BY <1>0, <1>1
    <3>2. f[PrevLine(t, p)] \in S
      BY <2>3, <3>1
    <3> QED
      BY <2>3, <3>1, <3>2
  <2>5. f = Climb(f)
    BY <2>3, <2>4
  <2> QED
    BY <2>5
<1> DEFINE r == CHOOSE f : f = Climb(f)
<1>3. r = Climb(r)
  BY <1>2
<1>4. \A p : Up(t, p, home) = r[p]
  BY DEF Up
<1> HIDE DEF r
<1>5. \A p \in D : r[p] = IF p <= home THEN [top |-> p, up |-> 0]
                          ELSE [r[PrevLine(t, p)] EXCEPT !.up = @ + 1]
  BY <1>3
<1> DEFINE Sound(p) == /\ r[p] = [top |-> r[p].top, up |-> r[p].up]
                       /\ r[p].top \in 0 .. home /\ Home(t, r[p].top)
                       /\ r[p].up \in Nat /\ CountLine(t, r[p].top) = CountLine(t, p) - r[p].up
           T == {p \in D : Home(t, p) /\ ~Sound(p)}
<1>6. T = {}
  <2> SUFFICES ASSUME T # {} PROVE FALSE
    OBVIOUS
  <2>1. PICK p \in T : \A x \in T : p <= x
    <3>1. T \in SUBSET Nat
      OBVIOUS
    <3> HIDE DEF T
    <3> QED
      BY <3>1, Smallest
  <2>2. p \in D /\ Home(t, p) /\ ~Sound(p) /\ CountLine(t, p) \in Nat
    BY <2>1, CountIs
  <2>3. CASE p <= home
    <3>1. r[p] = [top |-> p, up |-> 0]
      BY <1>5, <2>2, <2>3
    <3> QED
      BY <1>0, <2>2, <2>3, <3>1
  <2>4. CASE p > home
    <3> DEFINE q == PrevLine(t, p)
    <3>1. /\ q \in 0 .. p - 1 /\ Home(t, q) /\ CountLine(t, p) = CountLine(t, q) + 1
          /\ home <= q
      BY <1>0, <2>2, <2>4, PrevLineIs
    <3>2. ~(p <= home) /\ p \in D
      BY <1>0, <2>2, <2>4
    <3>3. r[p] = [r[q] EXCEPT !.up = @ + 1]
      BY <1>5, <3>2, Zenon
    <3> HIDE DEF q
    <3>4. q \in D /\ q \notin T
      BY <1>0, <2>1, <2>2, <3>1
    <3>5. Sound(q) /\ CountLine(t, q) \in Nat
      BY <3>1, <3>4, CountIs
    <3>6. r[p] = [top |-> r[q].top, up |-> r[q].up + 1]
      BY <3>3, <3>5
    <3>7. r[p].top = r[q].top /\ r[p].up = r[q].up + 1
      BY <3>6
    <3>8. r[p] = [top |-> r[p].top, up |-> r[p].up]
      BY <3>6, <3>7, Zenon
    <3>9. r[p].top \in 0 .. home /\ Home(t, r[p].top) /\ CountLine(t, r[q].top) = CountLine(t, q) - r[q].up
      BY <3>5, <3>7
    <3>10. r[p].up \in Nat /\ CountLine(t, r[p].top) = CountLine(t, p) - r[p].up
      <4>1. r[q].up \in Nat
        BY <3>5
      <4>2. CountLine(t, q) \in Nat
        BY <3>5
      <4> HIDE DEF Sound
      <4> QED
        BY <3>1, <3>7, <3>9, <4>1, <4>2, SMTT(30)
    <3>11. Sound(p)
      BY <3>8, <3>9, <3>10, Zenon
    <3> QED
      BY <2>2, <3>11
  <2> QED
    BY <1>0, <2>2, <2>3, <2>4
<1>7. Sound(h)
  BY <1>0, <1>6
<1> QED
  BY <1>4, <1>7

LEMMA RowsUntilIs ==
    ASSUME NEW w, NEW t \in Seq(Chars), NEW home \in 0 .. Len(t)
    PROVE  \A p \in 0 .. Len(t) :
             /\ RowsUntil(w, t, p, home) \in Nat
             /\ RowsUntil(w, t, p, home) = IF p >= home THEN 0
                                     ELSE Rows(w, t, p) + RowsUntil(w, t, After(t, p), home)
<1> DEFINE D == 0 .. Len(t)
           Sum(f) == [p \in D |-> IF p >= home THEN 0 ELSE Rows(w, t, p) + f[After(t, p)]]
<1>1. ASSUME NEW p \in D
      PROVE  After(t, p) \in D /\ (p < home => After(t, p) > p) /\ Rows(w, t, p) \in Nat
  <2>1. After(t, p) \in p .. Len(t) /\ (p < Len(t) => After(t, p) > p)
    BY AfterIsBehind
  <2> QED
    BY <2>1, RowsIs
<1>2. \E f : f = Sum(f) /\ \A p \in D : f[p] \in Nat
  <2> DEFINE m == [p \in D |-> Len(t) - p]
             g == [p \in D |-> After(t, p)]
             B == {p \in D : p >= home}
             b == [p \in D |-> 0]
             k == [p \in D |-> [s \in Nat |-> Rows(w, t, p) + s]]
  <2>1. m \in [D -> Nat] /\ g \in [D -> D] /\ B \in SUBSET D /\ b \in [D -> Nat] /\ k \in [D -> [Nat -> Nat]]
    <3>1. m \in [D -> Nat] /\ B \in SUBSET D /\ b \in [D -> Nat]
      OBVIOUS
    <3>2. g \in [D -> D]
      BY <1>1
    <3>3. ASSUME NEW p \in D
          PROVE  [s \in Nat |-> Rows(w, t, p) + s] \in [Nat -> Nat]
      <4>1. Rows(w, t, p) \in Nat
        BY <1>1
      <4> QED
        BY <4>1
    <3>4. k \in [D -> [Nat -> Nat]]
      BY <3>3
    <3> QED
      BY <3>1, <3>2, <3>4
  <2>2. \A p \in D \ B : m[g[p]] < m[p]
    BY <1>1
  <2>3. PICK f : f \in [D -> Nat] /\ \A p \in D : f[p] = IF p \in B THEN b[p] ELSE k[p][f[g[p]]]
    <3> HIDE DEF D, m, g, B, b, k
    <3>1. Descends(D, Nat, m, g, B, b, k)
      BY <2>1, <2>2 DEF Descends
    <3>2. PICK f : Solves(f, D, Nat, g, B, b, k)
      BY <3>1, Recursion, Zenon
    <3> QED
      BY <3>2 DEF Solves
  <2>4. \A p \in D : f[p] = IF p >= home THEN 0 ELSE Rows(w, t, p) + f[After(t, p)]
    BY <1>1, <2>3
  <2>5. f = Sum(f)
    BY <2>3, <2>4
  <2> QED
    BY <2>3, <2>5
<1> DEFINE r == CHOOSE f : f = Sum(f)
<1>3. r = Sum(r)
  BY <1>2
<1>4. \A p : RowsUntil(w, t, p, home) = r[p]
  BY DEF RowsUntil
<1> HIDE DEF r
<1>5. \A p \in D : r[p] = IF p >= home THEN 0 ELSE Rows(w, t, p) + r[After(t, p)]
  BY <1>3
<1>6. \A p \in D : r[p] \in Nat
  <2> DEFINE T == {d \in Nat : \E p \in D : d = Len(t) - p /\ r[p] \notin Nat}
  <2>0. SUFFICES ASSUME T # {} PROVE FALSE
    <3>1. \A p \in D : r[p] \notin Nat => Len(t) - p \in T
      OBVIOUS
    <3> HIDE DEF T
    <3> QED
      BY <3>1
  <2>1. PICK d \in T : \A x \in T : d <= x
    <3>1. T \in SUBSET Nat
      OBVIOUS
    <3> HIDE DEF T
    <3> QED
      BY <2>0, <3>1, Smallest
  <2>2. PICK p \in D : d = Len(t) - p /\ r[p] \notin Nat
    BY <2>1
  <2>3. p < home
    BY <1>5, <2>2
  <2>4. After(t, p) \in D /\ After(t, p) > p /\ Rows(w, t, p) \in Nat
    BY <1>1, <2>3
  <2>5. r[p] = Rows(w, t, p) + r[After(t, p)]
    BY <1>5, <2>3
  <2>6. r[After(t, p)] \notin Nat
    BY <2>2, <2>4, <2>5
  <2>7. Len(t) - After(t, p) \in T
    <3> DEFINE q == After(t, p)
    <3>1. q \in D /\ r[q] \notin Nat /\ Len(t) - q \in Nat
      BY <2>4, <2>6
    <3> HIDE DEF q
    <3>2. Len(t) - q \in T
      BY <3>1
    <3> QED
      BY <3>2 DEF q
  <2> HIDE DEF T
  <2>8. d <= Len(t) - After(t, p)
    BY <2>1, <2>7
  <2> QED
    BY <2>2, <2>4, <2>8
<1> QED
  BY <1>4, <1>5, <1>6

LEMMA RowsAre ==
    /\ \A t, h : RowsOf(t, h) = Rows(wrap', t, h)
    /\ \A t, h, home : RowsTo(t, h, home) = RowsUntil(wrap', t, h, home)
    /\ \A t, c, h : RowsIn(t, c, h) = RowsWithin(wrap', t, c, h)
<1>1. \A t, h : RowsOf(t, h) = Rows(wrap', t, h)
  BY DEF RowsOf, Rows
<1>2. \A t, h, home : RowsTo(t, h, home) = RowsUntil(wrap', t, h, home)
  BY DEF RowsTo, RowsOf, RowsUntil, Rows
<1>3. \A t, c, h : RowsIn(t, c, h) = RowsWithin(wrap', t, c, h)
  BY DEF RowsIn, RowsWithin
<1> QED
  BY <1>1, <1>2, <1>3

LEMMA RowsOfIs ==
    ASSUME NEW t \in Seq(Chars), NEW h \in 0 .. Len(t)
    PROVE  RowsOf(t, h) \in Nat \ {0}
<1>1. Rows(wrap', t, h) \in Nat \ {0}
  BY RowsIs
<1> QED
  BY <1>1, RowsAre, Zenon

LEMMA RowsInIs ==
    ASSUME NEW t \in Seq(Chars), NEW c \in 0 .. Len(t), NEW h \in 0 .. Len(t)
    PROVE  RowsIn(t, c, h) \in Nat
<1>1. RowsWithin(wrap', t, c, h) \in Nat
  BY RowsWithinIs
<1> QED
  BY <1>1, RowsAre, Zenon

LEMMA RowsToIs ==
    ASSUME NEW t \in Seq(Chars), NEW home \in 0 .. Len(t)
    PROVE  \A p \in 0 .. Len(t) :
             /\ RowsTo(t, p, home) \in Nat
             /\ RowsTo(t, p, home) = IF p >= home THEN 0
                                     ELSE RowsOf(t, p) + RowsTo(t, After(t, p), home)
<1>1. \A p \in 0 .. Len(t) :
        /\ RowsUntil(wrap', t, p, home) \in Nat
        /\ RowsUntil(wrap', t, p, home) = IF p >= home THEN 0
                                          ELSE Rows(wrap', t, p) + RowsUntil(wrap', t, After(t, p), home)
  BY RowsUntilIs
<1> QED
  BY <1>1, RowsAre, Zenon

\* Going down from a line at or above that of the cursor, whose row is the r-th of
\* its line and fits on the screen: never past that line.
LEMMA DownIs ==
    ASSUME ~Loose, NEW t \in Seq(Chars), Whole(t), NEW home, Home(t, home), NEW h, Home(t, h), h <= home,
           NEW r \in Nat, r < TextRows
    PROVE  LET d == Down(t, h, RowsTo(t, h, home) + r)
           IN  /\ d.top \in 0 .. home /\ Home(t, d.top)
               /\ d.down \in Nat /\ CountLine(t, d.top) = CountLine(t, h) + d.down
               /\ d.row < TextRows /\ d.row = RowsTo(t, d.top, home) + r
<1> DEFINE L == 0 .. Len(t)
           D == L \X Int
           S == [top : Int, down : Int, row : Int]
           Near(x) == [top |-> x[1], down |-> 0, row |-> x[2]]
           Past(x) == [top |-> After(t, x[1]), down |-> 1, row |-> 0]
           Then(x) == <<After(t, x[1]), x[2] - RowsOf(t, x[1])>>
           Fall(f) == [x \in D |-> IF x[2] < TextRows THEN Near(x)
                                   ELSE IF x[2] < RowsOf(t, x[1]) THEN Past(x)
                                   ELSE [f[Then(x)] EXCEPT !.down = @ + 1]]
<1>1. ASSUME NEW p \in L
      PROVE  After(t, p) \in L /\ RowsOf(t, p) \in Nat \ {0}
  <2>1. After(t, p) \in p .. Len(t)
    BY AfterIsBehind
  <2> QED
    BY <2>1, RowsOfIs
<1>2. \E f : f = Fall(f)
  <2> DEFINE m == [x \in D |-> IF x[2] > 0 THEN x[2] ELSE 0]
             g == [x \in D |-> Then(x)]
             B == {x \in D : x[2] < TextRows \/ x[2] < RowsOf(t, x[1])}
             b == [x \in D |-> IF x[2] < TextRows THEN Near(x) ELSE Past(x)]
             k == [x \in D |-> [s \in S |-> [s EXCEPT !.down = @ + 1]]]
  <2>1. m \in [D -> Nat] /\ g \in [D -> D] /\ B \in SUBSET D /\ b \in [D -> S] /\ k \in [D -> [S -> S]]
    <3>1. m \in [D -> Nat] /\ B \in SUBSET D
      OBVIOUS
    <3>2. g \in [D -> D]
      BY <1>1
    <3>3. b \in [D -> S]
      <4> SUFFICES ASSUME NEW x \in D PROVE Near(x) \in S /\ Past(x) \in S
        OBVIOUS
      <4>1. After(t, x[1]) \in L /\ x[1] \in Int /\ x[2] \in Int
        BY <1>1
      <4> QED
        BY <4>1
    <3>4. k \in [D -> [S -> S]]
      OBVIOUS
    <3> QED
      BY <3>1, <3>2, <3>3, <3>4
  <2>2. \A x \in D \ B : m[g[x]] < m[x]
    <3> SUFFICES ASSUME NEW x \in D, x \notin B PROVE m[g[x]] < m[x]
      OBVIOUS
    <3>1. RowsOf(t, x[1]) \in Nat \ {0} /\ x[2] \in Int /\ x[2] >= RowsOf(t, x[1])
      BY <1>1
    <3>2. Then(x) \in D
      BY <1>1
    <3>3. g[x] = Then(x) /\ Then(x)[2] = x[2] - RowsOf(t, x[1])
      OBVIOUS
    <3> HIDE DEF D, g, B, Then
    <3> QED
      BY <3>1, <3>2, <3>3
  <2>3. PICK f : f \in [D -> S] /\ \A x \in D : f[x] = IF x \in B THEN b[x] ELSE k[x][f[g[x]]]
    <3> HIDE DEF D, S, m, g, B, b, k
    <3>1. Descends(D, S, m, g, B, b, k)
      BY <2>1, <2>2 DEF Descends
    <3>2. PICK f : Solves(f, D, S, g, B, b, k)
      BY <3>1, Recursion, Zenon
    <3> QED
      BY <3>2 DEF Solves
  <2>4. ASSUME NEW x \in D
        PROVE  f[x] = IF x[2] < TextRows THEN Near(x)
                      ELSE IF x[2] < RowsOf(t, x[1]) THEN Past(x)
                      ELSE [f[Then(x)] EXCEPT !.down = @ + 1]
    <3>1. Then(x) \in D
      BY <1>1
    <3>2. f[Then(x)] \in S /\ g[x] = Then(x)
      BY <2>3, <3>1
    <3>3. CASE x \in B
      <4>1. f[x] = IF x[2] < TextRows THEN Near(x) ELSE Past(x)
        BY <2>3, <3>3
      <4> HIDE DEF D, Near, Past, Then
      <4> QED
        BY <3>3, <4>1
    <3>4. CASE x \notin B
      <4>1. f[x] = k[x][f[g[x]]]
        BY <2>3, <3>4
      <4>2. f[x] = [f[Then(x)] EXCEPT !.down = @ + 1]
        BY <3>2, <4>1
      <4> HIDE DEF Near, Past, Then
      <4> QED
        BY <3>4, <4>2
    <3> QED
      BY <3>3, <3>4
  <2>5. f = Fall(f)
    BY <2>3, <2>4
  <2> QED
    BY <2>5
<1> DEFINE q == CHOOSE f : f = Fall(f)
<1>3. q = Fall(q)
  BY <1>2
<1>4. \A p, n : Down(t, p, n) = q[<<p, n>>]
  BY DEF Down
<1> HIDE DEF q
<1>5. ASSUME NEW p \in L, NEW n \in Int
      PROVE  q[<<p, n>>] = IF n < TextRows THEN [top |-> p, down |-> 0, row |-> n]
                           ELSE IF n < RowsOf(t, p) THEN [top |-> After(t, p), down |-> 1, row |-> 0]
                           ELSE [q[<<After(t, p), n - RowsOf(t, p)>>] EXCEPT !.down = @ + 1]
  <2>1. <<p, n>> \in D /\ <<p, n>>[1] = p /\ <<p, n>>[2] = n
    OBVIOUS
  <2> QED
    BY <1>3, <2>1
<1> DEFINE N(p) == RowsTo(t, p, home) + r
           Sound(p) == LET d == q[<<p, N(p)>>]
                       IN  /\ d = [top |-> d.top, down |-> d.down, row |-> d.row]
                           /\ d.top \in 0 .. home /\ Home(t, d.top) /\ d.down \in Nat
                           /\ CountLine(t, d.top) = CountLine(t, p) + d.down
                           /\ d.row < TextRows /\ d.row = RowsTo(t, d.top, home) + r
           T == {z \in Nat : \E p \in L : z = Len(t) - p /\ Home(t, p) /\ p <= home /\ ~Sound(p)}
<1>6. home \in L /\ h \in L
  BY DEF Home
<1>7. T = {}
  <2> SUFFICES ASSUME T # {} PROVE FALSE
    OBVIOUS
  <2>1. PICK z \in T : \A x \in T : z <= x
    <3>1. T \in SUBSET Nat
      OBVIOUS
    <3> HIDE DEF T
    <3> QED
      BY <3>1, Smallest
  <2>2. PICK p \in L : z = Len(t) - p /\ Home(t, p) /\ p <= home /\ ~Sound(p)
    BY <2>1
  <2>3. CountLine(t, p) \in Nat /\ RowsOf(t, p) \in Nat \ {0} /\ After(t, p) \in L
    BY <1>1, CountIs
  <2>4. /\ RowsTo(t, p, home) \in Nat /\ RowsTo(t, After(t, p), home) \in Nat
        /\ RowsTo(t, p, home) = IF p >= home THEN 0
                                ELSE RowsOf(t, p) + RowsTo(t, After(t, p), home)
    BY <1>6, <2>3, RowsToIs
  <2>5. N(p) \in Int
    BY <2>4
  <2>6. CASE N(p) < TextRows
    <3>1. q[<<p, N(p)>>] = [top |-> p, down |-> 0, row |-> N(p)]
      BY <1>5, <2>5, <2>6
    <3>2. N(p) = RowsTo(t, p, home) + r
      OBVIOUS
    <3> HIDE DEF N
    <3> QED
      BY <2>2, <2>3, <2>6, <3>1, <3>2
  <2>7. CASE ~(N(p) < TextRows)
    <3>1. p < home
      BY <1>6, <2>4, <2>7
    <3> DEFINE a == After(t, p)
    <3>2. a \in p + 1 .. home /\ Home(t, a) /\ CountLine(t, a) = CountLine(t, p) + 1
      BY <3>1, AfterIs
    <3>3. N(p) = RowsOf(t, p) + N(a) /\ N(a) \in Nat
      BY <1>6, <2>3, <2>4, <3>1
    <3>4. ~(N(p) < RowsOf(t, p)) /\ N(p) - RowsOf(t, p) = N(a)
      BY <2>3, <3>3
    <3> HIDE DEF a, N
    <3>5. q[<<p, N(p)>>] = [q[<<After(t, p), N(p) - RowsOf(t, p)>>] EXCEPT !.down = @ + 1]
      BY <1>5, <2>5, <2>7, <3>4
    <3>6. q[<<p, N(p)>>] = [q[<<a, N(a)>>] EXCEPT !.down = @ + 1]
      BY <3>4, <3>5 DEF a
    <3>7. Len(t) - a \notin T
      <4> HIDE DEF T
      <4>1. ~(z <= Len(t) - a)
        BY <1>6, <2>2, <3>2
      <4> QED
        BY <2>1, <4>1
    <3>8. a \in L /\ Len(t) - a \in Nat /\ a <= home
      BY <1>6, <2>2, <3>2
    <3>9. Sound(a)
      BY <3>2, <3>7, <3>8
    <3> DEFINE d == q[<<a, N(a)>>]
               e == q[<<p, N(p)>>]
    <3>10. /\ d = [top |-> d.top, down |-> d.down, row |-> d.row]
           /\ d.top \in 0 .. home /\ Home(t, d.top) /\ d.down \in Nat
           /\ CountLine(t, d.top) = CountLine(t, a) + d.down
           /\ d.row < TextRows /\ d.row = RowsTo(t, d.top, home) + r
      BY <3>9
    <3>11. e = [d EXCEPT !.down = @ + 1]
      BY <3>6
    <3> HIDE DEF d, e
    <3>12. e = [top |-> d.top, down |-> d.down + 1, row |-> d.row]
      BY <3>10, <3>11
    <3>13. e.top = d.top /\ e.down = d.down + 1 /\ e.row = d.row
      BY <3>12
    <3>14. e = [top |-> e.top, down |-> e.down, row |-> e.row]
      BY <3>12, <3>13, Zenon
    <3>15. e.top \in 0 .. home /\ Home(t, e.top) /\ e.down \in Nat
      BY <3>10, <3>13
    <3>16. CountLine(t, e.top) = CountLine(t, p) + e.down
      <4>1. d.down \in Nat /\ CountLine(t, e.top) = CountLine(t, p) + 1 + d.down
        BY <3>2, <3>10, <3>13
      <4> QED
        BY <2>3, <3>13, <4>1
    <3>17. e.row < TextRows /\ e.row = RowsTo(t, e.top, home) + r
      BY <3>10, <3>13
    <3>18. Sound(p)
      BY <3>14, <3>15, <3>16, <3>17, Zenon DEF e
    <3> QED
      BY <2>2, <3>18
  <2> QED
    BY <2>6, <2>7
<1>8. Sound(h)
  <2>1. Len(t) - h \in Nat
    BY <1>6
  <2>2. Len(t) - h \notin T
    BY <1>7, Zenon
  <2> HIDE DEF Sound
  <2> QED
    BY <1>6, <2>1, <2>2
<1> HIDE DEF L, D, S
<1> QED
  BY <1>4, <1>8
\* A redraw from a place whose line number is l leaves the top of the screen at the
\* beginning of a line, at or before the cursor, with its right number.
LEMMA RedrawKeeps ==
    ASSUME Risky = {}, text' \in Seq(Chars), Whole(text'), cur' \in 0 .. Len(text'),
           NEW h \in 0 .. Len(text'), NEW l, l = CountLine(text', h), Redraw(h, l)
    PROVE  /\ Home(text', top') /\ top' <= cur' /\ topline' = CountLine(text', top')
           /\ row' < TextRows
           /\ row' = RowsTo(text', top', LineHome(text', cur'))
                     + RowsIn(text', cur', LineHome(text', cur'))
<1> DEFINE t == text'
           home == LineHome(t, cur')
           k == LineHome(t, h)
<1>1. text' \o << >> = text'
  BY ConcatEmptySeq
<1>2. ~(h > Len(text'))
  OBVIOUS
<1>3. PICK u \in {Up(t, k, home)} :
         \E r \in {RowsIn(t, cur', home)} :
         \E d \in {Down(t, u.top, RowsTo(t, u.top, home) + r)} :
            /\ r >= TextRows => "tall line" \in Risky
            /\ top' = d.top
            /\ topline' = Max({1, l - u.up}) + d.down
            /\ row' = d.row
  BY <1>1, <1>2, Zenon DEF Redraw
<1> DEFINE r == RowsIn(t, cur', home)
           d == Down(t, u.top, RowsTo(t, u.top, home) + r)
<1>4. u = Up(t, k, home) /\ ~(r >= TextRows) /\ top' = d.top /\ topline' = Max({1, l - u.up}) + d.down
      /\ row' = d.row
  <2>1. u = Up(t, k, home) /\ (r >= TextRows => "tall line" \in Risky)
        /\ top' = d.top /\ topline' = Max({1, l - u.up}) + d.down /\ row' = d.row
    BY <1>3, Zenon
  <2>2. "tall line" \notin Risky
    OBVIOUS
  <2> QED
    BY <2>1, <2>2, Zenon
<1>5. home \in 0 .. cur' /\ Home(t, home) /\ OneLine(t, home, cur')
  BY LineHomeIs
<1>6. k \in 0 .. h /\ Home(t, k) /\ OneLine(t, k, h)
  BY LineHomeIs
<1>7. CountLine(t, k) = l
  BY <1>6, CountSame
<1>8. r \in Nat /\ r < TextRows
  <2>1. home \in 0 .. Len(t)
    BY <1>5
  <2>2. r \in Nat
    BY <2>1, RowsInIs
  <2> HIDE DEF r
  <2> QED
    BY <1>4, <2>2, EditorAssumption
<1>9. u.top \in 0 .. home /\ Home(t, u.top) /\ u.up \in Nat /\ CountLine(t, u.top) = l - u.up
  <2>1. u = Up(t, k, home)
    BY <1>4
  <2> HIDE DEF k, home
  <2> QED
    BY <1>5, <1>6, <1>7, <2>1, UpIs
<1>10. d.top \in 0 .. home /\ Home(t, d.top) /\ d.down \in Nat /\ CountLine(t, d.top) = CountLine(t, u.top) + d.down
       /\ d.row < TextRows /\ d.row = RowsTo(t, d.top, home) + r
  <2> HIDE DEF r, k, home
  <2> QED
    BY <1>5, <1>8, <1>9, DownIs, Strict
<1>11. Max({1, l - u.up}) = l - u.up
  <2>1. u.top \in 0 .. Len(t)
    BY <1>9 DEF Home
  <2>2. l - u.up \in Nat \ {0}
    BY <1>9, <2>1, CountIs
  <2> DEFINE M == {1, l - u.up}
  <2>3. M \in SUBSET (0 .. l - u.up) /\ M # {} /\ l - u.up \in Nat
    BY <2>2
  <2>4. Max(M) \in M /\ \A y \in M : y <= Max(M)
    <3> HIDE DEF M
    <3> QED
      BY <2>3, MaxIs
  <2>5. Max(M) \in {1, l - u.up} /\ l - u.up <= Max(M)
    BY <2>4
  <2> HIDE DEF M
  <2>6. Max(M) = l - u.up
    BY <2>2, <2>5
  <2> QED
    BY <2>6 DEF M
<1> HIDE DEF d
<1>12. Home(t, top') /\ top' <= cur' /\ topline' = CountLine(t, top')
  <2> HIDE DEF r, k, home
  <2> QED
    BY <1>4, <1>5, <1>9, <1>10, <1>11
<1>13. row' < TextRows /\ row' = RowsTo(t, top', home) + r
  <2> HIDE DEF r, k, home
  <2> QED
    BY <1>4, <1>10
<1> QED
  BY <1>12, <1>13

----------------------------------------------------------------------------
(* Texts that are changed *)

LEMMA DeletedIs ==
    ASSUME NEW t \in Seq(Chars), NEW p \in 0 .. Len(t), NEW n \in 0 .. Len(t) - p
    PROVE  /\ Deleted(t, p, n) \in Seq(Chars) /\ Len(Deleted(t, p, n)) = Len(t) - n
           /\ \A q \in 0 .. Len(t) - n - 1 :
                At(Deleted(t, p, n), q) = IF q < p THEN At(t, q) ELSE At(t, q + n)
<1> DEFINE D == Deleted(t, p, n)
<1>1. Len(t) - n \in Nat
  OBVIOUS
<1>2. ASSUME NEW i \in 1 .. Len(t) - n
      PROVE  (IF i <= p THEN t[i] ELSE t[i + n]) \in Chars
  <2>1. i \in 1 .. Len(t) /\ i + n \in 1 .. Len(t)
    OBVIOUS
  <2> QED
    BY <2>1
<1>3. D \in [1 .. Len(t) - n -> Chars]
  BY <1>2 DEF Deleted
<1>4. \A i \in 1 .. Len(t) - n : D[i] = IF i <= p THEN t[i] ELSE t[i + n]
  BY DEF Deleted
<1> HIDE DEF D
<1>5. D \in Seq(Chars) /\ Len(D) = Len(t) - n
  BY <1>1, <1>3
<1>6. ASSUME NEW q \in 0 .. Len(t) - n - 1
      PROVE  At(D, q) = IF q < p THEN At(t, q) ELSE At(t, q + n)
  <2>1. q + 1 \in 1 .. Len(t) - n /\ (q + 1 <= p <=> q < p) /\ (q + 1) + n = (q + n) + 1
    BY <1>1
  <2>2. D[q + 1] = IF q + 1 <= p THEN t[q + 1] ELSE t[(q + 1) + n]
    BY <1>4, <2>1
  <2> QED
    BY <2>1, <2>2 DEF At
<1> QED
  BY <1>5, <1>6 DEF D

LEMMA InsertedIs ==
    ASSUME NEW t \in Seq(Chars), NEW p \in 0 .. Len(t), NEW s \in Seq(Chars)
    PROVE  /\ Inserted(t, p, s) \in Seq(Chars) /\ Len(Inserted(t, p, s)) = Len(t) + Len(s)
           /\ \A q \in 0 .. Len(t) + Len(s) - 1 :
                At(Inserted(t, p, s), q) = IF q < p THEN At(t, q)
                                           ELSE IF q < p + Len(s) THEN At(s, q - p)
                                           ELSE At(t, q - Len(s))
<1> DEFINE I == Inserted(t, p, s)
           n == Len(t) + Len(s)
<1>1. n \in Nat /\ Len(s) \in Nat
  OBVIOUS
<1>2. \A i \in 1 .. n : I[i] = IF i <= p THEN t[i]
                               ELSE IF i <= p + Len(s) THEN s[i - p] ELSE t[i - Len(s)]
  BY DEF Inserted
<1>3. ASSUME NEW i \in 1 .. n
      PROVE  (IF i <= p THEN t[i] ELSE IF i <= p + Len(s) THEN s[i - p] ELSE t[i - Len(s)]) \in Chars
  <2>1. CASE i <= p
    <3>1. i \in 1 .. Len(t)
      BY <2>1
    <3> QED
      BY <2>1, <3>1
  <2>2. CASE ~(i <= p) /\ i <= p + Len(s)
    <3>1. i - p \in 1 .. Len(s)
      BY <2>2
    <3> QED
      BY <2>2, <3>1
  <2>3. CASE ~(i <= p) /\ ~(i <= p + Len(s))
    <3>1. i - Len(s) \in 1 .. Len(t)
      BY <2>3
    <3> QED
      BY <2>3, <3>1
  <2> QED
    BY <2>1, <2>2, <2>3
<1>4. I \in [1 .. n -> Chars]
  BY <1>3 DEF Inserted
<1> HIDE DEF I, n
<1>5. I \in Seq(Chars) /\ Len(I) = n
  BY <1>1, <1>4
<1>6. ASSUME NEW q \in 0 .. n - 1
      PROVE  At(I, q) = IF q < p THEN At(t, q)
                        ELSE IF q < p + Len(s) THEN At(s, q - p) ELSE At(t, q - Len(s))
  <2>1. /\ q + 1 \in 1 .. n /\ (q + 1 <= p <=> q < p) /\ (q + 1 <= p + Len(s) <=> q < p + Len(s))
        /\ (q + 1) - p = (q - p) + 1 /\ (q + 1) - Len(s) = (q - Len(s)) + 1
    BY <1>1
  <2>2. I[q + 1] = IF q + 1 <= p THEN t[q + 1]
                   ELSE IF q + 1 <= p + Len(s) THEN s[(q + 1) - p] ELSE t[(q + 1) - Len(s)]
    BY <1>2, <2>1
  <2> QED
    BY <2>1, <2>2 DEF At
<1> QED
  BY <1>5, <1>6 DEF I, n

\* Whole line ends stay whole when text is cut between line ends, taken out and put in.
LEMMA DeletedWhole ==
    ASSUME NEW t \in Seq(Chars), Whole(t), NEW p, Between(t, p), NEW n \in 0 .. Len(t) - p
    PROVE  Whole(Deleted(t, p, n)) /\ Between(Deleted(t, p, n), p)
<1>0. p \in 0 .. Len(t) /\ (Loose \/ (p > 0 => At(t, p - 1) # CR))
  BY DEF Between
<1> DEFINE D == Deleted(t, p, n)
<1>1. /\ D \in Seq(Chars) /\ Len(D) = Len(t) - n
      /\ \A q \in 0 .. Len(t) - n - 1 : At(D, q) = IF q < p THEN At(t, q) ELSE At(t, q + n)
  BY <1>0, DeletedIs
<1> HIDE DEF D
<1>2. ASSUME ~Loose, NEW q \in 0 .. Len(D) - 1, At(D, q) = CR
      PROVE  q + 1 < Len(D) /\ At(D, q + 1) = LF
  <2>1. CASE q < p
    <3>1. q \in 0 .. Len(t) - 1 /\ At(t, q) = CR
      BY <1>0, <1>1, <1>2, <2>1
    <3>2. At(t, q + 1) = LF
      BY <1>2, <3>1 DEF Whole
    <3>3. q + 1 # p
      BY <1>0, <1>2, <2>1, <3>1
    <3>4. q + 1 < p /\ q + 1 \in 0 .. Len(t) - n - 1
      BY <1>0, <2>1, <3>3
    <3> QED
      BY <1>1, <3>2, <3>4
  <2>2. CASE ~(q < p)
    <3>1. q + n \in 0 .. Len(t) - 1 /\ At(t, q + n) = CR
      BY <1>0, <1>1, <1>2, <2>2
    <3>2. (q + n) + 1 < Len(t) /\ At(t, (q + n) + 1) = LF
      BY <1>2, <3>1 DEF Whole
    <3>3. q + 1 \in 0 .. Len(t) - n - 1 /\ ~(q + 1 < p) /\ (q + 1) + n = (q + n) + 1
      BY <1>0, <1>1, <2>2, <3>2
    <3> QED
      BY <1>1, <3>2, <3>3
  <2> QED
    BY <2>1, <2>2
<1>3. ASSUME ~Loose, p > 0
      PROVE  At(D, p - 1) # CR
  <2>1. p - 1 \in 0 .. Len(t) - n - 1 /\ p - 1 < p
    BY <1>0, <1>3
  <2> QED
    BY <1>0, <1>1, <1>3, <2>1
<1> QED
  BY <1>0, <1>1, <1>2, <1>3 DEF D, Whole, Between

LEMMA InsertedWhole ==
    ASSUME NEW t \in Seq(Chars), Whole(t), NEW p, Between(t, p), NEW s \in Seq(Chars), Whole(s)
    PROVE  /\ Whole(Inserted(t, p, s))
           /\ Between(Inserted(t, p, s), p) /\ Between(Inserted(t, p, s), p + Len(s))
<1>0. p \in 0 .. Len(t) /\ (Loose \/ (p > 0 => At(t, p - 1) # CR)) /\ Len(s) \in Nat
  BY DEF Between
<1> DEFINE I == Inserted(t, p, s)
<1>1. /\ I \in Seq(Chars) /\ Len(I) = Len(t) + Len(s)
      /\ \A q \in 0 .. Len(t) + Len(s) - 1 :
           At(I, q) = IF q < p THEN At(t, q)
                      ELSE IF q < p + Len(s) THEN At(s, q - p) ELSE At(t, q - Len(s))
  BY <1>0, InsertedIs
<1> HIDE DEF I
<1>2. ASSUME ~Loose, NEW q \in 0 .. Len(I) - 1, At(I, q) = CR
      PROVE  q + 1 < Len(I) /\ At(I, q + 1) = LF
  <2>1. CASE q < p
    <3>1. q \in 0 .. Len(t) - 1 /\ At(t, q) = CR
      BY <1>0, <1>1, <1>2, <2>1
    <3>2. At(t, q + 1) = LF
      BY <1>2, <3>1 DEF Whole
    <3>3. q + 1 # p
      BY <1>0, <1>2, <2>1, <3>1
    <3>4. q + 1 < p /\ q + 1 \in 0 .. Len(t) + Len(s) - 1
      BY <1>0, <2>1, <3>3
    <3> QED
      BY <1>0, <1>1, <3>2, <3>4
  <2>2. CASE ~(q < p) /\ q < p + Len(s)
    <3>1. q - p \in 0 .. Len(s) - 1 /\ At(s, q - p) = CR
      BY <1>0, <1>1, <1>2, <2>2
    <3>2. (q - p) + 1 < Len(s) /\ At(s, (q - p) + 1) = LF
      BY <1>2, <3>1 DEF Whole
    <3>3. /\ q + 1 \in 0 .. Len(t) + Len(s) - 1 /\ ~(q + 1 < p) /\ q + 1 < p + Len(s)
          /\ (q + 1) - p = (q - p) + 1
      BY <1>0, <2>2, <3>2
    <3> QED
      BY <1>0, <1>1, <3>2, <3>3
  <2>3. CASE ~(q < p) /\ ~(q < p + Len(s))
    <3>1. q - Len(s) \in 0 .. Len(t) - 1 /\ At(t, q - Len(s)) = CR
      BY <1>0, <1>1, <1>2, <2>3
    <3>2. (q - Len(s)) + 1 < Len(t) /\ At(t, (q - Len(s)) + 1) = LF
      BY <1>2, <3>1 DEF Whole
    <3>3. /\ q + 1 \in 0 .. Len(t) + Len(s) - 1 /\ ~(q + 1 < p) /\ ~(q + 1 < p + Len(s))
          /\ (q + 1) - Len(s) = (q - Len(s)) + 1
      BY <1>0, <2>3, <3>2
    <3> QED
      BY <1>0, <1>1, <3>2, <3>3
  <2> QED
    BY <2>1, <2>2, <2>3
<1>3. ASSUME ~Loose, p > 0
      PROVE  At(I, p - 1) # CR
  <2>1. p - 1 \in 0 .. Len(t) + Len(s) - 1 /\ p - 1 < p
    BY <1>0, <1>3
  <2> QED
    BY <1>0, <1>1, <1>3, <2>1
<1>4. ASSUME ~Loose, p + Len(s) > 0
      PROVE  At(I, (p + Len(s)) - 1) # CR
  <2>1. CASE Len(s) = 0
    BY <1>0, <1>3, <1>4, <2>1
  <2>2. CASE Len(s) > 0
    <3>1. Len(s) - 1 \in 0 .. Len(s) - 1 /\ ~((Len(s) - 1) + 1 < Len(s))
      BY <1>0, <2>2
    <3>2. At(s, Len(s) - 1) # CR
      BY <1>4, <3>1 DEF Whole
    <3>3. /\ (p + Len(s)) - 1 \in 0 .. Len(t) + Len(s) - 1
          /\ ~((p + Len(s)) - 1 < p) /\ (p + Len(s)) - 1 < p + Len(s)
          /\ ((p + Len(s)) - 1) - p = Len(s) - 1
      BY <1>0, <2>2
    <3> QED
      BY <1>0, <1>1, <3>2, <3>3
  <2> QED
    BY <1>0, <2>1, <2>2
<1>5. p \in 0 .. Len(I) /\ p + Len(s) \in 0 .. Len(I)
  BY <1>0, <1>1
<1> QED
  BY <1>2, <1>3, <1>4, <1>5 DEF I, Whole, Between

LEMMA PartWhole ==
    ASSUME NEW t \in Seq(Chars), Whole(t), NEW b, Between(t, b), NEW a \in 0 .. b
    PROVE  SubSeq(t, a + 1, b) \in Seq(Chars) /\ Whole(SubSeq(t, a + 1, b))
<1>0. b \in 0 .. Len(t) /\ (Loose \/ (b > 0 => At(t, b - 1) # CR))
  BY DEF Between
<1> DEFINE S == SubSeq(t, a + 1, b)
<1>1. S \in Seq(Chars) /\ Len(S) = b - a /\ \A q \in 0 .. b - a - 1 : At(S, q) = At(t, q + a)
  <2>1. /\ SubSeq(t, a + 1, b) \in Seq(Chars)
        /\ Len(SubSeq(t, a + 1, b)) = b - a
        /\ \A i \in 1 .. b - a : SubSeq(t, a + 1, b)[i] = t[a + i]
    BY <1>0
  <2>2. ASSUME NEW q \in 0 .. b - a - 1
        PROVE  At(S, q) = At(t, q + a)
    <3>1. q + 1 \in 1 .. b - a /\ a + (q + 1) = (q + a) + 1
      BY <1>0
    <3> QED
      BY <2>1, <3>1 DEF At
  <2> QED
    BY <2>1, <2>2
<1> HIDE DEF S
<1>2. ASSUME ~Loose, NEW q \in 0 .. Len(S) - 1, At(S, q) = CR
      PROVE  q + 1 < Len(S) /\ At(S, q + 1) = LF
  <2>1. q + a \in 0 .. Len(t) - 1 /\ At(t, q + a) = CR
    BY <1>0, <1>1, <1>2
  <2>2. At(t, (q + a) + 1) = LF
    BY <1>2, <2>1 DEF Whole
  <2>3. q + a # b - 1
    BY <1>0, <1>2, <2>1
  <2>4. q + 1 \in 0 .. b - a - 1 /\ (q + 1) + a = (q + a) + 1
    BY <1>0, <1>1, <2>3
  <2> QED
    BY <1>0, <1>1, <2>2, <2>4
<1> QED
  BY <1>1, <1>2 DEF S, Whole
\* Texts that agree before n have the same lines there.
Agree(s, t, n) == n \in 0 .. Len(s) /\ n \in 0 .. Len(t) /\ \A q \in 0 .. n - 1 : At(s, q) = At(t, q)

LEMMA AgreeOnLines ==
    ASSUME NEW s \in Seq(Chars), NEW t \in Seq(Chars), NEW n, Agree(s, t, n), NEW h \in 0 .. n
    PROVE  (Home(s, h) <=> Home(t, h)) /\ CountLine(s, h) = CountLine(t, h)
<1>1. n \in 0 .. Len(s) /\ n \in 0 .. Len(t) /\ \A q \in 0 .. n - 1 : At(s, q) = At(t, q)
  BY DEF Agree
<1>2. Home(s, h) <=> Home(t, h)
  <2>1. CASE h = 0
    BY <2>1 DEF Home
  <2>2. CASE h > 0
    <3>1. h - 1 \in 0 .. n - 1 /\ h \in 0 .. Len(s) /\ h \in 0 .. Len(t)
      BY <1>1, <2>2
    <3>2. At(s, h - 1) = At(t, h - 1)
      BY <1>1, <3>1
    <3> QED
      BY <3>1, <3>2 DEF Home
  <2> QED
    BY <1>1, <2>1, <2>2
<1>3. ASSUME NEW q \in 1 .. h
      PROVE  At(s, q - 1) = At(t, q - 1)
  <2>1. q - 1 \in 0 .. n - 1
    BY <1>1
  <2> QED
    BY <1>1, <2>1
<1>4. {q \in 1 .. h : At(s, q - 1) = LF} = {q \in 1 .. h : At(t, q - 1) = LF}
  BY <1>3
<1>5. CountLine(s, h) = CountLine(t, h)
  BY <1>4, Zenon DEF CountLine
<1> QED
  BY <1>2, <1>5

LEMMA DeletedAgrees ==
    ASSUME NEW t \in Seq(Chars), NEW p \in 0 .. Len(t), NEW n \in 0 .. Len(t) - p
    PROVE  Agree(Deleted(t, p, n), t, p)
<1> DEFINE D == Deleted(t, p, n)
<1>1. /\ D \in Seq(Chars) /\ Len(D) = Len(t) - n
      /\ \A q \in 0 .. Len(t) - n - 1 : At(D, q) = IF q < p THEN At(t, q) ELSE At(t, q + n)
  BY DeletedIs
<1> HIDE DEF D
<1>2. ASSUME NEW q \in 0 .. p - 1
      PROVE  At(D, q) = At(t, q)
  <2>1. q \in 0 .. Len(t) - n - 1 /\ q < p
    OBVIOUS
  <2> QED
    BY <1>1, <2>1
<1>3. p \in 0 .. Len(D)
  BY <1>1
<1> QED
  BY <1>2, <1>3 DEF D, Agree

LEMMA InsertedAgrees ==
    ASSUME NEW t \in Seq(Chars), NEW p \in 0 .. Len(t), NEW s \in Seq(Chars)
    PROVE  Agree(Inserted(t, p, s), t, p)
<1> DEFINE I == Inserted(t, p, s)
<1>1. /\ I \in Seq(Chars) /\ Len(I) = Len(t) + Len(s)
      /\ \A q \in 0 .. Len(t) + Len(s) - 1 :
           At(I, q) = IF q < p THEN At(t, q)
                      ELSE IF q < p + Len(s) THEN At(s, q - p) ELSE At(t, q - Len(s))
  BY InsertedIs
<1> HIDE DEF I
<1>2. ASSUME NEW q \in 0 .. p - 1
      PROVE  At(I, q) = At(t, q)
  <2>1. q \in 0 .. Len(t) + Len(s) - 1 /\ q < p
    OBVIOUS
  <2> QED
    BY <1>1, <2>1
<1>3. p \in 0 .. Len(I)
  BY <1>1
<1> QED
  BY <1>2, <1>3 DEF I, Agree

----------------------------------------------------------------------------
(* Where the cursor goes *)

LEMMA NextLineBetween ==
    ASSUME NEW t \in Seq(Chars), Whole(t), NEW e \in 0 .. Len(t) - 1, At(t, e) \in {CR, LF}
    PROVE  Between(t, NextLine(t, e))
<1>1. NextLine(t, e) \in 0 .. Len(t)
  BY NextLineIs
<1>2. CASE Loose
  BY <1>1, <1>2 DEF Between
<1>3. CASE ~Loose /\ At(t, e) = CR
  <2>1. e + 1 < Len(t) /\ At(t, e + 1) = LF
    BY <1>3 DEF Whole
  <2>2. NextLine(t, e) = e + 2 /\ (e + 2) - 1 = e + 1
    BY <1>3, <2>1 DEF NextLine, IsPair
  <2> QED
    BY <1>1, <2>1, <2>2, EditorAssumption DEF Between
<1>4. CASE At(t, e) # CR
  <2>1. NextLine(t, e) = e + 1 /\ (e + 1) - 1 = e
    BY <1>4 DEF NextLine, IsPair
  <2> QED
    BY <1>1, <1>4, <2>1 DEF Between
<1> QED
  BY <1>2, <1>3, <1>4

LEMMA LineEndBetween ==
    ASSUME NEW t \in Seq(Chars), NEW p, Between(t, p)
    PROVE  Between(t, LineEnd(t, p))
<1>0. p \in 0 .. Len(t)
  BY DEF Between
<1> DEFINE e == LineEnd(t, p)
<1>1. e \in p .. Len(t) /\ \A q \in p .. e - 1 : At(t, q) \notin {CR, LF}
  BY <1>0, LineEndIs
<1> HIDE DEF e
<1>2. CASE e = p
  BY <1>2 DEF e
<1>3. CASE e > p
  <2>1. e - 1 \in p .. e - 1
    BY <1>0, <1>1, <1>3
  <2> QED
    BY <1>0, <1>1, <2>1 DEF Between, e
<1> QED
  BY <1>0, <1>1, <1>2, <1>3

LEMMA PosAtColBetween ==
    ASSUME NEW t \in Seq(Chars), NEW h, Between(t, h), NEW w \in Nat
    PROVE  Between(t, PosAtCol(t, h, w)) /\ PosAtCol(t, h, w) >= h
<1>0. h \in 0 .. Len(t) /\ Between(t, h)
  BY DEF Between
<1> DEFINE e == LineEnd(t, h)
           p == PosAtCol(t, h, w)
<1>1. e \in h .. Len(t) /\ \A q \in h .. e - 1 : At(t, q) \notin {CR, LF}
  BY <1>0, LineEndIs
<1>2. p = Least(h + w, e)
  BY DEF PosAtCol
<1> HIDE DEF e, p
<1>3. p \in h .. e
  BY <1>0, <1>1, <1>2 DEF Least
<1>4. CASE p = h
  BY <1>0, <1>4 DEF p
<1>5. CASE p > h
  <2>1. p - 1 \in h .. e - 1
    BY <1>0, <1>1, <1>3, <1>5
  <2>2. p \in 0 .. Len(t)
    BY <1>0, <1>1, <1>3
  <2> QED
    BY <1>1, <1>3, <1>5, <1>0, <2>1, <2>2 DEF Between, p
<1> QED
  BY <1>0, <1>1, <1>3, <1>4, <1>5

\* The cursor and the text before a step.
Sane(c) == text \in Seq(Chars) /\ Whole(text) /\ Between(text, c)

LEMMA LeftBetween ==
    ASSUME NEW c, Sane(c)
    PROVE  Between(text, Left(c)) /\ Left(c) <= c /\ (c > 0 => Left(c) < c)
<1>0. text \in Seq(Chars) /\ c \in 0 .. Len(text)
  BY DEF Sane, Between
<1>1. CASE c = 0
  BY <1>1 DEF Sane, Left
<1>2. CASE c > 0 /\ IsPair(text, c - 2)
  <2>1. Left(c) = c - 2 /\ c - 2 \in 0 .. Len(text) /\ At(text, c - 2) = CR
    BY <1>0, <1>2 DEF Left, IsPair
  <2>2. ASSUME ~Loose, c - 2 > 0, At(text, (c - 2) - 1) = CR
        PROVE  FALSE
    <3>1. (c - 2) - 1 \in 0 .. Len(text) - 1 /\ ((c - 2) - 1) + 1 = c - 2
      BY <1>0, <2>2
    <3>2. At(text, c - 2) = LF
      BY <2>2, <3>1 DEF Sane, Whole
    <3> QED
      BY <2>1, <3>2, EditorAssumption
  <2> QED
    BY <1>0, <2>1, <2>2 DEF Between
<1>3. CASE c > 0 /\ ~IsPair(text, c - 2)
  <2>1. Left(c) = c - 1 /\ c - 1 \in 0 .. Len(text)
    BY <1>0, <1>3 DEF Left
  <2>2. ASSUME ~Loose, c - 1 > 0, At(text, (c - 1) - 1) = CR
        PROVE  FALSE
    <3>1. c - 2 \in 0 .. Len(text) - 1 /\ (c - 1) - 1 = c - 2 /\ At(text, c - 2) = CR
      BY <1>0, <2>2
    <3>2. (c - 2) + 1 < Len(text) /\ At(text, (c - 2) + 1) = LF
      BY <2>2, <3>1 DEF Sane, Whole
    <3> QED
      BY <1>3, <3>1, <3>2 DEF IsPair
  <2> QED
    BY <1>0, <2>1, <2>2 DEF Between
<1> QED
  BY <1>0, <1>1, <1>2, <1>3

LEMMA RightBetween ==
    ASSUME NEW c, Sane(c)
    PROVE  Between(text, Right(c)) /\ Right(c) >= c
<1>0. text \in Seq(Chars) /\ Whole(text) /\ c \in 0 .. Len(text)
  BY DEF Sane, Between
<1>1. CASE c >= Len(text)
  BY <1>0, <1>1 DEF Sane, Right
<1>2. CASE c < Len(text) /\ At(text, c) \in {CR, LF}
  <2>1. Right(c) = NextLine(text, c) /\ c \in 0 .. Len(text) - 1
    BY <1>0, <1>2 DEF Right
  <2>2. NextLine(text, c) >= c
    BY <1>0, NextLineIs
  <2> QED
    BY <1>0, <1>2, <2>1, <2>2, NextLineBetween
<1>3. CASE c < Len(text) /\ At(text, c) \notin {CR, LF}
  <2>1. Right(c) = c + 1 /\ c + 1 \in 0 .. Len(text) /\ (c + 1) - 1 = c
    BY <1>0, <1>3 DEF Right
  <2> QED
    BY <1>0, <1>3, <2>1 DEF Between
<1> QED
  BY <1>0, <1>1, <1>2, <1>3
\* Up and down, line by line, to the preferred column.
LEMMA VerticalBetween ==
    ASSUME NEW c, Sane(c), pref \in Nat, NEW n \in Int
    PROVE  Between(text, Vertical(c, n))
<1>0. text \in Seq(Chars) /\ Whole(text)
  BY DEF Sane
<1> DEFINE S == {p \in 0 .. Len(text) : Between(text, p)}
           Step(p) == IF n < 0
                      THEN IF LineHome(text, p) = 0 THEN p
                           ELSE PosAtCol(text, PrevLine(text, LineHome(text, p)), pref)
                      ELSE IF LineEnd(text, p) >= Len(text) THEN p
                           ELSE PosAtCol(text, After(text, p), pref)
           Move(f) == [k \in Nat |-> IF k = 0 THEN c ELSE Step(f[k - 1])]
<1>1. ASSUME NEW p \in S
      PROVE  Step(p) \in S
  <2>0. p \in 0 .. Len(text) /\ Between(text, p)
    OBVIOUS
  <2>1. ASSUME LineHome(text, p) # 0
        PROVE  PosAtCol(text, PrevLine(text, LineHome(text, p)), pref) \in S
    <3> DEFINE h == LineHome(text, p)
    <3>1. h \in 0 .. p /\ Home(text, h) /\ h > 0
      BY <1>0, <2>0, <2>1, LineHomeIs
    <3> HIDE DEF h
    <3>2. Home(text, PrevLine(text, h))
      BY <1>0, <3>1, PrevLineIs
    <3>3. Between(text, PosAtCol(text, PrevLine(text, h), pref))
      BY <1>0, <3>2, HomeBetween, PosAtColBetween
    <3> QED
      BY <3>3 DEF h, Between
  <2>2. ASSUME ~(LineEnd(text, p) >= Len(text))
        PROVE  PosAtCol(text, After(text, p), pref) \in S
    <3> DEFINE e == LineEnd(text, p)
    <3>1. e \in p .. Len(text) /\ (e = Len(text) \/ At(text, e) \in {CR, LF})
      BY <1>0, <2>0, LineEndIs
    <3>2. After(text, p) = NextLine(text, e)
      BY DEF After
    <3> HIDE DEF e
    <3>3. e \in 0 .. Len(text) - 1 /\ At(text, e) \in {CR, LF}
      BY <1>0, <2>0, <2>2, <3>1 DEF e
    <3>4. Between(text, After(text, p))
      BY <1>0, <3>2, <3>3, NextLineBetween
    <3>5. Between(text, PosAtCol(text, After(text, p), pref))
      BY <1>0, <3>4, PosAtColBetween
    <3> QED
      BY <3>5 DEF Between
  <2> QED
    BY <2>1, <2>2
<1> HIDE DEF Step
<1>2. c \in S
  BY DEF Sane, Between
<1>3. \E f : f = Move(f)
  <2> DEFINE m == [k \in Nat |-> k]
             g == [k \in Nat |-> IF k = 0 THEN 0 ELSE k - 1]
             B == {0}
             b == [k \in Nat |-> c]
             s == [k \in Nat |-> [p \in S |-> Step(p)]]
  <2>1. m \in [Nat -> Nat] /\ B \in SUBSET Nat /\ b \in [Nat -> S] /\ s \in [Nat -> [S -> S]]
    <3> HIDE DEF S
    <3> QED
      BY <1>1, <1>2
  <2>2. g \in [Nat -> Nat] /\ \A k \in Nat \ B : m[g[k]] < m[k]
    OBVIOUS
  <2>3. PICK f : f \in [Nat -> S] /\ \A k \in Nat : f[k] = IF k \in B THEN b[k] ELSE s[k][f[g[k]]]
    <3> HIDE DEF S, m, g, B, b, s
    <3>1. Descends(Nat, S, m, g, B, b, s)
      BY <2>1, <2>2 DEF Descends
    <3>2. PICK f : Solves(f, Nat, S, g, B, b, s)
      BY <3>1, Recursion, Zenon
    <3> QED
      BY <3>2 DEF Solves
  <2>4. ASSUME NEW k \in Nat
        PROVE  f[k] = IF k = 0 THEN c ELSE Step(f[k - 1])
    <3>1. CASE k = 0
      BY <2>3, <3>1
    <3>2. CASE k # 0
      <4>1. k - 1 \in Nat /\ g[k] = k - 1 /\ f[k - 1] \in S
        BY <2>3, <3>2
      <4> HIDE DEF S
      <4> QED
        BY <2>3, <3>2, <4>1
    <3> QED
      BY <3>1, <3>2
  <2>5. f = Move(f)
    BY <2>3, <2>4
  <2> QED
    BY <2>5
<1> DEFINE r == CHOOSE f : f = Move(f)
<1>4. r = Move(r)
  BY <1>3
<1>5. Vertical(c, n) = r[IF n < 0 THEN -n ELSE n]
  BY DEF Vertical, Step
<1> HIDE DEF r
<1>6. \A k \in Nat : r[k] = IF k = 0 THEN c ELSE Step(r[k - 1])
  BY <1>4
<1> DEFINE T == {k \in Nat : r[k] \notin S}
<1>7. T = {}
  <2> SUFFICES ASSUME T # {} PROVE FALSE
    OBVIOUS
  <2>1. PICK k \in T : \A x \in T : k <= x
    <3>1. T \in SUBSET Nat
      OBVIOUS
    <3> HIDE DEF T
    <3> QED
      BY <3>1, Smallest
  <2> HIDE DEF S
  <2>2. k \in Nat /\ r[k] \notin S
    BY <2>1
  <2>3. k # 0
    BY <1>2, <1>6, <2>2
  <2>4. k - 1 \in Nat /\ ~(k <= k - 1)
    BY <2>2, <2>3
  <2>5. r[k - 1] \in S
    BY <2>1, <2>4
  <2> QED
    BY <1>1, <1>6, <2>2, <2>3, <2>5
<1>8. (IF n < 0 THEN -n ELSE n) \in Nat
  OBVIOUS
<1>9. r[IF n < 0 THEN -n ELSE n] \in S
  <2> DEFINE k == IF n < 0 THEN -n ELSE n
  <2>1. k \in Nat /\ k \notin T
    BY <1>7, <1>8, Zenon
  <2> HIDE DEF k
  <2>2. r[k] \in S
    BY <2>1
  <2> QED
    BY <2>2 DEF k
<1> QED
  BY <1>5, <1>9

\* A text is looked for that has no line end: a match lies between line ends.
LEMMA MatchBetween ==
    ASSUME text \in Seq(Chars), Whole(text), NEW f \in FindTexts, NEW p \in Matches(f)
    PROVE  /\ Len(f) \in Nat \ {0} /\ p + Len(f) \in 0 .. Len(text)
           /\ Between(text, p) /\ Between(text, p + Len(f))
<1>1. f \in Seq(Letters \cup {Space}) /\ f # << >>
  BY DialogAssumption
<1>2. Len(f) \in Nat \ {0}
  BY <1>1
<1> DEFINE n == Len(f)
<1>3. p \in 0 .. Len(text) - n /\ SubSeq(text, p + 1, p + n) = f
  BY DEF Matches
<1>4. \A i \in 1 .. n : text[p + i] = f[i] /\ f[i] \notin {CR, LF}
  <2>1. \A i \in 1 .. n : f[i] \in Letters \cup {Space}
    BY <1>1
  <2>2. \A i \in 1 .. n : SubSeq(text, p + 1, p + n)[i] = text[p + i]
    BY <1>2, <1>3
  <2> QED
    BY <1>3, <2>1, <2>2, EditorAssumption
<1> HIDE DEF n
<1>5. At(text, p) \notin {CR, LF} /\ At(text, p + n - 1) # CR
  <2>1. n \in Nat \ {0}
    BY <1>2 DEF n
  <2>2. 1 \in 1 .. n /\ n \in 1 .. n /\ (p + n - 1) + 1 = p + n /\ p \in Int
    BY <1>3, <2>1
  <2> QED
    BY <1>4, <2>2 DEF At
<1>6. n \in Nat \ {0} /\ p \in 0 .. Len(text) /\ p + n \in 0 .. Len(text) /\ p < Len(text)
  BY <1>2, <1>3 DEF n
<1>7. ASSUME ~Loose, p > 0, At(text, p - 1) = CR
      PROVE  FALSE
  <2>1. p - 1 \in 0 .. Len(text) - 1 /\ (p - 1) + 1 = p
    BY <1>6, <1>7
  <2>2. At(text, p) = LF
    BY <1>7, <2>1 DEF Whole
  <2> QED
    BY <1>5, <2>2
<1> QED
  BY <1>2, <1>5, <1>6, <1>7 DEF Between, n

LEMMA SearchNextIs ==
    ASSUME text \in Seq(Chars), NEW f \in FindTexts, NEW from \in Nat, SearchNext(f, from) # None
    PROVE  SearchNext(f, from) \in Matches(f) /\ SearchNext(f, from) >= from
<1> DEFINE found == {p \in Matches(f) : p >= from}
<1>1. SearchNext(f, from) = IF found = {} THEN None ELSE Min(found)
  BY DEF SearchNext
<1>2. found \in SUBSET Nat
  BY DEF Matches
<1>3. found # {} => Min(found) \in found
  <2> HIDE DEF found
  <2> QED
    BY <1>2, MinIs
<1> QED
  BY <1>1, <1>3

----------------------------------------------------------------------------
(* Selections *)

\* The screen begins with the line at h, number l, not after the place c.
TopAt(t, h, l, c) == Home(t, h) /\ h <= c /\ l = CountLine(t, h)

\* A text and a cursor as an edit may leave them; what a selection may be.
Fine(t, c)  == t \in Seq(Chars) /\ Len(t) <= Cap /\ Whole(t) /\ Between(t, c)
Anchored(a) == a # None => Between(text, a)

LEMMA SelectedIs ==
    ASSUME text \in Seq(Chars), NEW c, Between(text, c), NEW a, Anchored(a)
    PROVE  LET s == Selected(c, a)
           IN  /\ s = <<s[1], s[2]>> /\ s[1] <= s[2]
               /\ Between(text, s[1]) /\ Between(text, s[2])
               /\ s[1] <= c /\ (a = None => s[1] = c)
<1>0. c \in 0 .. Len(text)
  BY DEF Between
<1>1. CASE a = None
  BY <1>0, <1>1 DEF Selected
<1>2. CASE a # None
  <2>1. Between(text, a) /\ a \in 0 .. Len(text)
    BY <1>2 DEF Anchored, Between
  <2> DEFINE M == {a, c}
  <2>2. M \in SUBSET (0 .. Len(text)) /\ M # {} /\ Len(text) \in Nat
    BY <1>0, <2>1
  <2>3. Max(M) \in M /\ \A y \in M : y <= Max(M)
    <3> HIDE DEF M
    <3> QED
      BY <2>2, MaxIs
  <2>4. Max(M) \in {a, c} /\ a <= Max(M) /\ c <= Max(M)
    BY <2>3
  <2>5. Selected(c, a) = <<Least(a, c), Max(M)>>
    BY <1>2 DEF Selected
  <2> HIDE DEF M
  <2>6. Least(a, c) \in {a, c} /\ Least(a, c) <= a /\ Least(a, c) <= c
    BY <1>0, <2>1 DEF Least
  <2> QED
    BY <1>0, <1>2, <2>1, <2>4, <2>5, <2>6
<1> QED
  BY <1>1, <1>2

LEMMA WithoutSelectionIs ==
    ASSUME NEW c, Fine(text, c), NEW a, Anchored(a), Cap \in Nat
    PROVE  LET w == WithoutSelection(c, a)
           IN  /\ w = [text |-> w.text, cur |-> w.cur, top |-> w.top, line |-> w.line, fits |-> FALSE]
               /\ Fine(w.text, w.cur) /\ w.cur = Selected(c, a)[1]
               /\ Len(w.text) = Len(text) - (Selected(c, a)[2] - Selected(c, a)[1])
               /\ TopAt(text, top, topline, c) => TopAt(w.text, w.top, w.line, w.cur)
<1>0. text \in Seq(Chars) /\ Len(text) <= Cap /\ Whole(text) /\ Between(text, c) /\ c \in 0 .. Len(text)
  BY DEF Fine, Between
<1> DEFINE s == Selected(c, a)
           lo == s[1]
           hi == s[2]
           n == hi - lo
           t == Deleted(text, lo, n)
           w == WithoutSelection(c, a)
<1>1. /\ s = <<lo, hi>> /\ lo <= hi /\ Between(text, lo) /\ Between(text, hi) /\ lo <= c
      /\ lo \in 0 .. Len(text) /\ hi \in 0 .. Len(text)
  BY <1>0, SelectedIs DEF Between
<1> HIDE DEF s
<1>2. CASE Empty(s)
  <2>1. w = [text |-> text, cur |-> c, top |-> top, line |-> topline, fits |-> FALSE]
    BY <1>2 DEF WithoutSelection, s
  <2>2. lo = hi
    BY <1>2 DEF Empty
  <2>3. c = lo
    <3>1. CASE a = None
      BY <1>0, <3>1, SelectedIs DEF s
    <3>2. CASE a # None
      <4>1. a \in 0 .. Len(text)
        BY <3>2 DEF Anchored, Between
      <4> DEFINE M == {a, c}
      <4>2. M \in SUBSET (0 .. Len(text)) /\ M # {} /\ Len(text) \in Nat
        BY <1>0, <4>1
      <4>3. \A y \in M : y <= Max(M)
        <5> HIDE DEF M
        <5> QED
          BY <4>2, MaxIs
      <4>4. c <= Max(M)
        BY <4>3
      <4>5. s = <<Least(a, c), Max(M)>>
        BY <3>2 DEF Selected, s
      <4> HIDE DEF M
      <4>6. lo = Least(a, c) /\ hi = Max(M)
        BY <4>5
      <4> QED
        BY <1>0, <1>1, <2>2, <4>4, <4>6
    <3> QED
      BY <3>1, <3>2
  <2> HIDE DEF w
  <2>4. n = 0 /\ Len(text) - n = Len(text)
    BY <1>1, <2>2
  <2>5. w.text = text /\ w.cur = c /\ w.top = top /\ w.line = topline
    BY <2>1
  <2> HIDE DEF lo, hi
  <2> QED
    BY <2>1, <2>3, <2>4, <2>5 DEF w, s, lo, hi
<1>3. CASE ~Empty(s)
  <2> DEFINE h == LineHome(t, lo)
  <2>1. w = [text |-> t, cur |-> lo, fits |-> FALSE, top |-> IF lo < top THEN h ELSE top,
             line |-> IF lo < top THEN CountLine(t, h) ELSE topline]
    BY <1>3 DEF WithoutSelection, s
  <2>2. n \in 0 .. Len(text) - lo
    BY <1>1
  <2> HIDE DEF w, lo, hi
  <2>3. /\ t \in Seq(Chars) /\ Len(t) = Len(text) - n /\ Whole(t) /\ Between(t, lo)
        /\ Agree(t, text, lo)
    <3> HIDE DEF n
    <3> QED
      BY <1>0, <1>1, <2>2, DeletedIs, DeletedWhole, DeletedAgrees
  <2>4. lo \in 0 .. Len(t)
    BY <2>3 DEF Between
  <2> HIDE DEF t
  <2>5. h \in 0 .. lo /\ Home(t, h)
    BY <2>3, <2>4, LineHomeIs
  <2> HIDE DEF h
  <2>6. /\ w.text = t /\ w.cur = lo /\ w.top = (IF lo < top THEN h ELSE top)
        /\ w.line = IF lo < top THEN CountLine(t, h) ELSE topline
    BY <2>1
  <2>7. w = [text |-> w.text, cur |-> w.cur, top |-> w.top, line |-> w.line, fits |-> FALSE]
    BY <2>1, <2>6
  <2>8. Fine(t, lo)
    BY <1>0, <2>2, <2>3 DEF Fine
  <2>9. ASSUME TopAt(text, top, topline, c)
        PROVE  TopAt(w.text, w.top, w.line, w.cur)
    <3>1. CASE lo < top
      BY <2>5, <2>6, <3>1 DEF TopAt
    <3>2. CASE ~(lo < top)
      <4>1. top \in 0 .. Len(text) /\ Home(text, top) /\ topline = CountLine(text, top)
        BY <2>9 DEF TopAt, Home
      <4>2. top \in 0 .. lo
        BY <2>4, <3>2, <4>1
      <4>3. Home(t, top) /\ CountLine(t, top) = topline
        BY <1>0, <2>3, <4>1, <4>2, AgreeOnLines
      <4> QED
        BY <2>6, <3>2, <4>2, <4>3 DEF TopAt
    <3> QED
      BY <3>1, <3>2
  <2>10. Fine(w.text, w.cur) /\ w.cur = lo /\ Len(w.text) = Len(text) - n
    BY <2>3, <2>6, <2>8
  <2> QED
    BY <2>7, <2>9, <2>10 DEF w, n, lo, hi, s
<1> QED
  BY <1>2, <1>3

\* What replaces a selection.
LEMMA ReplacedIs ==
    ASSUME NEW c, Fine(text, c), NEW a, Anchored(a), NEW s \in Seq(Chars), Whole(s), Cap \in Nat
    PROVE  LET w == Replaced(c, a, s)
               k == Selected(c, a)
           IN  /\ Fine(w.text, w.cur) /\ w.cur - k[1] \in {0, Len(s)} /\ w.fits \in BOOLEAN
               /\ Len(w.text) - w.cur = Len(text) - k[2]
               /\ TopAt(text, top, topline, c) => TopAt(w.text, w.top, w.line, w.cur)
<1> DEFINE k == Selected(c, a)
           v == WithoutSelection(c, a)
           w == Replaced(c, a, s)
<1>1. /\ v = [text |-> v.text, cur |-> v.cur, top |-> v.top, line |-> v.line, fits |-> FALSE]
      /\ Fine(v.text, v.cur) /\ v.cur = k[1]
      /\ Len(v.text) = Len(text) - (k[2] - k[1])
      /\ TopAt(text, top, topline, c) => TopAt(v.text, v.top, v.line, v.cur)
  BY WithoutSelectionIs
<1>2. k[1] \in 0 .. Len(text) /\ k[2] \in 0 .. Len(text)
  BY SelectedIs DEF Between, Fine
<1>3. w = IF Len(v.text) + Len(s) <= Cap
          THEN [v EXCEPT !.text = Inserted(v.text, v.cur, s), !.cur = v.cur + Len(s), !.fits = TRUE]
          ELSE v
  BY DEF Replaced
<1> HIDE DEF k, v, w
<1>4. /\ v.text \in Seq(Chars) /\ Len(v.text) \in Nat /\ Whole(v.text) /\ Between(v.text, v.cur)
      /\ v.cur \in 0 .. Len(v.text) /\ Len(v.text) <= Cap /\ Len(s) \in Nat /\ Len(text) \in Nat
  BY <1>1 DEF Fine, Between
<1>5. CASE Len(v.text) + Len(s) <= Cap
  <2> DEFINE t == Inserted(v.text, v.cur, s)
  <2>1. /\ t \in Seq(Chars) /\ Len(t) = Len(v.text) + Len(s) /\ Whole(t)
        /\ Between(t, v.cur + Len(s)) /\ Agree(t, v.text, v.cur)
    BY <1>4, InsertedIs, InsertedWhole, InsertedAgrees
  <2> HIDE DEF t
  <2>2. w = [text |-> t, cur |-> v.cur + Len(s), top |-> v.top, line |-> v.line, fits |-> TRUE]
    BY <1>1, <1>3, <1>5 DEF t
  <2>3. w.text = t /\ w.cur = v.cur + Len(s) /\ w.top = v.top /\ w.line = v.line /\ w.fits = TRUE
    BY <2>2
  <2>4. Fine(t, v.cur + Len(s))
    BY <1>5, <2>1 DEF Fine
  <2>5. ASSUME TopAt(v.text, v.top, v.line, v.cur)
        PROVE  TopAt(t, v.top, v.line, v.cur + Len(s))
    <3>1. Home(v.text, v.top) /\ v.top \in 0 .. v.cur /\ v.line = CountLine(v.text, v.top)
      BY <1>4, <2>5 DEF TopAt, Home
    <3>2. Home(t, v.top) /\ CountLine(t, v.top) = v.line
      BY <1>4, <2>1, <3>1, AgreeOnLines
    <3> QED
      BY <1>4, <3>1, <3>2 DEF TopAt
  <2>6. w.cur - k[1] = Len(s)
    BY <1>1, <1>2, <1>4, <2>3
  <2>7. Len(w.text) - w.cur = Len(text) - k[2]
    <3>1. Len(w.text) = Len(v.text) + Len(s) /\ w.cur = k[1] + Len(s)
      BY <1>1, <2>1, <2>3
    <3>2. Len(v.text) = Len(text) - (k[2] - k[1])
      BY <1>1
    <3> QED
      BY <1>2, <1>4, <3>1, <3>2, SMTT(30)
  <2> QED
    BY <1>1, <2>3, <2>4, <2>5, <2>6, <2>7 DEF w, k
<1>6. CASE ~(Len(v.text) + Len(s) <= Cap)
  <2>1. w = v
    BY <1>3, <1>6
  <2>2. v.fits = FALSE
    BY <1>1
  <2>3. w.cur - k[1] = 0 /\ Len(w.text) - w.cur = Len(text) - k[2]
    BY <1>1, <1>2, <1>4, <2>1
  <2> QED
    BY <1>1, <2>1, <2>2, <2>3 DEF w, k
<1> QED
  BY <1>5, <1>6

----------------------------------------------------------------------------
(* The invariant, by action *)

Tasks == [find : FindTexts, repl : ReplTexts, all : BOOLEAN, asks : BOOLEAN]

\* After Alle nothing is asked any more.
TaskOk == task = None \/ (task \in Tasks /\ ~(task.all /\ task.asks))

TextInv ==
    /\ Fine(text, cur)
    /\ clip \in Seq(Chars) /\ Whole(clip)
    /\ Anchored(sel)
    /\ pref \in Nat
    /\ TaskOk

TopInv == TopAt(text, top, topline, cur)

LEMMA ColOfIs ==
    ASSUME NEW t \in Seq(Chars), NEW c, Between(t, c)
    PROVE  ColOf(t, c) \in Nat
<1>1. c \in 0 .. Len(t)
  BY DEF Between
<1>2. LineHome(t, c) \in 0 .. c
  BY <1>1, LineHomeIs
<1> QED
  BY <1>1, <1>2 DEF ColOf

\* A text without line ends is whole.
LEMMA PlainWhole ==
    ASSUME NEW s \in Seq(Letters \cup {Space})
    PROVE  s \in Seq(Chars) /\ Whole(s)
<1>1. s \in Seq(Chars)
  BY DEF Chars
<1>2. ASSUME NEW q \in 0 .. Len(s) - 1
      PROVE  At(s, q) # CR
  <2>1. q + 1 \in 1 .. Len(s)
    OBVIOUS
  <2>2. s[q + 1] \in Letters \cup {Space}
    BY <2>1
  <2> QED
    BY <2>2, EditorAssumption DEF At
<1> QED
  BY <1>1, <1>2 DEF Whole

LEMMA PairWhole ==
    <<CR, LF>> \in Seq(Chars) /\ Whole(<<CR, LF>>)
<1>1. <<CR, LF>> \in Seq(Chars) /\ Len(<<CR, LF>>) = 2
  BY DEF Chars
<1>2. At(<<CR, LF>>, 0) = CR /\ At(<<CR, LF>>, 1) = LF
  BY DEF At
<1>3. \A q \in 0 .. Len(<<CR, LF>>) - 1 : q = 0 \/ q = 1
  BY <1>1
<1> QED
  BY <1>1, <1>2, <1>3, EditorAssumption DEF Whole

LEMMA Lands ==
    ASSUME TextInv, UNCHANGED <<text, clip>>, Between(text, cur'), pref' \in Nat,
           sel' # None => Between(text, sel'), TaskOk'
    PROVE  TextInv'
  BY DEF TextInv, Fine, Anchored

LEMMA Edits ==
    ASSUME TextInv, NEW w, Fine(w.text, w.cur), Becomes(w), pref' \in Nat, UNCHANGED clip, TaskOk'
    PROVE  TextInv'
  BY DEF TextInv, Fine, Anchored, Becomes

LEMMA PrefIs ==
    ASSUME TextInv, NEW w, Fine(w.text, w.cur), NEW old \in Nat, PrefAfter(w, old)
    PROVE  pref' \in Nat
<1>1. ColOf(w.text, w.cur) \in Nat
  BY ColOfIs DEF Fine
<1> QED
  BY <1>1 DEF PrefAfter

LEMMA NavText ==
    ASSUME TextInv, NEW shift \in BOOLEAN, Nav(shift)
    PROVE  TextInv'
<1>1. Sane(cur) /\ text \in Seq(Chars) /\ Between(text, cur) /\ cur \in 0 .. Len(text) /\ pref \in Nat
  BY DEF TextInv, Fine, Sane, Between
<1>2. UNCHANGED <<text, clip, task>> /\ sel' = IF ~shift THEN None ELSE IF sel = None THEN cur ELSE sel
  BY DEF Nav
<1>3. sel' # None => Between(text, sel')
  BY <1>1, <1>2 DEF TextInv, Anchored
<1>4. TaskOk'
  BY <1>2 DEF TextInv, TaskOk
<1>5. ASSUME NEW c, Between(text, c), NEW col \in Nat, Goes(c, col)
      PROVE  TextInv'
  BY <1>2, <1>3, <1>4, <1>5, Lands DEF Goes
<1>6. ASSUME NEW c, Between(text, c), Keeps(c)
      PROVE  TextInv'
  <2>1. ColOf(text, c) \in Nat
    BY <1>1, <1>6, ColOfIs
  <2> QED
    BY <1>5, <1>6, <2>1 DEF Keeps
<1>7. ASSUME NEW k \in {-1, 1, 1 - TextRows, TextRows - 1}, Goes(Vertical(cur, k), pref)
      PROVE  TextInv'
  <2>1. k \in Int
    BY EditorAssumption
  <2>2. Between(text, Vertical(cur, k))
    BY <1>1, <2>1, VerticalBetween
  <2> QED
    BY <1>1, <1>5, <1>7, <2>2
<1>8. ASSUME IF Left(cur) = cur THEN Goes(cur, pref) ELSE Keeps(Left(cur))
      PROVE  TextInv'
  <2>1. Between(text, Left(cur))
    BY <1>1, LeftBetween
  <2> QED
    BY <1>1, <1>5, <1>6, <1>8, <2>1
<1>9. ASSUME IF Right(cur) = cur THEN Goes(cur, pref) ELSE Keeps(Right(cur))
      PROVE  TextInv'
  <2>1. Between(text, Right(cur))
    BY <1>1, RightBetween
  <2> QED
    BY <1>1, <1>5, <1>6, <1>9, <2>1
<1>10. ASSUME CmdHome
       PROVE  TextInv'
  <2>1. Between(text, LineHome(text, cur))
    BY <1>1, LineHomeIs, HomeBetween
  <2> QED
    BY <1>5, <1>10, <2>1 DEF CmdHome
<1>11. ASSUME CmdEnd
       PROVE  TextInv'
  <2>1. Between(text, LineEnd(text, cur))
    BY <1>1, LineEndBetween
  <2> QED
    BY <1>6, <1>11, <2>1 DEF CmdEnd
<1>12. ASSUME Keeps(Len(text))
       PROVE  TextInv'
  <2>1. Loose \/ (Len(text) > 0 => At(text, Len(text) - 1) # CR)
    <3>1. ASSUME Len(text) > 0 PROVE Len(text) - 1 \in 0 .. Len(text) - 1 /\ ~((Len(text) - 1) + 1 < Len(text))
      BY <1>1, <3>1
    <3> QED
      BY <1>1, <3>1 DEF Sane, Whole
  <2>2. Len(text) \in 0 .. Len(text)
    BY <1>1
  <2> QED
    BY <1>6, <1>12, <2>1, <2>2 DEF Between
<1>13. ASSUME Goes(0, 0)
       PROVE  TextInv'
  <2>1. Between(text, 0)
    BY <1>1 DEF Between
  <2> QED
    BY <1>5, <1>13, <2>1
<1> QED
  BY <1>7, <1>8, <1>9, <1>10, <1>11, <1>12, <1>13 DEF Nav

LEMMA InsertText ==
    ASSUME TextInv, NEW s \in Seq(Chars), Whole(s), Insert(s)
    PROVE  TextInv'
<1> DEFINE w == Replaced(cur, sel, s)
<1>1. Fine(w.text, w.cur)
  BY ReplacedIs, EditorAssumption DEF TextInv
<1>2. Becomes(w) /\ PrefAfter(w, pref) /\ UNCHANGED <<clip, task>>
  BY DEF Insert
<1> HIDE DEF w
<1>3. pref' \in Nat
  BY <1>1, <1>2, PrefIs DEF TextInv
<1>4. TaskOk'
  BY <1>2 DEF TextInv, TaskOk
<1> QED
  BY <1>1, <1>2, <1>3, <1>4, Edits

LEMMA WithoutText ==
    ASSUME TextInv, Becomes(WithoutSelection(cur, sel)), UNCHANGED <<clip, task>>,
           pref' = ColOf(WithoutSelection(cur, sel).text, WithoutSelection(cur, sel).cur)
    PROVE  TextInv'
<1> DEFINE w == WithoutSelection(cur, sel)
<1>1. Fine(w.text, w.cur)
  BY WithoutSelectionIs, EditorAssumption DEF TextInv
<1>2. Becomes(w) /\ pref' = ColOf(w.text, w.cur)
  OBVIOUS
<1> HIDE DEF w
<1>3. pref' \in Nat
  BY <1>1, <1>2, ColOfIs DEF Fine
<1>4. TaskOk'
  BY DEF TextInv, TaskOk
<1> QED
  BY <1>1, <1>2, <1>3, <1>4, Edits

LEMMA BackspaceText ==
    ASSUME TextInv, CmdBackspace
    PROVE  TextInv'
<1>1. Sane(cur) /\ Fine(text, cur) /\ text \in Seq(Chars) /\ Whole(text) /\ cur \in 0 .. Len(text)
  BY DEF TextInv, Fine, Sane, Between
<1>2. /\ sel' = None /\ cur' = Left(cur) /\ text' = Deleted(text, cur', cur - cur')
      /\ pref' = ColOf(text', cur') /\ UNCHANGED <<clip, task>>
  BY DEF CmdBackspace
<1>3. Between(text, cur') /\ cur' \in 0 .. cur
  BY <1>1, <1>2, LeftBetween DEF Between
<1>4. cur - cur' \in 0 .. Len(text) - cur' /\ cur' \in 0 .. Len(text)
  <2> DEFINE c == cur'
             m == Len(text)
  <2>1. m \in Nat /\ c \in 0 .. cur /\ cur \in 0 .. m
    BY <1>1, <1>3
  <2> HIDE DEF c, m
  <2>2. cur - c \in 0 .. m - c /\ c \in 0 .. m
    BY <2>1
  <2> QED
    BY <2>2 DEF c, m
<1>5. /\ text' \in Seq(Chars) /\ Len(text') = Len(text) - (cur - cur') /\ Whole(text')
      /\ Between(text', cur')
  BY <1>1, <1>2, <1>3, <1>4, DeletedIs, DeletedWhole
<1>6. Fine(text', cur')
  <2>1. Len(text) <= Cap /\ Len(text) \in Nat
    BY <1>1 DEF Fine
  <2> DEFINE d == cur - cur'
  <2>3. d \in Nat /\ Len(text') = Len(text) - d
    BY <1>4, <1>5
  <2> HIDE DEF d
  <2>2. Len(text') <= Cap
    BY <2>1, <2>3, EditorAssumption
  <2> QED
    BY <1>5, <2>2 DEF Fine
<1>7. pref' \in Nat
  BY <1>2, <1>5, ColOfIs
<1>8. TaskOk'
  BY <1>2 DEF TextInv, TaskOk
<1> QED
  BY <1>2, <1>6, <1>7, <1>8 DEF TextInv, Anchored

LEMMA DelText ==
    ASSUME TextInv, CmdDel
    PROVE  TextInv'
<1>1. Sane(cur) /\ text \in Seq(Chars) /\ Whole(text) /\ Between(text, cur) /\ cur \in 0 .. Len(text)
      /\ Len(text) <= Cap
  BY DEF TextInv, Fine, Sane, Between
<1>2. sel' = None /\ text' = Deleted(text, cur, Right(cur) - cur) /\ UNCHANGED <<cur, pref, clip, task>>
  BY DEF CmdDel
<1>3. Right(cur) - cur \in 0 .. Len(text) - cur
  BY <1>1, RightBetween DEF Between
<1>4. /\ text' \in Seq(Chars) /\ Len(text') = Len(text) - (Right(cur) - cur) /\ Whole(text')
      /\ Between(text', cur)
  BY <1>1, <1>2, <1>3, DeletedIs, DeletedWhole
<1>5. Fine(text', cur)
  BY <1>1, <1>3, <1>4, EditorAssumption DEF Fine
<1> QED
  BY <1>2, <1>5 DEF TextInv, Anchored, TaskOk

LEMMA ClipText ==
    ASSUME TextInv, EditCopy \/ EditCut
    PROVE  TextInv'
<1> DEFINE s == Selected(cur, sel)
<1>1. /\ Between(text, s[2]) /\ s[1] \in 0 .. s[2]
      /\ text \in Seq(Chars) /\ Whole(text)
  <2>1. /\ text \in Seq(Chars) /\ Whole(text) /\ Between(text, cur) /\ Anchored(sel)
    BY DEF TextInv, Fine
  <2>2. s[1] <= s[2] /\ Between(text, s[1]) /\ Between(text, s[2])
    BY <2>1, SelectedIs
  <2> HIDE DEF s
  <2> QED
    BY <2>1, <2>2 DEF Between
<1>2. SelectedText \in Seq(Chars) /\ Whole(SelectedText)
  <2>1. SelectedText = SubSeq(text, s[1] + 1, s[2])
    BY DEF SelectedText
  <2> HIDE DEF s
  <2> QED
    BY <1>1, <2>1, PartWhole
<1>3. clip' \in {SelectedText, << >>}
  BY DEF EditCopy, EditCut, ClipSet
<1>4. << >> \in Seq(Chars) /\ Whole(<< >>)
  BY DEF Whole
<1>5. clip' \in Seq(Chars) /\ Whole(clip')
  BY <1>2, <1>3, <1>4
<1>6. ASSUME UNCHANGED <<text, cur, pref, sel, task>>
      PROVE  TextInv'
  BY <1>5, <1>6 DEF TextInv, Fine, Anchored, TaskOk
<1>7. ASSUME Becomes(WithoutSelection(cur, sel)), UNCHANGED task,
             pref' = ColOf(WithoutSelection(cur, sel).text, WithoutSelection(cur, sel).cur)
      PROVE  TextInv'
  <2> DEFINE w == WithoutSelection(cur, sel)
  <2>1. Fine(w.text, w.cur)
    BY WithoutSelectionIs, EditorAssumption DEF TextInv
  <2>2. Becomes(w) /\ pref' = ColOf(w.text, w.cur)
    BY <1>7
  <2> HIDE DEF w
  <2>3. pref' \in Nat
    BY <2>1, <2>2, ColOfIs DEF Fine
  <2> QED
    BY <1>5, <1>7, <2>1, <2>2, <2>3 DEF TextInv, Fine, Anchored, TaskOk, Becomes
<1>8. CASE EditCopy
  BY <1>6, <1>8 DEF EditCopy
<1>9. CASE EditCut
  BY <1>6, <1>7, <1>9 DEF EditCut
<1> QED
  BY <1>8, <1>9

LEMMA PasteText ==
    ASSUME TextInv, EditPaste
    PROVE  TextInv'
<1> DEFINE w == Replaced(cur, sel, clip)
<1>1. Fine(w.text, w.cur)
  BY ReplacedIs, EditorAssumption DEF TextInv
<1>2. Becomes(w) /\ PrefAfter(w, pref) /\ UNCHANGED <<clip, task>>
  BY DEF EditPaste
<1> HIDE DEF w
<1>3. pref' \in Nat
  BY <1>1, <1>2, PrefIs DEF TextInv
<1>4. TaskOk'
  BY <1>2 DEF TextInv, TaskOk
<1> QED
  BY <1>1, <1>2, <1>3, <1>4, Edits

LEMMA SelectText ==
    ASSUME TextInv, NEW lo, Between(text, lo), NEW hi, Between(text, hi), Select(lo, hi),
           UNCHANGED <<text, clip>>, TaskOk'
    PROVE  TextInv'
<1>1. ColOf(text, hi) \in Nat
  BY ColOfIs DEF TextInv, Fine
<1> QED
  BY <1>1, Lands DEF Select

LEMMA FindText ==
    ASSUME TextInv, NEW f \in FindTexts, FindAndSelect(f)
    PROVE  TextInv'
<1>1. text \in Seq(Chars) /\ Whole(text) /\ cur \in Nat
  BY DEF TextInv, Fine, Between
<1> DEFINE p == IF SearchNext(f, cur) # None THEN SearchNext(f, cur) ELSE SearchNext(f, 0)
<1>2. Matches(f) # {} /\ Select(p, p + Len(f)) /\ UNCHANGED <<text, clip, task>>
  BY DEF FindAndSelect
<1>3. p \in Matches(f)
  <2>1. CASE SearchNext(f, cur) # None
    BY <1>1, <2>1, SearchNextIs
  <2>2. CASE SearchNext(f, cur) = None
    <3>1. Matches(f) \in SUBSET Nat
      BY DEF Matches
    <3>2. {q \in Matches(f) : q >= 0} = Matches(f)
      BY <3>1
    <3>3. SearchNext(f, 0) = Min(Matches(f))
      BY <1>2, <3>2 DEF SearchNext
    <3>4. Min(Matches(f)) \in Matches(f)
      BY <1>2, <3>1, MinIs
    <3> QED
      BY <2>2, <3>3, <3>4
  <2> QED
    BY <2>1, <2>2
<1> HIDE DEF p
<1>4. Between(text, p) /\ Between(text, p + Len(f))
  BY <1>1, <1>3, MatchBetween
<1>5. TaskOk'
  BY <1>2 DEF TextInv, TaskOk
<1> QED
  BY <1>2, <1>4, <1>5, SelectText

\* A replacement under way.
LEMMA TaskIs ==
    ASSUME TaskOk, ~Ready
    PROVE  /\ task \in Tasks /\ ~(task.all /\ task.asks)
           /\ task.find \in FindTexts /\ task.repl \in Seq(Chars) /\ Whole(task.repl)
           /\ task.all \in BOOLEAN /\ task.asks \in BOOLEAN
<1>1. task \in Tasks /\ ~(task.all /\ task.asks)
  BY DEF TaskOk, Ready
<1>2. task.repl \in Seq(Letters \cup {Space})
  BY <1>1, DialogAssumption DEF Tasks
<1>3. task.find \in FindTexts /\ task.all \in BOOLEAN /\ task.asks \in BOOLEAN
  BY <1>1 DEF Tasks
<1> QED
  BY <1>1, <1>2, <1>3, PlainWhole

\* A new replacement, and one whose question is asked or answered.
LEMMA TaskBegins ==
    ASSUME NEW f \in FindTexts, NEW r \in ReplTexts,
           task' = [find |-> f, repl |-> r, all |-> FALSE, asks |-> FALSE]
    PROVE  TaskOk' /\ ~Waiting'
<1>1. task' \in Tasks /\ task'.asks = FALSE
  BY DEF Tasks
<1>2. task' # None
  BY <1>1, DialogAssumption DEF Tasks
<1> QED
  BY <1>1, <1>2 DEF TaskOk, Waiting

LEMMA TaskAsks ==
    ASSUME TaskOk, ~Ready, ~task.all, task' = [task EXCEPT !.asks = TRUE]
    PROVE  TaskOk'
<1>1. task \in Tasks /\ task.all \in BOOLEAN
  BY TaskIs
<1>2. task' \in Tasks /\ task'.all = task.all
  BY <1>1 DEF Tasks
<1> QED
  BY <1>2 DEF TaskOk

LEMMA TaskAnswered ==
    ASSUME TaskOk, ~Ready, NEW all \in BOOLEAN,
           \/ task' = [task EXCEPT !.asks = FALSE]
           \/ task' = [task EXCEPT !.asks = FALSE, !.all = all]
    PROVE  TaskOk' /\ ~Waiting'
<1>1. task \in Tasks
  BY TaskIs
<1>2. task' \in Tasks /\ task'.asks = FALSE
  BY <1>1 DEF Tasks
<1>3. task' # None
  BY <1>2, DialogAssumption DEF Tasks
<1> QED
  BY <1>2, <1>3 DEF TaskOk, Waiting

LEMMA ReplacingText ==
    ASSUME TextInv, Replacing
    PROVE  TextInv'
<1>1. text \in Seq(Chars) /\ Whole(text) /\ cur \in Nat /\ pref \in Nat /\ TaskOk
  BY DEF TextInv, Fine, Between
<1>2. ~Ready
  BY DEF Replacing, ReplaceEnds, ReplaceAsks, ReplaceStep
<1>3. task.find \in FindTexts /\ task.repl \in Seq(Chars) /\ Whole(task.repl)
  BY <1>1, <1>2, TaskIs
<1> DEFINE f == task.find
           p == SearchNext(f, cur)
<1>4. ASSUME p # None
      PROVE  Between(text, p) /\ Between(text, p + Len(f))
  <2>1. p \in Matches(f)
    BY <1>1, <1>3, <1>4, SearchNextIs
  <2> QED
    BY <1>1, <1>3, <2>1, MatchBetween
<1>5. CASE ReplaceEnds
  <2>1. UNCHANGED <<text, cur, pref, sel, clip>> /\ task' = None
    BY <1>5 DEF ReplaceEnds
  <2> QED
    BY <2>1 DEF TextInv, Fine, Anchored, TaskOk
<1>6. CASE ReplaceAsks
  <2>1. /\ p # None /\ Select(p, p + Len(f)) /\ UNCHANGED <<text, clip>>
        /\ ~task.all /\ task' = [task EXCEPT !.asks = TRUE]
    BY <1>6 DEF ReplaceAsks
  <2>2. TaskOk'
    BY <1>1, <1>2, <2>1, TaskAsks
  <2> HIDE DEF p, f
  <2> QED
    BY <1>4, <2>1, <2>2, SelectText
<1>7. CASE ReplaceStep
  <2> DEFINE c == p + Len(f)
             w == Replaced(c, p, task.repl)
  <2>1. /\ p # None /\ Becomes(w) /\ PrefAfter(w, ColOf(text, c)) /\ UNCHANGED <<clip, task>>
    BY <1>7 DEF ReplaceStep
  <2>2. Between(text, p) /\ Between(text, c)
    BY <1>4, <2>1
  <2>3. Fine(text, c) /\ Anchored(p)
    BY <1>1, <2>2 DEF TextInv, Fine, Anchored
  <2> HIDE DEF c, p, f
  <2>4. Fine(w.text, w.cur)
    BY <1>3, <2>3, ReplacedIs, EditorAssumption
  <2>5. ColOf(text, c) \in Nat
    BY <1>1, <2>2, ColOfIs
  <2> HIDE DEF w
  <2>6. pref' \in Nat
    BY <2>1, <2>4, <2>5, PrefIs
  <2>7. TaskOk'
    BY <1>1, <2>1 DEF TaskOk
  <2> QED
    BY <2>1, <2>4, <2>6, <2>7, Edits
<1> QED
  BY <1>5, <1>6, <1>7 DEF Replacing

LEMMA AnswerText ==
    ASSUME TextInv, NEW a, Answer(a)
    PROVE  TextInv'
<1>1. text \in Seq(Chars) /\ Whole(text) /\ Between(text, cur) /\ pref \in Nat /\ TaskOk
  BY DEF TextInv, Fine
<1>2. ~Ready /\ UNCHANGED clip
  BY DEF Answer
<1>3. task.repl \in Seq(Chars) /\ Whole(task.repl)
  BY <1>1, <1>2, TaskIs
<1>4. ASSUME task' = None, UNCHANGED <<text, cur, pref, sel>>
      PROVE  TextInv'
  BY <1>2, <1>4 DEF TextInv, Fine, Anchored, TaskOk
<1>5. ASSUME task' = [task EXCEPT !.asks = FALSE], Select(cur, cur), UNCHANGED text
      PROVE  TextInv'
  <2>1. TaskOk'
    BY <1>1, <1>2, <1>5, TaskAnswered
  <2> QED
    BY <1>1, <1>2, <1>5, <2>1, SelectText
<1>6. ASSUME task' = [task EXCEPT !.asks = FALSE, !.all = (a = "alle")],
             Becomes(Replaced(cur, sel, task.repl)), PrefAfter(Replaced(cur, sel, task.repl), pref)
      PROVE  TextInv'
  <2> DEFINE w == Replaced(cur, sel, task.repl)
  <2>1. Fine(w.text, w.cur)
    BY <1>3, ReplacedIs, EditorAssumption DEF TextInv
  <2>2. Becomes(w) /\ PrefAfter(w, pref)
    BY <1>6
  <2> HIDE DEF w
  <2>3. pref' \in Nat
    BY <1>1, <2>1, <2>2, PrefIs
  <2>4. TaskOk'
    <3>1. (a = "alle") \in BOOLEAN
      OBVIOUS
    <3> QED
      BY <1>1, <1>2, <1>6, <3>1, TaskAnswered
  <2> QED
    BY <1>2, <2>1, <2>2, <2>3, <2>4, Edits
<1> QED
  BY <1>4, <1>5, <1>6 DEF Answer

LEMMA InitInv ==
    ASSUME Init
    PROVE  TextInv /\ TopInv
<1>1. PICK n \in 0 .. Cap - 1 : text \in [1 .. n -> Chars]
  BY DEF Init
<1>2. text \in Seq(Chars) /\ Len(text) = n /\ Len(text) <= Cap
  BY <1>1, EditorAssumption
<1>3. Whole(text)
  <2>1. Loose \/ LoneCR(text) = {}
    BY DEF Init, Loose
  <2>2. CASE Loose
    BY <2>2 DEF Whole
  <2>3. CASE ~Loose
    BY <1>2, <2>1, <2>3, WholeIs
  <2> QED
    BY <2>2, <2>3
<1>4. Between(text, 0) /\ Home(text, 0) /\ CountLine(text, 0) = 1
  <2>1. 0 \in 0 .. Len(text)
    BY <1>2
  <2>2. CountLine(text, 0) = 1
    BY <1>2, <2>1, CountIs
  <2> QED
    BY <2>1, <2>2 DEF Between, Home
<1>5. << >> \in Seq(Chars) /\ Whole(<< >>)
  BY DEF Whole
<1>6. cur = 0 /\ top = 0 /\ topline = 1 /\ pref = 0 /\ sel = None /\ clip = << >> /\ task = None
  BY DEF Init
<1>7. Fine(text, cur)
  BY <1>2, <1>3, <1>4, <1>6 DEF Fine
<1>8. TextInv
  BY <1>5, <1>6, <1>7 DEF TextInv, Anchored, TaskOk
<1>9. TopInv
  BY <1>4, <1>6 DEF TopInv, TopAt
<1> QED
  BY <1>8, <1>9

LEMMA StepText ==
    ASSUME TextInv, [Next]_vars
    PROVE  TextInv'
<1>1. CASE UNCHANGED vars
  BY <1>1 DEF vars, TextInv, Fine, Anchored, TaskOk
<1>2. ASSUME NEW shift \in BOOLEAN, Nav(shift)
      PROVE  TextInv'
  BY <1>2, NavText
<1>3. CASE InsChar
  <2>1. PICK c \in Letters \cup {Space} : Insert(<<c>>)
    BY <1>3 DEF InsChar
  <2>2. <<c>> \in Seq(Letters \cup {Space})
    OBVIOUS
  <2> QED
    BY <2>1, <2>2, PlainWhole, InsertText
<1>4. CASE CmdEnter
  BY <1>4, PairWhole, InsertText DEF CmdEnter
<1>5. CASE DelSelection
  BY <1>5, WithoutText DEF DelSelection
<1>6. CASE CmdBackspace
  BY <1>6, BackspaceText
<1>7. CASE CmdDel
  BY <1>7, DelText
<1>8. CASE NothingToDelete
  <2>1. sel' = None /\ UNCHANGED <<text, cur, pref, clip, task>>
    BY <1>8 DEF NothingToDelete
  <2> QED
    BY <2>1 DEF TextInv, Fine, Anchored, TaskOk
<1>9. CASE EditCopy \/ EditCut
  BY <1>9, ClipText
<1>10. CASE EditPaste
  BY <1>10, PasteText
<1>11. CASE ToggleWrap
  <2>1. UNCHANGED <<text, cur, pref, sel, clip, task>>
    BY <1>11 DEF ToggleWrap
  <2> QED
    BY <2>1 DEF TextInv, Fine, Anchored, TaskOk
<1>12. ASSUME NEW f \in FindTexts, FindAndSelect(f)
       PROVE  TextInv'
  BY <1>12, FindText
<1>13. ASSUME NEW f \in FindTexts, NEW r \in ReplTexts, Erstatt(f, r)
       PROVE  TextInv'
  <2>1. UNCHANGED <<text, cur, pref, sel, clip>>
        /\ task' = [find |-> f, repl |-> r, all |-> FALSE, asks |-> FALSE]
    BY <1>13 DEF Erstatt
  <2>2. TaskOk'
    BY <2>1, TaskBegins
  <2> QED
    BY <2>1, <2>2 DEF TextInv, Fine, Anchored
<1>14. CASE Replacing
  BY <1>14, ReplacingText
<1>15. ASSUME NEW a, Answer(a)
       PROVE  TextInv'
  BY <1>15, AnswerText
<1> QED
  BY <1>1, <1>2, <1>3, <1>4, <1>5, <1>6, <1>7, <1>8, <1>9, <1>10, <1>11, <1>12, <1>13, <1>14, <1>15
     DEF Next

----------------------------------------------------------------------------
(* The top of the screen and the row of the cursor *)

\* The cursor's row is as many below the top as there are rows in between.
Drawn ==
    /\ row < TextRows
    /\ row = RowsUntil(wrap, text, top, LineHome(text, cur))
             + RowsWithin(wrap, text, cur, LineHome(text, cur))

RowInv == Waiting => Drawn

LEMMA DrawnAnew ==
    ASSUME row' < TextRows,
           row' = RowsTo(text', top', LineHome(text', cur')) + RowsIn(text', cur', LineHome(text', cur'))
    PROVE  Drawn'
  BY RowsAre, Zenon DEF Drawn

LEMMA DrawnStill ==
    ASSUME RowInv, UNCHANGED <<text, cur, top, row, wrap, task>>
    PROVE  RowInv'
  BY DEF RowInv, Waiting, Drawn

\* A redraw from where the screen was, of a text that is the same up to there.
LEMMA RedrawnTop ==
    ASSUME Risky = {}, TextInv', NEW h, NEW l, Redraw(h, l),
           h \in 0 .. Len(text'), l = CountLine(text', h)
    PROVE  TopInv' /\ RowInv'
<1>1. text' \in Seq(Chars) /\ Whole(text') /\ cur' \in 0 .. Len(text')
  BY DEF TextInv, Fine, Between
<1>2. TopInv'
  BY <1>1, RedrawKeeps DEF TopInv, TopAt
<1>3. Drawn'
  <2>1. /\ row' < TextRows
        /\ row' = RowsTo(text', top', LineHome(text', cur')) + RowsIn(text', cur', LineHome(text', cur'))
    BY <1>1, RedrawKeeps
  <2> QED
    BY <2>1, DrawnAnew
<1> QED
  BY <1>2, <1>3 DEF RowInv

LEMMA RedrawnSame ==
    ASSUME Risky = {}, TextInv', TextInv, TopInv, Redraw(top, topline), UNCHANGED text
    PROVE  TopInv' /\ RowInv'
<1>1. top \in 0 .. Len(text') /\ topline = CountLine(text', top)
  BY DEF TopInv, TopAt, Home
<1> QED
  BY <1>1, RedrawnTop

LEMMA RedrawnAfter ==
    ASSUME Risky = {}, TextInv', NEW w, Becomes(w), TopAt(w.text, w.top, w.line, w.cur),
           Redraw(w.top, w.line)
    PROVE  TopInv' /\ RowInv'
<1>1. w.top \in 0 .. Len(text') /\ w.line = CountLine(text', w.top)
  BY DEF TopAt, Home, Becomes
<1> QED
  BY <1>1, RedrawnTop

LEMMA BackspaceTop ==
    ASSUME Risky = {}, TextInv', TextInv, TopInv, CmdBackspace
    PROVE  TopInv' /\ RowInv'
<1>1. Sane(cur) /\ text \in Seq(Chars) /\ cur \in 0 .. Len(text) /\ Whole(text)
  BY DEF TextInv, Fine, Sane, Between
<1>2. /\ cur' = Left(cur) /\ text' = Deleted(text, cur', cur - cur') /\ cur > 0
      /\ ShortJoin => "short join" \in Risky
      /\ Redraw(top, IF cur = top /\ topline > 1 THEN topline - 1 ELSE topline)
  BY DEF CmdBackspace
<1>3. ~ShortJoin
  BY <1>2
<1> DEFINE t == text'
           c == cur'
<1>4. Between(text, c) /\ c \in 0 .. cur - 1 /\ c \in {cur - 2, cur - 1} /\ (c = cur - 2 => IsPair(text, c))
  BY <1>1, <1>2, LeftBetween DEF Between, Left
<1>5. top \in 0 .. cur /\ Home(text, top) /\ topline = CountLine(text, top)
  BY <1>1 DEF TopInv, TopAt, Home
<1>6. cur - c \in 0 .. Len(text) - c /\ c \in 0 .. Len(text) /\ t = Deleted(text, c, cur - c)
  <2>1. t = Deleted(text, c, cur - c)
    BY <1>2
  <2> HIDE DEF c, t
  <2> QED
    BY <1>1, <1>4, <2>1
<1> HIDE DEF c, t
<1>7. t \in Seq(Chars) /\ Len(t) = Len(text) - (cur - c) /\ Agree(t, text, c)
  BY <1>1, <1>6, DeletedIs, DeletedAgrees
<1>8. CASE cur = top
  <2>1. At(text, cur - 1) = LF
    BY <1>2, <1>5, <1>8 DEF Home
  <2>2. OneLine(text, c, cur - 1)
    <3>1. CASE c = cur - 1
      BY <1>1, <3>1 DEF OneLine
    <3>2. CASE c = cur - 2
      <4>1. At(text, c) = CR
        BY <1>4, <3>2 DEF IsPair
      <4>2. \A q \in c .. (cur - 1) - 1 : q = c
        BY <1>1, <3>2
      <4> QED
        BY <4>1, <4>2, EditorAssumption DEF OneLine
    <3> QED
      BY <1>4, <3>1, <3>2
  <2>3. CountLine(text, cur) = CountLine(text, c) + 1
    BY <1>1, <1>4, <2>1, <2>2, CountNext
  <2>4. CountLine(text, c) \in Nat \ {0}
    BY <1>1, <1>6, CountIs
  <2>5. topline > 1 /\ topline - 1 = CountLine(text, c)
    BY <1>5, <1>8, <2>3, <2>4
  <2>6. ~(top > Len(t)) /\ LineHome(t, top) = LineHome(t, c)
    BY <1>3, <1>8 DEF ShortJoin, t, c
  <2>7. top \in 0 .. Len(t) /\ c \in 0 .. Len(t)
    <3>1. Len(t) \in Nat
      BY <1>7
    <3> QED
      BY <1>1, <1>5, <1>7, <2>6, <3>1 DEF Agree
  <2>8. CountLine(t, c) = CountLine(text, c)
    BY <1>1, <1>6, <1>7, AgreeOnLines
  <2>9. /\ LineHome(t, c) \in 0 .. c /\ OneLine(t, LineHome(t, c), c)
        /\ LineHome(t, top) \in 0 .. top /\ OneLine(t, LineHome(t, top), top)
    BY <1>7, <2>7, LineHomeIs
  <2>10. CountLine(t, c) = CountLine(t, LineHome(t, c)) /\ CountLine(t, top) = CountLine(t, LineHome(t, top))
    BY <1>7, <2>7, <2>9, CountSame
  <2>11. topline - 1 = CountLine(t, top) /\ Redraw(top, topline - 1)
    BY <1>2, <1>8, <2>5, <2>6, <2>8, <2>10
  <2> QED
    BY <2>7, <2>11, RedrawnTop DEF t
<1>9. CASE cur # top
  <2>1. top \in 0 .. c
    <3>1. top <= cur - 1
      BY <1>1, <1>5, <1>9
    <3>2. CASE c = cur - 1
      BY <1>5, <3>1, <3>2
    <3>3. CASE c = cur - 2
      <4>1. At(text, c) = CR
        BY <1>4, <3>3 DEF IsPair
      <4>2. top # cur - 1
        <5> SUFFICES ASSUME top = cur - 1 PROVE FALSE
          OBVIOUS
        <5>1. top > 0 /\ top - 1 = c
          BY <1>1, <1>4, <3>3
        <5>2. At(text, top - 1) = LF
          BY <1>5, <5>1 DEF Home
        <5> QED
          BY <4>1, <5>1, <5>2, EditorAssumption
      <4> QED
        BY <1>1, <1>5, <3>1, <3>3, <4>2
    <3> QED
      BY <1>4, <3>2, <3>3
  <2>2. CountLine(t, top) = topline
    BY <1>1, <1>5, <1>7, <2>1, AgreeOnLines
  <2>3. top \in 0 .. Len(t)
    BY <1>7, <2>1 DEF Agree
  <2>4. Redraw(top, topline)
    BY <1>2, <1>9
  <2> QED
    BY <2>2, <2>3, <2>4, RedrawnTop DEF t
<1> QED
  BY <1>8, <1>9

LEMMA DelTop ==
    ASSUME Risky = {}, TextInv', TextInv, TopInv, CmdDel
    PROVE  TopInv' /\ RowInv'
<1>1. Sane(cur) /\ text \in Seq(Chars) /\ cur \in 0 .. Len(text)
  BY DEF TextInv, Fine, Sane, Between
<1>2. text' = Deleted(text, cur, Right(cur) - cur) /\ Redraw(top, topline)
  BY DEF CmdDel
<1>3. Right(cur) - cur \in 0 .. Len(text) - cur
  BY <1>1, RightBetween DEF Between
<1>4. text' \in Seq(Chars) /\ Agree(text', text, cur)
  BY <1>1, <1>2, <1>3, DeletedIs, DeletedAgrees
<1>5. top \in 0 .. cur /\ topline = CountLine(text, top)
  BY <1>1 DEF TopInv, TopAt, Home
<1>6. CountLine(text', top) = topline
  BY <1>1, <1>4, <1>5, AgreeOnLines
<1>7. top \in 0 .. Len(text')
  <2>1. Len(text') \in Nat /\ cur <= Len(text')
    BY <1>4 DEF Agree
  <2> QED
    BY <1>1, <1>5, <2>1
<1> QED
  BY <1>2, <1>6, <1>7, RedrawnTop

\* What a replacement leaves at the top of the screen, drawn or not.
LEMMA ReplacedTop ==
    ASSUME TextInv, NEW c, Between(text, c), top <= c, TopInv, NEW a, Anchored(a),
           NEW s \in Seq(Chars), Whole(s)
    PROVE  LET w == Replaced(c, a, s) IN TopAt(w.text, w.top, w.line, w.cur)
<1>1. Fine(text, c)
  BY DEF TextInv, Fine
<1>2. TopAt(text, top, topline, c)
  BY DEF TopInv, TopAt
<1> QED
  BY <1>1, <1>2, ReplacedIs, EditorAssumption

LEMMA StepTop ==
    ASSUME Risky = {}, TextInv, TextInv', TopInv, RowInv, [Next]_vars
    PROVE  TopInv' /\ RowInv'
<1>0. Between(text, cur) /\ Anchored(sel) /\ clip \in Seq(Chars) /\ Whole(clip) /\ top <= cur
      /\ text \in Seq(Chars) /\ Whole(text) /\ Fine(text, cur)
  BY DEF TextInv, Fine, TopInv, TopAt
<1>1. CASE UNCHANGED vars
  <2>1. UNCHANGED <<text, cur, top, topline, row, wrap, task>>
    BY <1>1 DEF vars
  <2>2. TopInv'
    BY <2>1 DEF TopInv, TopAt
  <2> QED
    BY <2>1, <2>2, DrawnStill
<1>2. ASSUME NEW shift \in BOOLEAN, Nav(shift)
      PROVE  TopInv' /\ RowInv'
  <2>1. UNCHANGED text
    BY <1>2 DEF Nav
  <2>2. CASE Redraw(top, topline)
    BY <2>1, <2>2, RedrawnSame
  <2>3. CASE Redraw(0, 1)
    <3>1. 0 \in 0 .. Len(text') /\ 1 = CountLine(text', 0)
      <4>1. 0 \in 0 .. Len(text)
        BY <1>0
      <4> QED
        BY <1>0, <2>1, <4>1, CountIs
    <3> QED
      BY <2>3, <3>1, RedrawnTop
  <2> QED
    BY <1>2, <2>2, <2>3 DEF Nav
<1>3. ASSUME NEW s \in Seq(Chars), Whole(s), Insert(s)
      PROVE  TopInv' /\ RowInv'
  <2> DEFINE w == Replaced(cur, sel, s)
  <2>1. TopAt(w.text, w.top, w.line, w.cur)
    BY <1>0, <1>3, ReplacedTop
  <2>2. Becomes(w) /\ Redraw(w.top, w.line)
    BY <1>3 DEF Insert
  <2> HIDE DEF w
  <2> QED
    BY <2>1, <2>2, RedrawnAfter
<1>4. CASE InsChar
  <2>1. PICK c \in Letters \cup {Space} : Insert(<<c>>)
    BY <1>4 DEF InsChar
  <2>2. <<c>> \in Seq(Letters \cup {Space})
    OBVIOUS
  <2> QED
    BY <1>3, <2>1, <2>2, PlainWhole
<1>5. CASE CmdEnter
  BY <1>3, <1>5, PairWhole DEF CmdEnter
<1>6. ASSUME Becomes(WithoutSelection(cur, sel)),
             Redraw(WithoutSelection(cur, sel).top, WithoutSelection(cur, sel).line)
      PROVE  TopInv' /\ RowInv'
  <2> DEFINE w == WithoutSelection(cur, sel)
  <2>1. TopAt(w.text, w.top, w.line, w.cur)
    BY <1>0, WithoutSelectionIs, EditorAssumption DEF TopInv
  <2>2. Becomes(w) /\ Redraw(w.top, w.line)
    BY <1>6
  <2> HIDE DEF w
  <2> QED
    BY <2>1, <2>2, RedrawnAfter
<1>7. CASE DelSelection
  BY <1>6, <1>7 DEF DelSelection
<1>8. CASE CmdBackspace
  BY <1>8, BackspaceTop
<1>9. CASE CmdDel
  BY <1>9, DelTop
<1>10. ASSUME UNCHANGED <<text, cur, top, topline>>,
              UNCHANGED <<row, wrap, task>> \/ ~Waiting'
       PROVE  TopInv' /\ RowInv'
  <2>1. TopInv'
    BY <1>10 DEF TopInv, TopAt
  <2>2. CASE ~Waiting'
    BY <2>1, <2>2 DEF RowInv
  <2>3. CASE UNCHANGED <<row, wrap, task>>
    <3>1. UNCHANGED <<text, cur, top, row, wrap, task>>
      BY <1>10, <2>3
    <3> QED
      BY <2>1, <3>1, DrawnStill
  <2> QED
    BY <1>10, <2>2, <2>3
<1>11. CASE NothingToDelete
  BY <1>10, <1>11 DEF NothingToDelete
<1>12. CASE EditCopy
  BY <1>10, <1>12 DEF EditCopy
<1>13. CASE EditCut
  BY <1>6, <1>10, <1>13 DEF EditCut
<1>14. CASE EditPaste
  <2> DEFINE w == Replaced(cur, sel, clip)
  <2>1. TopAt(w.text, w.top, w.line, w.cur)
    BY <1>0, ReplacedTop
  <2>2. Becomes(w) /\ Redraw(w.top, w.line)
    BY <1>14 DEF EditPaste
  <2> HIDE DEF w
  <2> QED
    BY <2>1, <2>2, RedrawnAfter
<1>15. CASE ToggleWrap
  BY <1>15, RedrawnSame DEF ToggleWrap
<1>16. ASSUME NEW f \in FindTexts, FindAndSelect(f)
       PROVE  TopInv' /\ RowInv'
  BY <1>16, RedrawnSame DEF FindAndSelect
<1>17. ASSUME NEW f \in FindTexts, NEW r \in ReplTexts, Erstatt(f, r)
       PROVE  TopInv' /\ RowInv'
  <2>1. ~Waiting'
    BY <1>17, TaskBegins DEF Erstatt
  <2> QED
    BY <1>10, <1>17, <2>1 DEF Erstatt
<1>18. CASE ReplaceEnds
  BY <1>18, RedrawnSame DEF ReplaceEnds
<1>19. CASE ReplaceAsks
  BY <1>19, RedrawnSame DEF ReplaceAsks
<1>20. ASSUME ~Ready
       PROVE  /\ task.find \in FindTexts /\ task.repl \in Seq(Chars) /\ Whole(task.repl)
              /\ ~(task.all /\ task.asks) /\ TaskOk
  BY <1>20, TaskIs DEF TextInv
<1>21. ASSUME NEW w, Becomes(w), top' = w.top, topline' = w.line, TopAt(w.text, w.top, w.line, w.cur),
              ~Waiting'
       PROVE  TopInv' /\ RowInv'
  BY <1>21 DEF Becomes, TopInv, TopAt, RowInv
<1>22. CASE ReplaceStep
  <2> DEFINE f == task.find
             p == SearchNext(f, cur)
             c == p + Len(f)
             w == Replaced(c, p, task.repl)
  <2>1. /\ f \in FindTexts /\ task.repl \in Seq(Chars) /\ Whole(task.repl)
        /\ p # None /\ Becomes(w) /\ top' = w.top /\ topline' = w.line
    BY <1>20, <1>22 DEF ReplaceStep
  <2>0. ~Waiting'
    <3>1. ~Ready /\ task.all /\ task' = task
      BY <1>22 DEF ReplaceStep
    <3> QED
      BY <1>20, <3>1 DEF Waiting, Ready
  <2>2. cur \in Nat
    BY <1>0 DEF Between
  <2>3. p \in Matches(f) /\ p >= cur
    BY <1>0, <2>1, <2>2, SearchNextIs
  <2>4. Len(f) \in Nat /\ Between(text, p) /\ Between(text, c)
    BY <1>0, <2>1, <2>3, MatchBetween
  <2> HIDE DEF p, f
  <2>5. top <= c
    <3>1. p \in Nat /\ top \in Nat
      BY <2>4 DEF Between, TopInv, TopAt, Home
    <3> QED
      BY <1>0, <2>2, <2>3, <2>4, <3>1
  <2> HIDE DEF c
  <2>6. TopAt(w.text, w.top, w.line, w.cur)
    BY <2>1, <2>4, <2>5, ReplacedTop DEF Anchored
  <2> HIDE DEF w
  <2> QED
    BY <1>21, <2>0, <2>1, <2>6
<1>23. ASSUME NEW a, Answer(a)
       PROVE  TopInv' /\ RowInv'
  <2>0. ~Ready
    BY <1>23 DEF Answer
  <2>1. CASE UNCHANGED text /\ Redraw(top, topline)
    BY <2>1, RedrawnSame
  <2>2. CASE UNCHANGED <<text, top, topline>> /\ Select(cur, cur) /\ task' = [task EXCEPT !.asks = FALSE]
    <3>1. ~Waiting'
      BY <1>20, <2>0, <2>2, TaskAnswered
    <3> QED
      BY <1>10, <2>2, <3>1 DEF Select
  <2>3. ASSUME Becomes(Replaced(cur, sel, task.repl)), top' = Replaced(cur, sel, task.repl).top,
               topline' = Replaced(cur, sel, task.repl).line,
               task' = [task EXCEPT !.asks = FALSE, !.all = (a = "alle")]
        PROVE  TopInv' /\ RowInv'
    <3> DEFINE w == Replaced(cur, sel, task.repl)
    <3>1. TopAt(w.text, w.top, w.line, w.cur)
      BY <1>0, <1>20, <2>0, ReplacedTop
    <3>2. Becomes(w) /\ top' = w.top /\ topline' = w.line
      BY <2>3
    <3>3. ~Waiting'
      <4>1. (a = "alle") \in BOOLEAN
        OBVIOUS
      <4> QED
        BY <1>20, <2>0, <2>3, <4>1, TaskAnswered
    <3> HIDE DEF w
    <3> QED
      BY <1>21, <3>1, <3>2, <3>3
  <2> QED
    BY <1>23, <2>1, <2>2, <2>3 DEF Answer
<1> QED
  BY <1>1, <1>2, <1>4, <1>5, <1>7, <1>8, <1>9, <1>11, <1>12, <1>13, <1>14, <1>15, <1>16, <1>17,
     <1>18, <1>19, <1>22, <1>23 DEF Next, Replacing

LEMMA InitRow ==
    ASSUME Init, TextInv
    PROVE  RowInv
<1>1. text \in Seq(Chars) /\ top = 0 /\ cur = 0 /\ row = 0 /\ wrap = FALSE
  BY DEF Init, TextInv, Fine
<1>2. RowsWithin(wrap, text, cur, LineHome(text, cur)) = 0
  BY <1>1 DEF RowsWithin
<1>3. LineHome(text, cur) = 0
  <2>1. 0 \in 0 .. Len(text)
    BY <1>1
  <2>2. LineHome(text, 0) \in 0 .. 0
    BY <1>1, <2>1, LineHomeIs
  <2> QED
    BY <1>1, <2>2
<1>4. RowsUntil(wrap, text, 0, 0) = 0
  <2>1. 0 \in 0 .. Len(text)
    BY <1>1
  <2> QED
    BY <1>1, <2>1, RowsUntilIs
<1> QED
  BY <1>1, <1>2, <1>3, <1>4, EditorAssumption DEF RowInv, Drawn

----------------------------------------------------------------------------
(* The painting *)

\* Where a row ends, the next one begins.
LEMMA RowsFollow ==
    ASSUME NEW t \in Seq(Chars), NEW e \in 0 .. Len(t), NEW h \in 0 .. e,
           NEW s \in RowStarts(t, h, e), RowNext(t, s, e) < e
    PROVE  RowNext(t, s, e) \in RowStarts(t, h, e)
<1> DEFINE m == RowNext(t, s, e)
           T == {d \in Nat : \E p \in 0 .. e : /\ d = e - p /\ s \in RowStarts(t, p, e)
                                               /\ m \notin RowStarts(t, p, e)}
<1>0. s \in h .. e
  BY RowStartsBounds
<1>1. m \in s .. e
  <2>1. s \in 0 .. e
    BY <1>0
  <2> QED
    BY <2>1, RowNextIs
<1>2. T = {}
  <2> SUFFICES ASSUME T # {} PROVE FALSE
    OBVIOUS
  <2>1. PICK d \in T : \A x \in T : d <= x
    <3>1. T \in SUBSET Nat
      OBVIOUS
    <3> HIDE DEF T
    <3> QED
      BY <3>1, Smallest
  <2>2. PICK p \in 0 .. e : d = e - p /\ s \in RowStarts(t, p, e) /\ m \notin RowStarts(t, p, e)
    BY <2>1
  <2> DEFINE n == RowNext(t, p, e)
  <2>3. RowStarts(t, p, e) = {p} \cup (IF n < e THEN RowStarts(t, n, e) ELSE {})
    BY RowStartsIs
  <2>4. n \in p .. e /\ (n < e => n > p)
    BY RowNextIs
  <2>5. CASE s = p
    <3>1. m = n /\ n < e
      BY <2>5
    <3> HIDE DEF n, m
    <3>2. n \in RowStarts(t, n, e)
      <4>1. n \in 0 .. e
        BY <2>4
      <4> QED
        BY <4>1, RowStartsBounds
    <3> QED
      BY <2>2, <2>3, <3>1, <3>2
  <2>6. CASE s # p
    <3> HIDE DEF n, m
    <3>1. n < e /\ s \in RowStarts(t, n, e) /\ m \notin RowStarts(t, n, e)
      BY <2>2, <2>3, <2>6
    <3>2. n \in 0 .. e /\ e - n \in Nat /\ ~(d <= e - n)
      BY <2>2, <2>4, <3>1
    <3>3. e - n \in T
      BY <3>1, <3>2
    <3> HIDE DEF T
    <3> QED
      BY <2>1, <3>2, <3>3
  <2> QED
    BY <2>5, <2>6
<1>3. e - h \in Nat /\ e - h \notin T
  <2>1. e - h \in Nat
    OBVIOUS
  <2> HIDE DEF T
  <2> QED
    BY <1>2, <2>1
<1> HIDE DEF m
<1> QED
  BY <1>3 DEF m

\* Two members of a set with as many smaller ones are the same.
LEMMA RanksDiffer ==
    ASSUME NEW n \in Nat, NEW S \in SUBSET (0 .. n), NEW a \in S, NEW b \in S,
           Cardinality({q \in S : q < a}) = Cardinality({q \in S : q < b})
    PROVE  a = b
<1>1. IsFiniteSet(S)
  <2>1. IsFiniteSet(0 .. n)
    BY FS_Interval
  <2> QED
    BY <2>1, FS_Subset
<1>2. ASSUME NEW x \in S, NEW y \in S, x < y,
             Cardinality({q \in S : q < x}) = Cardinality({q \in S : q < y})
      PROVE  FALSE
  <2> DEFINE X == {q \in S : q < x}
             Y == {q \in S : q < y}
  <2>1. X \subseteq Y /\ x \in Y /\ x \notin X /\ Y \subseteq S
    <3>1. x \in Int /\ y \in Int /\ \A q \in S : q \in Int
      OBVIOUS
    <3>2. \A q \in S : q < x => q < y
      BY <1>2, <3>1
    <3>3. ~(x < x)
      BY <3>1
    <3> QED
      BY <1>2, <3>2, <3>3, Zenon
  <2>2. Cardinality(X) = Cardinality(Y)
    BY <1>2
  <2> HIDE DEF X, Y
  <2>3. IsFiniteSet(Y)
    BY <1>1, <2>1, FS_Subset
  <2>4. X = Y
    BY <2>1, <2>2, <2>3, FS_Subset
  <2> QED
    BY <2>1, <2>4
<1>3. a \in Int /\ b \in Int
  OBVIOUS
<1>4. ~(a < b) /\ ~(b < a)
  BY <1>2
<1> QED
  BY <1>3, <1>4

\* The last row that begins at or before c has as many before it as begin between
\* the line's first one and c: S are the starts of the rows, C those up to c, m the
\* last of these, L those before m, U those behind the first one, h, and up to c.
Ranked(n, S, h, c, C, m, L, U) ==
    /\ n \in Nat /\ S \in SUBSET (0 .. n) /\ h \in S /\ \A s \in S : h <= s
    /\ c \in 0 .. n /\ h <= c
    /\ C \in SUBSET S /\ \A s \in S : s \in C <=> s <= c
    /\ m = Max(C)
    /\ L \in SUBSET S /\ \A s \in S : s \in L <=> s < m
    /\ U \in SUBSET S /\ \A s \in S : s \in U <=> h < s /\ s <= c

LEMMA RankIs ==
    ASSUME NEW n, NEW S, NEW h, NEW c, NEW C, NEW m, NEW L, NEW U, Ranked(n, S, h, c, C, m, L, U)
    PROVE  /\ m \in S /\ m <= c /\ \A s \in S : s <= c => s <= m
           /\ Cardinality(L) = Cardinality(U) /\ Cardinality(U) + 1 \in 1 .. Cardinality(S)
<1> USE DEF Ranked
<1>1. IsFiniteSet(S)
  <2>1. IsFiniteSet(0 .. n)
    BY FS_Interval
  <2> QED
    BY <2>1, FS_Subset
<1>2. C \in SUBSET (0 .. n) /\ h \in C /\ C \subseteq S
  OBVIOUS
<1>3. m \in C /\ \A y \in C : y <= m
  BY <1>2, MaxIs, Zenon
<1>4. m \in S /\ m <= c /\ m \in Int /\ c \in Int /\ \A s \in S : s \in Int /\ (s <= c => s <= m)
  BY <1>3
<1>5. C = L \cup {m} /\ m \notin L /\ L \subseteq S
  <2>1. \A s \in S : s <= c <=> s < m \/ s = m
    BY <1>4
  <2>2. ~(m < m)
    BY <1>4
  <2> QED
    BY <1>4, <2>1, <2>2, Zenon
<1>6. C = U \cup {h} /\ h \notin U /\ U \subseteq S
  <2>1. h \in Int /\ ~(h < h)
    BY <1>4
  <2>2. \A s \in S : s <= c <=> (h < s /\ s <= c) \/ s = h
    BY <1>4, <2>1
  <2> QED
    BY <2>1, <2>2, Zenon
<1>7. IsFiniteSet(L) /\ IsFiniteSet(U)
  BY <1>1, <1>5, <1>6, FS_Subset
<1>8. Cardinality(L \cup {m}) = Cardinality(L) + 1 /\ Cardinality(L) \in Nat
  BY <1>5, <1>7, FS_AddElement, FS_CardinalityType
<1>9. Cardinality(U \cup {h}) = Cardinality(U) + 1 /\ Cardinality(U) \in Nat
  BY <1>6, <1>7, FS_AddElement, FS_CardinalityType
<1>10. Cardinality(C) <= Cardinality(S) /\ Cardinality(S) \in Nat
  BY <1>1, <1>2, FS_Subset, FS_CardinalityType
<1>11. Cardinality(L) = Cardinality(U) /\ Cardinality(U) + 1 \in 1 .. Cardinality(S)
  <2>1. Cardinality(C) = Cardinality(L) + 1
    BY <1>5, <1>8, Zenon
  <2>2. Cardinality(C) = Cardinality(U) + 1
    BY <1>6, <1>9, Zenon
  <2> QED
    BY <1>8, <1>9, <1>10, <2>1, <2>2
<1> QED
  BY <1>4, <1>11

LEMMA CursorInLine ==
    ASSUME ~Loose, TextInv
    PROVE  LET home == LineHome(text, cur)
           IN  /\ home \in 0 .. cur /\ Home(text, home) /\ LineEnd(text, home) \in cur .. Len(text)
               /\ home \in 0 .. Len(text) /\ cur \in 0 .. Len(text)
<1>0. text \in Seq(Chars) /\ Whole(text) /\ Between(text, cur) /\ cur \in 0 .. Len(text)
  BY DEF TextInv, Fine, Between
<1> DEFINE home == LineHome(text, cur)
           e == LineEnd(text, home)
<1>1. home \in 0 .. cur /\ Home(text, home) /\ OneLine(text, home, cur)
  BY <1>0, LineHomeIs
<1> HIDE DEF home
<1>2. home \in 0 .. Len(text)
  BY <1>0, <1>1
<1>3. e \in home .. Len(text) /\ (e = Len(text) \/ At(text, e) \in {CR, LF})
  BY <1>0, <1>2, LineEndIs
<1> HIDE DEF e
<1>4. ~(e < cur)
  <2> SUFFICES ASSUME e < cur PROVE FALSE
    OBVIOUS
  <2>1. e \in home .. cur - 1 /\ At(text, e) \in {CR, LF}
    BY <1>0, <1>1, <1>3
  <2>2. At(text, e) = CR
    BY <1>1, <2>1 DEF OneLine
  <2>3. e \in 0 .. Len(text) - 1
    BY <1>0, <1>1, <2>1
  <2>4. At(text, e + 1) = LF
    BY <1>0, <2>2, <2>3 DEF Whole
  <2>5. CASE e + 1 = cur
    <3>1. cur > 0 /\ cur - 1 = e
      BY <1>0, <1>1, <2>1, <2>5
    <3> QED
      BY <1>0, <2>2, <3>1 DEF Between
  <2>6. CASE e + 1 # cur
    <3>1. e + 1 \in home .. cur - 1
      BY <1>0, <1>1, <2>1, <2>6
    <3> QED
      BY <1>1, <2>4, <3>1 DEF OneLine
  <2> QED
    BY <2>5, <2>6
<1>5. e \in cur .. Len(text)
  BY <1>0, <1>1, <1>3, <1>4
<1> QED
  BY <1>0, <1>1, <1>2, <1>5 DEF e, home

LEMMA PaintedLine ==
    ASSUME text \in Seq(Chars), NEW h \in 0 .. Len(text)
    PROVE  /\ Rows(wrap, text, h) \in Nat \ {0}
           /\ \E f : RowsPainted(h) = [i \in 1 .. Rows(wrap, text, h) |-> f[i]]
           /\ Len(RowsPainted(h)) = Rows(wrap, text, h)
<1>1. Rows(wrap, text, h) \in Nat \ {0}
  BY RowsIs
<1>2. \E f : RowsPainted(h) = [i \in 1 .. Rows(wrap, text, h) |-> f[i]]
  <2> WITNESS RowsPainted(h)
  <2>1. CASE wrap
    BY <2>1 DEF RowsPainted, Rows
  <2>2. CASE ~wrap
    <3>1. RowsPainted(h) = <<RenderLine(h, LineEnd(text, h))>> /\ Rows(wrap, text, h) = 1
      BY <2>2 DEF RowsPainted, Rows
    <3>2. <<RenderLine(h, LineEnd(text, h))>> = [i \in 1 .. 1 |-> RenderLine(h, LineEnd(text, h))]
      OBVIOUS
    <3> QED
      BY <3>1, <3>2
  <2> QED
    BY <2>1, <2>2
<1>3. Len(RowsPainted(h)) = Rows(wrap, text, h)
  <2> DEFINE k == Rows(wrap, text, h)
  <2>1. PICK f : RowsPainted(h) = [i \in 1 .. k |-> f[i]]
    BY <1>2
  <2> HIDE DEF k
  <2>2. k \in Nat
    BY <1>1 DEF k
  <2> QED
    BY <2>1, <2>2 DEF k
<1> QED
  BY <1>1, <1>2, <1>3

\* The row of the cursor among those of its line.
LEMMA CursorPainted ==
    ASSUME ~Loose, TextInv
    PROVE  LET home == LineHome(text, cur)
               rows == RowsPainted(home)
               r    == RowsWithin(wrap, text, cur, home)
           IN  /\ r \in Nat /\ r + 1 \in 1 .. Len(rows)
               /\ CurCol >= 0 /\ cur = rows[r + 1].from + CurCol /\ cur <= rows[r + 1].to
<1> DEFINE home == LineHome(text, cur)
           e == LineEnd(text, home)
           rows == RowsPainted(home)
           r == RowsWithin(wrap, text, cur, home)
<1>0. text \in Seq(Chars)
  BY DEF TextInv, Fine
<1>1. /\ home \in 0 .. cur /\ home \in 0 .. Len(text) /\ cur \in 0 .. Len(text)
      /\ e \in cur .. Len(text) /\ e \in 0 .. Len(text)
  BY CursorInLine
<1>2. Len(rows) = Rows(wrap, text, home)
  <2> HIDE DEF home
  <2> QED
    BY <1>0, <1>1, PaintedLine
<1>3. CASE ~wrap
  <2>1. /\ rows = <<RenderLine(home, e)>> /\ r = 0 /\ CurCol = cur - home
    BY <1>3 DEF RowsPainted, RowsWithin, CurCol
  <2> HIDE DEF rows, r, home, e
  <2>2. rows[1] = [from |-> home, to |-> e] /\ Len(rows) = 1
    BY <2>1 DEF RenderLine
  <2>3. rows[1].from = home /\ rows[1].to = e
    BY <2>2
  <2>4. cur = home + CurCol /\ CurCol >= 0 /\ cur <= e
    BY <1>1, <2>1
  <2>5. r + 1 = 1 /\ 1 \in 1 .. Len(rows) /\ r \in Nat
    BY <2>1, <2>2
  <2> QED
    BY <2>3, <2>4, <2>5 DEF rows, r, home
<1>4. CASE wrap
  <2> DEFINE S == RowStarts(text, home, e)
             start(i) == CHOOSE s \in S : Cardinality({q \in S : q < s}) = i - 1
             m == Max({s \in S : s <= cur})
  <2>1. /\ rows = [i \in 1 .. Cardinality(S) |-> RenderLine(start(i), RowEnd(text, start(i), e))]
        /\ r = Cardinality({s \in S : home < s /\ s <= cur})
        /\ CurCol = IF e = home THEN 0 ELSE cur - m
    BY <1>4 DEF RowsPainted, RowsWithin, CurCol
  <2> HIDE DEF rows, r, home, e
  <2>2. home \in 0 .. e
    BY <1>1
  <2>3. S \subseteq home .. e /\ home \in S
    BY <1>0, <1>1, <2>2, RowStartsBounds
  <2>4. \A s \in S : RowNext(text, s, e) < e => RowNext(text, s, e) \in S
    BY <1>0, <1>1, <2>2, RowsFollow
  <2> HIDE DEF S
  <2>5. S \in SUBSET (0 .. e) /\ cur \in 0 .. e /\ home <= cur /\ e \in Nat /\ \A s \in S : home <= s
    BY <1>1, <2>3
  <2>6. /\ m \in S /\ m <= cur /\ \A s \in S : s <= cur => s <= m
        /\ Cardinality({q \in S : q < m}) = r /\ r + 1 \in 1 .. Cardinality(S)
    <3> DEFINE C == {s \in S : s <= cur}
               L == {q \in S : q < m}
               U == {s \in S : home < s /\ s <= cur}
    <3>1. m = Max(C)
      OBVIOUS
    <3>2. /\ C \in SUBSET S /\ \A s \in S : s \in C <=> s <= cur
          /\ L \in SUBSET S /\ \A s \in S : s \in L <=> s < m
          /\ U \in SUBSET S /\ \A s \in S : s \in U <=> home < s /\ s <= cur
      OBVIOUS
    <3> HIDE DEF m, C, L, U
    <3>3. /\ m \in S /\ m <= cur /\ \A s \in S : s <= cur => s <= m
          /\ Cardinality(L) = Cardinality(U) /\ Cardinality(U) + 1 \in 1 .. Cardinality(S)
      <4>1. Ranked(e, S, home, cur, C, m, L, U)
        BY <2>3, <2>5, <3>1, <3>2 DEF Ranked
      <4> QED
        BY <4>1, RankIs
    <3> QED
      BY <2>1, <3>3, Zenon DEF L, U
  <2> HIDE DEF m
  <2>7. r \in Nat /\ (r + 1) - 1 = r /\ m \in 0 .. e /\ m \in Int
    <3>1. r \in Nat
      <4>1. IsFiniteSet(0 .. e)
        BY <2>5, FS_Interval
      <4>2. {q \in S : q < m} \subseteq 0 .. e
        BY <2>5
      <4>3. IsFiniteSet({q \in S : q < m})
        BY <4>1, <4>2, FS_Subset
      <4> QED
        BY <2>6, <4>3, FS_CardinalityType
    <3> QED
      BY <2>5, <2>6, <3>1
  <2>8. start(r + 1) = m
    <3>1. start(r + 1) \in S /\ Cardinality({q \in S : q < start(r + 1)}) = r
      BY <2>6, <2>7
    <3> DEFINE b == start(r + 1)
    <3> HIDE DEF start, b
    <3>2. Cardinality({q \in S : q < b}) = Cardinality({q \in S : q < m}) /\ b \in S
      BY <2>6, <3>1 DEF b
    <3>3. b = m
      BY <2>5, <2>6, <3>2, RanksDiffer, ZenonT(40)
    <3> QED
      BY <3>3 DEF b
  <2>9. rows[r + 1] = RenderLine(m, RowEnd(text, m, e))
    <3> HIDE DEF start
    <3> QED
      BY <2>1, <2>6, <2>8
  <2>10. rows[r + 1].from = m /\ rows[r + 1].to = RowEnd(text, m, e)
    BY <2>9 DEF RenderLine
  <2>11. cur <= RowEnd(text, m, e)
    <3> DEFINE n == RowNext(text, m, e)
    <3>1. n \in m .. e
      BY <1>0, <1>1, <2>7, RowNextIs
    <3>2. n < e => n \in S
      BY <2>4, <2>6
    <3>3. RowEnd(text, m, e) = IF n < e /\ At(text, n - 1) = Space THEN n - 1 ELSE n
      BY DEF RowEnd
    <3>4. n < e => n > m
      BY <1>0, <1>1, <2>7, RowNextIs
    <3> HIDE DEF n
    <3>5. CASE n < e
      <4>1. n \in Int /\ ~(n <= m)
        BY <2>7, <3>1, <3>4, <3>5
      <4>2. ~(n <= cur)
        BY <2>6, <3>2, <3>5, <4>1
      <4>3. cur <= n - 1 /\ cur <= n
        BY <1>1, <4>1, <4>2
      <4> QED
        BY <3>3, <4>3
    <3>6. CASE ~(n < e)
      BY <1>1, <2>7, <3>1, <3>3, <3>6
    <3> QED
      BY <3>5, <3>6
  <2>12. CurCol >= 0 /\ cur = m + CurCol
    BY <1>1, <2>1, <2>3, <2>6, <2>7
  <2>13. Len(rows) = Cardinality(S)
    BY <1>2, <1>4 DEF Rows, S, e
  <2> QED
    BY <2>6, <2>7, <2>10, <2>11, <2>12, <2>13 DEF rows, r, home
<1> QED
  BY <1>3, <1>4

LEMMA LineEndBefore ==
    ASSUME NEW t \in Seq(Chars), NEW p \in 0 .. Len(t), NEW c, Home(t, c), p < c
    PROVE  LineEnd(t, p) < Len(t)
<1> DEFINE e == LineEnd(t, p)
<1>1. e \in p .. Len(t) /\ \A q \in p .. e - 1 : At(t, q) \notin {CR, LF}
  BY LineEndIs
<1> HIDE DEF e
<1>2. c \in p + 1 .. Len(t) /\ At(t, c - 1) = LF
  BY DEF Home
<1>3. c - 1 \notin p .. e - 1
  BY <1>1, <1>2
<1>4. e < Len(t)
  BY <1>1, <1>2, <1>3
<1> QED
  BY <1>4 DEF e

\* Painting goes line by line, and what it paints is a sequence of rows.
LEMMA RenderIs ==
    ASSUME text \in Seq(Chars)
    PROVE  \E X, f :
             /\ EditRender = f[<<top, TextRows>>]
             /\ \A h \in 0 .. Len(text) : RowsPainted(h) \in Seq(X)
             /\ \A x \in (0 .. Len(text)) \X (0 .. TextRows) :
                  LET rows == RowsPainted(x[1])
                      e    == LineEnd(text, x[1])
                  IN  /\ f[x] \in Seq(X)
                      /\ f[x] = IF Len(rows) >= x[2] THEN SubSeq(rows, 1, x[2])
                                ELSE IF e >= Len(text) THEN rows
                                ELSE rows \o f[<<NextLine(text, e), x[2] - Len(rows)>>]
<1> DEFINE L == 0 .. Len(text)
           N == 0 .. TextRows
           D == L \X N
           E(x) == LineEnd(text, x[1])
           R(x) == RowsPainted(x[1])
           Then(x) == <<NextLine(text, E(x)), x[2] - Len(R(x))>>
           X == {RowsPainted(h)[i] : h \in L, i \in Nat}
           S == Seq(X)
           Paint(f) == [x \in D |-> IF Len(R(x)) >= x[2] THEN SubSeq(R(x), 1, x[2])
                                    ELSE IF E(x) >= Len(text) THEN R(x)
                                    ELSE R(x) \o f[Then(x)]]
           m == [x \in D |-> Len(text) - x[1]]
           B == {x \in D : Len(R(x)) >= x[2] \/ E(x) >= Len(text)}
           g == [x \in D |-> IF x \in B THEN x ELSE Then(x)]
           b == [x \in D |-> IF Len(R(x)) >= x[2] THEN SubSeq(R(x), 1, x[2]) ELSE R(x)]
           k == [x \in D |-> [s \in S |-> R(x) \o s]]
<1>1. ASSUME NEW h \in L
      PROVE  RowsPainted(h) \in Seq(X) /\ Len(RowsPainted(h)) \in Nat \ {0}
  <2> DEFINE j == Rows(wrap, text, h)
             rows == RowsPainted(h)
  <2>1. j \in Nat \ {0} /\ Len(rows) = j
    BY PaintedLine
  <2>2. PICK v : rows = [i \in 1 .. j |-> v[i]]
    BY PaintedLine
  <2>3. \A i \in Nat : rows[i] \in X
    OBVIOUS
  <2> HIDE DEF j, rows, X
  <2>4. rows = [i \in 1 .. j |-> rows[i]]
    BY <2>2
  <2>5. \A i \in 1 .. j : rows[i] \in X
    BY <2>1, <2>3
  <2>6. rows \in [1 .. j -> X]
    BY <2>4, <2>5, Zenon
  <2> QED
    BY <2>1, <2>6 DEF rows
<1>2. ASSUME NEW x \in D
      PROVE  /\ x[1] \in L /\ x[2] \in N /\ R(x) \in Seq(X) /\ Len(R(x)) \in Nat \ {0}
             /\ E(x) \in x[1] .. Len(text)
  <2>1. x[1] \in L /\ x[2] \in N
    OBVIOUS
  <2>2. R(x) \in Seq(X) /\ Len(R(x)) \in Nat \ {0}
    <3> HIDE DEF X, L, N, D
    <3> QED
      BY <1>1, <2>1, Zenon
  <2>3. E(x) \in x[1] .. Len(text)
    BY <2>1, LineEndIs
  <2> HIDE DEF D, L, N, R, E, X
  <2> QED
    BY <2>1, <2>2, <2>3
<1>3. ASSUME NEW x \in D, x \notin B
      PROVE  Then(x) \in D /\ Then(x)[1] > x[1]
  <2>0. ~(E(x) >= Len(text)) /\ ~(Len(R(x)) >= x[2])
    <3> HIDE DEF E, R, D
    <3> QED
      BY <1>3
  <2>1. E(x) \in x[1] .. Len(text) /\ E(x) < Len(text) /\ x[1] \in L
    <3> HIDE DEF D, E, R, X
    <3>1. E(x) \in x[1] .. Len(text) /\ x[1] \in L
      BY <1>2
    <3> QED
      BY <2>0, <3>1
  <2>2. NextLine(text, E(x)) \in E(x) .. Len(text) /\ NextLine(text, E(x)) > E(x)
    <3>1. E(x) \in 0 .. Len(text)
      <4> HIDE DEF E
      <4> QED
        BY <2>1
    <3> HIDE DEF E
    <3> QED
      BY <2>1, <3>1, NextLineIs
  <2>3. Len(R(x)) \in Nat /\ x[2] \in N
    BY <1>2
  <2> HIDE DEF E, R
  <2>4. NextLine(text, E(x)) \in L /\ NextLine(text, E(x)) > x[1] /\ x[2] - Len(R(x)) \in N
    BY <2>0, <2>1, <2>2, <2>3, EditorAssumption
  <2> QED
    BY <2>4
<1>4. Descends(D, S, m, g, B, b, k)
  <2>1. m \in [D -> Nat] /\ B \in SUBSET D
    BY <1>2
  <2>2. g \in [D -> D]
    <3> HIDE DEF B, D, Then
    <3> QED
      BY <1>3
  <2>3. b \in [D -> S]
    <3> SUFFICES ASSUME NEW x \in D PROVE (IF Len(R(x)) >= x[2] THEN SubSeq(R(x), 1, x[2]) ELSE R(x)) \in S
      OBVIOUS
    <3>1. R(x) \in Seq(X) /\ x[2] \in Nat /\ Len(R(x)) \in Nat
      BY <1>2, EditorAssumption
    <3> HIDE DEF R, X, D
    <3>2. ASSUME Len(R(x)) >= x[2] PROVE SubSeq(R(x), 1, x[2]) \in Seq(X)
      BY <3>1, <3>2
    <3> QED
      BY <3>1, <3>2
  <2>4. k \in [D -> [S -> S]]
    <3>1. ASSUME NEW x \in D, NEW s \in S PROVE R(x) \o s \in S
      <4> HIDE DEF R, X, D, E
      <4>1. R(x) \in Seq(X)
        BY <1>2
      <4> QED
        BY <4>1
    <3> HIDE DEF R, S, D
    <3> QED
      BY <3>1
  <2>5. \A x \in D \ B : m[g[x]] < m[x]
    <3> SUFFICES ASSUME NEW x \in D, x \notin B PROVE m[g[x]] < m[x]
      OBVIOUS
    <3>1. Then(x) \in D /\ Then(x)[1] > x[1] /\ Then(x)[1] \in L /\ x[1] \in L
      BY <1>2, <1>3
    <3>2. g[x] = Then(x)
      OBVIOUS
    <3> HIDE DEF Then, B, g, D
    <3>3. m[g[x]] = Len(text) - Then(x)[1] /\ m[x] = Len(text) - x[1]
      BY <3>1, <3>2
    <3> QED
      BY <3>1, <3>3
  <2> HIDE DEF D, S, m, g, B, b, k
  <2> QED
    BY <2>1, <2>2, <2>3, <2>4, <2>5 DEF Descends
<1>5. \E f : f = Paint(f)
  <2>1. PICK f : Solves(f, D, S, g, B, b, k)
    <3> HIDE DEF D, S, m, g, B, b, k
    <3> QED
      BY <1>4, Recursion, Zenon
  <2>2. f \in [D -> S] /\ \A x \in D : f[x] = IF x \in B THEN b[x] ELSE k[x][f[g[x]]]
    <3> HIDE DEF D, S, g, B, b, k
    <3> QED
      BY <2>1 DEF Solves
  <2>3. ASSUME NEW x \in D
        PROVE  f[x] = Paint(f)[x]
    <3>1. CASE x \in B
      <4>1. f[x] = b[x]
        <5> HIDE DEF D, S, g, B, b, k
        <5> QED
          BY <2>2, <3>1
      <4>2. b[x] = IF Len(R(x)) >= x[2] THEN SubSeq(R(x), 1, x[2]) ELSE R(x)
        OBVIOUS
      <4>3. Len(R(x)) >= x[2] \/ E(x) >= Len(text)
        BY <3>1
      <4> HIDE DEF R, E, b, B
      <4> QED
        BY <4>1, <4>2, <4>3
    <3>2. CASE x \notin B
      <4>1. g[x] = Then(x) /\ Then(x) \in D
        BY <1>3, <3>2
      <4>2. f[x] = k[x][f[Then(x)]] /\ f[Then(x)] \in S
        <5> HIDE DEF Then, D, S, B, b, k, g
        <5> QED
          BY <2>2, <3>2, <4>1
      <4>3. ~(Len(R(x)) >= x[2]) /\ ~(E(x) >= Len(text))
        BY <3>2
      <4> HIDE DEF R, E, S, B, Then
      <4>4. f[x] = R(x) \o f[Then(x)]
        BY <4>2
      <4> QED
        BY <4>3, <4>4
    <3> QED
      BY <3>1, <3>2
  <2>4. f = Paint(f)
    <3> HIDE DEF D, R, E, Then, S
    <3> QED
      BY <2>2, <2>3
  <2> QED
    BY <2>4
<1> DEFINE r == CHOOSE f : f = Paint(f)
<1>6. r = Paint(r)
  BY <1>5
<1>7. EditRender = r[<<top, TextRows>>]
  BY DEF EditRender
<1> HIDE DEF r
<1>8. \A x \in D : r[x] = IF Len(R(x)) >= x[2] THEN SubSeq(R(x), 1, x[2])
                          ELSE IF E(x) >= Len(text) THEN R(x)
                          ELSE R(x) \o r[Then(x)]
  <2> HIDE DEF R, E, Then, D
  <2> QED
    BY <1>6
<1>9. \A x \in D : r[x] \in S
  <2> DEFINE T == {d \in Nat : \E x \in D : d = Len(text) - x[1] /\ r[x] \notin S}
  <2>0. SUFFICES ASSUME T # {} PROVE FALSE
    <3>1. \A x \in D : Len(text) - x[1] \in Nat
      BY <1>2
    <3>2. \A x \in D : r[x] \notin S => Len(text) - x[1] \in T
      <4> HIDE DEF D, S
      <4> QED
        BY <3>1
    <3> HIDE DEF T
    <3> QED
      BY <3>2, SMTT(30)
  <2>1. PICK d \in T : \A y \in T : d <= y
    <3>1. T \in SUBSET Nat
      OBVIOUS
    <3> HIDE DEF T
    <3> QED
      BY <2>0, <3>1, Smallest
  <2>2. PICK x \in D : d = Len(text) - x[1] /\ r[x] \notin S
    <3> HIDE DEF D, S
    <3> QED
      BY <2>1
  <2>3. r[x] = IF Len(R(x)) >= x[2] THEN SubSeq(R(x), 1, x[2])
               ELSE IF E(x) >= Len(text) THEN R(x) ELSE R(x) \o r[Then(x)]
    <3> HIDE DEF D, S, R, E, Then
    <3> QED
      BY <1>8, <2>2
  <2>4. R(x) \in Seq(X) /\ Len(R(x)) \in Nat /\ x[2] \in Nat /\ x[1] \in 0 .. Len(text)
    <3>1. /\ x[1] \in L /\ x[2] \in N /\ R(x) \in Seq(X) /\ Len(R(x)) \in Nat \ {0}
      <4> HIDE DEF D, S, R, E, L, N, X
      <4> QED
        BY <1>2, <2>2
    <3> HIDE DEF R, X, D
    <3> QED
      BY <3>1, EditorAssumption
  <2>5. ~(Len(R(x)) >= x[2]) /\ ~(E(x) >= Len(text))
    <3> HIDE DEF R, E, X, Then
    <3>1. ASSUME Len(R(x)) >= x[2] PROVE SubSeq(R(x), 1, x[2]) \in Seq(X)
      BY <2>4, <3>1
    <3> QED
      BY <2>2, <2>3, <2>4, <3>1
  <2>6. x \notin B
    BY <2>5
  <2>7. Then(x) \in D /\ Then(x)[1] > x[1] /\ Then(x)[1] \in 0 .. Len(text)
    BY <1>2, <1>3, <2>6
  <2>8. r[Then(x)] \notin S
    <3> HIDE DEF R, E, X, Then
    <3> QED
      BY <2>2, <2>3, <2>4, <2>5
  <2>9. Len(text) - Then(x)[1] \in T
    <3> DEFINE y == Then(x)
    <3>1. y \in D /\ y[1] \in 0 .. Len(text) /\ r[y] \notin S
      BY <2>7, <2>8
    <3> HIDE DEF y, D, S
    <3>2. Len(text) - y[1] \in T
      BY <3>1
    <3> QED
      BY <3>2 DEF y
  <2> HIDE DEF T, Then
  <2>10. d <= Len(text) - Then(x)[1]
    BY <2>1, <2>9
  <2> QED
    BY <2>2, <2>4, <2>7, <2>10
<1>10. \A x \in D :
         /\ r[x] \in Seq(X)
         /\ r[x] = IF Len(R(x)) >= x[2] THEN SubSeq(R(x), 1, x[2])
                   ELSE IF E(x) >= Len(text) THEN R(x) ELSE R(x) \o r[Then(x)]
  <2> HIDE DEF R, E, Then, D, X
  <2> QED
    BY <1>8, <1>9
<1>11. \A h \in L : RowsPainted(h) \in Seq(X)
  <2> HIDE DEF X, L
  <2> QED
    BY <1>1
<1> HIDE DEF X
<1> WITNESS X, r
<1> QED
  BY <1>7, <1>10, <1>11
\* What the painting does with the rows of a line: it cuts them off at the bottom of
\* the screen, ends with them, or goes on below them.
Paints(f, X) ==
    /\ \A h \in 0 .. Len(text) : RowsPainted(h) \in Seq(X)
    /\ \A x \in (0 .. Len(text)) \X (0 .. TextRows) :
         LET rows == RowsPainted(x[1])
             e    == LineEnd(text, x[1])
         IN  /\ f[x] \in Seq(X)
             /\ f[x] = IF Len(rows) >= x[2] THEN SubSeq(rows, 1, x[2])
                       ELSE IF e >= Len(text) THEN rows
                       ELSE rows \o f[<<NextLine(text, e), x[2] - Len(rows)>>]

\* With n rows left from the line at p on, the row r of the line at home is where the
\* rows in between put it.
Placed(f, home, r, p, n) ==
    LET i == RowsUntil(wrap, text, p, home) + r + 1
    IN  i \in 1 .. Len(f[<<p, n>>]) /\ f[<<p, n>>][i] = RowsPainted(home)[r + 1]

LEMMA Joined ==
    ASSUME NEW X, NEW a \in Seq(X), NEW b \in Seq(X)
    PROVE  /\ Len(a) \in Nat /\ Len(b) \in Nat /\ Len(a \o b) = Len(a) + Len(b)
           /\ \A i \in 1 .. Len(a) : (a \o b)[i] = a[i]
           /\ \A i \in 1 .. Len(b) : (a \o b)[Len(a) + i] = b[i]
  OBVIOUS

LEMMA Below ==
    ASSUME NEW n \in 0 .. TextRows, NEW l \in Nat \ {0}, NEW v \in Nat, NEW r \in Nat, l + v + r < n
    PROVE  n - l \in 0 .. TextRows /\ v + r < n - l /\ ~(l >= n)
  BY EditorAssumption

LEMMA RowPlaced ==
    ASSUME ~Loose, text \in Seq(Chars), Whole(text), NEW home, Home(text, home), NEW X, NEW f, Paints(f, X),
           NEW r \in Nat, r + 1 \in 1 .. Len(RowsPainted(home))
    PROVE  \A p \in 0 .. home, n \in 0 .. TextRows :
             RowsUntil(wrap, text, p, home) + r < n => Placed(f, home, r, p, n)
<1> DEFINE Due(p, n) == RowsUntil(wrap, text, p, home) + r < n
           T == {d \in Nat : \E p \in 0 .. home, n \in 0 .. TextRows :
                               d = home - p /\ Due(p, n) /\ ~Placed(f, home, r, p, n)}
<1>0. home \in 0 .. Len(text)
  BY DEF Home
<1>1. ASSUME NEW p \in 0 .. home, NEW n \in 0 .. TextRows
      PROVE  LET rows == RowsPainted(p)
                 e    == LineEnd(text, p)
             IN  /\ p \in 0 .. Len(text) /\ n \in Nat /\ rows \in Seq(X) /\ Len(rows) \in Nat \ {0}
                 /\ Len(rows) = Rows(wrap, text, p)
                 /\ f[<<p, n>>] \in Seq(X)
                 /\ f[<<p, n>>] = IF Len(rows) >= n THEN SubSeq(rows, 1, n)
                                  ELSE IF e >= Len(text) THEN rows
                                  ELSE rows \o f[<<NextLine(text, e), n - Len(rows)>>]
  <2>1. p \in 0 .. Len(text) /\ n \in Nat
    BY <1>0, EditorAssumption
  <2>2. Len(RowsPainted(p)) = Rows(wrap, text, p) /\ Rows(wrap, text, p) \in Nat \ {0}
    BY <2>1, PaintedLine
  <2> DEFINE x == <<p, n>>
  <2>3. x \in (0 .. Len(text)) \X (0 .. TextRows) /\ x[1] = p /\ x[2] = n
    BY <2>1
  <2> HIDE DEF x
  <2>4. /\ f[x] \in Seq(X)
        /\ f[x] = IF Len(RowsPainted(p)) >= n THEN SubSeq(RowsPainted(p), 1, n)
                  ELSE IF LineEnd(text, p) >= Len(text) THEN RowsPainted(p)
                  ELSE RowsPainted(p) \o f[<<NextLine(text, LineEnd(text, p)), n - Len(RowsPainted(p))>>]
    BY <2>3 DEF Paints
  <2> QED
    BY <2>1, <2>2, <2>4 DEF x, Paints
<1>2. T = {}
  <2> SUFFICES ASSUME T # {} PROVE FALSE
    OBVIOUS
  <2>1. PICK d \in T : \A y \in T : d <= y
    <3>1. T \in SUBSET Nat
      OBVIOUS
    <3> HIDE DEF T
    <3> QED
      BY <3>1, Smallest
  <2>2. PICK p \in 0 .. home, n \in 0 .. TextRows : d = home - p /\ Due(p, n) /\ ~Placed(f, home, r, p, n)
    BY <2>1
  <2> DEFINE rows == RowsPainted(p)
             all == f[<<p, n>>]
             u == RowsUntil(wrap, text, p, home)
  <2>3. /\ rows \in Seq(X) /\ Len(rows) \in Nat \ {0} /\ p \in 0 .. Len(text) /\ n \in Nat
        /\ Len(rows) = Rows(wrap, text, p)
        /\ all \in Seq(X)
    BY <1>1, <2>2
  <2>4. u \in Nat /\ u = IF p >= home THEN 0
                          ELSE Rows(wrap, text, p) + RowsUntil(wrap, text, After(text, p), home)
    BY <1>0, <2>3, RowsUntilIs
  <2>5. u + r < n
    BY <2>2
  <2>6. ~(u + r + 1 \in 1 .. Len(all) /\ all[u + r + 1] = RowsPainted(home)[r + 1])
    BY <2>2 DEF Placed
  <2>7. CASE p = home
    <3>1. u = 0 /\ RowsPainted(home) = rows /\ r + 1 \in 1 .. Len(rows)
      BY <1>0, <2>4, <2>7
    <3>2. \/ Len(rows) >= n /\ all = SubSeq(rows, 1, n)
          \/ all = rows
          \/ \E v \in Seq(X) : all = rows \o v
      <4>1. CASE Len(rows) >= n
        BY <1>1, <2>2, <4>1
      <4>2. CASE LineEnd(text, p) >= Len(text)
        BY <1>1, <2>2, <4>2
      <4>3. CASE ~(Len(rows) >= n) /\ ~(LineEnd(text, p) >= Len(text))
        <5>1. all = rows \o f[<<NextLine(text, LineEnd(text, p)), n - Len(rows)>>]
          BY <1>1, <2>2, <4>3
        <5> DEFINE x == <<NextLine(text, LineEnd(text, p)), n - Len(rows)>>
        <5>2. LineEnd(text, p) \in 0 .. Len(text)
          BY <2>3, LineEndIs
        <5>3. NextLine(text, LineEnd(text, p)) \in 0 .. Len(text)
          <6> DEFINE e == LineEnd(text, p)
          <6> HIDE DEF e
          <6>1. NextLine(text, e) \in e .. Len(text) /\ e \in 0 .. Len(text)
            BY <5>2, NextLineIs DEF e
          <6>2. NextLine(text, e) \in 0 .. Len(text)
            BY <6>1
          <6> QED
            BY <6>2 DEF e
        <5>4. n - Len(rows) \in 0 .. TextRows
          <6> HIDE DEF rows
          <6> QED
            BY <2>2, <2>3, <4>3, EditorAssumption, SMTT(30)
        <5>5. f[x] \in Seq(X)
          <6>1. x \in (0 .. Len(text)) \X (0 .. TextRows)
            BY <5>3, <5>4
          <6> HIDE DEF x
          <6> QED
            BY <6>1 DEF Paints
        <5> QED
          BY <5>1, <5>5
      <4> QED
        BY <4>1, <4>2, <4>3
    <3> HIDE DEF rows, all, u
    <3>3. CASE Len(rows) >= n /\ all = SubSeq(rows, 1, n)
      <4>1. r + 1 \in 1 .. n /\ Len(all) = n /\ all[r + 1] = rows[r + 1]
        BY <2>3, <2>5, <3>1, <3>3
      <4> QED
        BY <2>3, <2>6, <3>1, <4>1
    <3>4. CASE all = rows
      BY <2>3, <2>6, <3>1, <3>4
    <3>5. CASE \E v \in Seq(X) : all = rows \o v
      <4>1. PICK v \in Seq(X) : all = rows \o v
        BY <3>5
      <4>2. Len(all) = Len(rows) + Len(v) /\ Len(v) \in Nat /\ all[r + 1] = rows[r + 1]
        <5>1. /\ Len(rows) \in Nat /\ Len(v) \in Nat /\ Len(rows \o v) = Len(rows) + Len(v)
              /\ \A i \in 1 .. Len(rows) : (rows \o v)[i] = rows[i]
          <6>1. rows \in Seq(X) /\ v \in Seq(X)
            BY <2>3
          <6> QED
            BY <6>1, Joined, SMTT(30)
        <5> QED
          BY <3>1, <4>1, <5>1
      <4>3. r + 1 \in 1 .. Len(all)
        BY <2>3, <3>1, <4>2, SMTT(30)
      <4> QED
        BY <2>6, <3>1, <4>2, <4>3
    <3> QED
      BY <3>2, <3>3, <3>4, <3>5
  <2>8. CASE p < home
    <3> DEFINE q == After(text, p)
               k == n - Len(rows)
               rest == f[<<q, k>>]
    <3>1. q \in p + 1 .. home
      BY <2>3, <2>8, AfterIs
    <3>2. LineEnd(text, p) < Len(text) /\ LineEnd(text, p) \in 0 .. Len(text)
      BY <2>3, <2>8, LineEndBefore, LineEndIs
    <3>3. q = NextLine(text, LineEnd(text, p))
      BY DEF After
    <3>4. u = Len(rows) + RowsUntil(wrap, text, q, home)
      BY <1>0, <2>2, <2>3, <2>4, <2>8
    <3>5. q \in 0 .. home /\ q \in 0 .. Len(text) /\ home - q \in Nat /\ home - q < home - p
      <4> HIDE DEF q
      <4> QED
        BY <1>0, <2>2, <3>1
    <3>6. RowsUntil(wrap, text, q, home) \in Nat
      BY <1>0, <3>5, RowsUntilIs
    <3>7. k \in 0 .. TextRows /\ RowsUntil(wrap, text, q, home) + r < k /\ ~(Len(rows) >= n)
      <4> DEFINE v == RowsUntil(wrap, text, q, home)
      <4> HIDE DEF u, rows, q, v
      <4>1. v \in Nat /\ u = Len(rows) + v
        BY <3>4, <3>6 DEF v
      <4>2. Len(rows) + v + r < n
        BY <2>5, <4>1
      <4>3. k \in 0 .. TextRows /\ v + r < k /\ ~(Len(rows) >= n)
        BY <2>2, <2>3, <4>1, <4>2, Below
      <4> QED
        BY <4>3 DEF v
    <3>8. Placed(f, home, r, q, k)
      <4> SUFFICES ASSUME ~Placed(f, home, r, q, k) PROVE FALSE
        OBVIOUS
      <4> HIDE DEF q, k
      <4>1. Due(q, k)
        BY <3>7
      <4> HIDE DEF Due
      <4>2. home - q \in T
        BY <3>5, <3>7, <4>1
      <4> HIDE DEF T
      <4>3. d <= home - q
        BY <2>1, <4>2
      <4> QED
        BY <1>0, <2>2, <3>5, <4>3
    <3>9. all = rows \o rest
      <4>1. ~(LineEnd(text, p) >= Len(text))
        <5> DEFINE e == LineEnd(text, p)
        <5> HIDE DEF e
        <5>1. ~(e >= Len(text))
          BY <3>2 DEF e
        <5> QED
          BY <5>1 DEF e
      <4> QED
        BY <1>1, <2>2, <3>3, <3>7, <4>1
    <3>10. rest \in Seq(X)
      BY <1>1, <3>5, <3>7
    <3> DEFINE v == RowsUntil(wrap, text, q, home)
    <3>11. v + r + 1 \in 1 .. Len(rest) /\ rest[v + r + 1] = RowsPainted(home)[r + 1]
      BY <3>8 DEF Placed
    <3>12. u = Len(rows) + v /\ v \in Nat
      BY <3>4, <3>6
    <3> HIDE DEF rows, all, rest, u, v
    <3>13. /\ Len(rows) \in Nat /\ Len(rest) \in Nat /\ Len(all) = Len(rows) + Len(rest)
           /\ \A i \in 1 .. Len(rest) : all[Len(rows) + i] = rest[i]
      <4>1. rows \in Seq(X)
        BY <2>3
      <4>2. /\ Len(rows) \in Nat /\ Len(rest) \in Nat /\ Len(rows \o rest) = Len(rows) + Len(rest)
            /\ \A i \in 1 .. Len(rest) : (rows \o rest)[Len(rows) + i] = rest[i]
        BY <3>10, <4>1, Joined
      <4> QED
        BY <3>9, <4>2, Zenon
    <3>14. u + r + 1 = Len(rows) + (v + r + 1) /\ u + r + 1 \in 1 .. Len(all)
      <4>1. u + r + 1 = Len(rows) + (v + r + 1)
        BY <3>12, <3>13
      <4>2. Len(rows) + (v + r + 1) \in 1 .. Len(all)
        BY <3>11, <3>13, SMTT(30)
      <4> QED
        BY <4>1, <4>2
    <3>15. all[u + r + 1] = rest[v + r + 1]
      BY <3>11, <3>13, <3>14, SMTT(30)
    <3> QED
      BY <2>6, <3>11, <3>14, <3>15
  <2> QED
    BY <1>0, <2>2, <2>7, <2>8
<1> SUFFICES ASSUME NEW p \in 0 .. home, NEW n \in 0 .. TextRows, Due(p, n)
             PROVE  Placed(f, home, r, p, n)
  OBVIOUS
<1>3. home - p \in Nat /\ home - p \notin T
  <2>1. home - p \in Nat
    BY <1>0
  <2> HIDE DEF T
  <2> QED
    BY <1>2, <2>1
<1> HIDE DEF Due
<1> QED
  BY <1>3

\* Where the cursor is put is where edit_render has painted the row it is in.
LEMMA ShownIs ==
    ASSUME ~Loose, TextInv, TopInv, Drawn
    PROVE  /\ row + 1 \in DOMAIN EditRender
           /\ CurCol >= 0 /\ cur = EditRender[row + 1].from + CurCol /\ cur <= EditRender[row + 1].to
<1> DEFINE home == LineHome(text, cur)
           r == RowsWithin(wrap, text, cur, home)
           u == RowsUntil(wrap, text, top, home)
<1>0. text \in Seq(Chars) /\ Whole(text)
  BY DEF TextInv, Fine
<1>1. home \in 0 .. cur /\ Home(text, home) /\ home \in 0 .. Len(text) /\ cur \in 0 .. Len(text)
  BY CursorInLine
<1>2. /\ r \in Nat /\ r + 1 \in 1 .. Len(RowsPainted(home))
      /\ CurCol >= 0 /\ cur = RowsPainted(home)[r + 1].from + CurCol
      /\ cur <= RowsPainted(home)[r + 1].to
  BY CursorPainted
<1>3. top \in 0 .. home
  <2>1. Home(text, top) /\ top <= cur /\ top \in 0 .. Len(text)
    BY DEF TopInv, TopAt, Home
  <2>2. OneLine(text, home, cur)
    BY <1>0, <1>1, LineHomeIs
  <2> HIDE DEF home
  <2>3. CASE top > home
    <3>1. At(text, top - 1) = LF /\ top - 1 \in home .. cur - 1
      BY <1>1, <2>1, <2>3 DEF Home
    <3> QED
      BY <2>2, <3>1 DEF OneLine
  <2> QED
    BY <1>1, <2>1, <2>3
<1>4. row = u + r /\ row < TextRows
  BY DEF Drawn
<1>5. PICK X, f : EditRender = f[<<top, TextRows>>] /\ Paints(f, X)
  BY <1>0, RenderIs DEF Paints
<1>6. u \in Nat
  BY <1>0, <1>1, <1>3, RowsUntilIs
<1>7. Placed(f, home, r, top, TextRows)
  <2>1. TextRows \in 0 .. TextRows
    BY EditorAssumption
  <2>2. RowsUntil(wrap, text, top, home) + r < TextRows
    BY <1>4
  <2> HIDE DEF home, r, u
  <2> QED
    BY <1>0, <1>1, <1>2, <1>3, <1>5, <2>1, <2>2, RowPlaced
<1>8. row + 1 \in 1 .. Len(EditRender) /\ EditRender[row + 1] = RowsPainted(home)[r + 1]
  <2>1. u + r + 1 \in 1 .. Len(f[<<top, TextRows>>])
        /\ f[<<top, TextRows>>][u + r + 1] = RowsPainted(home)[r + 1]
    BY <1>7 DEF Placed
  <2> HIDE DEF home, r, u
  <2> QED
    BY <1>4, <1>5, <2>1
<1>9. DOMAIN EditRender = 1 .. Len(EditRender)
  <2>1. <<top, TextRows>> \in (0 .. Len(text)) \X (0 .. TextRows)
    BY <1>1, <1>3, EditorAssumption
  <2>2. EditRender \in Seq(X)
    BY <1>5, <2>1 DEF Paints
  <2> QED
    BY <2>2
<1> QED
  BY <1>2, <1>8, <1>9

----------------------------------------------------------------------------
(* The theorems *)

LEMMA TextInvHolds == Spec => []TextInv
<1>1. Init => TextInv
  BY InitInv
<1>2. TextInv /\ [Next]_vars => TextInv'
  BY StepText
<1> QED
  BY <1>1, <1>2, PTL DEF Spec

InText ==
    /\ text \in Seq(Chars) /\ Len(text) <= Cap /\ clip \in Seq(Chars)
    /\ cur \in 0 .. Len(text)
    /\ sel # None => sel \in 0 .. Len(text)

\* Whatever bytes are loaded, lone carriage returns among them, and whatever is typed,
\* cut, pasted, looked for and replaced: the text fits its buffer, and the cursor and
\* the anchor of the selection stand in it.
THEOREM PlacesStayInText == Spec => []InText
<1>1. TextInv => InText
  BY DEF TextInv, Fine, Anchored, Between, InText
<1> QED
  BY <1>1, TextInvHolds, PTL

NothingSplit ==
    /\ LoneCR(text) = {} /\ LoneCR(clip) = {}
    /\ ~IsPair(text, cur - 1)
    /\ sel # None => ~IsPair(text, sel - 1)

\* From texts without a lone carriage return no command makes one, in the text or in
\* the clipboard, and neither the cursor nor the anchor comes to stand inside a CR LF.
\* What edit.c leaves open at the top of the screen is allowed here.
THEOREM TextStaysWhole ==
    ASSUME "lone CR" \notin Risky
    PROVE  Spec => []NothingSplit
<1>1. ~Loose
  BY DEF Loose
<1>2. TextInv => NothingSplit
  <2> SUFFICES ASSUME TextInv PROVE NothingSplit
    OBVIOUS
  <2>1. /\ text \in Seq(Chars) /\ Whole(text) /\ Between(text, cur) /\ cur \in 0 .. Len(text)
        /\ clip \in Seq(Chars) /\ Whole(clip)
    BY DEF TextInv, Fine, Between
  <2>2. LoneCR(text) = {} /\ LoneCR(clip) = {}
    BY <1>1, <2>1, WholeIs
  <2>3. ~IsPair(text, cur - 1)
    BY <1>1, <2>1, BetweenIs
  <2>4. ASSUME sel # None PROVE ~IsPair(text, sel - 1)
    <3>1. Between(text, sel) /\ sel \in 0 .. Len(text)
      BY <2>4 DEF TextInv, Anchored, Between
    <3> QED
      BY <1>1, <2>1, <3>1, BetweenIs
  <2> QED
    BY <2>2, <2>3, <2>4 DEF NothingSplit
<1> QED
  BY <1>2, TextInvHolds, PTL

LEMMA EditorInv ==
    ASSUME Risky = {}
    PROVE  Spec => [](TextInv /\ TopInv /\ RowInv)
<1>1. Init => TextInv /\ TopInv /\ RowInv
  BY InitInv, InitRow
<1>2. TextInv /\ TopInv /\ RowInv /\ [Next]_vars => (TextInv /\ TopInv /\ RowInv)'
  BY StepText, StepTop
<1> QED
  BY <1>1, <1>2, PTL DEF Spec

\* Without a line joined from the top of the screen that is shorter than what was
\* deleted, and without a line of more rows than the screen, from texts without a lone
\* carriage return: the same, and the top of the screen stands in the text
\* (ensure_visible, delete_selection, cmd_backspace).
THEOREM LineEndsAreWhole ==
    ASSUME Risky = {}
    PROVE  Spec => []LineEndsWhole
<1>1. TextInv /\ TopInv => LineEndsWhole
  <2> SUFFICES ASSUME TextInv, TopInv PROVE LineEndsWhole
    OBVIOUS
  <2>1. /\ text \in Seq(Chars) /\ Len(text) <= Cap /\ Whole(text) /\ Between(text, cur)
        /\ clip \in Seq(Chars) /\ Whole(clip) /\ Home(text, top)
    BY DEF TextInv, Fine, TopInv, TopAt
  <2>2. LoneCR(text) = {} /\ LoneCR(clip) = {}
    BY <2>1, WholeIs, Strict
  <2>3. top \in 0 .. Len(text) /\ cur \in 0 .. Len(text)
    BY <2>1 DEF Home, Between
  <2>4. ~IsPair(text, cur - 1)
    BY <2>1, <2>3, BetweenIs, Strict
  <2>5. ASSUME sel # None
        PROVE  sel \in 0 .. Len(text) /\ ~IsPair(text, sel - 1)
    <3>1. Between(text, sel) /\ sel \in 0 .. Len(text)
      BY <2>5 DEF TextInv, Anchored, Between
    <3> QED
      BY <2>1, <3>1, BetweenIs, Strict
  <2> QED
    BY <2>1, <2>2, <2>3, <2>4, <2>5 DEF LineEndsWhole
<1> QED
  BY <1>1, EditorInv, PTL

\* Under the same three conditions the line number that ensure_visible and the
\* deletions count along is that of the first line on the screen.
THEOREM TopLineIsExact ==
    ASSUME Risky = {}
    PROVE  Spec => []TopLineExact
<1>1. TextInv /\ TopInv => TopLineExact
  BY DEF TopInv, TopAt, TopLineExact
<1> QED
  BY <1>1, EditorInv, PTL

LEMMA RoundShortens ==
    ASSUME TextInv, Next, task # None, task' = task
    PROVE  Len(text') - cur' < Len(text) - cur
<1>1. ~Ready
  BY DEF Ready
<1>2. /\ task \in Tasks
      /\ task.find \in FindTexts /\ task.repl \in Seq(Chars) /\ Whole(task.repl)
      /\ task.asks \in BOOLEAN
  BY <1>1, TaskIs DEF TextInv
<1>3. Replacing \/ \E a \in {"ja", "nei", "alle", "avbryt"} : Answer(a)
  BY <1>1 DEF Next, Nav, InsChar, CmdEnter, Insert, DelSelection, CmdBackspace, CmdDel, NothingToDelete,
     EditCopy, EditCut, EditPaste, ToggleWrap, FindAndSelect, Erstatt
<1>4. ASSUME NEW a, Answer(a)
      PROVE  FALSE
  <2>1. task.asks
    BY <1>4 DEF Answer
  <2>2. task' = None \/ task' = [task EXCEPT !.asks = FALSE]
        \/ task' = [task EXCEPT !.asks = FALSE, !.all = (a = "alle")]
    BY <1>4 DEF Answer
  <2>3. task'.asks = FALSE
    BY <1>2, <2>2, DialogAssumption DEF Tasks
  <2> QED
    BY <2>1, <2>3
<1>5. CASE ReplaceEnds
  BY <1>5 DEF ReplaceEnds
<1>6. CASE ReplaceAsks
  <2>1. ~task.asks /\ task' = [task EXCEPT !.asks = TRUE]
    BY <1>6 DEF ReplaceAsks
  <2>2. task'.asks = TRUE
    BY <1>2, <2>1 DEF Tasks
  <2> QED
    BY <2>1, <2>2
<1>7. CASE ReplaceStep
  <2> DEFINE f == task.find
             p == SearchNext(f, cur)
             c == p + Len(f)
             w == Replaced(c, p, task.repl)
  <2>1. p # None /\ Becomes(w)
    BY <1>7 DEF ReplaceStep
  <2>2. text \in Seq(Chars) /\ Whole(text) /\ cur \in 0 .. Len(text) /\ Len(text) <= Cap
    BY DEF TextInv, Fine, Between
  <2>3. p \in Matches(f) /\ p >= cur
    BY <1>2, <2>1, <2>2, SearchNextIs
  <2>4. /\ Len(f) \in Nat \ {0} /\ Between(text, p) /\ Between(text, c)
        /\ p \in 0 .. Len(text) /\ c \in 0 .. Len(text)
    BY <1>2, <2>2, <2>3, MatchBetween DEF Between
  <2>5. p # None
    BY <2>4, EditorAssumption
  <2>6. Selected(c, p)[2] = c
    <3> DEFINE M == {p, c}
    <3>1. M \in SUBSET (0 .. Len(text)) /\ M # {} /\ Len(text) \in Nat
      BY <2>2, <2>4
    <3>2. Max(M) \in M /\ \A y \in M : y <= Max(M)
      <4> HIDE DEF M
      <4> QED
        BY <3>1, MaxIs
    <3>3. Max(M) \in {p, c} /\ c <= Max(M)
      BY <3>2
    <3>4. Selected(c, p) = <<Least(p, c), Max(M)>>
      BY <2>5 DEF Selected
    <3> HIDE DEF M
    <3>5. p <= c
      <4> HIDE DEF p, f
      <4> QED
        BY <2>4
    <3>6. Max(M) = c
      <4> HIDE DEF p, c
      <4> QED
        BY <2>4, <3>3, <3>5
    <3> QED
      BY <3>4, <3>6
  <2> HIDE DEF p, f
  <2>7. cur < c
    BY <2>2, <2>3, <2>4
  <2>8. Fine(text, c) /\ Anchored(p)
    BY <2>2, <2>4 DEF Fine, Anchored
  <2> HIDE DEF c
  <2>9. Len(w.text) - w.cur = Len(text) - c
    BY <1>2, <2>6, <2>8, ReplacedIs, EditorAssumption
  <2> HIDE DEF w
  <2>10. Len(text') - cur' = Len(text) - c
    BY <2>1, <2>9 DEF Becomes
  <2> QED
    BY <2>2, <2>4, <2>7, <2>10
<1> QED
  BY <1>3, <1>4, <1>5, <1>6, <1>7 DEF Replacing

\* Every round of Replace All leaves less text behind the cursor, in every text, with
\* lone carriage returns or without, and even when the replacement contains what is
\* looked for or does not fit.
THEOREM ReplacingAllEnds == Spec => ReplaceAllEnds
<1>1. TextInv /\ [Next]_vars
        => [task # None /\ task' = task => Len(text') - cur' < Len(text) - cur]_vars
  BY RoundShortens
<1> QED
  BY <1>1, TextInvHolds, PTL DEF Spec, ReplaceAllEnds

\* Under the same three conditions: whenever a key is awaited the cursor stands in the
\* cell that edit_render has painted the character at the cursor in, or behind the end
\* of its row, on every screen, for texts of every length, and with lines wrapped or not.
THEOREM CursorIsShown ==
    ASSUME Risky = {}
    PROVE  Spec => []CursorShown
<1>1. TextInv /\ TopInv /\ RowInv => CursorShown
  <2> SUFFICES ASSUME TextInv, TopInv, RowInv, Waiting PROVE CursorShown
    BY DEF CursorShown
  <2>1. Drawn
    BY DEF RowInv
  <2> DEFINE cell == [row |-> row + 1, col |-> CurCol]
  <2>2. cell.row = row + 1 /\ cell.col = CurCol /\ EditPlaceCursor = cell
    BY DEF EditPlaceCursor
  <2> HIDE DEF cell
  <2>3. /\ cell.row \in DOMAIN EditRender
        /\ cur = EditRender[cell.row].from + cell.col
        /\ cell.col >= 0 /\ cur <= EditRender[cell.row].to
    BY <2>1, <2>2, ShownIs, Strict
  <2> QED
    BY <2>2, <2>3 DEF CursorShown
<1> QED
  BY <1>1, EditorInv, PTL
=============================================================================
