------------------------------ MODULE Vfs_proofs ------------------------------
(***************************************************************************)
(* Proofs about paths, directories and listings, for every number of       *)
(* volumes, directories, names and mounts.                                 *)
(***************************************************************************)
EXTENDS Vfs, FiniteSetTheorems, SequenceTheorems, WellFoundedInduction, TLAPS

----------------------------------------------------------------------------
(* Numbers and functions *)

LEMMA Smallest ==
    ASSUME NEW T \in SUBSET Nat, T # {}
    PROVE  \E x \in T : \A y \in T : x <= y
<1>1. PICK R : IsWellFoundedOn(R, Nat) /\ \A x, y \in Nat : y < x => <<y, x>> \in R
  <2> WITNESS OpToRel(<, Nat)
  <2>1. IsWellFoundedOn(OpToRel(<, Nat), Nat)
    BY NatLessThanWellFounded
  <2>2. \A x, y \in Nat : y < x => <<y, x>> \in OpToRel(<, Nat)
    BY DEF OpToRel
  <2> QED
    BY <2>1, <2>2, Zenon
<1>2. \E x \in T : \A y \in T : ~(<<y, x>> \in R)
  BY <1>1, WFMin
<1>3. \A x, y \in T : ~(<<y, x>> \in R) => x <= y
  BY <1>1
<1> QED
  BY <1>2, <1>3, Zenon

LEMMA MinIs ==
    ASSUME NEW T \in SUBSET Nat, T # {}
    PROVE  Min(T) \in T /\ \A y \in T : Min(T) <= y
  BY Smallest DEF Min

\* A function on 0 .. n is given by its first value and the step to the next one.
Steps(f, n, S, base, F) ==
    f \in [0 .. n -> S] /\ f[0] = base /\ \A k \in 1 .. n : f[k] = F[k][f[k - 1]]

LEMMA StepsExist ==
    ASSUME NEW n \in Nat, NEW S, NEW base \in S, NEW F \in [1 .. n -> [S -> S]]
    PROVE  \E f : Steps(f, n, S, base, F)
<1> DEFINE T == {j \in 0 .. n : ~\E f : Steps(f, j, S, base, F)}
<1>1. T = {}
  <2> SUFFICES ASSUME T # {} PROVE FALSE
    OBVIOUS
  <2>1. PICK j \in T : \A i \in T : j <= i
    <3>1. T \in SUBSET Nat
      OBVIOUS
    <3> HIDE DEF T
    <3> QED
      BY <3>1, Smallest
  <2>2. j \in 0 .. n /\ ~\E f : Steps(f, j, S, base, F)
    BY <2>1
  <2>3. j # 0
    <3>1. Steps([k \in 0 .. 0 |-> base], 0, S, base, F)
      BY DEF Steps
    <3> QED
      BY <2>2, <3>1
  <2>4. j - 1 \in 0 .. n /\ ~(j <= j - 1)
    BY <2>2, <2>3
  <2>5. PICK f : Steps(f, j - 1, S, base, F)
    <3>1. j - 1 \notin T
      <4> HIDE DEF T
      <4> QED
        BY <2>1, <2>4
    <3> QED
      BY <2>4, <3>1
  <2> DEFINE g == [k \in 0 .. j |-> IF k = j THEN F[j][f[j - 1]] ELSE f[k]]
  <2>6. f[j - 1] \in S /\ F[j] \in [S -> S]
    BY <2>2, <2>3, <2>5 DEF Steps
  <2>7. g \in [0 .. j -> S]
    <3>1. \A k \in 0 .. j : k # j => k \in 0 .. j - 1
      BY <2>2
    <3> QED
      BY <2>5, <2>6, <3>1 DEF Steps
  <2>8. g[0] = base
    BY <2>2, <2>3, <2>5 DEF Steps
  <2>9. ASSUME NEW k \in 1 .. j
        PROVE  g[k] = F[k][g[k - 1]]
    <3>1. k - 1 \in 0 .. j /\ k - 1 # j /\ g[k - 1] = f[k - 1]
      BY <2>2
    <3>2. CASE k = j
      BY <3>1, <3>2
    <3>3. CASE k # j
      <4>1. k \in 1 .. j - 1 /\ k \in 0 .. j
        BY <2>2, <3>3
      <4> QED
        BY <2>5, <3>1, <3>3, <4>1 DEF Steps
    <3> QED
      BY <3>2, <3>3
  <2>10. Steps(g, j, S, base, F)
    <3> HIDE DEF g
    <3> QED
      BY <2>7, <2>8, <2>9 DEF Steps
  <2> QED
    BY <2>2, <2>10
<1>2. n \in 0 .. n /\ n \notin T
  BY <1>1
<1> QED
  BY <1>2

----------------------------------------------------------------------------
(* Paths *)

Parts == Spellings \cup {".."}
\* Normal's path after k components.
NormalStep(done, c) ==
    IF c # ".." THEN Append(done, c) ELSE IF done = << >> THEN << >> ELSE Front(done)

LEMMA NormalStepIs ==
    ASSUME NEW d \in Seq(Spellings), NEW c \in Parts
    PROVE  NormalStep(d, c) \in Seq(Spellings)
<1>1. CASE c # ".."
  BY <1>1 DEF NormalStep, Parts
<1>2. CASE c = ".." /\ d # << >>
  <2>1. SubSeq(d, 1, Len(d) - 1) \in Seq(Spellings)
    BY <1>2
  <2> QED
    BY <1>2, <2>1 DEF NormalStep, Front
<1>3. CASE c = ".." /\ d = << >>
  BY <1>3 DEF NormalStep
<1> QED
  BY <1>1, <1>2, <1>3

\* A normalised path has no ".." left.
LEMMA NormalIs ==
    ASSUME NEW p \in Seq(Parts)
    PROVE  Normal(p) \in Seq(Spellings)
<1> DEFINE n == Len(p)
           S == Seq(Spellings)
           Body(f) == [k \in 0 .. n |-> IF k = 0 THEN << >>
                                        ELSE IF p[k] # ".." THEN Append(f[k - 1], p[k])
                                        ELSE IF f[k - 1] = << >> THEN << >> ELSE Front(f[k - 1])]
           F == [k \in 1 .. n |-> [d \in S |-> NormalStep(d, p[k])]]
<1>0. n \in Nat /\ \A k \in 1 .. n : p[k] \in Parts
  OBVIOUS
<1>1. PICK f : Steps(f, n, S, << >>, F)
  <2>1. << >> \in S
    OBVIOUS
  <2>2. F \in [1 .. n -> [S -> S]]
    BY <1>0, NormalStepIs
  <2> HIDE DEF S, F, n
  <2> QED
    BY <1>0, <2>1, <2>2, StepsExist
<1>2. f = Body(f)
  <2>1. f \in [0 .. n -> S] /\ f[0] = << >>
    BY <1>1 DEF Steps
  <2>2. ASSUME NEW k \in 1 .. n
        PROVE  f[k] = NormalStep(f[k - 1], p[k])
    <3>1. f[k] = F[k][f[k - 1]] /\ k - 1 \in 0 .. n
      BY <1>0, <1>1 DEF Steps
    <3>2. f[k - 1] \in S
      BY <2>1, <3>1
    <3> HIDE DEF S
    <3> QED
      BY <3>1, <3>2
  <2>3. \A k \in 0 .. n : f[k] = Body(f)[k]
    <3> SUFFICES ASSUME NEW k \in 0 .. n PROVE f[k] = Body(f)[k]
      OBVIOUS
    <3>1. k = 0 \/ k \in 1 .. n
      BY <1>0
    <3> HIDE DEF n
    <3> QED
      BY <2>1, <2>2, <3>1 DEF NormalStep
  <2> HIDE DEF n, S
  <2> QED
    BY <2>1, <2>3
<1> DEFINE r == CHOOSE g : g = Body(g)
<1>3. r = Body(r)
  BY <1>2
<1>4. Normal(p) = r[n]
  BY DEF Normal
<1> HIDE DEF r
<1>5. r[0] = << >> /\ \A k \in 1 .. n : r[k] = NormalStep(r[k - 1], p[k])
  <2>1. \A k \in 0 .. n : r[k] = Body(r)[k]
    BY <1>3
  <2>2. 0 \in 0 .. n /\ \A k \in 1 .. n : k \in 0 .. n /\ k # 0
    BY <1>0
  <2> HIDE DEF n
  <2> QED
    BY <2>1, <2>2 DEF NormalStep
<1>6. \A k \in 0 .. n : r[k] \in S
  <2> DEFINE T == {k \in 0 .. n : r[k] \notin S}
  <2> SUFFICES ASSUME T # {} PROVE FALSE
    OBVIOUS
  <2>1. PICK k \in T : \A i \in T : k <= i
    <3>1. T \in SUBSET Nat
      OBVIOUS
    <3> HIDE DEF T
    <3> QED
      BY <3>1, Smallest
  <2>2. k \in 0 .. n /\ r[k] \notin S /\ k # 0
    <3>1. << >> \in S
      OBVIOUS
    <3> HIDE DEF S, n
    <3> QED
      BY <1>5, <2>1, <3>1
  <2>3. k - 1 \in 0 .. n /\ ~(k <= k - 1) /\ k \in 1 .. n
    BY <1>0, <2>2
  <2>4. r[k - 1] \in S
    BY <2>1, <2>3
  <2> QED
    BY <1>0, <1>5, <2>2, <2>3, <2>4, NormalStepIs
<1> QED
  BY <1>0, <1>4, <1>6
----------------------------------------------------------------------------
(* The slots of a directory *)

\* The slots TLC's runs meet: a slot has no name exactly when it is a deleted one.
SlotSet == {e \in [name : Names \cup {Gone}, kind : {"file", "dir", "gone"}, first : Nat] :
              e.name = Gone <=> e.kind = "gone"}

LEMMA SlotIs ==
    ASSUME NEW e \in SlotSet
    PROVE  /\ e.name = Gone \/ e.name \in Names
           /\ e.first \in Nat
           /\ e.name = Gone <=> e.kind = "gone"
           /\ e.name # Gone => e.kind = "file" \/ e.kind = "dir"
  BY DEF SlotSet

LEMMA HoleIsSlot == Hole \in SlotSet
  BY DEF SlotSet, Hole

LEMMA MadeSlot ==
    ASSUME NEW n \in Names, NEW k \in {"file", "dir"}, NEW f \in Nat
    PROVE  [name |-> n, kind |-> k, first |-> f] \in SlotSet
  BY SizesAssumption DEF SlotSet

LEMMA MaxOfTwo ==
    ASSUME NEW a \in Nat, NEW b \in Nat
    PROVE  Max({a, b}) = IF a >= b THEN a ELSE b
<1> DEFINE m == IF a >= b THEN a ELSE b
<1>1. m \in {a, b} /\ \A y \in {a, b} : m >= y
  OBVIOUS
<1>2. \A x \in {a, b} : (\A y \in {a, b} : x >= y) => x = m
  OBVIOUS
<1>3. Max({a, b}) \in {a, b} /\ \A y \in {a, b} : Max({a, b}) >= y
  <2> HIDE DEF m
  <2> QED
    BY <1>1 DEF Max
<1> QED
  BY <1>2, <1>3

\* Put overwrites a slot, or adds one at the end: the slots p that become of s.
CanPut(s, i, e) == s \in Seq(SlotSet) /\ i \in 1 .. Len(s) + 1 /\ e \in SlotSet
IsPut(p, s, i, e) ==
    /\ p \in Seq(SlotSet) /\ i \in DOMAIN p /\ p[i] = e /\ DOMAIN p = DOMAIN s \cup {i}
    /\ \A k \in DOMAIN s : k # i => p[k] = s[k]
    /\ Len(p) = IF i = Len(s) + 1 THEN Len(s) + 1 ELSE Len(s)

LEMMA PutIs ==
    ASSUME NEW s, NEW i, NEW e, CanPut(s, i, e)
    PROVE  IsPut(Put(s, i, e), s, i, e)
<1> DEFINE n == IF i = Len(s) + 1 THEN Len(s) + 1 ELSE Len(s)
           p == [k \in 1 .. n |-> IF k = i THEN e ELSE s[k]]
<1>1. Len(s) \in Nat /\ i \in Nat /\ i \in 1 .. Len(s) + 1 /\ s \in Seq(SlotSet) /\ e \in SlotSet
  BY DEF CanPut
<1>2. Max({Len(s), i}) = n
  BY <1>1, MaxOfTwo
<1>3. Put(s, i, e) = p
  <2> HIDE DEF n
  <2> QED
    BY <1>2 DEF Put
<1>4. n \in Nat /\ i \in 1 .. n /\ 1 .. n = DOMAIN s \cup {i}
  BY <1>1
<1>5. \A k \in 1 .. n : p[k] \in SlotSet
  BY <1>1
<1>6. p \in Seq(SlotSet) /\ Len(p) = n
  <2> DEFINE F(k) == IF k = i THEN e ELSE s[k]
  <2>1. \A k \in 1 .. n : F(k) \in SlotSet
    BY <1>5
  <2>2. p \in [1 .. n -> SlotSet]
    <3> HIDE DEF n
    <3> QED
      BY <2>1
  <2> HIDE DEF n, p
  <2> QED
    BY <1>4, <2>2
<1>7. DOMAIN p = 1 .. n /\ p[i] = e /\ \A k \in DOMAIN s : k # i => p[k] = s[k]
  <2> HIDE DEF n
  <2> QED
    BY <1>4
<1> HIDE DEF p, n
<1>8. Len(Put(s, i, e)) = IF i = Len(s) + 1 THEN Len(s) + 1 ELSE Len(s)
  BY <1>3, <1>6 DEF n
<1> QED
  BY <1>3, <1>4, <1>6, <1>7, <1>8 DEF IsPut

\* A new entry goes to a deleted slot or to the end.
LEMMA VacantIs ==
    ASSUME NEW s \in Seq(SlotSet)
    PROVE  /\ Vacant(s) \in 1 .. Len(s) + 1
           /\ Vacant(s) \in DOMAIN s => s[Vacant(s)].name = Gone
<1>1. CASE Of(s, Gone) = {}
  BY <1>1 DEF Vacant
<1>2. CASE Of(s, Gone) # {}
  <2>1. Of(s, Gone) \in SUBSET Nat
    BY DEF Of
  <2>2. Min(Of(s, Gone)) \in Of(s, Gone)
    BY <1>2, <2>1, MinIs
  <2> QED
    BY <1>2, <2>2 DEF Vacant, Of
<1> QED
  BY <1>1, <1>2
----------------------------------------------------------------------------
(* The directories of one volume: t[d] holds the slots of directory d, and the *)
(* volume may have the directories D.                                           *)

Place(t, x, i) == x \in DOMAIN t /\ i \in DOMAIN t[x]
IsDir(t, x, i) == Place(t, x, i) /\ t[x][i].kind = "dir"

Slotted(t, D) == t \in [DOMAIN t -> Seq(SlotSet)] /\ 0 \in DOMAIN t /\ DOMAIN t \subseteq {0} \cup D
\* A name is in a directory once.
Apart(t)   == \A x, i, j : Place(t, x, i) /\ Place(t, x, j) /\ t[x][i].name = t[x][j].name
                             /\ t[x][i].name # Gone => i = j
\* An entry that is a directory leads to a directory, each directory but the
\* root has an entry that leads to it, and only one.
Inside(t)  == \A x, i : IsDir(t, x, i) => t[x][i].first \in DOMAIN t \ {0}
Reached(t) == \A d \in DOMAIN t \ {0} : \E x, i : IsDir(t, x, i) /\ t[x][i].first = d
Once(t)    == \A x, i, y, j : IsDir(t, x, i) /\ IsDir(t, y, j) /\ t[x][i].first = t[y][j].first
                                => x = y /\ i = j
VolumeOK(t, D) ==
    Slotted(t, D) /\ Apart(t) /\ Inside(t) /\ Reached(t) /\ Once(t) /\ Len(t[0]) <= RootSlots

\* The volume t after slot i of d became e: with the directories `new' made and
\* those of `lost' gone.
Changed(t, u, d, i, e, new, lost) ==
    /\ d \in DOMAIN t /\ i \in 1 .. Len(t[d]) + 1 /\ e \in SlotSet
    /\ d = 0 => Len(Put(t[d], i, e)) <= RootSlots
    /\ new \cap DOMAIN t = {} /\ lost \subseteq DOMAIN t \ {0}
    /\ u = [x \in (DOMAIN t \ lost) \cup new |->
              IF x = d THEN Put(t[d], i, e) ELSE IF x \in DOMAIN t THEN t[x] ELSE << >>]

CanChange(t, u, D, d, i, e, new, lost) ==
    Slotted(t, D) /\ new \subseteq D /\ Changed(t, u, d, i, e, new, lost)

\* What is at the places of u.
IsChanged(t, u, D, d, i, e, new, lost) ==
    /\ Slotted(u, D) /\ DOMAIN u = (DOMAIN t \ lost) \cup new
    /\ \A x, k : Place(u, x, k) =>
         \/ x = d /\ k = i /\ u[x][k] = e
         \/ Place(t, x, k) /\ ~(x = d /\ k = i) /\ x \notin lost /\ u[x][k] = t[x][k]
    /\ \A x, k : Place(t, x, k) /\ x \notin lost /\ ~(x = d /\ k = i) =>
         Place(u, x, k) /\ u[x][k] = t[x][k]
    /\ d \notin lost => Place(u, d, i) /\ u[d][i] = e
    /\ Len(t[0]) <= RootSlots => Len(u[0]) <= RootSlots

LEMMA ChangedIs ==
    ASSUME NEW D, NEW t, NEW u, NEW d, NEW i, NEW e, NEW new, NEW lost,
           CanChange(t, u, D, d, i, e, new, lost)
    PROVE  IsChanged(t, u, D, d, i, e, new, lost)
<1>0. Slotted(t, D) /\ new \subseteq D /\ Changed(t, u, d, i, e, new, lost)
  BY DEF CanChange
<1> DEFINE s == Put(t[d], i, e)
<1>1. t[d] \in Seq(SlotSet) /\ d \in DOMAIN t /\ i \in 1 .. Len(t[d]) + 1 /\ e \in SlotSet
  BY <1>0 DEF Slotted, Changed
<1>2. /\ s \in Seq(SlotSet) /\ i \in DOMAIN s /\ s[i] = e /\ DOMAIN s = DOMAIN t[d] \cup {i}
      /\ \A k \in DOMAIN t[d] : k # i => s[k] = t[d][k]
  <2>1. CanPut(t[d], i, e)
    BY <1>1 DEF CanPut
  <2>2. IsPut(s, t[d], i, e)
    BY <2>1, PutIs
  <2> QED
    BY <2>2 DEF IsPut
<1>3. DOMAIN u = (DOMAIN t \ lost) \cup new
  BY <1>0 DEF Changed
<1>4. \A x \in DOMAIN u : u[x] = IF x = d THEN s ELSE IF x \in DOMAIN t THEN t[x] ELSE << >>
  BY <1>0 DEF Changed
<1>5. new \cap DOMAIN t = {} /\ 0 \notin lost /\ 0 \in DOMAIN t
  BY <1>0 DEF Changed, Slotted
<1> HIDE DEF s
<1>6. Slotted(u, D)
  <2>1. << >> \in Seq(SlotSet)
    OBVIOUS
  <2>2. \A x \in DOMAIN t : t[x] \in Seq(SlotSet)
    BY <1>0 DEF Slotted
  <2>3. u \in [DOMAIN u -> Seq(SlotSet)]
    <3>1. \A x \in DOMAIN u : u[x] \in Seq(SlotSet)
      BY <1>2, <1>4, <2>1, <2>2
    <3>2. u = [x \in DOMAIN u |-> u[x]]
      BY <1>0 DEF Changed
    <3> QED
      BY <3>1, <3>2
  <2> QED
    BY <1>0, <1>3, <1>5, <2>3 DEF Slotted
<1>7. ASSUME NEW x, NEW k, Place(u, x, k)
      PROVE  \/ x = d /\ k = i /\ u[x][k] = e
             \/ Place(t, x, k) /\ ~(x = d /\ k = i) /\ x \notin lost /\ u[x][k] = t[x][k]
  <2>1. x \in DOMAIN u /\ k \in DOMAIN u[x]
    BY <1>7 DEF Place
  <2>2. CASE x = d
    <3>1. u[x] = s /\ k \in DOMAIN s /\ x \in DOMAIN t
      BY <1>1, <1>4, <2>1, <2>2
    <3>2. x \notin lost
      BY <1>3, <1>5, <2>1, <3>1
    <3> QED
      BY <1>2, <2>2, <3>1, <3>2 DEF Place
  <2>3. CASE x # d /\ x \in DOMAIN t
    <3>1. u[x] = t[x] /\ x \notin lost
      BY <1>3, <1>4, <1>5, <2>1, <2>3
    <3> QED
      BY <2>1, <2>3, <3>1 DEF Place
  <2>4. CASE x # d /\ x \notin DOMAIN t
    <3>1. u[x] = << >>
      BY <1>4, <2>1, <2>4
    <3> QED
      BY <2>1, <3>1
  <2> QED
    BY <2>2, <2>3, <2>4
<1>8. ASSUME NEW x, NEW k, Place(t, x, k), x \notin lost, ~(x = d /\ k = i)
      PROVE  Place(u, x, k) /\ u[x][k] = t[x][k]
  <2>1. x \in DOMAIN t /\ k \in DOMAIN t[x] /\ x \in DOMAIN u
    BY <1>3, <1>8 DEF Place
  <2>2. CASE x = d
    BY <1>2, <1>4, <1>8, <2>1, <2>2 DEF Place
  <2>3. CASE x # d
    BY <1>4, <2>1, <2>3 DEF Place
  <2> QED
    BY <2>2, <2>3
<1>9. d \notin lost => Place(u, d, i) /\ u[d][i] = e
  BY <1>1, <1>2, <1>3, <1>4 DEF Place
<1>10. Len(t[0]) <= RootSlots => Len(u[0]) <= RootSlots
  <2>1. 0 \in DOMAIN u
    BY <1>3, <1>5
  <2>2. CASE d = 0
    BY <1>0, <1>4, <2>1, <2>2 DEF Changed, s
  <2>3. CASE d # 0
    BY <1>4, <1>5, <2>1, <2>3
  <2> QED
    BY <2>2, <2>3
<1> HIDE DEF Changed
<1> QED
  BY <1>3, <1>6, <1>7, <1>8, <1>9, <1>10 DEF IsChanged
\* The slot that changed has a name that no other slot of its directory has.
NewName(t, d, i, e) == e.name # Gone => \A k : Place(t, d, k) /\ t[d][k].name = e.name => k = i

LEMMA ChangeApart ==
    ASSUME NEW D, NEW t, VolumeOK(t, D), NEW u, NEW d, NEW i, NEW e, NEW new, NEW lost,
           new \subseteq D, Changed(t, u, d, i, e, new, lost), NewName(t, d, i, e)
    PROVE  Slotted(u, D) /\ Apart(u) /\ Len(u[0]) <= RootSlots
<1>1. /\ Slotted(u, D) /\ Len(u[0]) <= RootSlots
      /\ \A x, k : Place(u, x, k) =>
           \/ x = d /\ k = i /\ u[x][k] = e
           \/ Place(t, x, k) /\ ~(x = d /\ k = i) /\ x \notin lost /\ u[x][k] = t[x][k]
  <2>1. CanChange(t, u, D, d, i, e, new, lost)
    BY DEF CanChange, VolumeOK
  <2>2. IsChanged(t, u, D, d, i, e, new, lost)
    BY <2>1, ChangedIs
  <2> QED
    BY <2>2 DEF IsChanged, VolumeOK
<1>2. ASSUME NEW x, NEW k, NEW j, Place(u, x, k), Place(u, x, j),
             u[x][k].name = u[x][j].name, u[x][k].name # Gone
      PROVE  k = j
  <2>1. CASE Place(t, x, k) /\ u[x][k] = t[x][k] /\ Place(t, x, j) /\ u[x][j] = t[x][j]
    BY <1>2, <2>1 DEF VolumeOK, Apart
  <2>2. CASE x = d /\ k = i /\ u[x][k] = e
    BY <1>1, <1>2, <2>2 DEF NewName
  <2>3. CASE x = d /\ j = i /\ u[x][j] = e
    BY <1>1, <1>2, <2>3 DEF NewName
  <2> QED
    BY <1>1, <1>2, <2>1, <2>2, <2>3
<1> QED
  BY <1>1, <1>2 DEF Apart

\* A file or a directory is made in a slot that led nowhere.
IsMade(t, u, D, d, i, e, new) ==
    /\ Changed(t, u, d, i, e, new, {}) /\ NewName(t, d, i, e) /\ ~IsDir(t, d, i)
    /\ \/ e.kind # "dir" /\ new = {}
       \/ e.kind = "dir" /\ e.first \in D \ {0} /\ new = {e.first}

LEMMA MakeKeeps ==
    ASSUME NEW D, NEW t, VolumeOK(t, D), NEW u, NEW d, NEW i, NEW e, NEW new,
           IsMade(t, u, D, d, i, e, new)
    PROVE  VolumeOK(u, D)
<1>0. Changed(t, u, d, i, e, new, {}) /\ NewName(t, d, i, e) /\ new \subseteq D
  BY DEF IsMade
<1>1. Slotted(u, D) /\ Apart(u) /\ Len(u[0]) <= RootSlots
  BY <1>0, ChangeApart
<1>2. /\ DOMAIN u = DOMAIN t \cup new
      /\ \A x, k : Place(u, x, k) =>
           \/ x = d /\ k = i /\ u[x][k] = e
           \/ Place(t, x, k) /\ ~(x = d /\ k = i) /\ u[x][k] = t[x][k]
      /\ \A x, k : Place(t, x, k) /\ ~(x = d /\ k = i) => Place(u, x, k) /\ u[x][k] = t[x][k]
      /\ Place(u, d, i) /\ u[d][i] = e
  <2>1. CanChange(t, u, D, d, i, e, new, {})
    BY <1>0 DEF CanChange, VolumeOK
  <2>2. IsChanged(t, u, D, d, i, e, new, {})
    BY <2>1, ChangedIs
  <2> QED
    BY <2>2 DEF IsChanged
<1>3. new \cap DOMAIN t = {} /\ (e.kind = "dir" => e.first \in new /\ e.first # 0 /\ new = {e.first})
      /\ (e.kind # "dir" => new = {}) /\ ~IsDir(t, d, i)
  BY DEF IsMade, Changed
<1>4. \A x, k : IsDir(u, x, k) =>
        \/ x = d /\ k = i /\ u[x][k] = e /\ e.kind = "dir"
        \/ IsDir(t, x, k) /\ u[x][k] = t[x][k]
  BY <1>2 DEF IsDir
<1>5. \A x, k : IsDir(t, x, k) => IsDir(u, x, k) /\ u[x][k] = t[x][k]
  BY <1>2, <1>3 DEF IsDir
<1>6. Inside(t) /\ Reached(t) /\ Once(t)
  BY DEF VolumeOK
<1>7. Inside(u)
  BY <1>2, <1>3, <1>4, <1>6 DEF Inside
<1>8. Reached(u)
  <2> SUFFICES ASSUME NEW b \in DOMAIN u \ {0}
               PROVE  \E x, k : IsDir(u, x, k) /\ u[x][k].first = b
    BY DEF Reached
  <2>1. CASE b \in DOMAIN t
    BY <1>5, <1>6, <2>1 DEF Reached
  <2>2. CASE b \in new
    BY <1>2, <1>3, <2>2 DEF IsDir
  <2> QED
    BY <1>2, <2>1, <2>2
<1>9. Once(u)
  <2> SUFFICES ASSUME NEW x, NEW k, NEW y, NEW j, IsDir(u, x, k), IsDir(u, y, j),
                      u[x][k].first = u[y][j].first
               PROVE  x = y /\ k = j
    BY DEF Once
  <2>1. \A z, m : IsDir(t, z, m) => t[z][m].first \notin new
    BY <1>3, <1>6 DEF Inside
  <2> QED
    BY <1>3, <1>4, <1>6, <2>1 DEF Once
<1> QED
  BY <1>1, <1>7, <1>8, <1>9 DEF VolumeOK

\* An entry gets a new name.
IsRenamed(t, u, d, i, e) ==
    /\ Changed(t, u, d, i, e, {}, {}) /\ NewName(t, d, i, e) /\ Place(t, d, i)
    /\ e.kind = t[d][i].kind /\ e.first = t[d][i].first

LEMMA RenameKeeps ==
    ASSUME NEW D, NEW t, VolumeOK(t, D), NEW u, NEW d, NEW i, NEW e, IsRenamed(t, u, d, i, e)
    PROVE  VolumeOK(u, D)
<1>0. Changed(t, u, d, i, e, {}, {}) /\ NewName(t, d, i, e)
  BY DEF IsRenamed
<1>1. Slotted(u, D) /\ Apart(u) /\ Len(u[0]) <= RootSlots
  BY <1>0, ChangeApart
<1>2. /\ DOMAIN u = DOMAIN t
      /\ \A x, k : Place(u, x, k) =>
           \/ x = d /\ k = i /\ u[x][k] = e
           \/ Place(t, x, k) /\ ~(x = d /\ k = i) /\ u[x][k] = t[x][k]
      /\ \A x, k : Place(t, x, k) /\ ~(x = d /\ k = i) => Place(u, x, k) /\ u[x][k] = t[x][k]
      /\ Place(u, d, i) /\ u[d][i] = e
  <2>1. CanChange(t, u, D, d, i, e, {}, {})
    BY <1>0 DEF CanChange, VolumeOK
  <2>2. IsChanged(t, u, D, d, i, e, {}, {})
    BY <2>1, ChangedIs
  <2> QED
    BY <2>2 DEF IsChanged
<1>3. \A x, k : IsDir(u, x, k) => IsDir(t, x, k) /\ u[x][k].first = t[x][k].first
  BY <1>2 DEF IsDir, IsRenamed
<1>4. \A x, k : IsDir(t, x, k) => IsDir(u, x, k) /\ u[x][k].first = t[x][k].first
  BY <1>2 DEF IsDir, IsRenamed
<1>5. Inside(t) /\ Reached(t) /\ Once(t)
  BY DEF VolumeOK
<1>6. Inside(u) /\ Once(u)
  BY <1>2, <1>3, <1>5 DEF Inside, Once
<1>7. Reached(u)
  BY <1>2, <1>4, <1>5 DEF Reached
<1> QED
  BY <1>1, <1>6, <1>7 DEF VolumeOK

\* The directories at and below b.
IsSubtree(t, b, S) ==
    /\ b \in S /\ S \subseteq DOMAIN t \ {0}
    /\ \A x, k : IsDir(t, x, k) /\ x \in S => t[x][k].first \in S
    /\ \A c \in S : c = b \/ \E x, k : IsDir(t, x, k) /\ x \in S /\ t[x][k].first = c

\* A slot is deleted, with the directories below it.
IsUnlinked(t, u, d, i, lost) ==
    /\ Changed(t, u, d, i, Hole, {}, lost) /\ Place(t, d, i)
    /\ IF IsDir(t, d, i) THEN IsSubtree(t, t[d][i].first, lost) ELSE lost = {}

LEMMA UnlinkKeeps ==
    ASSUME NEW D, NEW t, VolumeOK(t, D), NEW u, NEW d, NEW i, NEW lost,
           IsUnlinked(t, u, d, i, lost)
    PROVE  VolumeOK(u, D)
<1>0. Changed(t, u, d, i, Hole, {}, lost) /\ NewName(t, d, i, Hole)
  BY DEF IsUnlinked, NewName, Hole
<1>1. Slotted(u, D) /\ Apart(u) /\ Len(u[0]) <= RootSlots
  BY <1>0, ChangeApart
<1>2. /\ DOMAIN u = DOMAIN t \ lost
      /\ \A x, k : Place(u, x, k) =>
           \/ x = d /\ k = i /\ u[x][k] = Hole
           \/ Place(t, x, k) /\ ~(x = d /\ k = i) /\ x \notin lost /\ u[x][k] = t[x][k]
      /\ \A x, k : Place(t, x, k) /\ x \notin lost /\ ~(x = d /\ k = i) =>
           Place(u, x, k) /\ u[x][k] = t[x][k]
  <2>1. CanChange(t, u, D, d, i, Hole, {}, lost)
    BY <1>0 DEF CanChange, VolumeOK
  <2>2. IsChanged(t, u, D, d, i, Hole, {}, lost)
    BY <2>1, ChangedIs
  <2> QED
    BY <2>2 DEF IsChanged
<1>3. \A x, k : IsDir(u, x, k) =>
        IsDir(t, x, k) /\ x \notin lost /\ ~(x = d /\ k = i) /\ u[x][k] = t[x][k]
  BY <1>2 DEF IsDir, Hole
<1>4. \A x, k : IsDir(t, x, k) /\ x \notin lost /\ ~(x = d /\ k = i) =>
        IsDir(u, x, k) /\ u[x][k] = t[x][k]
  BY <1>2 DEF IsDir
<1>5. Inside(t) /\ Reached(t) /\ Once(t)
  BY DEF VolumeOK
<1>6. /\ \A x, k : IsDir(t, x, k) /\ x \in lost => t[x][k].first \in lost
      /\ \A c \in lost : \E x, k : /\ IsDir(t, x, k) /\ t[x][k].first = c
                                   /\ x \in lost \/ (x = d /\ k = i)
      /\ IsDir(t, d, i) => t[d][i].first \in lost
  BY DEF IsUnlinked, IsSubtree
<1>7. Inside(u)
  <2> SUFFICES ASSUME NEW x, NEW k, IsDir(u, x, k)
               PROVE  u[x][k].first \in DOMAIN u \ {0}
    BY DEF Inside
  <2>1. IsDir(t, x, k) /\ x \notin lost /\ ~(x = d /\ k = i) /\ u[x][k] = t[x][k]
    BY <1>3
  <2>2. t[x][k].first \in DOMAIN t \ {0}
    BY <1>5, <2>1 DEF Inside
  <2>3. t[x][k].first \notin lost
    BY <1>5, <1>6, <2>1 DEF Once
  <2> QED
    BY <1>2, <2>1, <2>2, <2>3
<1>8. Once(u)
  BY <1>3, <1>5 DEF Once
<1>9. Reached(u)
  <2> SUFFICES ASSUME NEW b \in DOMAIN u \ {0}
               PROVE  \E x, k : IsDir(u, x, k) /\ u[x][k].first = b
    BY DEF Reached
  <2>1. b \in DOMAIN t \ {0} /\ b \notin lost
    BY <1>2
  <2>2. PICK x, k : IsDir(t, x, k) /\ t[x][k].first = b
    BY <1>5, <2>1 DEF Reached
  <2>3. x \notin lost /\ ~(x = d /\ k = i)
    BY <1>6, <2>1, <2>2
  <2> QED
    BY <1>4, <2>2, <2>3
<1> QED
  BY <1>1, <1>7, <1>8, <1>9 DEF VolumeOK
----------------------------------------------------------------------------
(* Subtree finds the directories below one *)

WithChildren(t, S) ==
    S \cup {e.first : e \in {x \in UNION {ToSet(t[y]) : y \in S} : x.kind = "dir"}}

SubtreeIn(t, n, b) ==
    LET sub[k \in 0 .. n] == IF k = 0 THEN {b} ELSE WithChildren(t, sub[k - 1])
    IN  sub[n]

LEMMA SubtreeInIs == \A v, b : Subtree(v, b) = SubtreeIn(vol[v], Cardinality(Dirs[v]), b)
  BY DEF Subtree, SubtreeIn, WithChildren, Slots

LEMMA WithChildrenIs ==
    ASSUME NEW t, NEW S \in SUBSET DOMAIN t, NEW c
    PROVE  c \in WithChildren(t, S) <=> c \in S \/ \E x, k : IsDir(t, x, k) /\ x \in S /\ t[x][k].first = c
<1> DEFINE U == UNION {ToSet(t[y]) : y \in S}
<1>1. c \in WithChildren(t, S) <=> c \in S \/ \E e \in U : e.kind = "dir" /\ e.first = c
  BY DEF WithChildren
<1>2. \A e : e \in U <=> \E x \in S : \E k \in DOMAIN t[x] : t[x][k] = e
  BY DEF ToSet
<1> HIDE DEF U
<1>3. (\E e \in U : e.kind = "dir" /\ e.first = c)
         <=> \E x \in S : \E k \in DOMAIN t[x] : t[x][k].kind = "dir" /\ t[x][k].first = c
  BY <1>2
<1> QED
  BY <1>1, <1>3 DEF IsDir, Place

\* Directories found when going down from b.
Grounded(t, b, S) ==
    /\ b \in S /\ S \subseteq DOMAIN t \ {0}
    /\ \A c \in S : c = b \/ \E x, k : IsDir(t, x, k) /\ x \in S /\ t[x][k].first = c
Closed(t, S) == \A x, k : IsDir(t, x, k) /\ x \in S => t[x][k].first \in S

LEMMA ChildrenGrounded ==
    ASSUME NEW t, NEW b, NEW S, Inside(t), Grounded(t, b, S)
    PROVE  /\ Grounded(t, b, WithChildren(t, S)) /\ S \subseteq WithChildren(t, S)
           /\ Closed(t, S) <=> WithChildren(t, S) = S
<1>1. S \in SUBSET DOMAIN t
  BY DEF Grounded
<1> DEFINE W == WithChildren(t, S)
<1>2. \A c : c \in W <=> c \in S \/ \E x, k : IsDir(t, x, k) /\ x \in S /\ t[x][k].first = c
  BY <1>1, WithChildrenIs
<1> HIDE DEF W
<1>3. S \subseteq W
  BY <1>2
<1>4. Grounded(t, b, W)
  <2>1. W \subseteq DOMAIN t \ {0}
    BY <1>2 DEF Inside, Grounded
  <2>2. \A c \in W : c = b \/ \E x, k : IsDir(t, x, k) /\ x \in W /\ t[x][k].first = c
    BY <1>2, <1>3 DEF Grounded
  <2> QED
    BY <1>3, <2>1, <2>2 DEF Grounded
<1>5. Closed(t, S) <=> W = S
  BY <1>2, <1>3 DEF Closed
<1> QED
  BY <1>3, <1>4, <1>5 DEF W

LEMMA SubtreeIs ==
    ASSUME NEW D, NEW t, VolumeOK(t, D), IsFiniteSet(D), NEW b \in DOMAIN t \ {0}
    PROVE  IsSubtree(t, b, SubtreeIn(t, Cardinality(D), b))
<1> DEFINE n == Cardinality(D)
           G == {S \in SUBSET (DOMAIN t \ {0}) : Grounded(t, b, S)}
           F == [k \in 1 .. n |-> [S \in G |-> WithChildren(t, S)]]
           Body(f) == [k \in 0 .. n |-> IF k = 0 THEN {b} ELSE WithChildren(t, f[k - 1])]
<1>0. n \in Nat /\ Inside(t) /\ DOMAIN t \ {0} \subseteq D
  BY FS_CardinalityType DEF VolumeOK, Slotted
<1>1. {b} \in G
  BY DEF Grounded
<1>2. \A S \in G : WithChildren(t, S) \in G
  <2> SUFFICES ASSUME NEW S, Grounded(t, b, S) PROVE WithChildren(t, S) \in G
    OBVIOUS
  <2>1. Grounded(t, b, WithChildren(t, S))
    BY <1>0, ChildrenGrounded
  <2> QED
    BY <2>1 DEF Grounded
<1>3. PICK f : Steps(f, n, G, {b}, F)
  <2>1. F \in [1 .. n -> [G -> G]]
    <3> HIDE DEF G, n
    <3> QED
      BY <1>2
  <2> HIDE DEF G, F, n
  <2> QED
    BY <1>0, <1>1, <2>1, StepsExist
<1>4. f \in [0 .. n -> G] /\ f[0] = {b} /\ \A k \in 1 .. n : f[k] = WithChildren(t, f[k - 1])
  <2>1. f \in [0 .. n -> G] /\ f[0] = {b} /\ \A k \in 1 .. n : f[k] = F[k][f[k - 1]]
    BY <1>3 DEF Steps
  <2>2. \A k \in 1 .. n : k - 1 \in 0 .. n
    BY <1>0
  <2> HIDE DEF G, n
  <2> QED
    BY <2>1, <2>2
<1>5. f = Body(f)
  <2>1. \A k \in 0 .. n : k = 0 \/ k \in 1 .. n
    BY <1>0
  <2> HIDE DEF G, n
  <2>2. \A k \in 0 .. n : f[k] = Body(f)[k]
    BY <1>4, <2>1
  <2> QED
    BY <1>4, <2>2
<1> DEFINE r == CHOOSE g : g = Body(g)
<1>6. r = Body(r)
  BY <1>5
<1>7. SubtreeIn(t, n, b) = r[n]
  BY DEF SubtreeIn
<1> HIDE DEF r
<1>8. r[0] = {b} /\ \A k \in 1 .. n : r[k] = WithChildren(t, r[k - 1])
  <2>1. \A k \in 0 .. n : r[k] = Body(r)[k]
    BY <1>6
  <2>2. 0 \in 0 .. n /\ \A k \in 1 .. n : k \in 0 .. n /\ k # 0
    BY <1>0
  <2> HIDE DEF n
  <2> QED
    BY <2>1, <2>2
\* All of them are grounded, and grow until they are closed.
<1> DEFINE Good(S, k) == S \in G /\ (Closed(t, S) \/ Cardinality(S) >= k + 1)
<1>9. ASSUME NEW S, NEW k \in 1 .. n, Good(S, k - 1)
      PROVE  Good(WithChildren(t, S), k)
  <2>1. WithChildren(t, S) \in G /\ S \subseteq WithChildren(t, S) /\ S \in G
    BY <1>0, <1>2, <1>9, ChildrenGrounded
  <2>2. CASE Closed(t, S)
    <3>1. WithChildren(t, S) = S
      BY <1>0, <2>1, <2>2, ChildrenGrounded
    <3> QED
      BY <1>9, <2>2, <3>1
  <2>3. CASE ~Closed(t, S)
    <3> DEFINE W == WithChildren(t, S)
    <3>1. W # S
      BY <1>0, <2>1, <2>3, ChildrenGrounded
    <3>2. IsFiniteSet(W)
      BY <1>0, <2>1, FS_Subset
    <3> HIDE DEF W
    <3>3. S \in SUBSET W
      BY <2>1 DEF W
    <3>4. /\ Cardinality(S) \in Nat /\ Cardinality(W) \in Nat /\ Cardinality(S) <= Cardinality(W)
          /\ Cardinality(S) # Cardinality(W)
      BY <3>1, <3>2, <3>3, FS_Subset, FS_CardinalityType
    <3>5. Cardinality(S) >= (k - 1) + 1
      BY <1>9, <2>3
    <3>6. Cardinality(W) >= k + 1
      BY <3>4, <3>5, <1>0
    <3> HIDE DEF G
    <3> QED
      BY <2>1, <3>6 DEF W
  <2> QED
    BY <2>2, <2>3
<1>10. \A k \in 0 .. n : Good(r[k], k)
  <2> DEFINE T == {k \in 0 .. n : ~Good(r[k], k)}
  <2> SUFFICES ASSUME T # {} PROVE FALSE
    OBVIOUS
  <2> HIDE DEF Good
  <2>1. PICK k \in T : \A i \in T : k <= i
    <3>1. T \in SUBSET Nat
      OBVIOUS
    <3> HIDE DEF T
    <3> QED
      BY <3>1, Smallest
  <2>2. Good(r[0], 0)
    <3>1. Cardinality({b}) = 1
      BY FS_Singleton
    <3> QED
      BY <1>1, <1>8, <3>1 DEF Good
  <2>3. k \in 0 .. n /\ ~Good(r[k], k) /\ k # 0
    BY <2>1, <2>2
  <2>4. k - 1 \in 0 .. n /\ ~(k <= k - 1) /\ k \in 1 .. n
    BY <1>0, <2>3
  <2>5. Good(r[k - 1], k - 1)
    BY <2>1, <2>4
  <2> QED
    BY <1>8, <1>9, <2>3, <2>4, <2>5
<1>11. Good(r[n], n)
  <2>1. n \in 0 .. n
    BY <1>0
  <2> HIDE DEF Good, n
  <2> QED
    BY <1>10, <2>1
<1>12. Cardinality(r[n]) <= n
  <2>1. r[n] \in SUBSET D
    BY <1>0, <1>11
  <2> QED
    BY <2>1, FS_Subset
<1>13. Closed(t, r[n]) /\ Grounded(t, b, r[n])
  <2>1. Cardinality(r[n]) \in Nat
    <3>1. r[n] \in SUBSET D
      BY <1>0, <1>11
    <3>2. IsFiniteSet(r[n])
      BY <3>1, FS_Subset
    <3> QED
      BY <3>2, FS_CardinalityType
  <2>2. ~(Cardinality(r[n]) >= n + 1)
    <3> HIDE DEF n
    <3> QED
      BY <1>0, <1>12, <2>1
  <2> QED
    BY <1>11, <2>2
<1> QED
  BY <1>7, <1>13 DEF Closed, Grounded, IsSubtree
----------------------------------------------------------------------------
(* Walk goes from directory to directory *)

StepIn(t, w, s) ==
    IF w.status # "ok" THEN w
    ELSE LET found == {t[w.dir][i] : i \in Of(t[w.dir], Upper[s])}
         IN  IF found = {} THEN [w EXCEPT !.status = "not found", !.read = {w.dir}]
             ELSE IF \E e \in found : e.kind = "file"
             THEN [w EXCEPT !.status = "denied", !.read = {w.dir}]
             ELSE [status |-> "ok", dir |-> (CHOOSE e \in found : TRUE).first, read |-> {w.dir}]

WalkIn(t, q) ==
    LET to[k \in 0 .. Len(q)] ==
          IF k = 0 THEN [status |-> "ok", dir |-> 0, read |-> {}] ELSE StepIn(t, to[k - 1], q[k])
    IN  to[Len(q)]

LEMMA WalkInIs == \A v, q : Walk(v, q) = WalkIn(vol[v], q)
  BY DEF Walk, WalkIn, StepFrom, StepIn, Slots

WalkSet(t) == [status : {"ok", "not found", "denied"}, dir : DOMAIN t, read : SUBSET DOMAIN t]

\* Directory x has the entry n, which leads to the directory y.
Leads(t, x, n, y) == \E i : IsDir(t, x, i) /\ t[x][i].name = n /\ t[x][i].first = y

\* The walk goes where the entry leads.
Follows(t, w, s) ==
    \A y : w.status = "ok" /\ Leads(t, w.dir, Upper[s], y) =>
          StepIn(t, w, s).status = "ok" /\ StepIn(t, w, s).dir = y

\* The walk stops in the directory x.
Stopped(w, status, x) == [w EXCEPT !.status = status, !.read = {x}]

LEMMA StoppedIs ==
    ASSUME NEW t, NEW w \in WalkSet(t), NEW status \in {"not found", "denied"}, NEW x \in DOMAIN t
    PROVE  Stopped(w, status, x) \in WalkSet(t) /\ Stopped(w, status, x).status = status
<1> DEFINE A == DOMAIN t
           B == SUBSET A
           r == {x}
<1>1. r \in B
  OBVIOUS
<1>2. w \in [status : {"ok", "not found", "denied"}, dir : A, read : B]
  BY DEF WalkSet
<1> HIDE DEF A, B, r
<1>3. /\ [w EXCEPT !.status = status, !.read = r]
            \in [status : {"ok", "not found", "denied"}, dir : A, read : B]
      /\ [w EXCEPT !.status = status, !.read = r].status = status
  BY <1>1, <1>2
<1> QED
  BY <1>3 DEF WalkSet, A, B, r, Stopped

LEMMA StepIs ==
    ASSUME NEW D, NEW t, VolumeOK(t, D), NEW w \in WalkSet(t), NEW s \in Spellings
    PROVE  /\ StepIn(t, w, s) \in WalkSet(t)
           /\ StepIn(t, w, s).status = "ok" =>
                w.status = "ok" /\ Leads(t, w.dir, Upper[s], StepIn(t, w, s).dir)
           /\ Follows(t, w, s)
<1> DEFINE x == w.dir
           n == Upper[s]
           found == {t[x][i] : i \in Of(t[x], n)}
<1>1. x \in DOMAIN t /\ w.status \in {"ok", "not found", "denied"} /\ w.read \in SUBSET DOMAIN t
  BY DEF WalkSet
<1>2. n \in Names /\ n # Gone
  BY SpellingsAssumption, SizesAssumption
<1>3. Apart(t) /\ Inside(t) /\ t[x] \in Seq(SlotSet)
  BY <1>1 DEF VolumeOK, Slotted
<1> HIDE DEF x, n
<1>4. \A i \in Of(t[x], n) : Place(t, x, i) /\ t[x][i].name = n /\ t[x][i] \in SlotSet
  <2>1. \A i \in DOMAIN t[x] : t[x][i] \in SlotSet
    BY <1>3
  <2> QED
    BY <1>1, <2>1 DEF Of, Place
<1>5. \A i, j \in Of(t[x], n) : i = j
  BY <1>2, <1>4, <1>3 DEF Apart
<1>6. \A y : Leads(t, x, n, y) <=> \E i \in Of(t[x], n) : t[x][i].kind = "dir" /\ t[x][i].first = y
  BY <1>1 DEF Leads, IsDir, Place, Of
<1>7. CASE w.status # "ok"
  <2>1. StepIn(t, w, s) = w
    BY <1>7 DEF StepIn
  <2> QED
    BY <1>7, <2>1 DEF Follows
<1>8. CASE w.status = "ok" /\ found = {}
  <2>1. StepIn(t, w, s) = Stopped(w, "not found", x)
    BY <1>8 DEF StepIn, Stopped, x, n
  <2>2. StepIn(t, w, s) \in WalkSet(t) /\ StepIn(t, w, s).status = "not found"
    BY <1>1, <2>1, StoppedIs
  <2>3. Of(t[x], n) = {}
    BY <1>8
  <2> QED
    BY <1>6, <2>2, <2>3 DEF x, n, Follows
<1>9. CASE w.status = "ok" /\ found # {}
  <2>1. PICK i \in Of(t[x], n) : TRUE
    BY <1>9
  <2>2. found = {t[x][i]}
    BY <1>5, <2>1
  <2>3. Place(t, x, i) /\ t[x][i].name = n /\ t[x][i] \in SlotSet
    BY <1>4, <2>1
  <2>4. t[x][i].kind = "file" \/ t[x][i].kind = "dir"
    BY <1>2, <2>3, SlotIs
  <2>5. CASE t[x][i].kind = "file"
    <3>1. StepIn(t, w, s) = Stopped(w, "denied", x)
      <4>1. found # {} /\ \E e \in found : e.kind = "file"
        BY <2>2, <2>5
      <4> QED
        BY <1>9, <4>1 DEF StepIn, Stopped, x, n
    <3>2. StepIn(t, w, s) \in WalkSet(t) /\ StepIn(t, w, s).status = "denied"
      BY <1>1, <3>1, StoppedIs
    <3>3. \A y : ~Leads(t, x, n, y)
      BY <1>5, <1>6, <2>1, <2>5
    <3> QED
      BY <3>2, <3>3 DEF x, n, Follows
  <2>6. CASE t[x][i].kind = "dir"
    <3>1. StepIn(t, w, s) = [status |-> "ok", dir |-> t[x][i].first, read |-> {x}]
      <4>1. found # {} /\ ~(\E e \in found : e.kind = "file") /\ (CHOOSE e \in found : TRUE) = t[x][i]
        BY <2>2, <2>6
      <4> QED
        BY <1>9, <4>1 DEF StepIn, x, n
    <3>2. t[x][i].first \in DOMAIN t
      BY <1>3, <2>3, <2>6 DEF Inside, IsDir
    <3>3. StepIn(t, w, s) \in WalkSet(t) /\ StepIn(t, w, s).status = "ok"
          /\ StepIn(t, w, s).dir = t[x][i].first
      <4>1. {x} \in SUBSET DOMAIN t
        BY <1>1
      <4> DEFINE y == t[x][i].first
      <4>2. y \in DOMAIN t /\ StepIn(t, w, s) = [status |-> "ok", dir |-> y, read |-> {x}]
        BY <3>1, <3>2
      <4> HIDE DEF y
      <4>3. [status |-> "ok", dir |-> y, read |-> {x}] \in WalkSet(t)
        BY <4>1, <4>2 DEF WalkSet
      <4> QED
        BY <4>2, <4>3 DEF y
    <3>4. \A y : Leads(t, x, n, y) <=> y = t[x][i].first
      BY <1>5, <1>6, <2>1, <2>6
    <3> QED
      BY <1>9, <3>3, <3>4 DEF x, n, Follows
  <2> QED
    BY <2>4, <2>5, <2>6
<1> QED
  BY <1>1, <1>7, <1>8, <1>9
\* r[k] is where the walk is after k components.
IsWalk(t, q, r) ==
    /\ r \in [0 .. Len(q) -> WalkSet(t)]
    /\ r[0] = [status |-> "ok", dir |-> 0, read |-> {}]
    /\ \A k \in 1 .. Len(q) : r[k] = StepIn(t, r[k - 1], q[k])
    /\ WalkIn(t, q) = r[Len(q)]

LEMMA WalkSteps ==
    ASSUME NEW D, NEW t, VolumeOK(t, D), NEW q \in Seq(Spellings)
    PROVE  \E r : IsWalk(t, q, r)
<1> DEFINE n == Len(q)
           W == WalkSet(t)
           start == [status |-> "ok", dir |-> 0, read |-> {}]
           F == [k \in 1 .. n |-> [w \in W |-> StepIn(t, w, q[k])]]
           Body(f) == [k \in 0 .. n |-> IF k = 0 THEN start ELSE StepIn(t, f[k - 1], q[k])]
<1>0. n \in Nat /\ \A k \in 1 .. n : q[k] \in Spellings
  OBVIOUS
<1>1. start \in W
  <2>1. 0 \in DOMAIN t
    BY DEF VolumeOK, Slotted
  <2> QED
    BY <2>1 DEF WalkSet
<1>2. \A w \in W, k \in 1 .. n : StepIn(t, w, q[k]) \in W
  BY <1>0, StepIs
<1> HIDE DEF W, start, n
<1>3. PICK f : Steps(f, n, W, start, F)
  <2>1. F \in [1 .. n -> [W -> W]]
    BY <1>2
  <2> HIDE DEF F
  <2> QED
    BY <1>0, <1>1, <2>1, StepsExist
<1>4. f \in [0 .. n -> W] /\ f[0] = start /\ \A k \in 1 .. n : f[k] = StepIn(t, f[k - 1], q[k])
  <2>1. f \in [0 .. n -> W] /\ f[0] = start /\ \A k \in 1 .. n : f[k] = F[k][f[k - 1]]
    BY <1>3 DEF Steps
  <2>2. \A k \in 1 .. n : k - 1 \in 0 .. n
    BY <1>0
  <2> QED
    BY <2>1, <2>2
<1>5. f = Body(f)
  <2>1. \A k \in 0 .. n : k = 0 \/ k \in 1 .. n
    BY <1>0
  <2>2. \A k \in 0 .. n : f[k] = Body(f)[k]
    BY <1>4, <2>1
  <2> QED
    BY <1>4, <2>2
<1> DEFINE r == CHOOSE g : g = Body(g)
<1>6. r = Body(r)
  BY <1>5
<1>7. WalkIn(t, q) = r[n]
  BY DEF WalkIn, n, start
<1> HIDE DEF r
<1>8. r[0] = start /\ \A k \in 1 .. n : r[k] = StepIn(t, r[k - 1], q[k])
  <2>1. \A k \in 0 .. n : r[k] = Body(r)[k]
    BY <1>6
  <2>2. 0 \in 0 .. n /\ \A k \in 1 .. n : k \in 0 .. n /\ k # 0
    BY <1>0
  <2> QED
    BY <2>1, <2>2
<1>9. \A k \in 0 .. n : r[k] \in W
  <2> DEFINE T == {k \in 0 .. n : r[k] \notin W}
  <2> SUFFICES ASSUME T # {} PROVE FALSE
    OBVIOUS
  <2>1. PICK k \in T : \A i \in T : k <= i
    <3>1. T \in SUBSET Nat
      OBVIOUS
    <3> HIDE DEF T
    <3> QED
      BY <3>1, Smallest
  <2>2. k \in 0 .. n /\ r[k] \notin W /\ k # 0
    BY <1>1, <1>8, <2>1
  <2>3. k - 1 \in 0 .. n /\ ~(k <= k - 1) /\ k \in 1 .. n
    BY <1>0, <2>2
  <2>4. r[k - 1] \in W
    BY <2>1, <2>3
  <2> QED
    BY <1>2, <1>8, <2>2, <2>3, <2>4
<1>10. r \in [0 .. n -> W]
  <2>1. r = [k \in 0 .. n |-> r[k]]
    BY <1>6
  <2> QED
    BY <1>9, <2>1
<1>11. IsWalk(t, q, r)
  BY <1>7, <1>8, <1>10 DEF IsWalk, n, W, start
<1> QED
  BY <1>11

LEMMA WalkIs ==
    ASSUME NEW D, NEW t, VolumeOK(t, D), NEW q \in Seq(Spellings)
    PROVE  WalkIn(t, q) \in WalkSet(t)
<1>1. PICK r : IsWalk(t, q, r)
  BY WalkSteps
<1>2. Len(q) \in 0 .. Len(q)
  OBVIOUS
<1> QED
  BY <1>1, <1>2 DEF IsWalk

\* The path q leads from the root through the directories f.
Trace(t, q, f) ==
    /\ f \in [0 .. Len(q) -> DOMAIN t] /\ f[0] = 0
    /\ \A k \in 1 .. Len(q) : Leads(t, f[k - 1], Upper[q[k]], f[k])

LEMMA WalkHasTrace ==
    ASSUME NEW D, NEW t, VolumeOK(t, D), NEW q \in Seq(Spellings), WalkIn(t, q).status = "ok"
    PROVE  \E f : Trace(t, q, f) /\ f[Len(q)] = WalkIn(t, q).dir
<1> DEFINE n == Len(q)
<1>0. n \in Nat /\ \A k \in 1 .. n : q[k] \in Spellings
  OBVIOUS
<1>1. PICK r : IsWalk(t, q, r)
  BY WalkSteps
<1> HIDE DEF n
<1>2. /\ r \in [0 .. n -> WalkSet(t)] /\ r[0] = [status |-> "ok", dir |-> 0, read |-> {}]
      /\ \A k \in 1 .. n : r[k] = StepIn(t, r[k - 1], q[k])
      /\ WalkIn(t, q) = r[n]
  BY <1>1 DEF IsWalk, n
<1>3. ASSUME NEW k \in 1 .. n, r[k].status = "ok"
      PROVE  r[k - 1].status = "ok" /\ Leads(t, r[k - 1].dir, Upper[q[k]], r[k].dir)
  <2>1. k - 1 \in 0 .. n
    BY <1>0
  <2>2. r[k - 1] \in WalkSet(t) /\ q[k] \in Spellings /\ r[k] = StepIn(t, r[k - 1], q[k])
    BY <1>0, <1>2, <2>1
  <2> QED
    BY <1>3, <2>2, StepIs
<1>4. \A k \in 0 .. n : r[k].status = "ok"
  <2> DEFINE T == {j \in 0 .. n : r[n - j].status # "ok"}
  <2>1. T = {}
    <3> SUFFICES ASSUME T # {} PROVE FALSE
      OBVIOUS
    <3>1. PICK j \in T : \A i \in T : j <= i
      <4>1. T \in SUBSET Nat
        OBVIOUS
      <4> HIDE DEF T
      <4> QED
        BY <4>1, Smallest
    <3>2. j \in 0 .. n /\ r[n - j].status # "ok"
      BY <3>1
    <3>3. j # 0
      <4>1. n - 0 = n
        BY <1>0
      <4> QED
        BY <1>2, <3>2, <4>1 DEF n
    <3>4. j - 1 \in 0 .. n /\ ~(j <= j - 1) /\ n - (j - 1) \in 1 .. n /\ n - (j - 1) - 1 = n - j
      BY <1>0, <3>2, <3>3
    <3>5. r[n - (j - 1)].status = "ok"
      BY <3>1, <3>4
    <3> QED
      BY <1>3, <3>2, <3>4, <3>5
  <2>2. \A k \in 0 .. n : n - k \in 0 .. n /\ n - (n - k) = k
    BY <1>0
  <2> QED
    BY <2>1, <2>2
<1>5. \A k \in 0 .. n : r[k].dir \in DOMAIN t
  BY <1>2 DEF WalkSet
<1>6. Trace(t, q, [k \in 0 .. n |-> r[k].dir])
  <2> DEFINE f == [k \in 0 .. n |-> r[k].dir]
  <2>1. f \in [0 .. n -> DOMAIN t]
    BY <1>5
  <2>2. f[0] = 0
    BY <1>0, <1>2
  <2>3. ASSUME NEW k \in 1 .. n
        PROVE  Leads(t, f[k - 1], Upper[q[k]], f[k])
    <3>1. k \in 0 .. n /\ k - 1 \in 0 .. n
      BY <1>0
    <3>2. f[k] = r[k].dir /\ f[k - 1] = r[k - 1].dir
      BY <3>1
    <3>3. r[k].status = "ok"
      BY <1>4, <3>1
    <3> QED
      BY <1>3, <3>2, <3>3
  <2> HIDE DEF f
  <2>4. Trace(t, q, f)
    BY <2>1, <2>2, <2>3 DEF Trace, n
  <2> QED
    BY <2>4 DEF f
<1>7. [k \in 0 .. n |-> r[k].dir][n] = WalkIn(t, q).dir
  BY <1>0, <1>2
<1> QED
  BY <1>6, <1>7 DEF n

LEMMA TraceIsWalk ==
    ASSUME NEW D, NEW t, VolumeOK(t, D), NEW q \in Seq(Spellings), NEW f, Trace(t, q, f)
    PROVE  WalkIn(t, q).status = "ok" /\ WalkIn(t, q).dir = f[Len(q)]
<1> DEFINE n == Len(q)
<1>0. n \in Nat /\ \A k \in 1 .. n : q[k] \in Spellings
  OBVIOUS
<1>1. PICK r : IsWalk(t, q, r)
  BY WalkSteps
<1> HIDE DEF n
<1>2. /\ r \in [0 .. n -> WalkSet(t)] /\ r[0] = [status |-> "ok", dir |-> 0, read |-> {}]
      /\ \A k \in 1 .. n : r[k] = StepIn(t, r[k - 1], q[k])
      /\ WalkIn(t, q) = r[n]
  BY <1>1 DEF IsWalk, n
<1>3. f[0] = 0 /\ \A k \in 1 .. n : Leads(t, f[k - 1], Upper[q[k]], f[k])
  BY DEF Trace, n
<1>4. ASSUME NEW k \in 1 .. n, r[k - 1].status = "ok", r[k - 1].dir = f[k - 1]
      PROVE  r[k].status = "ok" /\ r[k].dir = f[k]
  <2>1. k - 1 \in 0 .. n
    BY <1>0
  <2>2. r[k - 1] \in WalkSet(t) /\ q[k] \in Spellings /\ r[k] = StepIn(t, r[k - 1], q[k])
    BY <1>0, <1>2, <2>1
  <2> DEFINE w == r[k - 1]
           s == q[k]
           y == f[k]
  <2>3. w \in WalkSet(t) /\ s \in Spellings /\ w.status = "ok" /\ Leads(t, w.dir, Upper[s], y)
    BY <1>3, <1>4, <2>2
  <2> HIDE DEF w, s, y
  <2>4. Follows(t, w, s)
    BY <2>3, StepIs
  <2>5. StepIn(t, w, s).status = "ok" /\ StepIn(t, w, s).dir = y
    BY <2>3, <2>4 DEF Follows
  <2> QED
    BY <2>2, <2>5 DEF w, s, y
<1>5. \A k \in 0 .. n : r[k].status = "ok" /\ r[k].dir = f[k]
  <2> DEFINE T == {k \in 0 .. n : ~(r[k].status = "ok" /\ r[k].dir = f[k])}
  <2> SUFFICES ASSUME T # {} PROVE FALSE
    OBVIOUS
  <2>1. PICK k \in T : \A i \in T : k <= i
    <3>1. T \in SUBSET Nat
      OBVIOUS
    <3> HIDE DEF T
    <3> QED
      BY <3>1, Smallest
  <2>2. k \in 0 .. n /\ ~(r[k].status = "ok" /\ r[k].dir = f[k]) /\ k # 0
    BY <1>2, <1>3, <2>1
  <2>3. k - 1 \in 0 .. n /\ ~(k <= k - 1) /\ k \in 1 .. n
    BY <1>0, <2>2
  <2>4. r[k - 1].status = "ok" /\ r[k - 1].dir = f[k - 1]
    BY <2>1, <2>3
  <2> QED
    BY <1>4, <2>2, <2>3, <2>4
<1>6. n \in 0 .. n
  BY <1>0
<1> QED
  BY <1>2, <1>5, <1>6 DEF n
----------------------------------------------------------------------------
(* The mount table *)

\* Entry 1 is the root volume's, and no two volumes are at the same point.
MountsOK(M) ==
    /\ M \in [1 .. MaxMounts -> [used : BOOLEAN, point : Seq(Spellings), vol : Volumes]]
    /\ M[1].used /\ M[1].point = << >>
    /\ \A i, j \in 1 .. MaxMounts : M[i].used /\ M[j].used /\ M[i].point = M[j].point => i = j

UsedIn(M) == {i \in DOMAIN M : M[i].used}
MountedIn(M, p) ==
    CHOOSE i \in UsedIn(M) : M[i].point = Nearest({M[j].point : j \in UsedIn(M)}, p)

LEMMA MountedInIs == \A p : Mounted(p) = MountedIn(mounts, p)
  BY DEF Mounted, MountedIn, Used, UsedIn

IsNearest(P, p, m) == m \in P /\ IsPrefix(m, p) /\ \A k \in P : IsPrefix(k, p) => Len(k) <= Len(m)

LEMMA PrefixIs ==
    ASSUME NEW m \in Seq(Spellings), NEW p \in Seq(Spellings)
    PROVE  IsPrefix(m, p) <=> Len(m) <= Len(p) /\ m = SubSeq(p, 1, Len(m))
<1>1. SubSeq(m, 1, Len(m)) = m
  OBVIOUS
<1> QED
  BY <1>1 DEF IsPrefix

LEMMA OnlyNearest ==
    ASSUME NEW P \in SUBSET Seq(Spellings), NEW p \in Seq(Spellings), NEW m, NEW k,
           IsNearest(P, p, m), IsNearest(P, p, k)
    PROVE  m = k
<1>1. m \in Seq(Spellings) /\ k \in Seq(Spellings) /\ Len(m) <= Len(k) /\ Len(k) <= Len(m)
  BY DEF IsNearest
<1>2. m = SubSeq(p, 1, Len(m)) /\ k = SubSeq(p, 1, Len(k))
  BY <1>1, PrefixIs DEF IsNearest
<1>3. Len(m) = Len(k)
  BY <1>1
<1> QED
  BY <1>2, <1>3

LEMMA NearestIs ==
    ASSUME NEW P \in SUBSET Seq(Spellings), NEW p \in Seq(Spellings), << >> \in P
    PROVE  IsNearest(P, p, Nearest(P, p))
<1> DEFINE A == Above(P, p)
           T == {Len(p) - Len(m) : m \in A}
<1>1. \A m \in A : m \in P /\ IsPrefix(m, p) /\ Len(m) \in Nat /\ Len(m) <= Len(p)
  BY DEF Above, IsPrefix
<1>2. << >> \in A
  <2>1. IsPrefix(<< >>, p)
    <3>1. << >> \in Seq(Spellings) /\ << >> = SubSeq(p, 1, 0) /\ Len(<< >>) = 0 /\ 0 <= Len(p)
      OBVIOUS
    <3> QED
      BY <3>1, PrefixIs
  <2> QED
    BY <2>1 DEF Above
<1> HIDE DEF A
<1>3. T \in SUBSET Nat /\ T # {}
  BY <1>1, <1>2
<1>4. PICK x \in T : \A y \in T : x <= y
  <2> HIDE DEF T
  <2> QED
    BY <1>3, Smallest
<1>5. PICK m \in A : x = Len(p) - Len(m)
  BY <1>4
<1>6. \A k \in A : Len(k) <= Len(m)
  <2> SUFFICES ASSUME NEW k \in A PROVE Len(k) <= Len(m)
    OBVIOUS
  <2>1. Len(p) - Len(m) <= Len(p) - Len(k)
    BY <1>4, <1>5
  <2>2. Len(p) \in Nat /\ Len(m) \in Nat /\ Len(k) \in Nat
    BY <1>1
  <2> QED
    BY <2>1, <2>2
<1>7. Nearest(P, p) \in A /\ \A k \in A : Len(k) <= Len(Nearest(P, p))
  BY <1>5, <1>6 DEF Nearest, A
<1> QED
  BY <1>1, <1>7 DEF IsNearest, A, Above

\* Entry i is the one the path p is resolved by.
FoundAt(M, p, i) ==
    /\ i \in UsedIn(M) /\ IsPrefix(M[i].point, p)
    /\ \A j \in UsedIn(M) : IsPrefix(M[j].point, p) => Len(M[j].point) <= Len(M[i].point)

LEMMA MountedIs ==
    ASSUME NEW M, MountsOK(M), NEW p \in Seq(Spellings)
    PROVE  /\ FoundAt(M, p, MountedIn(M, p))
           /\ \A i : FoundAt(M, p, i) => MountedIn(M, p) = i
<1> DEFINE P == {M[j].point : j \in UsedIn(M)}
           N == Nearest(P, p)
<1>1. P \in SUBSET Seq(Spellings) /\ << >> \in P
  <2>1. 1 \in UsedIn(M)
    BY SizesAssumption DEF MountsOK, UsedIn
  <2> QED
    BY <2>1 DEF MountsOK, UsedIn
<1>2. \A i : i \in UsedIn(M) => M[i].point \in P
  OBVIOUS
<1>3. \A m \in P : \E i \in UsedIn(M) : M[i].point = m
  OBVIOUS
<1>4. MountedIn(M, p) = CHOOSE i \in UsedIn(M) : M[i].point = N
  BY DEF MountedIn
<1>5. IsNearest(P, p, N)
  <2> HIDE DEF P
  <2> QED
    BY <1>1, NearestIs
<1>6. \A i, j \in UsedIn(M) : M[i].point = M[j].point => i = j
  BY DEF MountsOK, UsedIn
<1> HIDE DEF P, N
<1>7. MountedIn(M, p) \in UsedIn(M) /\ M[MountedIn(M, p)].point = N
  BY <1>3, <1>4, <1>5 DEF IsNearest
<1>8. FoundAt(M, p, MountedIn(M, p))
  BY <1>2, <1>5, <1>7 DEF IsNearest, FoundAt
<1>9. ASSUME NEW i, FoundAt(M, p, i)
      PROVE  MountedIn(M, p) = i
  <2>1. IsNearest(P, p, M[i].point)
    BY <1>2, <1>3, <1>9 DEF IsNearest, FoundAt
  <2>2. M[i].point = N
    BY <1>1, <1>5, <2>1, OnlyNearest
  <2> QED
    BY <1>6, <1>7, <1>9, <2>2 DEF FoundAt
<1> QED
  BY <1>8, <1>9

----------------------------------------------------------------------------
(* Where a path leads *)

VolumesOK(V) == V \in [Volumes -> {V[v] : v \in Volumes}] /\ \A v \in Volumes : VolumeOK(V[v], Dirs[v])

ResolveIn(V, M, p) ==
    LET i == MountedIn(M, p)
        v == M[i].vol
        w == WalkIn(V[v], Below(M[i].point, p))
    IN  [mnt |-> i, vol |-> v, status |-> w.status, dir |-> w.dir, read |-> w.read]

LEMMA ResolveInIs == \A p : ResolveDir(p) = ResolveIn(vol, mounts, p)
  BY DEF ResolveDir, ResolveIn, Mounted, MountedIn, Used, UsedIn, Walk, WalkIn, StepFrom, StepIn, Slots

LEMMA BelowIs ==
    ASSUME NEW m \in Seq(Spellings), NEW p \in Seq(Spellings), IsPrefix(m, p)
    PROVE  /\ Below(m, p) \in Seq(Spellings) /\ Len(Below(m, p)) = Len(p) - Len(m)
           /\ \A k \in 1 .. Len(p) - Len(m) : Below(m, p)[k] = p[Len(m) + k]
<1>1. Len(m) \in Nat /\ Len(p) \in Nat /\ Len(m) <= Len(p)
  BY DEF IsPrefix
<1> QED
  BY <1>1 DEF Below

LEMMA ResolveIs ==
    ASSUME NEW V, NEW M, VolumesOK(V), MountsOK(M), NEW p \in Seq(Spellings)
    PROVE  /\ ResolveIn(V, M, p).mnt \in UsedIn(M)
           /\ ResolveIn(V, M, p).vol = M[ResolveIn(V, M, p).mnt].vol
           /\ ResolveIn(V, M, p).vol \in Volumes
           /\ ResolveIn(V, M, p).dir \in DOMAIN V[ResolveIn(V, M, p).vol]
<1> DEFINE i == MountedIn(M, p)
           v == M[i].vol
           q == Below(M[i].point, p)
<1>1. i \in UsedIn(M) /\ IsPrefix(M[i].point, p)
  BY MountedIs DEF FoundAt
<1>2. M[i].point \in Seq(Spellings) /\ v \in Volumes
  BY <1>1 DEF MountsOK, UsedIn
<1>3. q \in Seq(Spellings)
  BY <1>1, <1>2, BelowIs
<1>4. VolumeOK(V[v], Dirs[v])
  BY <1>2 DEF VolumesOK
<1> DEFINE w == WalkIn(V[v], q)
<1>5. ResolveIn(V, M, p) = [mnt |-> i, vol |-> v, status |-> w.status, dir |-> w.dir, read |-> w.read]
  BY DEF ResolveIn
<1> HIDE DEF i, v, q
<1>6. w \in WalkSet(V[v])
  BY <1>3, <1>4, WalkIs
<1> HIDE DEF w
<1>7. w.dir \in DOMAIN V[v]
  BY <1>6 DEF WalkSet
<1> QED
  BY <1>1, <1>2, <1>5, <1>7 DEF v
----------------------------------------------------------------------------
(* What the calls do to the volumes *)

TreesOK == VolumesOK(vol) /\ MountsOK(mounts) /\ cwd \in Seq(Names) /\ held \in BOOLEAN

\* A call changed slot i of directory d of volume v.
MadeAt(v, d, i, e, new) ==
    /\ v \in Volumes /\ vol' = [vol EXCEPT ![v] = vol'[v]]
    /\ IsMade(vol[v], vol'[v], Dirs[v], d, i, e, new)
    /\ Seen(v, d, vol'[v][d]) /\ UNCHANGED <<mounts, cwd>>
RenamedAt(v, d, i, e) ==
    /\ v \in Volumes /\ vol' = [vol EXCEPT ![v] = vol'[v]]
    /\ IsRenamed(vol[v], vol'[v], d, i, e)
    /\ Current(v, vol[v][d][i]) => "busy directory" \in Risky
    /\ Seen(v, d, vol'[v][d]) /\ UNCHANGED <<mounts, cwd>>
UnlinkedAt(v, d, i, lost) ==
    /\ v \in Volumes /\ vol' = [vol EXCEPT ![v] = vol'[v]]
    /\ IsUnlinked(vol[v], vol'[v], d, i, lost)
    /\ Current(v, vol[v][d][i]) \/ Listed(v, vol[v][d][i]) => "busy directory" \in Risky
    /\ IsDir(vol[v], d, i) => lost = Subtree(v, vol[v][d][i].first)
    /\ Seen(v, d, Put(vol[v][d], i, Hole)) /\ UNCHANGED <<mounts, cwd>>

\* A call that looked only.
Looked == UNCHANGED <<vol, mounts, cwd, stream>>

\* A directory and a slot of it, as the calls find them.
LEMMA ParentIs ==
    ASSUME TreesOK, NEW p \in Seq(Spellings), p # << >>
    PROVE  /\ Parent(p).vol \in Volumes
           /\ Parent(p).dir \in DOMAIN vol[Parent(p).vol]
           /\ NameOf(p) \in Names
<1>1. Front(p) \in Seq(Spellings) /\ Last(p) \in Spellings
  <2>1. Len(p) \in Nat \ {0} /\ SubSeq(p, 1, Len(p) - 1) \in Seq(Spellings) /\ p[Len(p)] \in Spellings
    OBVIOUS
  <2> QED
    BY <2>1 DEF Front, Last
<1>2. Parent(p) = ResolveIn(vol, mounts, Front(p))
  BY ResolveInIs DEF Parent
<1>3. NameOf(p) \in Names
  BY <1>1, SpellingsAssumption DEF NameOf
<1> QED
  BY <1>1, <1>2, <1>3, ResolveIs DEF TreesOK

LEMMA VolumeHere ==
    ASSUME TreesOK, NEW v \in Volumes, NEW d \in DOMAIN vol[v]
    PROVE  /\ VolumeOK(vol[v], Dirs[v]) /\ v \in DOMAIN vol
           /\ Slots(v, d) = vol[v][d] /\ vol[v][d] \in Seq(SlotSet)
           /\ \A i \in DOMAIN vol[v][d] : vol[v][d][i] \in SlotSet
<1>1. VolumeOK(vol[v], Dirs[v]) /\ v \in DOMAIN vol
  BY DEF TreesOK, VolumesOK
<1>2. vol[v][d] \in Seq(SlotSet)
  BY <1>1 DEF VolumeOK, Slotted
<1>3. \A i \in DOMAIN vol[v][d] : vol[v][d][i] \in SlotSet
  BY <1>2
<1> QED
  BY <1>1, <1>2, <1>3 DEF Slots

LEMMA MakeIs ==
    ASSUME TreesOK, NEW p \in Seq(Spellings), NEW kind \in {"file", "dir"}, Make(p, kind)
    PROVE  Looked \/ \E v, d, i, e, new : MadeAt(v, d, i, e, new)
<1> DEFINE w == Parent(p)
           v == w.vol
           d == w.dir
           t == vol[v]
           some == Dirs[v] \ DOMAIN t
           first == IF kind = "dir" THEN Min(some) ELSE 0
           e == [name |-> NameOf(p), kind |-> kind, first |-> first]
           i == Vacant(t[d])
           s == Put(t[d], i, e)
           new == IF kind = "dir" THEN {first} ELSE {}
           u == [x \in DOMAIN t \cup new |->
                   IF x = d THEN s ELSE IF x \in DOMAIN t THEN t[x] ELSE << >>]
<1>1. p # << >> /\ UNCHANGED <<mounts, cwd>>
  BY DEF Make, Resolves
<1>2. v \in Volumes /\ d \in DOMAIN t /\ NameOf(p) \in Names
  BY <1>1, ParentIs
<1>3. /\ VolumeOK(t, Dirs[v]) /\ v \in DOMAIN vol /\ Slots(v, d) = t[d] /\ t[d] \in Seq(SlotSet)
      /\ \A k \in DOMAIN t[d] : t[d][k] \in SlotSet
  <2> HIDE DEF v, d
  <2> QED
    BY <1>2, VolumeHere
<1>4. Looked \/ (/\ Of(t[d], NameOf(p)) = {} /\ (kind = "dir" => some # {})
                 /\ (d = 0 => Len(s) <= RootSlots)
                 /\ vol' = [vol EXCEPT ![v] = u] /\ Seen(v, d, s))
  <2>1. Slots(v, d) = t[d] /\ Made(v, d, e) = s
    BY DEF Slots, Made
  <2>2. \/ UNCHANGED <<vol, stream>>
        \/ /\ Of(Slots(v, d), NameOf(p)) = {} /\ (kind = "dir" => some # {})
           /\ (d = 0 => Len(Made(v, d, e)) <= RootSlots)
           /\ vol' = [vol EXCEPT ![v] = [x \in DOMAIN @ \cup new |->
                         IF x = d THEN Made(v, d, e) ELSE IF x \in DOMAIN @ THEN @[x] ELSE << >>]]
           /\ Seen(v, d, Made(v, d, e))
    <3>1. \E z \in {w} : z = w /\ LET
             v1 == z.vol
             new1 == Dirs[v1] \ DOMAIN vol[v1]
             first1 == IF kind = "dir" THEN Min(new1) ELSE 0
             s1 == Made(v1, z.dir, [name |-> NameOf(p), kind |-> kind, first |-> first1])
           IN  IF Of(Slots(v1, z.dir), NameOf(p)) # {}
               THEN UNCHANGED <<vol, stream>>
               ELSE \/ UNCHANGED <<vol, stream>>
                    \/ /\ kind = "dir" => new1 # {}
                       /\ z.dir = 0 => Len(s1) <= RootSlots
                       /\ vol' = [vol EXCEPT ![v1] =
                            [x \in DOMAIN @ \cup (IF kind = "dir" THEN {first1} ELSE {}) |->
                               IF x = z.dir THEN s1 ELSE IF x \in DOMAIN @ THEN @[x] ELSE << >>]]
                       /\ Seen(v1, z.dir, s1)
      BY DEF Make
    <3> QED
      BY <3>1
  <2> QED
    BY <1>1, <2>1, <2>2 DEF Looked
<1> SUFFICES ASSUME ~Looked PROVE \E v2, d2, i2, e2, new2 : MadeAt(v2, d2, i2, e2, new2)
  OBVIOUS
<1> HIDE DEF t, s, u, v, d, some
<1>5. some \in SUBSET Nat /\ some \cap DOMAIN t = {} /\ some \subseteq Dirs[v] /\ 0 \notin some
  BY <1>2, SizesAssumption DEF some
<1>6. kind = "dir" => first \in some
  BY <1>4, <1>5, MinIs
<1>7. e \in SlotSet
  <2>1. first \in Nat
    BY <1>5, <1>6
  <2> HIDE DEF first
  <2> QED
    BY <1>2, <2>1, MadeSlot
<1>8. i \in 1 .. Len(t[d]) + 1 /\ (i \in DOMAIN t[d] => t[d][i].name = Gone)
  BY <1>3, VacantIs
<1>9. new \cap DOMAIN t = {} /\ new \subseteq Dirs[v]
  BY <1>5, <1>6
<1>10. e.name = NameOf(p) /\ e.kind = kind /\ e.first = first
  OBVIOUS
<1> HIDE DEF e, first, i
<1>11. vol'[v] = u /\ vol' = [vol EXCEPT ![v] = vol'[v]]
  BY <1>3, <1>4
<1>12. Changed(t, u, d, i, e, new, {})
  <2>1. DOMAIN t \cup new = (DOMAIN t \ {}) \cup new
    OBVIOUS
  <2>2. u = [x \in (DOMAIN t \ {}) \cup new |->
               IF x = d THEN Put(t[d], i, e) ELSE IF x \in DOMAIN t THEN t[x] ELSE << >>]
    BY <2>1 DEF u, s
  <2>3. d = 0 => Len(Put(t[d], i, e)) <= RootSlots
    BY <1>4 DEF s
  <2> HIDE DEF new
  <2> QED
    BY <1>2, <1>7, <1>8, <1>9, <2>2, <2>3 DEF Changed
<1>13. ~IsDir(t, d, i)
  BY <1>3, <1>8, SlotIs DEF IsDir, Place
<1>14. NewName(t, d, i, e)
  BY <1>4, <1>10 DEF NewName, Place, Of
<1>15. IsMade(t, u, Dirs[v], d, i, e, new)
  BY <1>5, <1>6, <1>10, <1>12, <1>13, <1>14 DEF IsMade
<1>16. u[d] = s
  BY <1>2 DEF u
<1>17. MadeAt(v, d, i, e, new)
  <2> HIDE DEF new
  <2>1. vol[v] = t /\ vol'[v] = u
    BY <1>11 DEF t
  <2>2. Seen(v, d, vol'[v][d])
    BY <1>4, <1>16, <2>1
  <2> QED
    BY <1>1, <1>2, <1>11, <1>15, <2>1, <2>2 DEF MadeAt
<1> QED
  BY <1>17
LEMMA RenameIs ==
    ASSUME TreesOK, NEW p \in Seq(Spellings), NEW q \in Seq(Spellings), Rename(p, q)
    PROVE  Looked \/ \E v, d, i, e : RenamedAt(v, d, i, e)
<1> DEFINE w == Parent(p)
           v == w.vol
           d == w.dir
           t == vol[v]
           i == CHOOSE k \in Of(t[d], NameOf(p)) : TRUE
           e == [t[d][i] EXCEPT !.name = NameOf(q)]
           s == Put(t[d], i, e)
           u == [t EXCEPT ![d] = s]
<1>1. p # << >> /\ q # << >> /\ UNCHANGED <<mounts, cwd>>
  BY DEF Rename, Resolves
<1>2. v \in Volumes /\ d \in DOMAIN t /\ NameOf(p) \in Names /\ NameOf(q) \in Names
  BY <1>1, ParentIs
<1>3. /\ VolumeOK(t, Dirs[v]) /\ v \in DOMAIN vol /\ Slots(v, d) = t[d] /\ t[d] \in Seq(SlotSet)
      /\ \A k \in DOMAIN t[d] : t[d][k] \in SlotSet
  <2> HIDE DEF v, d
  <2> QED
    BY <1>2, VolumeHere
<1>4. Looked \/ (/\ Of(t[d], NameOf(p)) # {} /\ Of(t[d], NameOf(q)) = {}
                 /\ (Current(v, t[d][i]) => "busy directory" \in Risky)
                 /\ vol' = [vol EXCEPT ![v] = u] /\ Seen(v, d, s))
  <2>1. \E z \in {w} : z = w /\ LET
           s1 == Slots(z.vol, z.dir)
           found == Of(s1, NameOf(p))
           i1 == CHOOSE k \in found : TRUE
           renamed == Put(s1, i1, [s1[i1] EXCEPT !.name = NameOf(q)])
         IN  \/ UNCHANGED <<vol, stream>>
             \/ /\ found # {} /\ Of(s1, NameOf(q)) = {}
                /\ Current(z.vol, s1[i1]) => "busy directory" \in Risky
                /\ vol' = [vol EXCEPT ![z.vol][z.dir] = renamed]
                /\ Seen(z.vol, z.dir, renamed)
    BY DEF Rename
  <2>2. Slots(v, d) = t[d]
    BY DEF Slots
  <2> QED
    BY <1>1, <2>1, <2>2 DEF Looked
<1> SUFFICES ASSUME ~Looked PROVE \E v2, d2, i2, e2 : RenamedAt(v2, d2, i2, e2)
  OBVIOUS
<1>5. i \in Of(t[d], NameOf(p))
  BY <1>4
<1> HIDE DEF t, s, u, v, d, i
<1>6. i \in DOMAIN t[d] /\ t[d][i] \in SlotSet /\ t[d][i].name = NameOf(p)
  BY <1>3, <1>5 DEF Of
<1>7. NameOf(p) # Gone /\ NameOf(q) # Gone
  BY <1>2, SizesAssumption
<1>8. /\ e \in SlotSet /\ e.name = NameOf(q)
      /\ e.kind = t[d][i].kind /\ e.first = t[d][i].first
  BY <1>2, <1>6, <1>7 DEF SlotSet
<1> HIDE DEF e
<1>9. vol'[v] = u /\ vol' = [vol EXCEPT ![v] = vol'[v]]
  BY <1>3, <1>4
<1>10. Changed(t, u, d, i, e, {}, {})
  <2>1. DOMAIN t = (DOMAIN t \ {}) \cup {} /\ t = [x \in DOMAIN t |-> t[x]]
    BY <1>3 DEF VolumeOK, Slotted
  <2>2. u = [x \in DOMAIN t |-> IF x = d THEN Put(t[d], i, e) ELSE t[x]]
    BY <2>1 DEF u, s
  <2>3. u = [x \in (DOMAIN t \ {}) \cup {} |->
               IF x = d THEN Put(t[d], i, e) ELSE IF x \in DOMAIN t THEN t[x] ELSE << >>]
    BY <2>1, <2>2
  <2>4. i \in 1 .. Len(t[d]) + 1 /\ i # Len(t[d]) + 1
    BY <1>3, <1>6
  <2>5. d = 0 => Len(Put(t[d], i, e)) <= RootSlots
    <3>1. CanPut(t[d], i, e)
      BY <1>3, <1>8, <2>4 DEF CanPut
    <3>2. Len(Put(t[d], i, e)) = Len(t[d])
      <4>1. IsPut(Put(t[d], i, e), t[d], i, e)
        BY <3>1, PutIs
      <4> QED
        BY <2>4, <4>1 DEF IsPut
    <3> QED
      BY <1>3, <3>2 DEF VolumeOK
  <2> QED
    BY <1>2, <1>8, <2>3, <2>4, <2>5 DEF Changed
<1>11. NewName(t, d, i, e)
  BY <1>4, <1>8 DEF NewName, Place, Of
<1>12. IsRenamed(t, u, d, i, e)
  BY <1>2, <1>6, <1>8, <1>10, <1>11 DEF IsRenamed, Place
<1>13. u[d] = s
  BY <1>2 DEF u
<1>14. RenamedAt(v, d, i, e)
  <2>1. vol[v] = t /\ vol'[v] = u
    BY <1>9 DEF t
  <2>2. Seen(v, d, vol'[v][d])
    BY <1>4, <1>13, <2>1
  <2>3. Current(v, vol[v][d][i]) => "busy directory" \in Risky
    BY <1>4, <2>1
  <2> QED
    BY <1>1, <1>2, <1>9, <1>12, <2>1, <2>2, <2>3 DEF RenamedAt
<1> QED
  BY <1>14

\* UNLINK in the directory w, of the name n.
UnlinkIn(w, n, delete) == LET
    v == w.vol
    s == Slots(v, w.dir)
    found == Of(s, n)
    i == CHOOSE k \in found : TRUE
    lost == IF s[i].kind = "dir" THEN Subtree(v, s[i].first) ELSE {}
  IN  IF found = {} THEN UNCHANGED <<vol, stream>>
      ELSE IF ~delete /\ s[i].kind = "file" THEN UNCHANGED <<vol, stream>>
      ELSE IF ~delete /\ NamesIn(Slots(v, s[i].first)) # {} THEN UNCHANGED <<vol, stream>>
      ELSE /\ Current(v, s[i]) \/ Listed(v, s[i]) => "busy directory" \in Risky
           /\ vol' = [vol EXCEPT ![v] = [x \in DOMAIN @ \ lost |->
                                           IF x = w.dir THEN Put(s, i, Hole) ELSE @[x]]]
           /\ Seen(v, w.dir, Put(s, i, Hole))

LEMMA UnlinkCases ==
    ASSUME NEW w, NEW n, NEW delete, UnlinkIn(w, n, delete)
    PROVE  \/ UNCHANGED <<vol, stream>>
           \/ LET v == w.vol
                  s == Slots(v, w.dir)
                  i == CHOOSE k \in Of(s, n) : TRUE
                  lost == IF s[i].kind = "dir" THEN Subtree(v, s[i].first) ELSE {}
              IN  /\ Of(s, n) # {}
                  /\ Current(v, s[i]) \/ Listed(v, s[i]) => "busy directory" \in Risky
                  /\ vol' = [vol EXCEPT ![v] = [x \in DOMAIN @ \ lost |->
                                                  IF x = w.dir THEN Put(s, i, Hole) ELSE @[x]]]
                  /\ Seen(v, w.dir, Put(s, i, Hole))
<1> DEFINE s == Slots(w.vol, w.dir)
           i == CHOOSE k \in Of(s, n) : TRUE
           C == Of(s, n) = {} \/ (~delete /\ (s[i].kind = "file" \/ NamesIn(Slots(w.vol, s[i].first)) # {}))
<1>1. CASE C
  BY <1>1 DEF UnlinkIn
<1>2. CASE ~C
  BY <1>2 DEF UnlinkIn
<1> QED
  BY <1>1, <1>2

LEMMA UnlinkIs ==
    ASSUME TreesOK, NEW p \in Seq(Spellings), NEW delete \in BOOLEAN, Unlink(p, delete)
    PROVE  Looked \/ \E v, d, i, lost : UnlinkedAt(v, d, i, lost)
<1> DEFINE w == Parent(p)
           v == w.vol
           d == w.dir
           t == vol[v]
           i == CHOOSE k \in Of(t[d], NameOf(p)) : TRUE
           lost == IF t[d][i].kind = "dir" THEN Subtree(v, t[d][i].first) ELSE {}
           s == Put(t[d], i, Hole)
           u == [x \in DOMAIN t \ lost |-> IF x = d THEN s ELSE t[x]]
<1>1. p # << >> /\ UNCHANGED <<mounts, cwd>>
  BY DEF Unlink, Resolves
<1>2. v \in Volumes /\ d \in DOMAIN t /\ NameOf(p) \in Names
  BY <1>1, ParentIs
<1>3. /\ VolumeOK(t, Dirs[v]) /\ v \in DOMAIN vol /\ Slots(v, d) = t[d] /\ t[d] \in Seq(SlotSet)
      /\ \A k \in DOMAIN t[d] : t[d][k] \in SlotSet
  <2> HIDE DEF v, d
  <2> QED
    BY <1>2, VolumeHere
<1>4. Looked \/ (/\ Of(t[d], NameOf(p)) # {}
                 /\ (Current(v, t[d][i]) \/ Listed(v, t[d][i]) => "busy directory" \in Risky)
                 /\ vol' = [vol EXCEPT ![v] = u] /\ Seen(v, d, s))
  <2> DEFINE s1 == Slots(v, d)
             i1 == CHOOSE k \in Of(s1, NameOf(p)) : TRUE
             lost1 == IF s1[i1].kind = "dir" THEN Subtree(v, s1[i1].first) ELSE {}
  <2>1. \/ UNCHANGED <<vol, stream>>
        \/ /\ Of(s1, NameOf(p)) # {}
           /\ Current(v, s1[i1]) \/ Listed(v, s1[i1]) => "busy directory" \in Risky
           /\ vol' = [vol EXCEPT ![v] = [x \in DOMAIN @ \ lost1 |->
                                           IF x = d THEN Put(s1, i1, Hole) ELSE @[x]]]
           /\ Seen(v, d, Put(s1, i1, Hole))
    <3>1. \E z \in {w} : UnlinkIn(z, NameOf(p), delete)
      BY DEF Unlink, UnlinkIn
    <3>2. UnlinkIn(w, NameOf(p), delete)
      BY <3>1
    <3> QED
      BY <3>2, UnlinkCases
  <2>2. s1 = t[d]
    BY DEF Slots
  <2>3. i1 = i
    BY <2>2
  <2>4. lost1 = lost
    BY <2>2, <2>3
  <2> HIDE DEF s1, i1, lost1
  <2> QED
    BY <1>1, <2>1, <2>2, <2>3, <2>4 DEF Looked
<1> SUFFICES ASSUME ~Looked PROVE \E v2, d2, i2, lost2 : UnlinkedAt(v2, d2, i2, lost2)
  OBVIOUS
<1>5. i \in Of(t[d], NameOf(p))
  BY <1>4
<1>6. IsDir(t, d, i) => lost = Subtree(v, t[d][i].first)
  BY DEF IsDir
<1>7. ~IsDir(t, d, i) => lost = {}
  BY <1>2, <1>5 DEF IsDir, Place, Of
<1>8. \A b : Subtree(v, b) = SubtreeIn(t, Cardinality(Dirs[v]), b)
  BY SubtreeInIs
<1> HIDE DEF t, s, u, v, d, i, lost
<1>9. Place(t, d, i)
  BY <1>2, <1>5 DEF Of, Place
<1>10. IF IsDir(t, d, i) THEN IsSubtree(t, t[d][i].first, lost) ELSE lost = {}
  <2> SUFFICES ASSUME IsDir(t, d, i) PROVE IsSubtree(t, t[d][i].first, lost)
    BY <1>7
  <2>1. t[d][i].first \in DOMAIN t \ {0}
    BY <1>3 DEF VolumeOK, Inside
  <2>2. IsFiniteSet(Dirs[v])
    BY <1>2, SizesAssumption
  <2> QED
    BY <1>3, <1>6, <1>8, <2>1, <2>2, SubtreeIs
<1>11. vol'[v] = u /\ vol' = [vol EXCEPT ![v] = vol'[v]]
  BY <1>3, <1>4
<1>12. Changed(t, u, d, i, Hole, {}, lost)
  <2>1. lost \subseteq DOMAIN t \ {0}
    BY <1>10 DEF IsSubtree
  <2>2. u = [x \in (DOMAIN t \ lost) \cup {} |->
               IF x = d THEN Put(t[d], i, Hole) ELSE IF x \in DOMAIN t THEN t[x] ELSE << >>]
    BY DEF u, s
  <2>3. i \in 1 .. Len(t[d]) + 1 /\ i # Len(t[d]) + 1
    BY <1>3, <1>9 DEF Place
  <2>4. d = 0 => Len(Put(t[d], i, Hole)) <= RootSlots
    <3>1. CanPut(t[d], i, Hole)
      BY <1>3, <2>3, HoleIsSlot DEF CanPut
    <3>2. Len(Put(t[d], i, Hole)) = Len(t[d])
      <4>1. IsPut(Put(t[d], i, Hole), t[d], i, Hole)
        BY <3>1, PutIs
      <4> QED
        BY <2>3, <4>1 DEF IsPut
    <3> QED
      BY <1>3, <3>2 DEF VolumeOK
  <2> QED
    BY <1>2, <2>1, <2>2, <2>3, <2>4, HoleIsSlot DEF Changed
<1>13. IsUnlinked(t, u, d, i, lost)
  BY <1>9, <1>10, <1>12 DEF IsUnlinked
<1>14. UnlinkedAt(v, d, i, lost)
  <2>1. vol[v] = t /\ vol'[v] = u
    BY <1>11 DEF t
  <2>2. Seen(v, d, Put(vol[v][d], i, Hole))
    BY <1>4, <2>1 DEF s
  <2>3. Current(v, vol[v][d][i]) \/ Listed(v, vol[v][d][i]) => "busy directory" \in Risky
    BY <1>4, <2>1
  <2> QED
    BY <1>1, <1>2, <1>6, <1>11, <1>13, <2>1, <2>2, <2>3 DEF UnlinkedAt
<1> QED
  BY <1>14
----------------------------------------------------------------------------
(* Every step is a change of one slot, of the table, of the current directory, *)
(* or of the listing                                                           *)

StepKind ==
    \/ Looked
    \/ \E v, d, i, e, new : MadeAt(v, d, i, e, new)
    \/ \E v, d, i, e : RenamedAt(v, d, i, e)
    \/ \E v, d, i, lost : UnlinkedAt(v, d, i, lost)
    \/ \E p \in Seq(Spellings) : Chdir(p)
    \/ \E m \in Points, v \in Mountable : Mount(m, v)
    \/ \E m \in Points : Unmount(m)
    \/ Opendir \/ Readdir \/ Closedir

LEMMA AbsPathIs ==
    ASSUME cwd \in Seq(Names), NEW u \in CdPaths \cup UserPaths \cup DirPaths
    PROVE  AbsPath(cwd, u) \in Seq(Spellings)
<1>1. u.parts \in Seq(Parts)
  BY GivenAssumption DEF Parts
<1>2. cwd \in Seq(Parts)
  BY SpellingsAssumption DEF Parts
<1>3. cwd \o u.parts \in Seq(Parts)
  BY <1>1, <1>2
<1> DEFINE q == IF u.abs THEN u.parts ELSE cwd \o u.parts
<1>4. q \in Seq(Parts)
  BY <1>1, <1>3
<1> HIDE DEF q
<1>5. Normal(q) \in Seq(Spellings)
  BY <1>4, NormalIs
<1> QED
  BY <1>5 DEF AbsPath, q

LEMMA UserStepIs ==
    ASSUME TreesOK, NEW p \in Seq(Spellings),
           SysStat(p) \/ SysUtime(p) \/ SysCreate(p) \/ SysDelete(p) \/ SysRmdir(p) \/ SysMkdir(p)
    PROVE  StepKind
<1>1. CASE NotThere(p) \/ Stat(p) \/ Utime(p)
  <2>1. Looked
    BY <1>1 DEF NotThere, Stat, Utime, Looked
  <2> QED
    BY <2>1 DEF StepKind
<1>2. CASE Make(p, "file") \/ Make(p, "dir")
  <2>1. Looked \/ \E v, d, i, e, new : MadeAt(v, d, i, e, new)
    BY <1>2, MakeIs
  <2> QED
    BY <2>1 DEF StepKind
<1>3. CASE Unlink(p, TRUE) \/ Unlink(p, FALSE)
  <2>1. Looked \/ \E v, d, i, lost : UnlinkedAt(v, d, i, lost)
    BY <1>3, UnlinkIs
  <2> QED
    BY <2>1 DEF StepKind
<1> QED
  BY <1>1, <1>2, <1>3 DEF SysStat, SysUtime, SysCreate, SysDelete, SysRmdir, SysMkdir

LEMMA RenameStepIs ==
    ASSUME TreesOK, NEW p \in Seq(Spellings), NEW q \in Seq(Spellings), SysRename(p, q)
    PROVE  StepKind
<1>1. CASE NotThere(p) \/ RenameNowhere(p, q)
  <2>1. Looked
    BY <1>1 DEF NotThere, RenameNowhere, Looked
  <2> QED
    BY <2>1 DEF StepKind
<1>2. CASE Rename(p, q)
  <2>1. Looked \/ \E v, d, i, e : RenamedAt(v, d, i, e)
    BY <1>2, RenameIs
  <2> QED
    BY <2>1 DEF StepKind
<1> QED
  BY <1>1, <1>2 DEF SysRename

LEMMA StepIsKind ==
    ASSUME TreesOK, [Next]_vars
    PROVE  StepKind
<1>0. \A u \in CdPaths \cup UserPaths \cup DirPaths : AbsPath(cwd, u) \in Seq(Spellings)
  BY AbsPathIs DEF TreesOK
<1>1. CASE UNCHANGED vars
  BY <1>1 DEF vars, StepKind, Looked
<1>2. CASE \E u \in CdPaths : \E p \in {AbsPath(cwd, u)} : SysChdir(p)
  BY <1>0, <1>2 DEF SysChdir, StepKind
<1>3. ASSUME NEW u \in UserPaths \cup DirPaths, NEW p \in {AbsPath(cwd, u)},
             SysStat(p) \/ SysUtime(p) \/ SysCreate(p) \/ SysDelete(p) \/ SysRmdir(p) \/ SysMkdir(p)
      PROVE  StepKind
  <2>1. p \in Seq(Spellings)
    BY <1>0
  <2> QED
    BY <1>3, <2>1, UserStepIs
<1>4. ASSUME NEW u \in UserPaths, NEW w \in UserPaths, NEW p \in {AbsPath(cwd, u)},
             NEW q \in {AbsPath(cwd, w)}, SysRename(p, q)
      PROVE  StepKind
  <2>1. p \in Seq(Spellings) /\ q \in Seq(Spellings)
    BY <1>0
  <2> QED
    BY <1>4, <2>1, RenameStepIs
<1>5. CASE \E m \in Points : SysUnmount(m)
  BY <1>5 DEF SysUnmount, StepKind
<1>6. CASE \E m \in Points, v \in Mountable : SysMount(m, v)
  BY <1>6 DEF SysMount, StepKind
<1>7. CASE Opendir \/ Readdir \/ Closedir
  BY <1>7 DEF StepKind
<1> QED
  BY <1>1, <1>2, <1>3, <1>4, <1>5, <1>6, <1>7 DEF Next

LEMMA HeldIs ==
    ASSUME TreesOK, [Next]_vars
    PROVE  held' \in BOOLEAN
<1>0. held \in BOOLEAN
  BY DEF TreesOK
<1>1. \A h \in BOOLEAN : \A w : Walked(h, w) \in BOOLEAN
  BY DEF Walked
<1>2. \A w : AfterWalk(w) => held' \in BOOLEAN
  BY <1>0, <1>1 DEF AfterWalk
<1>3. \A w, x : AfterWalks(w, x) => held' \in BOOLEAN
  BY <1>0, <1>1 DEF AfterWalks
<1>4. \A v, d : Searched(v, d) => held' \in BOOLEAN
  BY DEF Searched
<1>5. \A p : NotThere(p) \/ Stat(p) \/ Utime(p) => held' \in BOOLEAN
  BY <1>2, <1>4 DEF NotThere, Stat, Utime
<1>6. \A p, k : Make(p, k) => held' \in BOOLEAN
  <2> SUFFICES ASSUME NEW p, NEW k, Make(p, k) PROVE held' \in BOOLEAN
    OBVIOUS
  <2>1. \E w \in {Parent(p)} : Searched(w.vol, w.dir) \/ held' = FALSE
    BY DEF Make
  <2> QED
    BY <1>4, <2>1
<1>7. \A p, k : Unlink(p, k) => held' \in BOOLEAN
  <2> SUFFICES ASSUME NEW p, NEW k, Unlink(p, k) PROVE held' \in BOOLEAN
    OBVIOUS
  <2>1. \E w \in {Parent(p)} : Searched(w.vol, w.dir) \/ held' = FALSE
                              \/ held' = (~k /\ w.vol = RootVolume /\ w.dir = 0)
    BY DEF Unlink
  <2> QED
    BY <1>4, <2>1
<1>8. \A p, q : Rename(p, q) \/ RenameNowhere(p, q) => held' \in BOOLEAN
  <2> SUFFICES ASSUME NEW p, NEW q, Rename(p, q) \/ RenameNowhere(p, q)
               PROVE  held' \in BOOLEAN
    OBVIOUS
  <2>1. CASE RenameNowhere(p, q)
    BY <1>3, <2>1 DEF RenameNowhere
  <2>2. CASE Rename(p, q)
    <3>1. \E w \in {Parent(p)} : AfterWalks(w, Parent(q)) \/ Searched(w.vol, w.dir)
      BY <2>2 DEF Rename
    <3> QED
      BY <1>3, <1>4, <3>1
  <2> QED
    BY <2>1, <2>2
<1>9. \A p : Chdir(p) => held' \in BOOLEAN
  BY <1>2 DEF Chdir
<1>10. \A m, v : Mount(m, v) \/ Unmount(m) => held' \in BOOLEAN
  BY <1>0 DEF Mount, Unmount
<1>11. Opendir \/ Readdir \/ Closedir => held' \in BOOLEAN
  BY <1>0, <1>2 DEF Opendir, Readdir, Closedir
<1>12. UNCHANGED vars => held' \in BOOLEAN
  BY <1>0 DEF vars
<1> QED
  BY <1>5, <1>6, <1>7, <1>8, <1>9, <1>10, <1>11, <1>12
     DEF Next, SysChdir, SysStat, SysUtime, SysCreate, SysDelete, SysRmdir, SysMkdir, SysRename,
         SysMount, SysUnmount
----------------------------------------------------------------------------
(* The volumes and the mount table stay sound *)

LEMMA OneVolume ==
    ASSUME VolumesOK(vol), NEW v \in Volumes, vol' = [vol EXCEPT ![v] = vol'[v]],
           VolumeOK(vol'[v], Dirs[v])
    PROVE  VolumesOK(vol') /\ \A x \in Volumes : x # v => vol'[x] = vol[x]
<1>1. DOMAIN vol = Volumes /\ \A x \in Volumes : VolumeOK(vol[x], Dirs[x])
  BY DEF VolumesOK
<1>2. DOMAIN vol' = Volumes /\ \A x \in Volumes : x # v => vol'[x] = vol[x]
  BY <1>1
<1>3. vol' \in [Volumes -> {vol'[x] : x \in Volumes}]
  <2>1. vol' = [x \in Volumes |-> vol'[x]]
    BY <1>1
  <2> QED
    BY <2>1
<1> QED
  BY <1>1, <1>2, <1>3 DEF VolumesOK

LEMMA PackedIs ==
    ASSUME NEW p \in Seq(Spellings)
    PROVE  /\ Packed(p) \in Seq(Names) /\ Packed(p) \in Seq(Spellings) /\ Len(Packed(p)) = Len(p)
           /\ \A k \in 1 .. Len(p) : Packed(p)[k] = Upper[p[k]] /\ Upper[Packed(p)[k]] = Upper[p[k]]
<1>1. \A k \in 1 .. Len(p) : Upper[p[k]] \in Names /\ Upper[Upper[p[k]]] = Upper[p[k]]
  BY SpellingsAssumption
<1>2. Packed(p) = [k \in 1 .. Len(p) |-> Upper[p[k]]] /\ Len(p) \in Nat
  BY DEF Packed
<1>3. Packed(p) \in [1 .. Len(p) -> Names]
  BY <1>1, <1>2
<1>4. Packed(p) \in Seq(Names) /\ Len(Packed(p)) = Len(p)
  BY <1>2, <1>3
<1>5. Packed(p) \in Seq(Spellings)
  BY <1>4, SpellingsAssumption
<1> QED
  BY <1>1, <1>2, <1>4, <1>5

\* The table with one volume more, at a point where there is none.
Mounts(M, N, i, m, v) ==
    /\ i \in DOMAIN M \ UsedIn(M) /\ N = [M EXCEPT ![i] = [used |-> TRUE, point |-> m, vol |-> v]]
    /\ m \in Seq(Spellings) /\ v \in Volumes /\ \A j \in UsedIn(M) : M[j].point # m
Unmounts(M, N, m) ==
    /\ m # << >>
    /\ N = [i \in DOMAIN M |-> IF i \in UsedIn(M) /\ M[i].point = m
                                THEN [M[i] EXCEPT !.used = FALSE] ELSE M[i]]

LEMMA MountIs ==
    ASSUME TreesOK, NEW m \in Points, NEW v \in Mountable, Mount(m, v)
    PROVE  /\ UNCHANGED <<vol, cwd, stream>>
           /\ \/ UNCHANGED mounts
              \/ /\ IsPrefix(m, cwd) => "busy mount" \in Risky
                 /\ \E i : Mounts(mounts, mounts', i, m, v)
<1> DEFINE vacant == DOMAIN mounts \ UsedIn(mounts)
<1>1. UNCHANGED <<vol, cwd, stream>>
  BY DEF Mount
<1>2. \/ UNCHANGED mounts
      \/ /\ At(m) = {} /\ vacant # {} /\ (IsPrefix(m, cwd) => "busy mount" \in Risky)
         /\ mounts' = [mounts EXCEPT ![Min(vacant)] = [used |-> TRUE, point |-> m, vol |-> v]]
  BY DEF Mount, UsedIn, Used
<1>3. vacant \in SUBSET Nat
  BY DEF TreesOK, MountsOK
<1> HIDE DEF vacant
<1>4. vacant # {} => Min(vacant) \in vacant
  BY <1>3, MinIs
<1>5. At(m) = {} => \A j \in UsedIn(mounts) : mounts[j].point # m
  BY DEF At, Used, UsedIn
<1>6. m \in Seq(Spellings) /\ v \in Volumes
  BY GivenAssumption, SizesAssumption
<1>7. ASSUME ~UNCHANGED mounts
      PROVE  Mounts(mounts, mounts', Min(vacant), m, v)
  <2>1. Min(vacant) \in DOMAIN mounts \ UsedIn(mounts)
    BY <1>2, <1>4, <1>7 DEF vacant
  <2> QED
    BY <1>2, <1>5, <1>6, <1>7, <2>1 DEF Mounts
<1> QED
  BY <1>1, <1>2, <1>7

LEMMA UnmountIs ==
    ASSUME NEW m \in Points, Unmount(m)
    PROVE  /\ UNCHANGED <<vol, cwd, stream>>
           /\ \/ UNCHANGED mounts
              \/ (IsPrefix(m, cwd) => "busy mount" \in Risky) /\ Unmounts(mounts, mounts', m)
<1>1. UNCHANGED <<vol, cwd, stream>>
  BY DEF Unmount
<1>2. \/ UNCHANGED mounts
      \/ /\ m # << >> /\ (IsPrefix(m, cwd) => "busy mount" \in Risky)
         /\ mounts' = [i \in DOMAIN mounts |->
                         IF i \in At(m) THEN [mounts[i] EXCEPT !.used = FALSE] ELSE mounts[i]]
  BY DEF Unmount
<1>3. \A i : i \in At(m) <=> i \in UsedIn(mounts) /\ mounts[i].point = m
  BY DEF At, Used, UsedIn
<1> QED
  BY <1>1, <1>2, <1>3 DEF Unmounts

LEMMA MountsKept ==
    ASSUME NEW M, MountsOK(M), NEW N, NEW i, NEW m, NEW v, Mounts(M, N, i, m, v)
    PROVE  MountsOK(N) /\ UsedIn(N) = UsedIn(M) \cup {i} /\ N[i].point = m
           /\ \A j \in UsedIn(M) : N[j] = M[j]
<1> DEFINE R == [used : BOOLEAN, point : Seq(Spellings), vol : Volumes]
           e == [used |-> TRUE, point |-> m, vol |-> v]
<1>1. /\ M \in [1 .. MaxMounts -> R] /\ M[1].used /\ M[1].point = << >>
      /\ \A j, k \in 1 .. MaxMounts : M[j].used /\ M[k].used /\ M[j].point = M[k].point => j = k
  BY DEF MountsOK
<1>2. i \in 1 .. MaxMounts /\ ~M[i].used /\ e \in R /\ N = [M EXCEPT ![i] = e]
      /\ \A j \in 1 .. MaxMounts : M[j].used => M[j].point # m
  BY <1>1 DEF Mounts, UsedIn
<1>3. e.used /\ e.point = m
  OBVIOUS
<1> HIDE DEF R, e
<1>4. N \in [1 .. MaxMounts -> R] /\ N[i] = e /\ \A j \in 1 .. MaxMounts : j # i => N[j] = M[j]
  BY <1>1, <1>2
<1>5. 1 \in 1 .. MaxMounts /\ i # 1
  BY <1>1, <1>2, SizesAssumption
<1>6. N[1].used /\ N[1].point = << >>
  BY <1>1, <1>4, <1>5
<1>7. \A j, k \in 1 .. MaxMounts : N[j].used /\ N[k].used /\ N[j].point = N[k].point => j = k
  BY <1>1, <1>2, <1>3, <1>4
<1>8. MountsOK(N)
  BY <1>4, <1>6, <1>7 DEF MountsOK, R
<1>9. UsedIn(N) = UsedIn(M) \cup {i} /\ \A j \in UsedIn(M) : N[j] = M[j]
  BY <1>1, <1>2, <1>3, <1>4 DEF UsedIn
<1> QED
  BY <1>3, <1>4, <1>8, <1>9

LEMMA UnmountsKept ==
    ASSUME NEW M, MountsOK(M), NEW N, NEW m, Unmounts(M, N, m)
    PROVE  MountsOK(N) /\ UsedIn(N) = {j \in UsedIn(M) : M[j].point # m}
           /\ \A j \in UsedIn(N) : N[j] = M[j]
<1> DEFINE R == [used : BOOLEAN, point : Seq(Spellings), vol : Volumes]
<1>1. /\ M \in [1 .. MaxMounts -> R] /\ M[1].used /\ M[1].point = << >>
      /\ \A j, k \in 1 .. MaxMounts : M[j].used /\ M[k].used /\ M[j].point = M[k].point => j = k
  BY DEF MountsOK
<1>2. /\ DOMAIN N = 1 .. MaxMounts /\ m # << >>
      /\ \A i \in 1 .. MaxMounts : N[i] = IF M[i].used /\ M[i].point = m
                                          THEN [M[i] EXCEPT !.used = FALSE] ELSE M[i]
      /\ N = [i \in 1 .. MaxMounts |-> N[i]]
  BY <1>1 DEF Unmounts, UsedIn
<1> DEFINE Off(r) == [r EXCEPT !.used = FALSE]
<1>3. \A r \in R : Off(r) \in R /\ Off(r).used = FALSE
  OBVIOUS
<1>11. \A i \in 1 .. MaxMounts : N[i] = IF M[i].used /\ M[i].point = m THEN Off(M[i]) ELSE M[i]
  BY <1>2
<1>12. \A i \in 1 .. MaxMounts : M[i].used \in BOOLEAN
  BY <1>1
<1> HIDE DEF R, Off
<1>4. N \in [1 .. MaxMounts -> R]
  BY <1>1, <1>2, <1>3, <1>11
<1>13. \A i \in 1 .. MaxMounts : M[i] \in R
  BY <1>1
<1>5. \A i \in 1 .. MaxMounts : N[i].used <=> M[i].used /\ M[i].point # m
  <2> SUFFICES ASSUME NEW i \in 1 .. MaxMounts
               PROVE  N[i].used <=> M[i].used /\ M[i].point # m
    OBVIOUS
  <2>1. CASE M[i].used /\ M[i].point = m
    <3>1. N[i] = Off(M[i]) /\ Off(M[i]).used = FALSE
      BY <1>3, <1>11, <1>13, <2>1
    <3> QED
      BY <2>1, <3>1
  <2>2. CASE ~(M[i].used /\ M[i].point = m)
    <3>1. N[i] = M[i]
      BY <1>11, <2>2
    <3> QED
      BY <2>2, <3>1
  <2> QED
    BY <2>1, <2>2
<1>6. \A i \in 1 .. MaxMounts : N[i].used => N[i] = M[i]
  <2> SUFFICES ASSUME NEW i \in 1 .. MaxMounts, N[i].used
               PROVE  N[i] = M[i]
    OBVIOUS
  <2>1. ~(M[i].used /\ M[i].point = m)
    BY <1>5
  <2> QED
    BY <1>11, <2>1
<1>7. 1 \in 1 .. MaxMounts
  BY SizesAssumption
<1>8. N[1].used /\ N[1].point = << >>
  BY <1>1, <1>2, <1>5, <1>6, <1>7
<1>9. MountsOK(N)
  BY <1>1, <1>4, <1>5, <1>6, <1>8 DEF MountsOK, R
<1>10. UsedIn(N) = {j \in UsedIn(M) : M[j].point # m} /\ \A j \in UsedIn(N) : N[j] = M[j]
  BY <1>1, <1>2, <1>5, <1>6 DEF UsedIn
<1> QED
  BY <1>9, <1>10

LEMMA TreesStep ==
    ASSUME TreesOK, StepKind, held' \in BOOLEAN
    PROVE  TreesOK'
<1>0. VolumesOK(vol) /\ MountsOK(mounts) /\ cwd \in Seq(Names)
  BY DEF TreesOK
<1>1. ASSUME UNCHANGED <<vol, mounts, cwd>>
      PROVE  TreesOK'
  BY <1>0, <1>1 DEF TreesOK
<1>2. ASSUME NEW v \in Volumes, vol' = [vol EXCEPT ![v] = vol'[v]], VolumeOK(vol'[v], Dirs[v]),
             UNCHANGED <<mounts, cwd>>
      PROVE  TreesOK'
  <2>1. VolumesOK(vol')
    BY <1>0, <1>2, OneVolume
  <2> QED
    BY <1>0, <1>2, <2>1 DEF TreesOK
<1>3. ASSUME NEW v, NEW d, NEW i, NEW e, NEW new, MadeAt(v, d, i, e, new)
      PROVE  TreesOK'
  <2>1. VolumeOK(vol[v], Dirs[v]) /\ IsMade(vol[v], vol'[v], Dirs[v], d, i, e, new)
    BY <1>0, <1>3 DEF MadeAt, VolumesOK
  <2>2. VolumeOK(vol'[v], Dirs[v])
    BY <2>1, MakeKeeps
  <2> QED
    BY <1>2, <1>3, <2>2 DEF MadeAt
<1>4. ASSUME NEW v, NEW d, NEW i, NEW e, RenamedAt(v, d, i, e)
      PROVE  TreesOK'
  <2>1. VolumeOK(vol[v], Dirs[v]) /\ IsRenamed(vol[v], vol'[v], d, i, e)
    BY <1>0, <1>4 DEF RenamedAt, VolumesOK
  <2>2. VolumeOK(vol'[v], Dirs[v])
    BY <2>1, RenameKeeps
  <2> QED
    BY <1>2, <1>4, <2>2 DEF RenamedAt
<1>5. ASSUME NEW v, NEW d, NEW i, NEW lost, UnlinkedAt(v, d, i, lost)
      PROVE  TreesOK'
  <2>1. VolumeOK(vol[v], Dirs[v]) /\ IsUnlinked(vol[v], vol'[v], d, i, lost)
    BY <1>0, <1>5 DEF UnlinkedAt, VolumesOK
  <2>2. VolumeOK(vol'[v], Dirs[v])
    BY <2>1, UnlinkKeeps
  <2> QED
    BY <1>2, <1>5, <2>2 DEF UnlinkedAt
<1>6. ASSUME NEW p \in Seq(Spellings), Chdir(p)
      PROVE  TreesOK'
  <2>1. UNCHANGED <<vol, mounts>> /\ (cwd' = Packed(p) \/ cwd' = cwd)
    BY <1>6 DEF Chdir
  <2>2. cwd' \in Seq(Names)
    BY <1>0, <2>1, PackedIs
  <2> QED
    BY <1>0, <2>1, <2>2 DEF TreesOK
<1>7. ASSUME NEW m \in Points, NEW v \in Mountable, Mount(m, v)
      PROVE  TreesOK'
  <2>1. UNCHANGED <<vol, cwd>> /\ (UNCHANGED mounts \/ \E i : Mounts(mounts, mounts', i, m, v))
    BY <1>7, MountIs
  <2>2. MountsOK(mounts')
    BY <1>0, <2>1, MountsKept
  <2> QED
    BY <1>0, <2>1, <2>2 DEF TreesOK
<1>8. ASSUME NEW m \in Points, Unmount(m)
      PROVE  TreesOK'
  <2>1. UNCHANGED <<vol, cwd>> /\ (UNCHANGED mounts \/ Unmounts(mounts, mounts', m))
    BY <1>8, UnmountIs
  <2>2. MountsOK(mounts')
    BY <1>0, <2>1, UnmountsKept
  <2> QED
    BY <1>0, <2>1, <2>2 DEF TreesOK
<1>9. Looked \/ Opendir \/ Readdir \/ Closedir => UNCHANGED <<vol, mounts, cwd>>
  BY DEF Looked, Opendir, Readdir, Closedir
<1> QED
  BY <1>1, <1>3, <1>4, <1>5, <1>6, <1>7, <1>8, <1>9 DEF StepKind
LEMMA TreesInit ==
    ASSUME Init
    PROVE  TreesOK
<1> DEFINE t == [d \in {0} |-> << >>]
<1>1. /\ vol = [v \in Volumes |-> t] /\ cwd = << >> /\ held = FALSE
      /\ mounts = [i \in 1 .. MaxMounts |-> [used |-> i = 1, point |-> << >>, vol |-> RootVolume]]
  BY DEF Init
<1>2. ASSUME NEW D PROVE VolumeOK(t, D)
  <2>1. DOMAIN t = {0} /\ t[0] = << >> /\ Len(t[0]) = 0 /\ << >> \in Seq(SlotSet)
    OBVIOUS
  <2>2. t \in [{0} -> Seq(SlotSet)]
    BY <2>1
  <2> HIDE DEF t
  <2>3. \A x, i : ~Place(t, x, i)
    BY <2>1 DEF Place
  <2>4. Len(t[0]) <= RootSlots
    BY <2>1, SizesAssumption
  <2>5. Slotted(t, D)
    BY <2>1, <2>2 DEF Slotted
  <2> QED
    BY <2>1, <2>3, <2>4, <2>5 DEF VolumeOK, Apart, Inside, Reached, Once, IsDir
<1> HIDE DEF t
<1>3. VolumesOK(vol)
  <2>1. \A v \in Volumes : vol[v] = t
    BY <1>1
  <2>2. vol \in [Volumes -> {vol[v] : v \in Volumes}]
    BY <1>1, <2>1
  <2> QED
    BY <1>2, <2>1, <2>2 DEF VolumesOK
<1>4. MountsOK(mounts)
  <2> DEFINE R == [used : BOOLEAN, point : Seq(Spellings), vol : Volumes]
  <2>1. << >> \in Seq(Spellings) /\ RootVolume \in Volumes /\ 1 \in 1 .. MaxMounts
    BY SizesAssumption
  <2>2. \A i \in 1 .. MaxMounts : [used |-> i = 1, point |-> << >>, vol |-> RootVolume] \in R
    BY <2>1
  <2>3. mounts \in [1 .. MaxMounts -> R]
    <3> HIDE DEF R
    <3> QED
      BY <1>1, <2>2
  <2>4. /\ \A i \in 1 .. MaxMounts : mounts[i].used <=> i = 1
        /\ mounts[1].point = << >>
    BY <1>1, <2>1
  <2> QED
    BY <2>1, <2>3, <2>4 DEF MountsOK
<1>5. cwd \in Seq(Names)
  BY <1>1
<1> QED
  BY <1>1, <1>3, <1>4, <1>5 DEF TreesOK

LEMMA TreesNext ==
    ASSUME TreesOK, [Next]_vars
    PROVE  TreesOK'
  BY StepIsKind, HeldIs, TreesStep

----------------------------------------------------------------------------
(* A listing under way *)

\* What is given is behind the place the listing is at, what is owed is ahead.
ListOK(s, x) ==
    /\ ~x.twice /\ (x.ended => x.owed = {})
    /\ \A n \in x.gave : \E k \in DOMAIN s : s[k].name = n /\ k <= x.at
    /\ \A n \in x.owed : \E k \in DOMAIN s : s[k].name = n /\ k > x.at

StreamSet ==
    [open : BOOLEAN, dir : Nat, at : Nat, gave : SUBSET Names, twice : BOOLEAN,
     owed : SUBSET Names, ended : BOOLEAN]

Exact == "root listing" \notin Risky /\ "block end" \notin Risky

StreamIn(V, x) ==
    /\ x \in StreamSet
    /\ ~x.open => x = NoListing
    /\ x.open => x.dir \in DOMAIN V[RootVolume] /\ (Exact => ListOK(V[RootVolume][x.dir], x))

SeenIn(x, s) == [x EXCEPT !.owed = @ \cap NamesIn(s), !.gave = @ \cap NamesIn(s)]

\* A name that is in a directory before and after a change is in the same slot.
LEMMA SlotStays ==
    ASSUME NEW D, NEW t, VolumeOK(t, D), NEW u, NEW d, NEW i, NEW e, NEW new, NEW lost,
           CanChange(t, u, D, d, i, e, new, lost), NewName(t, d, i, e),
           NEW k, NEW j, Place(t, d, k), Place(u, d, j), t[d][k].name = u[d][j].name,
           t[d][k].name # Gone
    PROVE  j = k
<1>1. IsChanged(t, u, D, d, i, e, new, lost)
  BY ChangedIs
<1>2. CASE j = i /\ u[d][j] = e
  BY <1>2 DEF NewName
<1>3. CASE Place(t, d, j) /\ u[d][j] = t[d][j]
  BY <1>3 DEF VolumeOK, Apart
<1> QED
  BY <1>1, <1>2, <1>3 DEF IsChanged

LEMMA ListKept ==
    ASSUME NEW D, NEW t, VolumeOK(t, D), NEW u, NEW d, NEW i, NEW e, NEW new, NEW lost,
           CanChange(t, u, D, d, i, e, new, lost), NewName(t, d, i, e),
           NEW x \in StreamSet, ListOK(t[d], x), d \notin lost
    PROVE  ListOK(u[d], SeenIn(x, u[d]))
<1> DEFINE s == u[d]
           y == SeenIn(x, s)
<1>1. /\ y.twice = x.twice /\ y.ended = x.ended /\ y.at = x.at
      /\ y.gave = x.gave \cap NamesIn(s) /\ y.owed = x.owed \cap NamesIn(s)
  BY DEF SeenIn, StreamSet
<1>2. d \in DOMAIN t /\ d \in DOMAIN u
  <2>1. IsChanged(t, u, D, d, i, e, new, lost)
    BY ChangedIs
  <2> QED
    BY <2>1 DEF IsChanged, CanChange, Changed
<1>3. ASSUME NEW n \in Names, NEW k \in DOMAIN t[d], t[d][k].name = n, n \in NamesIn(s)
      PROVE  k \in DOMAIN s /\ s[k].name = n
  <2>1. PICK j \in DOMAIN s : s[j].name = n
    BY <1>3 DEF NamesIn, Live
  <2>2. Place(t, d, k) /\ Place(u, d, j) /\ n # Gone
    BY <1>2, <2>1, SizesAssumption DEF Place
  <2>3. j = k
    BY <1>3, <2>1, <2>2, SlotStays
  <2> QED
    BY <2>1, <2>3
<1>4. x.gave \subseteq Names /\ x.owed \subseteq Names
  BY DEF StreamSet
<1> HIDE DEF s, y
<1>5. \A n \in y.gave : \E k \in DOMAIN s : s[k].name = n /\ k <= y.at
  BY <1>1, <1>3, <1>4 DEF ListOK
<1>6. \A n \in y.owed : \E k \in DOMAIN s : s[k].name = n /\ k > y.at
  BY <1>1, <1>3, <1>4 DEF ListOK
<1>7. ~y.twice /\ (y.ended => y.owed = {})
  BY <1>1 DEF ListOK
<1>8. ListOK(s, y)
  BY <1>5, <1>6, <1>7 DEF ListOK
<1> QED
  BY <1>8 DEF s, y
StreamOK == StreamIn(vol, stream)

LEMMA NamesAre ==
    ASSUME TreesOK, NEW v \in Volumes, NEW d \in DOMAIN vol[v]
    PROVE  /\ NamesIn(vol[v][d]) \subseteq Names
           /\ \A n \in NamesIn(vol[v][d]) : \E k \in DOMAIN vol[v][d] : vol[v][d][k].name = n
  BY VolumeHere, SlotIs DEF NamesIn, Live

LEMMA SeenInSet ==
    ASSUME NEW x \in StreamSet, NEW s
    PROVE  SeenIn(x, s) \in StreamSet /\ SeenIn(x, s).open = x.open /\ SeenIn(x, s).dir = x.dir
<1>1. x.owed \cap NamesIn(s) \in SUBSET Names /\ x.gave \cap NamesIn(s) \in SUBSET Names
  BY DEF StreamSet
<1> DEFINE o == x.owed \cap NamesIn(s)
           g == x.gave \cap NamesIn(s)
<1> HIDE DEF o, g
<1>2. SeenIn(x, s) = [x EXCEPT !.owed = o, !.gave = g]
  BY DEF SeenIn, o, g
<1>3. o \in SUBSET Names /\ g \in SUBSET Names
  BY <1>1 DEF o, g
<1> QED
  BY <1>2, <1>3 DEF StreamSet

LEMMA ChangeStream ==
    ASSUME TreesOK, StreamOK, NEW v \in Volumes, vol' = [vol EXCEPT ![v] = vol'[v]],
           NEW d, NEW i, NEW e, NEW new, NEW lost,
           CanChange(vol[v], vol'[v], Dirs[v], d, i, e, new, lost), NewName(vol[v], d, i, e),
           Listing /\ v = RootVolume => stream.dir \notin lost,
           IF Listing /\ v = RootVolume /\ d = stream.dir
           THEN stream' = SeenIn(stream, vol'[v][d]) ELSE stream' = stream
    PROVE  StreamOK'
<1> DEFINE V == vol'
           x == stream
           D == Dirs[v]
           t == vol[v]
           u == V[v]
<1>1. StreamIn(vol, x) /\ VolumeOK(t, D) /\ DOMAIN vol = Volumes
  BY DEF StreamOK, TreesOK, VolumesOK
<1>2. IsChanged(t, u, D, d, i, e, new, lost)
  BY ChangedIs
<1>3. V = [vol EXCEPT ![v] = u]
  OBVIOUS
<1> HIDE DEF V, u, t, D
<1>4. CASE ~Listing \/ v # RootVolume
  <2>1. x.open => V[RootVolume] = vol[RootVolume]
    BY <1>1, <1>3, <1>4 DEF Listing
  <2>2. stream' = x
    BY <1>4
  <2>3. StreamIn(V, x)
    BY <1>1, <2>1 DEF StreamIn
  <2> QED
    BY <2>2, <2>3 DEF StreamOK, V
<1>5. CASE Listing /\ v = RootVolume /\ d # x.dir
  <2>1. V[RootVolume] = u /\ vol[RootVolume] = t
    BY <1>1, <1>3, <1>5 DEF t
  <2>2. x.dir \in DOMAIN t /\ x.dir \notin lost
    BY <1>1, <1>5, <2>1 DEF StreamIn, Listing
  <2>3. x.dir \in DOMAIN u
    BY <1>2, <2>2 DEF IsChanged
  <2>4. u[x.dir] = t[x.dir]
    BY <1>5, <2>2, <2>3 DEF CanChange, Changed, u, t, V
  <2>5. stream' = x
    BY <1>5
  <2>6. StreamIn(V, x)
    BY <1>1, <1>5, <2>1, <2>3, <2>4 DEF StreamIn, Listing
  <2> QED
    BY <2>5, <2>6 DEF StreamOK, V
<1>6. CASE Listing /\ v = RootVolume /\ d = x.dir
  <2>1. V[RootVolume] = u /\ vol[RootVolume] = t
    BY <1>1, <1>3, <1>6 DEF t
  <2>2. d \in DOMAIN t /\ d \notin lost
    BY <1>1, <1>6, <2>1 DEF StreamIn, Listing
  <2>3. d \in DOMAIN u
    BY <1>2, <2>2 DEF IsChanged
  <2> DEFINE y == SeenIn(x, u[d])
  <2>4. stream' = y
    BY <1>6 DEF u, V
  <2>5. x \in StreamSet /\ x.open /\ (Exact => ListOK(t[d], x))
    BY <1>1, <1>6, <2>1 DEF StreamIn, Listing
  <2>6. y \in StreamSet /\ y.open /\ y.dir = d
    BY <1>6, <2>5, SeenInSet
  <2>7. Exact => ListOK(u[d], y)
    <3>1. CanChange(t, u, D, d, i, e, new, lost) /\ NewName(t, d, i, e)
      BY DEF t, u, V, D
    <3> QED
      BY <1>1, <2>2, <2>5, <3>1, ListKept
  <2> HIDE DEF y
  <2>8. StreamIn(V, y)
    BY <2>1, <2>3, <2>6, <2>7 DEF StreamIn
  <2> QED
    BY <2>4, <2>8 DEF StreamOK, V
<1> QED
  BY <1>4, <1>5, <1>6

LEMMA ClosedIs == \A V : StreamIn(V, NoListing)
<1>1. {} \in SUBSET Names
  OBVIOUS
<1> QED
  BY <1>1 DEF StreamIn, StreamSet, NoListing

LEMMA OpendirIs ==
    ASSUME TreesOK, Opendir
    PROVE  StreamOK'
<1> DEFINE d == ListedDir
           s == vol[RootVolume][d]
           x == AtFirst(d)
<1>1. d \in DOMAIN vol[RootVolume] /\ stream' = x /\ vol' = vol
  BY DEF Opendir
<1>2. RootVolume \in Volumes
  BY SizesAssumption
<1> HIDE DEF d
<1>3. NamesIn(s) \subseteq Names /\ \A n \in NamesIn(s) : \E k \in DOMAIN s : s[k].name = n
  BY <1>1, <1>2, NamesAre
<1>4. d \in Nat
  BY <1>1, <1>2, VolumeHere, SizesAssumption DEF VolumeOK, Slotted
<1>5. s \in Seq(SlotSet)
  BY <1>1, <1>2, VolumeHere
<1>6. NoListing \in StreamSet /\ NoListing.at = 0 /\ NoListing.gave = {}
      /\ NoListing.twice = FALSE /\ NoListing.ended = FALSE
  BY DEF NoListing, StreamSet
<1> DEFINE o == NamesIn(s)
<1>10. x = [NoListing EXCEPT !.open = TRUE, !.dir = d, !.owed = o]
  BY DEF AtFirst, Slots
<1>11. o \in SUBSET Names
  BY <1>3
<1> HIDE DEF x, s, o
<1>7. x \in StreamSet /\ x.open /\ x.dir = d /\ x.at = 0 /\ x.gave = {} /\ x.owed = o
      /\ x.twice = FALSE /\ x.ended = FALSE
  BY <1>4, <1>6, <1>10, <1>11 DEF StreamSet
<1>8. ListOK(s, x)
  <2>1. \A k \in DOMAIN s : k > 0
    BY <1>5
  <2> QED
    BY <1>3, <1>7, <2>1 DEF ListOK, o
<1>9. StreamIn(vol, x)
  BY <1>1, <1>7, <1>8 DEF StreamIn, s
<1> QED
  BY <1>1, <1>9 DEF StreamOK

LEMMA ReaddirIs ==
    ASSUME TreesOK, StreamOK, Readdir
    PROVE  StreamOK'
<1> DEFINE x == stream
           d == x.dir
           s == vol[RootVolume][d]
           over == [x EXCEPT !.ended = TRUE]
           i == Min(Ahead(s))
<1>1. /\ x \in StreamSet /\ x.open /\ d \in DOMAIN vol[RootVolume] /\ (Exact => ListOK(s, x))
  BY DEF StreamOK, StreamIn, Readdir, Listing
<1>2. s \in Seq(SlotSet) /\ s = Slots(RootVolume, d) /\ RootVolume \in Volumes
      /\ VolumeOK(vol[RootVolume], Dirs[RootVolume])
      /\ \A k \in DOMAIN s : s[k] \in SlotSet
  <2> HIDE DEF x
  <2> QED
    BY <1>1, VolumeHere, SizesAssumption
<1>3. /\ vol' = vol
      /\ Lost(s) => "block end" \in Risky
      /\ Stale => "root listing" \in Risky
      /\ IF Stale
         THEN \/ x' = over
              \/ \E n \in Names : x' = [Giving(n) EXCEPT !.at = @ + 1]
         ELSE x' = IF Ahead(s) = {} \/ Lost(s) THEN over ELSE [Giving(s[i].name) EXCEPT !.at = i]
  BY <1>2 DEF Readdir
<1>4. /\ x.at \in Nat /\ x.gave \in SUBSET Names /\ x.owed \in SUBSET Names
      /\ x.twice \in BOOLEAN /\ x.dir \in Nat
  BY <1>1 DEF StreamSet
<1>5. Ahead(s) \in SUBSET Nat /\ Ahead(s) \subseteq DOMAIN s
      /\ \A k : k \in Ahead(s) <=> k \in DOMAIN s /\ s[k].name # Gone /\ k > x.at
  <2>1. DOMAIN s \subseteq Nat
    BY <1>2
  <2> HIDE DEF s, x
  <2>2. \A k : k \in Ahead(s) <=> k \in DOMAIN s /\ s[k].name # Gone /\ k > x.at
    BY DEF Ahead, Live, x
  <2> QED
    BY <2>1, <2>2
<1>6. Ahead(s) # {} => i \in Ahead(s) /\ \A k \in Ahead(s) : i <= k
  <2> HIDE DEF s
  <2> QED
    BY <1>5, MinIs
\* A name given, and the listing then at slot k.
<1> DEFINE g(n, k) == [Giving(n) EXCEPT !.at = k]
<1>7. \A n : [Giving(n) EXCEPT !.at = @ + 1] = g(n, x.at + 1)
  <2> SUFFICES ASSUME NEW n PROVE Giving(n).at = x.at
    OBVIOUS
  <2> QED
    BY <1>1 DEF Giving, StreamSet
<1>8. over \in StreamSet /\ over.open /\ over.dir = d /\ over.at = x.at /\ over.gave = x.gave
      /\ over.owed = x.owed /\ over.twice = x.twice
  BY <1>1 DEF StreamSet
<1>9. ASSUME NEW n \in Names, NEW k \in Nat
      PROVE  /\ g(n, k) \in StreamSet /\ g(n, k).open /\ g(n, k).dir = d
             /\ g(n, k).at = k /\ g(n, k).gave = x.gave \cup {n} /\ g(n, k).owed = x.owed \ {n}
             /\ g(n, k).twice = (x.twice \/ n \in x.gave) /\ g(n, k).ended = x.ended
  <2> DEFINE ga == x.gave \cup {n}
             ow == x.owed \ {n}
             tw == x.twice \/ n \in x.gave
             y == Giving(n)
  <2>1. ga \in SUBSET Names /\ ow \in SUBSET Names /\ tw \in BOOLEAN
    BY <1>4
  <2>2. y = [x EXCEPT !.gave = ga, !.twice = tw, !.owed = ow]
    BY DEF Giving
  <2> HIDE DEF ga, ow, tw, y
  <2>3. y \in StreamSet /\ y.open = x.open /\ y.dir = x.dir /\ y.gave = ga /\ y.owed = ow /\ y.twice = tw
        /\ y.ended = x.ended
    BY <1>1, <2>1, <2>2 DEF StreamSet
  <2> DEFINE z == [y EXCEPT !.at = k]
  <2>4. z \in StreamSet /\ z.open = y.open /\ z.dir = y.dir /\ z.at = k /\ z.gave = y.gave
        /\ z.owed = y.owed /\ z.twice = y.twice /\ z.ended = y.ended
    BY <2>3 DEF StreamSet
  <2>5. g(n, k) = z
    BY DEF y
  <2> HIDE DEF z, g
  <2> QED
    BY <1>1, <2>3, <2>4, <2>5 DEF ga, ow, tw
<1>10. IF Stale THEN x' = over \/ \E n \in Names : x' = g(n, x.at + 1)
       ELSE x' = IF Ahead(s) = {} \/ Lost(s) THEN over ELSE g(s[i].name, i)
  BY <1>3, <1>7
<1>11. (~x.ended /\ i \in Nat) \/ Ahead(s) = {}
  <2> HIDE DEF s
  <2> QED
    BY <1>5, <1>6 DEF Readdir
<1> HIDE DEF over, g, i, s
<1>12. ASSUME Ahead(s) # {}
       PROVE  i \in DOMAIN s /\ s[i].name \in Names /\ i > x.at /\ i \in Nat
  BY <1>2, <1>5, <1>6, <1>12, SlotIs
<1>13. x' \in StreamSet /\ x'.open /\ x'.dir = d
  <2>1. x.at + 1 \in Nat
    BY <1>4
  <2> HIDE DEF x
  <2> QED
    BY <1>8, <1>9, <1>10, <1>12, <2>1
<1>14. ASSUME Exact
       PROVE  ListOK(s, x')
  <2>1. ~Stale /\ ~Lost(s) /\ ListOK(s, x)
    BY <1>1, <1>3, <1>14 DEF Exact
  <2>2. CASE Ahead(s) = {}
    <3>1. x' = over
      BY <1>10, <2>1, <2>2
    <3>2. x.owed = {}
      <4> SUFFICES ASSUME NEW n \in x.owed PROVE FALSE
        OBVIOUS
      <4>1. PICK k \in DOMAIN s : s[k].name = n /\ k > x.at
        BY <2>1 DEF ListOK
      <4>2. n # Gone
        BY <1>4, SizesAssumption
      <4> QED
        BY <1>5, <2>2, <4>1, <4>2
    <3> QED
      BY <1>8, <2>1, <3>1, <3>2 DEF ListOK
  <2>3. CASE Ahead(s) # {}
    <3> DEFINE n == s[i].name
               y == g(n, i)
    <3>1. x' = y
      BY <1>10, <2>1, <2>3
    <3>2. i \in DOMAIN s /\ n \in Names /\ i > x.at /\ i \in Nat /\ ~x.ended
      BY <1>11, <1>12, <2>3
    <3>3. /\ y.at = i /\ y.gave = x.gave \cup {n} /\ y.owed = x.owed \ {n}
          /\ y.twice = (x.twice \/ n \in x.gave) /\ y.ended = x.ended
      BY <1>9, <3>2
    <3> HIDE DEF y
    <3>4. n # Gone
      BY <3>2, SizesAssumption
    <3>5. \A k \in DOMAIN s : s[k].name = n => k = i
      <4>1. Apart(vol[RootVolume])
        BY <1>2 DEF VolumeOK
      <4> QED
        BY <1>1, <3>2, <3>4, <4>1 DEF Apart, Place, s
    <3>6. n \notin x.gave
      <4> SUFFICES ASSUME n \in x.gave PROVE FALSE
        OBVIOUS
      <4>1. PICK k \in DOMAIN s : s[k].name = n /\ k <= x.at
        BY <2>1 DEF ListOK
      <4> QED
        BY <1>4, <3>2, <3>5, <4>1
    <3>7. \A m \in y.gave : \E k \in DOMAIN s : s[k].name = m /\ k <= y.at
      <4> SUFFICES ASSUME NEW m \in y.gave PROVE \E k \in DOMAIN s : s[k].name = m /\ k <= y.at
        OBVIOUS
      <4>1. CASE m = n
        BY <3>2, <3>3, <4>1
      <4>2. CASE m \in x.gave
        <5>1. PICK k \in DOMAIN s : s[k].name = m /\ k <= x.at
          BY <2>1, <4>2 DEF ListOK
        <5>2. k \in Nat
          BY <1>2, <5>1
        <5>3. k <= y.at
          BY <1>4, <3>2, <3>3, <5>1, <5>2
        <5> QED
          BY <5>1, <5>3
      <4> QED
        BY <3>3, <4>1, <4>2
    <3>8. \A m \in y.owed : \E k \in DOMAIN s : s[k].name = m /\ k > y.at
      <4> SUFFICES ASSUME NEW m \in y.owed PROVE \E k \in DOMAIN s : s[k].name = m /\ k > y.at
        OBVIOUS
      <4>1. m \in x.owed /\ m # n
        BY <3>3
      <4>2. PICK k \in DOMAIN s : s[k].name = m /\ k > x.at
        BY <2>1, <4>1 DEF ListOK
      <4>3. m # Gone /\ k \in Nat
        BY <1>2, <1>4, <4>1, SizesAssumption
      <4>4. k \in Ahead(s)
        BY <1>5, <4>2, <4>3
      <4>5. i <= k /\ i # k
        BY <1>6, <4>1, <4>2, <4>4
      <4> QED
        BY <3>2, <3>3, <4>2, <4>3, <4>5
    <3> QED
      BY <2>1, <3>1, <3>2, <3>3, <3>6, <3>7, <3>8 DEF ListOK
  <2> QED
    BY <2>2, <2>3
<1>15. StreamIn(vol, x')
  BY <1>1, <1>13, <1>14 DEF StreamIn, s
<1> QED
  BY <1>3, <1>15 DEF StreamOK

LEMMA StreamStep ==
    ASSUME TreesOK, StreamOK, StepKind, "busy directory" \notin Risky
    PROVE  StreamOK'
<1>1. CASE Looked
  BY <1>1 DEF Looked, StreamOK
<1>2. \A v \in Volumes : Slotted(vol[v], Dirs[v])
  BY DEF TreesOK, VolumesOK, VolumeOK
<1>3. ASSUME NEW v, NEW d, NEW i, NEW e, NEW new, MadeAt(v, d, i, e, new)
      PROVE  StreamOK'
  <2>1. v \in Volumes /\ vol' = [vol EXCEPT ![v] = vol'[v]] /\ Seen(v, d, vol'[v][d])
        /\ IsMade(vol[v], vol'[v], Dirs[v], d, i, e, new)
    BY <1>3 DEF MadeAt
  <2>2. CanChange(vol[v], vol'[v], Dirs[v], d, i, e, new, {}) /\ NewName(vol[v], d, i, e)
    BY <1>2, <2>1 DEF IsMade, CanChange
  <2>3. IF Listing /\ v = RootVolume /\ d = stream.dir
        THEN stream' = SeenIn(stream, vol'[v][d]) ELSE stream' = stream
    BY <2>1 DEF Seen, SeenIn
  <2> DEFINE lost == {}
  <2>4. CanChange(vol[v], vol'[v], Dirs[v], d, i, e, new, lost) /\ stream.dir \notin lost
    BY <2>2
  <2> HIDE DEF lost
  <2> QED
    BY <2>1, <2>2, <2>3, <2>4, ChangeStream
<1>4. ASSUME NEW v, NEW d, NEW i, NEW e, RenamedAt(v, d, i, e)
      PROVE  StreamOK'
  <2>1. v \in Volumes /\ vol' = [vol EXCEPT ![v] = vol'[v]] /\ Seen(v, d, vol'[v][d])
        /\ IsRenamed(vol[v], vol'[v], d, i, e)
    BY <1>4 DEF RenamedAt
  <2>2. CanChange(vol[v], vol'[v], Dirs[v], d, i, e, {}, {}) /\ NewName(vol[v], d, i, e)
    BY <1>2, <2>1 DEF IsRenamed, CanChange
  <2>3. IF Listing /\ v = RootVolume /\ d = stream.dir
        THEN stream' = SeenIn(stream, vol'[v][d]) ELSE stream' = stream
    BY <2>1 DEF Seen, SeenIn
  <2> QED
    BY <2>1, <2>2, <2>3, ChangeStream
<1>5. ASSUME NEW v, NEW d, NEW i, NEW lost, UnlinkedAt(v, d, i, lost)
      PROVE  StreamOK'
  <2>1. v \in Volumes /\ vol' = [vol EXCEPT ![v] = vol'[v]]
        /\ IsUnlinked(vol[v], vol'[v], d, i, lost)
        /\ ~Listed(v, vol[v][d][i])
        /\ (IsDir(vol[v], d, i) => lost = Subtree(v, vol[v][d][i].first))
        /\ Seen(v, d, Put(vol[v][d], i, Hole))
    BY <1>5 DEF UnlinkedAt
  <2>2. CanChange(vol[v], vol'[v], Dirs[v], d, i, Hole, {}, lost) /\ NewName(vol[v], d, i, Hole)
    BY <1>2, <2>1 DEF IsUnlinked, CanChange, NewName, Hole
  <2>3. Listing /\ v = RootVolume => stream.dir \notin lost
    BY <2>1 DEF Listed, LeadsTo, IsUnlinked, IsDir
  <2>4. IF Listing /\ v = RootVolume /\ d = stream.dir
        THEN stream' = SeenIn(stream, vol'[v][d]) ELSE stream' = stream
    <3>1. CASE Listing /\ v = RootVolume /\ d = stream.dir
      <4>1. d \in DOMAIN vol'[v] /\ vol'[v][d] = Put(vol[v][d], i, Hole)
        BY <2>2, <2>3, <3>1 DEF CanChange, Changed
      <4> QED
        BY <2>1, <3>1, <4>1 DEF Seen, SeenIn
    <3>2. CASE ~(Listing /\ v = RootVolume /\ d = stream.dir)
      BY <2>1, <3>2 DEF Seen
    <3> QED
      BY <3>1, <3>2
  <2> QED
    BY <2>1, <2>2, <2>3, <2>4, ChangeStream
<1>6. ASSUME NEW p \in Seq(Spellings), Chdir(p)
      PROVE  StreamOK'
  BY <1>6 DEF Chdir, StreamOK
<1>7. ASSUME NEW m \in Points, NEW v \in Mountable, Mount(m, v)
      PROVE  StreamOK'
  BY <1>7 DEF Mount, StreamOK
<1>8. ASSUME NEW m \in Points, Unmount(m)
      PROVE  StreamOK'
  BY <1>8 DEF Unmount, StreamOK
<1>9. CASE Closedir
  BY <1>9, ClosedIs DEF Closedir, StreamOK
<1> QED
  BY <1>1, <1>3, <1>4, <1>5, <1>6, <1>7, <1>8, <1>9, OpendirIs, ReaddirIs DEF StepKind

LEMMA TreesTyped ==
    ASSUME TreesOK, NEW v \in Volumes
    PROVE  /\ Len(Slots(v, 0)) <= RootSlots
           /\ \A d \in DOMAIN vol[v] : \A n \in Names : Cardinality(Of(Slots(v, d), n)) <= 1
           /\ \A d \in DOMAIN vol[v] \ {0} :
                \E e \in Entries(v) :
                  {f \in Entries(v) : EntryAt(v, f).kind = "dir" /\ EntryAt(v, f).first = d} = {e}
<1> DEFINE t == vol[v]
<1>1. VolumeOK(t, Dirs[v]) /\ \A d : Slots(v, d) = t[d]
  BY DEF TreesOK, VolumesOK, Slots
<1> HIDE DEF t
<1>2. Apart(t) /\ Inside(t) /\ Reached(t) /\ Once(t) /\ Len(t[0]) <= RootSlots /\ Slotted(t, Dirs[v])
  BY <1>1 DEF VolumeOK
<1>3. \A x, i : Place(t, x, i) => t[x][i] \in SlotSet
  <2> SUFFICES ASSUME NEW x \in DOMAIN t, NEW i \in DOMAIN t[x] PROVE t[x][i] \in SlotSet
    BY DEF Place
  <2>1. t[x] \in Seq(SlotSet)
    BY <1>2 DEF Slotted
  <2> QED
    BY <2>1
<1>4. ASSUME NEW d \in DOMAIN t, NEW n \in Names
      PROVE  Cardinality(Of(Slots(v, d), n)) <= 1
  <2> DEFINE O == Of(t[d], n)
  <2>1. \A i, j \in O : i = j
    BY <1>2, SizesAssumption DEF Of, Apart, Place
  <2>2. O = {} \/ \E i : O = {i}
    BY <2>1
  <2>3. Cardinality(O) <= 1
    <3> HIDE DEF O
    <3>1. Cardinality({}) = 0
      BY FS_EmptySet
    <3>2. CASE O = {}
      BY <3>1, <3>2
    <3>3. ASSUME NEW i, O = {i}
          PROVE  Cardinality(O) <= 1
      <4>1. Cardinality({i}) = 1
        BY FS_Singleton
      <4> QED
        BY <3>3, <4>1
    <3> QED
      BY <2>2, <3>2, <3>3
  <2> QED
    BY <1>1, <2>3
<1>5. \A e : e \in Entries(v) <=> \E x, i : Place(t, x, i) /\ t[x][i].name # Gone /\ e = <<x, i>>
  BY <1>1 DEF Entries, Live, Place, t
<1>6. \A x, i : EntryAt(v, <<x, i>>) = t[x][i]
  BY <1>1 DEF EntryAt
<1>7. \A x, i : IsDir(t, x, i) => t[x][i].name # Gone
  BY <1>3, SlotIs DEF IsDir
<1>8. ASSUME NEW d \in DOMAIN t \ {0}
      PROVE  \E e \in Entries(v) :
               {f \in Entries(v) : EntryAt(v, f).kind = "dir" /\ EntryAt(v, f).first = d} = {e}
  <2>1. PICK x, i : IsDir(t, x, i) /\ t[x][i].first = d
    BY <1>2 DEF Reached
  <2>2. <<x, i>> \in Entries(v)
    BY <1>5, <1>7, <2>1 DEF IsDir
  <2>3. ASSUME NEW f \in Entries(v), EntryAt(v, f).kind = "dir", EntryAt(v, f).first = d
        PROVE  f = <<x, i>>
    <3>1. PICK y, j : Place(t, y, j) /\ f = <<y, j>>
      BY <1>5
    <3>2. IsDir(t, y, j) /\ t[y][j].first = d
      BY <1>6, <2>3, <3>1 DEF IsDir
    <3>3. y = x /\ j = i
      BY <1>2, <2>1, <3>2 DEF Once
    <3> QED
      BY <3>1, <3>3
  <2>4. EntryAt(v, <<x, i>>).kind = "dir" /\ EntryAt(v, <<x, i>>).first = d
    BY <1>6, <2>1 DEF IsDir
  <2> QED
    BY <2>2, <2>3, <2>4
<1> QED
  BY <1>1, <1>2, <1>4, <1>8 DEF t

\* On every volume, whatever is made, removed, renamed and mounted, the
\* directories are those the entries lead to, by one entry each, and a name is
\* in a directory once.
THEOREM TypeCorrectness ==
    ASSUME "busy directory" \notin Risky
    PROVE  Spec => []TypeOK
<1>1. Init => TreesOK /\ StreamOK
  BY TreesInit, ClosedIs DEF Init, StreamOK
<1>2. TreesOK /\ StreamOK /\ [Next]_vars => (TreesOK /\ StreamOK)'
  BY TreesNext, StepIsKind, StreamStep
<1>3. TreesOK /\ StreamOK => TypeOK
  <2> SUFFICES ASSUME TreesOK, StreamOK PROVE TypeOK
    OBVIOUS
  <2>1. stream.gave \subseteq Names
    BY DEF StreamOK, StreamIn, StreamSet
  <2>2. cwd \in Seq(Names) /\ held \in BOOLEAN
    BY DEF TreesOK
  <2> QED
    BY <2>1, <2>2, TreesTyped DEF TypeOK
<1> QED
  BY <1>1, <1>2, <1>3, PTL DEF Spec

\* However the directory changes during a listing, the listing gives no name
\* twice and is not over before every name that stayed was given.
THEOREM ListingIsExact ==
    ASSUME "busy directory" \notin Risky, "root listing" \notin Risky, "block end" \notin Risky
    PROVE  Spec => []ListingsExact
<1>1. Init => TreesOK /\ StreamOK
  BY TreesInit, ClosedIs DEF Init, StreamOK
<1>2. TreesOK /\ StreamOK /\ [Next]_vars => (TreesOK /\ StreamOK)'
  BY TreesNext, StepIsKind, StreamStep
<1>3. TreesOK /\ StreamOK => ListingsExact
  <2> SUFFICES ASSUME StreamOK PROVE ListingsExact
    OBVIOUS
  <2>1. CASE stream.open
    BY <2>1 DEF StreamOK, StreamIn, Exact, ListOK, ListingsExact
  <2>2. CASE ~stream.open
    <3>1. stream = NoListing
      BY <2>2 DEF StreamOK, StreamIn
    <3>2. NoListing.twice = FALSE /\ NoListing.ended = FALSE
      BY DEF NoListing
    <3> QED
      BY <3>1, <3>2 DEF ListingsExact
  <2> QED
    BY <2>1, <2>2
<1> QED
  BY <1>1, <1>2, <1>3, PTL DEF Spec
----------------------------------------------------------------------------
(* The current directory stays *)

\* Outside the directories S, what leads from directory to directory is kept.
Keeps(t, u, S) ==
    /\ Closed(t, S) /\ DOMAIN t \ S \subseteq DOMAIN u
    /\ \A x, k : IsDir(t, x, k) /\ x \notin S /\ t[x][k].first \notin S =>
         IsDir(u, x, k) /\ u[x][k] = t[x][k]

\* Below S there is S only, so a path that ends outside S has not come through it.
LEMMA TraceOutside ==
    ASSUME NEW t, NEW q \in Seq(Spellings), NEW f, Trace(t, q, f), NEW S, Closed(t, S),
           f[Len(q)] \notin S
    PROVE  \A k \in 0 .. Len(q) : f[k] \notin S
<1> DEFINE n == Len(q)
           T == {j \in 0 .. n : f[n - j] \in S}
<1>1. n \in Nat
  OBVIOUS
<1>2. \A k \in 1 .. n : Leads(t, f[k - 1], Upper[q[k]], f[k])
  BY DEF Trace
<1>3. f[n] \notin S
  OBVIOUS
<1> HIDE DEF n
<1>4. \A k \in 1 .. n : f[k - 1] \in S => f[k] \in S
  BY <1>2 DEF Leads, Closed
<1>5. T = {}
  <2> SUFFICES ASSUME T # {} PROVE FALSE
    OBVIOUS
  <2>1. PICK j \in T : \A i \in T : j <= i
    <3>1. T \in SUBSET Nat
      OBVIOUS
    <3> HIDE DEF T
    <3> QED
      BY <3>1, Smallest
  <2>2. j \in 0 .. n /\ f[n - j] \in S
    BY <2>1
  <2>3. j # 0
    <3>1. n - 0 = n
      BY <1>1
    <3> QED
      BY <1>3, <2>2, <3>1
  <2>4. j - 1 \in 0 .. n /\ ~(j <= j - 1) /\ n - (j - 1) \in 1 .. n /\ n - (j - 1) - 1 = n - j
    BY <1>1, <2>2, <2>3
  <2>5. f[n - (j - 1)] \notin S
    BY <2>1, <2>4
  <2>6. f[n - (j - 1)] \in S
    BY <1>4, <2>2, <2>4
  <2> QED
    BY <2>5, <2>6
<1>6. \A k \in 0 .. n : n - k \in 0 .. n /\ n - (n - k) = k
  BY <1>1
<1>7. \A k \in 0 .. n : f[k] \notin S
  BY <1>5, <1>6
<1> QED
  BY <1>7 DEF n

LEMMA WalkKept ==
    ASSUME NEW D, NEW t, VolumeOK(t, D), NEW u, VolumeOK(u, D), NEW q \in Seq(Spellings),
           WalkIn(t, q).status = "ok", NEW S, Keeps(t, u, S), WalkIn(t, q).dir \notin S
    PROVE  WalkIn(u, q).status = "ok"
<1>1. PICK f : Trace(t, q, f) /\ f[Len(q)] = WalkIn(t, q).dir
  BY WalkHasTrace
<1>2. Closed(t, S)
  BY DEF Keeps
<1>3. \A k \in 0 .. Len(q) : f[k] \notin S
  BY <1>1, <1>2, TraceOutside
<1>4. Trace(u, q, f)
  <2> DEFINE n == Len(q)
  <2>1. n \in Nat
    OBVIOUS
  <2>2. /\ f \in [0 .. n -> DOMAIN t] /\ f[0] = 0 /\ \A k \in 0 .. n : f[k] \notin S
        /\ \A k \in 1 .. n : Leads(t, f[k - 1], Upper[q[k]], f[k])
    BY <1>1, <1>3 DEF Trace
  <2> HIDE DEF n
  <2>3. f \in [0 .. n -> DOMAIN u]
    BY <2>2 DEF Keeps
  <2>4. ASSUME NEW k \in 1 .. n
        PROVE  Leads(u, f[k - 1], Upper[q[k]], f[k])
    <3>1. k - 1 \in 0 .. n /\ k \in 0 .. n
      BY <2>1
    <3>2. PICK i : IsDir(t, f[k - 1], i) /\ t[f[k - 1]][i].name = Upper[q[k]]
                   /\ t[f[k - 1]][i].first = f[k]
      BY <2>2 DEF Leads
    <3>3. IsDir(u, f[k - 1], i) /\ u[f[k - 1]][i] = t[f[k - 1]][i]
      BY <2>2, <3>1, <3>2 DEF Keeps
    <3> QED
      BY <3>2, <3>3 DEF Leads
  <2> QED
    BY <2>2, <2>3, <2>4 DEF Trace, n
<1> QED
  BY <1>4, TraceIsWalk

\* A path in capitals leads where it led.
LEMMA WalkPacked ==
    ASSUME NEW D, NEW t, VolumeOK(t, D), NEW q \in Seq(Spellings), NEW r \in Seq(Spellings),
           Len(r) = Len(q), \A k \in 1 .. Len(q) : Upper[r[k]] = Upper[q[k]],
           WalkIn(t, q).status = "ok"
    PROVE  WalkIn(t, r).status = "ok"
<1>1. PICK f : Trace(t, q, f)
  BY WalkHasTrace
<1>2. Trace(t, r, f)
  BY <1>1 DEF Trace
<1> QED
  BY <1>2, TraceIsWalk

Here(V, M, c) ==
    WalkIn(V[M[MountedIn(M, c)].vol], Below(M[MountedIn(M, c)].point, c)).status = "ok"

LEMMA CwdThereIs == CwdThere <=> Here(vol, mounts, cwd)
  BY ResolveInIs DEF CwdThere, ResolveIn, Here

LEMMA CwdThereNext == CwdThere' <=> Here(vol', mounts', cwd')
<1>1. (CwdThere <=> Here(vol, mounts, cwd))'
  BY CwdThereIs, PTL
<1> QED
  BY <1>1 DEF Here

\* The volume and the path below it that a path is resolved to.
LEMMA ResolvedAt ==
    ASSUME NEW M, MountsOK(M), NEW c \in Seq(Spellings)
    PROVE  /\ MountedIn(M, c) \in UsedIn(M) /\ M[MountedIn(M, c)].vol \in Volumes
           /\ M[MountedIn(M, c)].point \in Seq(Spellings)
           /\ IsPrefix(M[MountedIn(M, c)].point, c)
           /\ Below(M[MountedIn(M, c)].point, c) \in Seq(Spellings)
<1> DEFINE i == MountedIn(M, c)
<1>1. i \in UsedIn(M) /\ IsPrefix(M[i].point, c)
  BY MountedIs DEF FoundAt
<1>2. M[i].point \in Seq(Spellings) /\ M[i].vol \in Volumes
  BY <1>1 DEF MountsOK, UsedIn
<1> HIDE DEF i
<1>3. Below(M[i].point, c) \in Seq(Spellings)
  BY <1>1, <1>2, BelowIs
<1> QED
  BY <1>1, <1>2, <1>3 DEF i

\* A change of one volume, outside the directories S.
LEMMA ChangeHere ==
    ASSUME VolumesOK(vol), VolumesOK(vol'), MountsOK(mounts), cwd \in Seq(Spellings),
           UNCHANGED <<mounts, cwd>>, CwdThere,
           NEW v \in Volumes, vol' = [vol EXCEPT ![v] = vol'[v]], NEW S, Keeps(vol[v], vol'[v], S),
           ~(ResolveDir(cwd).vol = v /\ ResolveDir(cwd).dir \in S)
    PROVE  CwdThere'
<1> DEFINE i == MountedIn(mounts, cwd)
           w == mounts[i].vol
           q == Below(mounts[i].point, cwd)
<1>1. w \in Volumes /\ q \in Seq(Spellings)
  BY ResolvedAt
<1>2. WalkIn(vol[w], q).status = "ok"
  BY CwdThereIs DEF Here
<1>3. ResolveDir(cwd).vol = w /\ ResolveDir(cwd).dir = WalkIn(vol[w], q).dir
  BY ResolveInIs DEF ResolveIn
<1>4. Here(vol', mounts, cwd) <=> WalkIn(vol'[w], q).status = "ok"
  BY DEF Here
<1>5. CwdThere' <=> Here(vol', mounts', cwd')
  BY CwdThereNext
<1>6. Here(vol', mounts', cwd') <=> Here(vol', mounts, cwd)
  OBVIOUS
<1> HIDE DEF w, q, i
<1>7. CASE w # v
  <2>1. vol'[w] = vol[w]
    BY <1>1, <1>7 DEF VolumesOK
  <2> QED
    BY <1>2, <1>4, <1>5, <1>6, <2>1
<1>8. CASE w = v
  <2>1. VolumeOK(vol[w], Dirs[w]) /\ VolumeOK(vol'[w], Dirs[w])
    BY <1>1 DEF VolumesOK
  <2>2. Keeps(vol[w], vol'[w], S) /\ WalkIn(vol[w], q).dir \notin S
    BY <1>3, <1>8
  <2>3. WalkIn(vol'[w], q).status = "ok"
    BY <1>1, <1>2, <2>1, <2>2, WalkKept
  <2> QED
    BY <1>4, <1>5, <1>6, <2>3
<1> QED
  BY <1>7, <1>8
LEMMA MakeKeepsWays ==
    ASSUME NEW D, NEW t, Slotted(t, D), NEW u, NEW d, NEW i, NEW e, NEW new,
           IsMade(t, u, D, d, i, e, new)
    PROVE  Keeps(t, u, {})
<1>1. CanChange(t, u, D, d, i, e, new, {})
  BY DEF IsMade, CanChange
<1>2. IsChanged(t, u, D, d, i, e, new, {})
  BY <1>1, ChangedIs
<1>3. ~IsDir(t, d, i)
  BY DEF IsMade
<1> QED
  BY <1>2, <1>3 DEF IsChanged, Keeps, Closed, IsDir

LEMMA RenameKeepsWays ==
    ASSUME NEW D, NEW t, Slotted(t, D), NEW u, NEW d, NEW i, NEW e, IsRenamed(t, u, d, i, e),
           NEW S, Closed(t, S), IsDir(t, d, i) => t[d][i].first \in S
    PROVE  Keeps(t, u, S)
<1>1. CanChange(t, u, D, d, i, e, {}, {})
  BY DEF IsRenamed, CanChange
<1>2. IsChanged(t, u, D, d, i, e, {}, {})
  BY <1>1, ChangedIs
<1> QED
  BY <1>2 DEF IsChanged, Keeps, IsDir

LEMMA UnlinkKeepsWays ==
    ASSUME NEW D, NEW t, Slotted(t, D), NEW u, NEW d, NEW i, NEW lost, IsUnlinked(t, u, d, i, lost)
    PROVE  Keeps(t, u, lost)
<1>1. CanChange(t, u, D, d, i, Hole, {}, lost)
  BY DEF IsUnlinked, CanChange
<1>2. IsChanged(t, u, D, d, i, Hole, {}, lost)
  BY <1>1, ChangedIs
<1>3. Closed(t, lost) /\ (IsDir(t, d, i) => t[d][i].first \in lost)
  BY DEF IsUnlinked, IsSubtree, Closed
<1> QED
  BY <1>2, <1>3 DEF IsChanged, Keeps, IsDir

\* The table may change where the current directory is not below.
LEMMA TableHere ==
    ASSUME MountsOK(mounts), MountsOK(mounts'), cwd \in Seq(Spellings), UNCHANGED <<vol, cwd>>,
           CwdThere,
           \A j \in UsedIn(mounts) : IsPrefix(mounts[j].point, cwd) =>
             j \in UsedIn(mounts') /\ mounts'[j] = mounts[j],
           \A j \in UsedIn(mounts') : IsPrefix(mounts'[j].point, cwd) =>
             j \in UsedIn(mounts) /\ mounts'[j] = mounts[j]
    PROVE  CwdThere'
<1> DEFINE i == MountedIn(mounts, cwd)
<1>1. FoundAt(mounts, cwd, i)
  BY MountedIs
<1> HIDE DEF i
<1>2. FoundAt(mounts', cwd, i)
  BY <1>1 DEF FoundAt
<1>3. MountedIn(mounts', cwd) = i
  BY <1>2, MountedIs
<1>4. mounts'[i] = mounts[i]
  BY <1>1 DEF FoundAt
<1>5. Here(vol, mounts, cwd)
  BY CwdThereIs
<1>6. Here(vol', mounts', cwd')
  BY <1>3, <1>4, <1>5 DEF Here, i
<1> QED
  BY <1>6, CwdThereNext

\* CHDIR to a directory, by the same mount point in capitals.
LEMMA ChdirHere ==
    ASSUME VolumesOK(vol), MountsOK(mounts), NEW p \in Seq(Spellings), UNCHANGED <<vol, mounts>>,
           cwd' = Packed(p), ResolveDir(p).status = "ok", Mounted(p) = Mounted(Packed(p))
    PROVE  CwdThere'
<1> DEFINE c == Packed(p)
           i == MountedIn(mounts, p)
           m == mounts[i].point
           v == mounts[i].vol
           q == Below(m, p)
           r == Below(m, c)
<1>1. c \in Seq(Spellings) /\ Len(c) = Len(p) /\ \A k \in 1 .. Len(p) : Upper[c[k]] = Upper[p[k]]
  BY PackedIs
<1>2. MountedIn(mounts, c) = i
  BY MountedInIs
<1>3. /\ v \in Volumes /\ m \in Seq(Spellings) /\ IsPrefix(m, p) /\ q \in Seq(Spellings)
  BY ResolvedAt
<1>4. WalkIn(vol[v], q).status = "ok"
  BY ResolveInIs DEF ResolveIn
<1>5. Here(vol, mounts, c) <=> WalkIn(vol[v], r).status = "ok"
  BY <1>2 DEF Here
<1>6. Here(vol', mounts', cwd') <=> Here(vol, mounts, c)
  OBVIOUS
<1> HIDE DEF c, i, v
<1>7. IsPrefix(m, c) /\ r \in Seq(Spellings)
  BY <1>1, <1>2, ResolvedAt
<1> HIDE DEF m
<1>8. /\ Len(q) = Len(p) - Len(m) /\ \A k \in 1 .. Len(p) - Len(m) : q[k] = p[Len(m) + k]
  BY <1>3, BelowIs
<1>9. /\ Len(r) = Len(c) - Len(m) /\ \A k \in 1 .. Len(c) - Len(m) : r[k] = c[Len(m) + k]
  BY <1>1, <1>3, <1>7, BelowIs
<1>10. Len(m) \in Nat /\ Len(p) \in Nat
  BY <1>3
<1> HIDE DEF q, r
<1>11. Len(r) = Len(q) /\ \A k \in 1 .. Len(q) : Upper[r[k]] = Upper[q[k]]
  <2>1. \A k \in 1 .. Len(p) - Len(m) : Len(m) + k \in 1 .. Len(p)
    BY <1>10
  <2>2. Len(r) = Len(q)
    BY <1>1, <1>8, <1>9
  <2>3. ASSUME NEW k \in 1 .. Len(q)
        PROVE  Upper[r[k]] = Upper[q[k]]
    <3>1. r[k] = c[Len(m) + k] /\ q[k] = p[Len(m) + k] /\ Len(m) + k \in 1 .. Len(p)
      BY <1>1, <1>8, <1>9, <2>1
    <3> QED
      BY <1>1, <3>1
  <2> QED
    BY <2>2, <2>3
<1>12. VolumeOK(vol[v], Dirs[v])
  BY <1>3 DEF VolumesOK
<1>13. WalkIn(vol[v], r).status = "ok"
  BY <1>3, <1>4, <1>7, <1>11, <1>12, WalkPacked
<1> QED
  BY <1>5, <1>6, <1>13, CwdThereNext

Supported == "busy directory" \notin Risky /\ "busy mount" \notin Risky /\ "mount spelling" \notin Risky

LEMMA CwdStep ==
    ASSUME TreesOK, TreesOK', CwdThere, StepKind, Supported
    PROVE  CwdThere'
<1>0. /\ VolumesOK(vol) /\ VolumesOK(vol') /\ MountsOK(mounts) /\ MountsOK(mounts')
      /\ cwd \in Seq(Spellings)
  <2>1. cwd \in Seq(Names) /\ Names \subseteq Spellings
    BY SpellingsAssumption DEF TreesOK
  <2>2. cwd \in Seq(Spellings)
    BY <2>1
  <2>3. VolumesOK(vol)' /\ MountsOK(mounts)'
    BY DEF TreesOK
  <2> QED
    BY <2>2, <2>3 DEF TreesOK, VolumesOK, MountsOK
<1>1. ASSUME UNCHANGED <<vol, mounts, cwd>>
      PROVE  CwdThere'
  <2>1. Here(vol', mounts', cwd')
    BY <1>1, CwdThereIs DEF Here
  <2> QED
    BY <2>1, CwdThereNext
<1>2. \A v \in Volumes : VolumeOK(vol[v], Dirs[v]) /\ Slotted(vol[v], Dirs[v])
  BY <1>0 DEF VolumesOK, VolumeOK
<1>3. ASSUME NEW v, NEW d, NEW i, NEW e, NEW new, MadeAt(v, d, i, e, new)
      PROVE  CwdThere'
  <2>1. v \in Volumes /\ vol' = [vol EXCEPT ![v] = vol'[v]] /\ UNCHANGED <<mounts, cwd>>
        /\ IsMade(vol[v], vol'[v], Dirs[v], d, i, e, new)
    BY <1>3 DEF MadeAt
  <2> DEFINE S == {}
  <2>2. Keeps(vol[v], vol'[v], S)
    BY <1>2, <2>1, MakeKeepsWays
  <2>3. ~(ResolveDir(cwd).vol = v /\ ResolveDir(cwd).dir \in S)
    OBVIOUS
  <2> HIDE DEF S
  <2> QED
    BY <1>0, <2>1, <2>2, <2>3, ChangeHere
<1>4. ASSUME NEW v, NEW d, NEW i, NEW e, RenamedAt(v, d, i, e)
      PROVE  CwdThere'
  <2>1. v \in Volumes /\ vol' = [vol EXCEPT ![v] = vol'[v]] /\ UNCHANGED <<mounts, cwd>>
        /\ IsRenamed(vol[v], vol'[v], d, i, e) /\ ~Current(v, vol[v][d][i])
    BY <1>4 DEF RenamedAt, Supported
  <2> DEFINE b == vol[v][d][i].first
             S == IF IsDir(vol[v], d, i) THEN Subtree(v, b) ELSE {}
  <2>2. Closed(vol[v], S) /\ (IsDir(vol[v], d, i) => b \in S)
    <3>1. CASE ~IsDir(vol[v], d, i)
      BY <3>1 DEF Closed
    <3>2. CASE IsDir(vol[v], d, i)
      <4>1. b \in DOMAIN vol[v] \ {0}
        BY <1>2, <2>1, <3>2 DEF VolumeOK, Inside
      <4>2. IsFiniteSet(Dirs[v]) /\ VolumeOK(vol[v], Dirs[v])
        BY <1>2, <2>1, SizesAssumption
      <4> HIDE DEF b
      <4>3. IsSubtree(vol[v], b, SubtreeIn(vol[v], Cardinality(Dirs[v]), b))
        BY <4>1, <4>2, SubtreeIs
      <4>4. S = SubtreeIn(vol[v], Cardinality(Dirs[v]), b)
        BY <3>2, SubtreeInIs
      <4> QED
        BY <4>3, <4>4 DEF IsSubtree, Closed
    <3> QED
      BY <3>1, <3>2
  <2>3. ~(ResolveDir(cwd).vol = v /\ ResolveDir(cwd).dir \in S)
    BY <2>1 DEF Current, LeadsTo, IsDir
  <2> HIDE DEF S
  <2>4. Keeps(vol[v], vol'[v], S)
    BY <1>2, <2>1, <2>2, RenameKeepsWays
  <2> QED
    BY <1>0, <2>1, <2>3, <2>4, ChangeHere
<1>5. ASSUME NEW v, NEW d, NEW i, NEW lost, UnlinkedAt(v, d, i, lost)
      PROVE  CwdThere'
  <2>1. v \in Volumes /\ vol' = [vol EXCEPT ![v] = vol'[v]] /\ UNCHANGED <<mounts, cwd>>
        /\ IsUnlinked(vol[v], vol'[v], d, i, lost) /\ ~Current(v, vol[v][d][i])
        /\ (IsDir(vol[v], d, i) => lost = Subtree(v, vol[v][d][i].first))
    BY <1>5 DEF UnlinkedAt, Supported
  <2>2. ~(ResolveDir(cwd).vol = v /\ ResolveDir(cwd).dir \in lost)
    BY <2>1 DEF Current, LeadsTo, IsDir, IsUnlinked
  <2>3. Keeps(vol[v], vol'[v], lost)
    BY <1>2, <2>1, UnlinkKeepsWays
  <2> QED
    BY <1>0, <2>1, <2>2, <2>3, ChangeHere
<1>6. ASSUME NEW p \in Seq(Spellings), Chdir(p)
      PROVE  CwdThere'
  <2>1. /\ UNCHANGED <<vol, mounts>> /\ Mounted(p) = Mounted(Packed(p))
        /\ cwd' = IF ResolveDir(p).status = "ok" THEN Packed(p) ELSE cwd
    BY <1>6 DEF Chdir, Supported
  <2>2. CASE ResolveDir(p).status = "ok"
    BY <1>0, <2>1, <2>2, ChdirHere
  <2>3. CASE ResolveDir(p).status # "ok"
    BY <1>1, <2>1, <2>3
  <2> QED
    BY <2>2, <2>3
<1>7. ASSUME NEW m \in Points, NEW v \in Mountable, Mount(m, v)
      PROVE  CwdThere'
  <2>1. UNCHANGED <<vol, cwd>> /\ (\/ UNCHANGED mounts
                                   \/ ~IsPrefix(m, cwd) /\ \E i : Mounts(mounts, mounts', i, m, v))
    BY <1>7, MountIs DEF TreesOK, Supported
  <2>2. ASSUME NEW i, Mounts(mounts, mounts', i, m, v), ~IsPrefix(m, cwd)
        PROVE  CwdThere'
    <3>1. /\ UsedIn(mounts') = UsedIn(mounts) \cup {i} /\ mounts'[i].point = m
          /\ \A j \in UsedIn(mounts) : mounts'[j] = mounts[j]
      BY <1>0, <2>2, MountsKept
    <3> QED
      BY <1>0, <2>1, <2>2, <3>1, TableHere
  <2> QED
    BY <1>1, <2>1, <2>2
<1>8. ASSUME NEW m \in Points, Unmount(m)
      PROVE  CwdThere'
  <2>1. UNCHANGED <<vol, cwd>> /\ (\/ UNCHANGED mounts
                                   \/ ~IsPrefix(m, cwd) /\ Unmounts(mounts, mounts', m))
    BY <1>8, UnmountIs DEF Supported
  <2>2. ASSUME Unmounts(mounts, mounts', m), ~IsPrefix(m, cwd)
        PROVE  CwdThere'
    <3>1. /\ UsedIn(mounts') = {j \in UsedIn(mounts) : mounts[j].point # m}
          /\ \A j \in UsedIn(mounts') : mounts'[j] = mounts[j]
      BY <1>0, <2>2, UnmountsKept
    <3> QED
      BY <1>0, <2>1, <2>2, <3>1, TableHere
  <2> QED
    BY <1>1, <2>1, <2>2
<1>9. Looked \/ Opendir \/ Readdir \/ Closedir => UNCHANGED <<vol, mounts, cwd>>
  BY DEF Looked, Opendir, Readdir, Closedir
<1> QED
  BY <1>1, <1>3, <1>4, <1>5, <1>6, <1>7, <1>8, <1>9 DEF StepKind

LEMMA CwdInit ==
    ASSUME Init
    PROVE  CwdThere
<1>1. MountsOK(mounts) /\ cwd = << >> /\ VolumesOK(vol)
  BY TreesInit DEF TreesOK, Init
<1>2. << >> \in Seq(Spellings)
  OBVIOUS
<1> DEFINE i == MountedIn(mounts, << >>)
           m == mounts[i].point
           v == mounts[i].vol
<1>3. m \in Seq(Spellings) /\ IsPrefix(m, << >>) /\ v \in Volumes
  BY <1>1, <1>2, ResolvedAt
<1> HIDE DEF m, v
<1>4. Below(m, << >>) = << >>
  <2>1. Below(m, << >>) \in Seq(Spellings) /\ Len(Below(m, << >>)) = 0 - Len(m)
    BY <1>2, <1>3, BelowIs
  <2>2. Len(m) <= 0 /\ Len(m) \in Nat
    BY <1>3 DEF IsPrefix
  <2>3. Len(Below(m, << >>)) = 0
    BY <2>1, <2>2
  <2> QED
    BY <2>1, <2>3
<1>5. VolumeOK(vol[v], Dirs[v])
  BY <1>1, <1>3 DEF VolumesOK
<1>6. Trace(vol[v], << >>, [k \in 0 .. 0 |-> 0])
  BY <1>5 DEF Trace, VolumeOK, Slotted
<1>7. WalkIn(vol[v], << >>).status = "ok"
  BY <1>2, <1>5, <1>6, TraceIsWalk
<1>8. Here(vol, mounts, cwd)
  BY <1>1, <1>4, <1>7 DEF Here, m, v
<1> QED
  BY <1>8, CwdThereIs

\* Where nothing unsupported is done, the current directory is a directory,
\* whatever is made, removed, renamed and mounted, and however the path that
\* led there was spelled.
THEOREM CwdIsThere ==
    ASSUME Supported
    PROVE  Spec => []CwdThere
<1>1. Init => TreesOK /\ CwdThere
  BY TreesInit, CwdInit
<1>2. TreesOK /\ CwdThere /\ [Next]_vars => (TreesOK /\ CwdThere)'
  BY TreesNext, StepIsKind, CwdStep
<1> QED
  BY <1>1, <1>2, PTL DEF Spec
=============================================================================
