---------------------------- MODULE Shell_proofs ----------------------------
(***************************************************************************)
(* For every number of slots, shells above each other, stages and files:   *)
(* lines leave no handle behind, redirects lead where the innermost line   *)
(* led them, and the outermost shell's line is what Streams promises.      *)
(***************************************************************************)
EXTENDS Shell, SequenceTheorems, WellFoundedInduction, TLAPS

----------------------------------------------------------------------------
(* The kernel's calls *)

Volumes == UNION {[D -> Seq(Bytes)] : D \in SUBSET Paths}
Kernels == [open : [Slots -> Entry], redirect : Handles, stdin : Handles, content : Volumes]

\* From q to r the slots H, and the files P, stay as they are.
Same(q, r, H, P) ==
    /\ \A h \in H : r.open[h] = q.open[h]
    /\ \A p \in P : /\ Exists(r, p) <=> Exists(q, p)
                    /\ Exists(q, p) => r.content[p] = q.content[p]

LEMMA SameLess ==
  ASSUME NEW q, NEW r, NEW H, NEW P, NEW H2 \in SUBSET H, NEW P2 \in SUBSET P,
         Same(q, r, H, P)
  PROVE  Same(q, r, H2, P2)
BY DEF Same

LEMMA SameTwice ==
  ASSUME NEW q, NEW r, NEW t, NEW H, NEW P, Same(q, r, H, P), Same(r, t, H, P)
  PROVE  Same(q, t, H, P)
BY DEF Same

LEMMA LessWellFounded ==
    \E R : IsWellFoundedOn(R, Nat) /\ \A x, y \in Nat : y < x => <<y, x>> \in R
<1> WITNESS OpToRel(<, Nat)
<1>1. IsWellFoundedOn(OpToRel(<, Nat), Nat)
  BY NatLessThanWellFounded
<1>2. \A x, y \in Nat : y < x => <<y, x>> \in OpToRel(<, Nat)
  BY DEF OpToRel
<1> QED
  BY <1>1, <1>2, Zenon

LEMMA Least ==
    ASSUME NEW T \in SUBSET Nat, T # {}
    PROVE  \E x \in T : \A y \in T : x <= y
<1>1. PICK R : IsWellFoundedOn(R, Nat) /\ \A x, y \in Nat : y < x => <<y, x>> \in R
  BY LessWellFounded, Zenon
<1>2. \E x \in T : \A y \in T : ~(<<y, x>> \in R)
  BY <1>1, WFMin
<1>3. \A x, y \in T : ~(<<y, x>> \in R) => x <= y
  BY <1>1
<1> QED
  BY <1>2, <1>3, Zenon

\* A set of slots that is not empty has a first one.
LEMMA FirstIn ==
    ASSUME NEW S \in SUBSET Slots, S # {}
    PROVE  First(S) \in S
<1>1. S \in SUBSET Nat
  BY DEF Slots
<1>2. \E x \in S : \A y \in S : x <= y
  BY <1>1, Least
<1> QED
  BY <1>2 DEF First

LEMMA NoSlot == None \notin Slots /\ Handles = Slots \cup {None} /\ Slots \subseteq Nat
BY TableAssumption DEF Slots, Handles

LEMMA KernelFields ==
  ASSUME NEW q \in Kernels
  PROVE  /\ q = [open |-> q.open, redirect |-> q.redirect, stdin |-> q.stdin,
                 content |-> q.content]
         /\ q.open \in [Slots -> Entry]
         /\ q.redirect \in Handles /\ q.stdin \in Handles
         /\ DOMAIN q.content \subseteq Paths
         /\ q.content \in [DOMAIN q.content -> Seq(Bytes)]
         /\ InUse(q) \subseteq Slots
<1>1. PICK D \in SUBSET Paths : q.content \in [D -> Seq(Bytes)]
  BY DEF Kernels, Volumes
<1> QED
  BY <1>1 DEF Kernels, InUse

LEMMA KernelMade ==
  ASSUME NEW o \in [Slots -> Entry], NEW h \in Handles, NEW i \in Handles,
         NEW D \in SUBSET Paths, NEW c \in [D -> Seq(Bytes)]
  PROVE  [open |-> o, redirect |-> h, stdin |-> i, content |-> c] \in Kernels
BY DEF Kernels, Volumes

LEMMA DeletedIs ==
  ASSUME NEW q \in Kernels, NEW p
  PROVE  LET r == Deleted(q, p)
         IN  /\ r \in Kernels
             /\ r.open = q.open /\ r.redirect = q.redirect /\ r.stdin = q.stdin
             /\ InUse(r) = InUse(q)
             /\ ~Exists(r, p)
             /\ Same(q, r, Slots, Paths \ {p})
<1> DEFINE r == Deleted(q, p)
           c == [x \in DOMAIN q.content \ {p} |-> q.content[x]]
<1>1. r = [open |-> q.open, redirect |-> q.redirect, stdin |-> q.stdin, content |-> c]
  BY KernelFields DEF Deleted
<1>2. c \in [DOMAIN q.content \ {p} -> Seq(Bytes)] /\ DOMAIN q.content \ {p} \in SUBSET Paths
  BY KernelFields
<1> HIDE DEF c, r
<1>a. [open |-> q.open, redirect |-> q.redirect, stdin |-> q.stdin, content |-> c] \in Kernels
  BY <1>2, KernelFields, KernelMade
<1>3. r \in Kernels
  BY <1>1, <1>a
<1>4. r.open = q.open /\ r.redirect = q.redirect /\ r.stdin = q.stdin /\ r.content = c
  BY <1>1
<1>5. InUse(r) = InUse(q) /\ ~Exists(r, p)
  BY <1>4 DEF InUse, Exists, c
<1>6. Same(q, r, Slots, Paths \ {p})
  BY <1>4 DEF Same, Exists, c
<1> QED
  BY <1>3, <1>4, <1>5, <1>6 DEF r

\* One slot changes, and nothing else does.
WithEntry(q, h, e) == [q EXCEPT !.open[h] = e]

LEMMA EntryTaken ==
  ASSUME NEW q \in Kernels, NEW h \in Slots, NEW e \in Entry
  PROVE  LET r == WithEntry(q, h, e)
         IN  /\ r \in Kernels
             /\ r.redirect = q.redirect /\ r.stdin = q.stdin /\ r.content = q.content
             /\ r.open[h] = e
             /\ InUse(r) = IF e.used THEN InUse(q) \cup {h} ELSE InUse(q) \ {h}
             /\ Same(q, r, Slots \ {h}, Paths)
<1> DEFINE r == WithEntry(q, h, e)
           o == [q.open EXCEPT ![h] = e]
<1>1. r = [open |-> o, redirect |-> q.redirect, stdin |-> q.stdin, content |-> q.content]
  BY KernelFields DEF WithEntry
<1>2. o \in [Slots -> Entry] /\ \A s \in Slots : o[s] = IF s = h THEN e ELSE q.open[s]
  BY KernelFields
<1>b. e.used \in BOOLEAN
  BY DEF Entry
<1> HIDE DEF o, r
<1>a. [open |-> o, redirect |-> q.redirect, stdin |-> q.stdin, content |-> q.content]
      \in Kernels
  BY <1>2, KernelFields, KernelMade
<1>3. r \in Kernels
  BY <1>1, <1>a
<1>4. /\ r.open = o /\ r.redirect = q.redirect /\ r.stdin = q.stdin
      /\ r.content = q.content
  BY <1>1
<1>5. InUse(r) = IF e.used THEN InUse(q) \cup {h} ELSE InUse(q) \ {h}
  BY <1>b, <1>2, <1>4 DEF InUse
<1>6. Same(q, r, Slots \ {h}, Paths)
  BY <1>2, <1>4 DEF Same, Exists
<1> QED
  BY <1>2, <1>3, <1>4, <1>5, <1>6 DEF r

LEMMA OpenedIs ==
  ASSUME NEW q \in Kernels, NEW p \in Paths
  PROVE  LET h == OpenResult(q, p)
             r == Opened(q, p)
         IN  /\ r \in Kernels /\ h \in Handles
             /\ r.redirect = q.redirect /\ r.stdin = q.stdin /\ r.content = q.content
             /\ h = None => r = q /\ (Exists(q, p) => InUse(q) = Slots)
             /\ h # None => /\ h \in Slots \ InUse(q) /\ InUse(r) = InUse(q) \cup {h}
                            /\ r.open[h].path = p /\ r.open[h].pos = 0
                            /\ r.open[h].kind = "file"
                            /\ Exists(q, p)
                            /\ Same(q, r, Slots \ {h}, Paths)
<1> DEFINE h == OpenResult(q, p)
           r == Opened(q, p)
           e == [used |-> TRUE, kind |-> "file", path |-> p, pos |-> 0]
<1>1. h = None => r = q /\ (Exists(q, p) => InUse(q) = Slots)
  <2>1. \A S \in SUBSET Slots : S # {} => First(S) \in S
    BY FirstIn
  <2>2. FreeSlots(q) = Slots \ InUse(q)
    BY KernelFields DEF FreeSlots, InUse, Entry
  <2> QED
    BY ZenonT(30), <2>1, <2>2, NoSlot, KernelFields DEF Opened, OpenResult
<1>2. ASSUME h # None PROVE h \in Slots \ InUse(q) /\ Exists(q, p)
  BY <1>2, FirstIn DEF OpenResult, FreeSlots, InUse
<1>3. e \in Entry /\ e.used /\ e.path = p /\ e.pos = 0 /\ e.kind = "file"
  BY DEF Entry
<1>4. CASE h = None
  BY <1>1, <1>4, KernelFields DEF Handles
<1>5. CASE h # None
  <2>1. r = WithEntry(q, h, e)
    BY <1>5 DEF Opened, WithEntry
  <2> HIDE DEF h, r, e
  <2>2. /\ r \in Kernels
        /\ r.redirect = q.redirect /\ r.stdin = q.stdin /\ r.content = q.content
        /\ r.open[h] = e
        /\ InUse(r) = InUse(q) \cup {h}
        /\ Same(q, r, Slots \ {h}, Paths)
    BY ZenonT(30), <1>2, <1>3, <1>5, <2>1, EntryTaken
  <2> QED
    BY <1>2, <1>3, <1>5, <2>2 DEF Handles, h, r
<1> QED
  BY <1>4, <1>5
WithContent(q, c) == [q EXCEPT !.content = c]

LEMMA ContentSet ==
  ASSUME NEW q \in Kernels, NEW D \in SUBSET Paths, NEW c \in [D -> Seq(Bytes)]
  PROVE  LET r == WithContent(q, c)
         IN  /\ r \in Kernels
             /\ r.open = q.open /\ r.redirect = q.redirect /\ r.stdin = q.stdin
             /\ r.content = c
             /\ InUse(r) = InUse(q)
<1> DEFINE r == WithContent(q, c)
<1>1. r = [open |-> q.open, redirect |-> q.redirect, stdin |-> q.stdin, content |-> c]
  BY KernelFields DEF WithContent
<1> HIDE DEF r
<1>2. [open |-> q.open, redirect |-> q.redirect, stdin |-> q.stdin, content |-> c]
      \in Kernels
  BY KernelFields, KernelMade
<1>3. r \in Kernels
  BY <1>1, <1>2
<1>4. /\ r.open = q.open /\ r.redirect = q.redirect /\ r.stdin = q.stdin
      /\ r.content = c
  BY <1>1
<1>5. InUse(r) = InUse(q)
  BY <1>4 DEF InUse
<1> QED
  BY <1>3, <1>4, <1>5 DEF r

LEMMA WithIs ==
  ASSUME NEW q \in Kernels, NEW h \in Handles
  PROVE  /\ WithStdout(q, h) \in Kernels
         /\ WithStdout(q, h).redirect = h /\ WithStdout(q, h).stdin = q.stdin
         /\ WithStdout(q, h).open = q.open /\ WithStdout(q, h).content = q.content
         /\ InUse(WithStdout(q, h)) = InUse(q)
         /\ Same(q, WithStdout(q, h), Slots, Paths)
         /\ WithStdin(q, h) \in Kernels
         /\ WithStdin(q, h).redirect = q.redirect /\ WithStdin(q, h).stdin = h
         /\ WithStdin(q, h).open = q.open /\ WithStdin(q, h).content = q.content
         /\ InUse(WithStdin(q, h)) = InUse(q)
         /\ Same(q, WithStdin(q, h), Slots, Paths)
<1> DEFINE r == WithStdout(q, h)
           t == WithStdin(q, h)
<1>1. /\ r = [open |-> q.open, redirect |-> h, stdin |-> q.stdin, content |-> q.content]
      /\ t = [open |-> q.open, redirect |-> q.redirect, stdin |-> h, content |-> q.content]
  BY KernelFields DEF WithStdout, WithStdin
<1> HIDE DEF r, t
<1>2. /\ [open |-> q.open, redirect |-> h, stdin |-> q.stdin, content |-> q.content]
           \in Kernels
      /\ [open |-> q.open, redirect |-> q.redirect, stdin |-> h, content |-> q.content]
           \in Kernels
  BY KernelFields, KernelMade
<1>3. r \in Kernels /\ t \in Kernels
  BY <1>1, <1>2
<1>4. /\ r.open = q.open /\ r.redirect = h /\ r.stdin = q.stdin /\ r.content = q.content
      /\ t.open = q.open /\ t.redirect = q.redirect /\ t.stdin = h /\ t.content = q.content
  BY <1>1
<1>5. InUse(r) = InUse(q) /\ InUse(t) = InUse(q)
  BY <1>4 DEF InUse
<1>6. Same(q, r, Slots, Paths) /\ Same(q, t, Slots, Paths)
  BY <1>4 DEF Same, Exists
<1> QED
  BY <1>3, <1>4, <1>5, <1>6 DEF r, t

LEMMA ClosedIs ==
  ASSUME NEW q \in Kernels, NEW s \in Slots
  PROVE  LET r == Closed(q, s)
         IN  /\ r \in Kernels
             /\ r.redirect = q.redirect /\ r.stdin = q.stdin /\ r.content = q.content
             /\ InUse(r) = InUse(q) \ {s}
             /\ Same(q, r, Slots \ {s}, Paths)
<1> DEFINE r == Closed(q, s)
           e == [q.open[s] EXCEPT !.used = FALSE, !.path = None, !.pos = 0]
<1>0. q.open[s] \in Entry
  BY KernelFields
<1>1. e \in Entry /\ ~e.used
  BY <1>0 DEF Entry
<1>2. r = WithEntry(q, s, e)
  BY KernelFields DEF Closed, WithEntry
<1> HIDE DEF e, r
<1>3. /\ r \in Kernels
      /\ r.redirect = q.redirect /\ r.stdin = q.stdin /\ r.content = q.content
      /\ InUse(r) = InUse(q) \ {s}
      /\ Same(q, r, Slots \ {s}, Paths)
  BY <1>1, <1>2, EntryTaken
<1> QED
  BY <1>3 DEF r

LEMMA DeviceIs ==
  ASSUME NEW q \in Kernels
  PROVE  LET r == DeviceOpened(q)
         IN  /\ r \in Kernels
             /\ r.redirect = q.redirect /\ r.stdin = q.stdin /\ r.content = q.content
             /\ \/ r = q
                \/ \E h \in Slots \ InUse(q) :
                     /\ InUse(r) = InUse(q) \cup {h}
                     /\ r.open[h].kind = "serial"
                     /\ Same(q, r, Slots \ {h}, Paths)
<1> DEFINE r == DeviceOpened(q)
           h == First(FreeSlots(q))
           e == [used |-> TRUE, kind |-> "serial", path |-> None, pos |-> 0]
<1>1. e \in Entry /\ e.used /\ e.kind = "serial"
  BY DEF Entry
<1>2. CASE FreeSlots(q) = {}
  BY <1>2, KernelFields DEF DeviceOpened
<1>3. CASE FreeSlots(q) # {}
  <2>1. h \in Slots \ InUse(q)
    BY <1>3, FirstIn DEF FreeSlots, InUse
  <2>2. r = WithEntry(q, h, e)
    BY <1>3 DEF DeviceOpened, WithEntry
  <2> HIDE DEF h, e, r
  <2>3. /\ r \in Kernels
        /\ r.redirect = q.redirect /\ r.stdin = q.stdin /\ r.content = q.content
        /\ InUse(r) = InUse(q) \cup {h}
        /\ r.open[h] = e
        /\ Same(q, r, Slots \ {h}, Paths)
    BY <1>1, <2>1, <2>2, EntryTaken
  <2> QED
    BY <1>1, <2>1, <2>3 DEF r
<1> QED
  BY <1>2, <1>3

\* File p is made in q and opened in slot h, when there is one.
MadeIn(q, p, h, r) ==
    /\ r \in Kernels /\ h \in Handles
    /\ r.redirect = q.redirect /\ r.stdin = q.stdin
    /\ h = None => r = q
    /\ h # None => /\ h \in Slots \ InUse(q) /\ InUse(r) = InUse(q) \cup {h}
                   /\ r.open[h].path = p /\ r.open[h].pos = 0
                   /\ Exists(r, p) /\ r.content[p] = << >>
                   /\ Same(q, r, Slots \ {h}, Paths \ {p})

LEMMA CreatedIs ==
  ASSUME NEW q \in Kernels, NEW p \in Paths, NEW room \in BOOLEAN
  PROVE  MadeIn(q, p, CreateResult(q, p, room), Created(q, p, room))
<1> DEFINE h == CreateResult(q, p, room)
           r == Created(q, p, room)
           e == [q.open[h] EXCEPT !.used = TRUE, !.path = p, !.pos = 0]
           c == [x \in DOMAIN q.content \cup {p} |-> IF x = p THEN << >> ELSE q.content[x]]
<1>1. CASE h = None
  BY <1>1, KernelFields DEF Created, Handles, MadeIn
<1>2. CASE h # None
  <2>1. h \in Slots \ InUse(q)
    BY <1>2, FirstIn DEF CreateResult, FreeSlots, InUse
  <2>2. e \in Entry /\ e.used /\ e.path = p /\ e.pos = 0
    <3>1. q.open[h] \in Entry
      BY <2>1, KernelFields
    <3> HIDE DEF h
    <3> QED
      BY <3>1 DEF Entry
  <2>3. /\ DOMAIN q.content \cup {p} \in SUBSET Paths
        /\ c \in [DOMAIN q.content \cup {p} -> Seq(Bytes)]
    BY KernelFields
  <2>4. r = WithContent(WithEntry(q, h, e), c)
    BY <1>2, <2>1, KernelFields DEF Created, WithContent, WithEntry
  <2>5. c[p] = << >> /\ p \in DOMAIN c
        /\ \A x \in Paths \ {p} : /\ x \in DOMAIN c <=> x \in DOMAIN q.content
                                  /\ x \in DOMAIN q.content => c[x] = q.content[x]
    OBVIOUS
  <2> HIDE DEF h, e, r, c
  <2> DEFINE t == WithEntry(q, h, e)
  <2>6. /\ t \in Kernels
        /\ t.redirect = q.redirect /\ t.stdin = q.stdin /\ t.content = q.content
        /\ InUse(t) = InUse(q) \cup {h}
        /\ t.open[h] = e
        /\ Same(q, t, Slots \ {h}, Paths)
    BY <2>1, <2>2, EntryTaken
  <2> HIDE DEF t
  <2>7. /\ WithContent(t, c) \in Kernels /\ WithContent(t, c).open = t.open
        /\ WithContent(t, c).redirect = t.redirect /\ WithContent(t, c).stdin = t.stdin
        /\ WithContent(t, c).content = c /\ InUse(WithContent(t, c)) = InUse(t)
    BY <2>3, <2>6, ContentSet
  <2>8. r = WithContent(t, c)
    BY <2>4 DEF t
  <2>9. Same(q, r, Slots \ {h}, Paths \ {p}) /\ Exists(r, p) /\ r.content[p] = << >>
    BY <2>5, <2>6, <2>7, <2>8 DEF Same, Exists
  <2>10. /\ r \in Kernels /\ InUse(r) = InUse(q) \cup {h}
         /\ r.redirect = q.redirect /\ r.stdin = q.stdin
         /\ r.open[h].path = p /\ r.open[h].pos = 0
    BY <2>2, <2>6, <2>7, <2>8
  <2> QED
    BY <1>2, <2>1, <2>9, <2>10, NoSlot DEF h, r, MadeIn
<1> QED
  BY <1>1, <1>2
LEMMA StoredIs ==
  ASSUME NEW q \in Kernels, NEW s \in Slots, NEW b \in Bytes
  PROVE  LET r == Stored(q, s, b)
             p == q.open[s].path
         IN  /\ r \in Kernels /\ InUse(r) = InUse(q)
             /\ r.redirect = q.redirect /\ r.stdin = q.stdin
             /\ r.open[s].path = p /\ r.open[s].kind = q.open[s].kind
             /\ Same(q, r, Slots \ {s}, Paths \ {p})
             /\ Exists(q, p) /\ q.open[s].pos = Len(q.content[p]) =>
                  /\ Exists(r, p) /\ r.content[p] = Append(q.content[p], b)
                  /\ r.open[s].pos = Len(r.content[p])
<1> DEFINE r == Stored(q, s, b)
           e == q.open[s]
           p == e.path
           f == [e EXCEPT !.pos = @ + 1]
           d == IF e.pos < Len(q.content[p]) THEN [q.content[p] EXCEPT ![e.pos + 1] = b]
                                             ELSE Append(q.content[p], b)
           c == [q.content EXCEPT ![p] = d]
<1>0. e \in Entry /\ e.used \in BOOLEAN /\ e.pos \in Nat
  BY KernelFields DEF Entry
<1>2. /\ f \in Entry /\ f.path = p /\ f.kind = e.kind /\ f.used = e.used
      /\ f.pos = e.pos + 1
  <2> HIDE DEF e
  <2> QED
    BY <1>0 DEF Entry
<1>3. r = WithContent(WithEntry(q, s, f), c)
  BY KernelFields DEF Stored, WithContent, WithEntry
<1>4. DOMAIN q.content \in SUBSET Paths /\ c \in [DOMAIN q.content -> Seq(Bytes)]
  <2>1. ASSUME p \in DOMAIN q.content PROVE d \in Seq(Bytes)
    <3>1. q.content[p] \in Seq(Bytes)
      BY <2>1, KernelFields
    <3> HIDE DEF e, p
    <3>2. \A w \in Seq(Bytes) : Append(w, b) \in Seq(Bytes)
      OBVIOUS
    <3>3. \A w \in Seq(Bytes) : \A i \in 1 .. Len(w) : [w EXCEPT ![i] = b] \in Seq(Bytes)
      BY ExceptSeq
    <3>4. e.pos < Len(q.content[p]) => e.pos + 1 \in 1 .. Len(q.content[p])
      BY <1>0, <3>1
    <3> QED
      BY <3>1, <3>2, <3>3, <3>4
  <2> HIDE DEF d, e, p
  <2> QED
    BY <2>1, KernelFields
<1>5. ASSUME Exists(q, p), e.pos = Len(q.content[p])
      PROVE  p \in DOMAIN c /\ c[p] = Append(q.content[p], b) /\ f.pos = Len(c[p])
  <2>1. q.content[p] \in Seq(Bytes)
    BY <1>5, KernelFields DEF Exists
  <2>2. c[p] = d /\ p \in DOMAIN c
    BY <1>5 DEF Exists
  <2>3. d = Append(q.content[p], b)
    <3>1. \A u \in Seq(Bytes) : ~(Len(u) < Len(u))
      OBVIOUS
    <3>2. ~(e.pos < Len(q.content[p]))
      BY <1>5, <2>1, <3>1
    <3> QED
      BY <3>2
  <2> HIDE DEF c, d, e, f, p
  <2>4. Len(Append(q.content[p], b)) = Len(q.content[p]) + 1
    BY <2>1
  <2> QED
    BY <1>2, <1>5, <2>2, <2>3, <2>4
<1>6. \A x \in Paths \ {p} : /\ x \in DOMAIN c <=> x \in DOMAIN q.content
                             /\ x \in DOMAIN q.content => c[x] = q.content[x]
  <2> HIDE DEF d, e, p
  <2> QED
    OBVIOUS
<1> DEFINE t == WithEntry(q, s, f)
<1> HIDE DEF c, d, f, t, r
<1>7. /\ t \in Kernels
      /\ t.redirect = q.redirect /\ t.stdin = q.stdin /\ t.content = q.content
      /\ t.open[s] = f
      /\ InUse(t) = IF f.used THEN InUse(q) \cup {s} ELSE InUse(q) \ {s}
      /\ Same(q, t, Slots \ {s}, Paths)
  BY <1>2, EntryTaken DEF t
<1>8. InUse(t) = InUse(q)
  BY <1>2, <1>7 DEF InUse
<1>9. /\ WithContent(t, c) \in Kernels /\ WithContent(t, c).open = t.open
      /\ WithContent(t, c).redirect = t.redirect /\ WithContent(t, c).stdin = t.stdin
      /\ WithContent(t, c).content = c /\ InUse(WithContent(t, c)) = InUse(t)
  BY <1>4, <1>7, ContentSet
<1>10. r = WithContent(t, c)
  BY <1>3 DEF t
<1> HIDE DEF e
<1>11. Same(q, r, Slots \ {s}, Paths \ {p})
  BY <1>6, <1>7, <1>9, <1>10 DEF Same, Exists
<1>12. Exists(q, p) /\ e.pos = Len(q.content[p]) =>
         /\ Exists(r, p) /\ r.content[p] = Append(q.content[p], b)
         /\ r.open[s].pos = Len(r.content[p])
  BY <1>5, <1>7, <1>9, <1>10 DEF Exists
<1> QED
  BY <1>2, <1>7, <1>8, <1>9, <1>10, <1>11, <1>12 DEF r, e

\* One byte b is written through slot s to file p, or left out on a full volume.
Wrote(q, s, p, b, r) ==
    /\ r \in Kernels /\ InUse(r) = InUse(q)
    /\ r.redirect = q.redirect /\ r.stdin = q.stdin
    /\ r.open[s].path = p /\ r.open[s].kind = q.open[s].kind
    /\ Same(q, r, Slots \ {s}, Paths \ {p})
    /\ Exists(q, p) /\ q.open[s].pos = Len(q.content[p]) =>
         /\ Exists(r, p) /\ r.open[s].pos = Len(r.content[p])
         /\ \/ r.content[p] = Append(q.content[p], b)
            \/ ~HasRoom(q) /\ r.content[p] = q.content[p]

LEMMA ThroughDone ==
  ASSUME NEW q \in Kernels, NEW s \in Slots, NEW b \in Bytes
  PROVE  Wrote(q, s, q.open[s].path, b, Through(q, s, b))
<1>1. CASE Fits(q, q.open[s])
  <2>1. Through(q, s, b) = Stored(q, s, b)
    BY <1>1 DEF Through
  <2>2. Wrote(q, s, q.open[s].path, b, Stored(q, s, b))
    <3> DEFINE r == Stored(q, s, b)
               p == q.open[s].path
    <3>1. /\ r \in Kernels /\ InUse(r) = InUse(q)
          /\ r.redirect = q.redirect /\ r.stdin = q.stdin
          /\ r.open[s].path = p /\ r.open[s].kind = q.open[s].kind
          /\ Same(q, r, Slots \ {s}, Paths \ {p})
          /\ Exists(q, p) /\ q.open[s].pos = Len(q.content[p]) =>
               /\ Exists(r, p) /\ r.content[p] = Append(q.content[p], b)
               /\ r.open[s].pos = Len(r.content[p])
      BY StoredIs
    <3> HIDE DEF r, p
    <3>2. Wrote(q, s, p, b, r)
      BY <3>1 DEF Wrote
    <3> QED
      BY <3>2 DEF r, p
  <2> QED
    BY <2>1, <2>2
<1>2. CASE ~Fits(q, q.open[s])
  <2>1. Through(q, s, b) = q
    BY <1>2 DEF Through
  <2>2. ~HasRoom(q)
    BY <1>2 DEF Fits
  <2>3. Same(q, q, Slots \ {s}, Paths \ {q.open[s].path})
    BY DEF Same
  <2> QED
    BY <2>1, <2>2, <2>3 DEF Wrote
<1> QED
  BY <1>1, <1>2

LEMMA MovedIs ==
  ASSUME NEW q \in Kernels, NEW s \in Slots, NEW j \in Nat
  PROVE  LET r == WithEntry(q, s, [q.open[s] EXCEPT !.pos = @ + j])
         IN  /\ r \in Kernels /\ InUse(r) = InUse(q)
             /\ r.redirect = q.redirect /\ r.stdin = q.stdin /\ r.content = q.content
             /\ r.open[s].path = q.open[s].path /\ r.open[s].kind = q.open[s].kind
             /\ r.open[s].pos = q.open[s].pos + j
             /\ Same(q, r, Slots \ {s}, Paths)
<1> DEFINE e == q.open[s]
           f == [e EXCEPT !.pos = @ + j]
           r == WithEntry(q, s, f)
<1>1. e \in Entry /\ e.used \in BOOLEAN /\ e.pos \in Nat
  BY KernelFields DEF Entry
<1>2. /\ f \in Entry /\ f.path = e.path /\ f.kind = e.kind /\ f.used = e.used
      /\ f.pos = e.pos + j
  <2> HIDE DEF e
  <2> QED
    BY <1>1 DEF Entry
<1> HIDE DEF f, r
<1>3. /\ r \in Kernels
      /\ r.redirect = q.redirect /\ r.stdin = q.stdin /\ r.content = q.content
      /\ r.open[s] = f
      /\ InUse(r) = IF f.used THEN InUse(q) \cup {s} ELSE InUse(q) \ {s}
      /\ Same(q, r, Slots \ {s}, Paths)
  BY <1>2, EntryTaken DEF r
<1>4. InUse(r) = InUse(q)
  BY <1>1, <1>2, <1>3 DEF InUse
<1> QED
  BY <1>2, <1>3, <1>4 DEF r, f

\* A read takes bytes from the front of the rest.
LEMMA ReadIs ==
  ASSUME NEW q \in Kernels, NEW s \in Slots, NEW n \in Nat,
         Exists(q, q.open[s].path), q.open[s].pos <= Len(q.content[q.open[s].path])
  PROVE  LET r == AfterRead(q, s, n)
             p == q.open[s].path
             m == IF n < Len(Rest(q, s)) THEN n ELSE Len(Rest(q, s))
         IN  /\ r \in Kernels /\ InUse(r) = InUse(q)
             /\ r.redirect = q.redirect /\ r.stdin = q.stdin /\ r.content = q.content
             /\ r.open[s].path = p /\ r.open[s].kind = q.open[s].kind
             /\ r.open[s].pos <= Len(r.content[p])
             /\ Same(q, r, Slots \ {s}, Paths)
             /\ m \in 0 .. n
             /\ Taken(q, s, n) = SubSeq(Rest(q, s), 1, m)
             /\ Rest(r, s) = SubSeq(Rest(q, s), m + 1, Len(Rest(q, s)))
<1> DEFINE r == AfterRead(q, s, n)
           e == q.open[s]
           p == e.path
           w == q.content[p]
           m == IF n < Len(Rest(q, s)) THEN n ELSE Len(Rest(q, s))
           f == [e EXCEPT !.pos = @ + m]
<1>0. e \in Entry /\ e.used \in BOOLEAN /\ e.pos \in Nat
  BY KernelFields DEF Entry
<1>1. w \in Seq(Bytes)
  BY KernelFields DEF Exists
<1>2. Rest(q, s) = SubSeq(w, e.pos + 1, Len(w)) /\ e.pos <= Len(w)
  BY DEF Rest
<1>3. Len(Rest(q, s)) = Len(w) - e.pos /\ Rest(q, s) \in Seq(Bytes)
  <2> HIDE DEF w, e
  <2> QED
    BY <1>0, <1>1, <1>2
<1>4. m \in 0 .. n /\ e.pos + m <= Len(w) /\ m <= Len(Rest(q, s)) /\ m \in Nat
  <2> HIDE DEF w, e
  <2>1. Len(w) \in Nat /\ Len(Rest(q, s)) \in Nat
    BY <1>1, <1>3
  <2>2. \A x, y \in Nat : /\ (IF x < y THEN x ELSE y) \in 0 .. x
                          /\ (IF x < y THEN x ELSE y) <= y
    OBVIOUS
  <2>3. m \in 0 .. n /\ m <= Len(Rest(q, s))
    BY <2>1, <2>2
  <2> HIDE DEF m
  <2> QED
    BY <1>0, <1>2, <1>3, <2>1, <2>3
<1>5. Taken(q, s, n) = SubSeq(Rest(q, s), 1, m) /\ Len(Taken(q, s, n)) = m
  <2>1. Taken(q, s, n) = SubSeq(Rest(q, s), 1, m)
    BY DEF Taken
  <2>2. \A u \in Seq(Bytes), i \in Nat : i <= Len(u) => Len(SubSeq(u, 1, i)) = i
    OBVIOUS
  <2> HIDE DEF m
  <2> QED
    BY <1>3, <1>4, <2>1, <2>2
<1>6. r = WithEntry(q, s, f)
  <2>1. r = WithEntry(q, s, [e EXCEPT !.pos = @ + Len(Taken(q, s, n))])
    BY KernelFields DEF AfterRead, WithEntry
  <2> QED
    BY <1>5, <2>1
<1> HIDE DEF r, m
<1>7. /\ r \in Kernels /\ InUse(r) = InUse(q)
      /\ r.redirect = q.redirect /\ r.stdin = q.stdin /\ r.content = q.content
      /\ r.open[s].path = p /\ r.open[s].kind = e.kind /\ r.open[s].pos = e.pos + m
      /\ Same(q, r, Slots \ {s}, Paths)
  BY ZenonT(30), <1>4, <1>6, MovedIs
<1> HIDE DEF e
<1>10. Rest(r, s) = SubSeq(w, e.pos + m + 1, Len(w))
  BY <1>7 DEF Rest
<1>11. Rest(r, s) = SubSeq(Rest(q, s), m + 1, Len(Rest(q, s)))
  <2> HIDE DEF w
  <2>1. \A u \in Seq(Bytes), i, j \in Nat : i + j <= Len(u) =>
          SubSeq(u, i + j + 1, Len(u)) = SubSeq(SubSeq(u, i + 1, Len(u)), j + 1, Len(u) - i)
    OBVIOUS
  <2>2. SubSeq(w, e.pos + m + 1, Len(w))
          = SubSeq(SubSeq(w, e.pos + 1, Len(w)), m + 1, Len(w) - e.pos)
    BY <1>0, <1>1, <1>4, <2>1
  <2> QED
    BY <1>2, <1>3, <1>10, <2>2
<1> QED
  BY <1>0, <1>2, <1>4, <1>5, <1>7, <1>11 DEF r, m, e

\* At most n bytes are read through slot s from file p.
ReadDone(q, s, n, p, r) ==
    LET m == IF n < Len(Rest(q, s)) THEN n ELSE Len(Rest(q, s))
    IN  /\ r \in Kernels /\ InUse(r) = InUse(q)
        /\ r.redirect = q.redirect /\ r.stdin = q.stdin /\ r.content = q.content
        /\ r.open[s].path = p /\ r.open[s].kind = q.open[s].kind
        /\ r.open[s].pos <= Len(r.content[p])
        /\ Same(q, r, Slots \ {s}, Paths)
        /\ m \in 0 .. n
        /\ Taken(q, s, n) = SubSeq(Rest(q, s), 1, m)
        /\ Rest(r, s) = SubSeq(Rest(q, s), m + 1, Len(Rest(q, s)))

LEMMA ReadIsDone ==
  ASSUME NEW q \in Kernels, NEW s \in Slots, NEW n \in Nat,
         Exists(q, q.open[s].path), q.open[s].pos <= Len(q.content[q.open[s].path])
  PROVE  ReadDone(q, s, n, q.open[s].path, AfterRead(q, s, n))
BY ReadIs DEF ReadDone

----------------------------------------------------------------------------
(* What the shell does with them *)

LEMMA PathsFacts ==
  /\ None \notin Paths
  /\ Targets \subseteq Paths /\ Work \subseteq Paths /\ Script \in Paths
  /\ \A i \in 1 .. 3 : Pipes[i] \in Paths /\ Pipes[i] \notin Targets /\ Pipes[i] \notin Work
  /\ \A i, j \in 1 .. 3 : i # j => Pipes[i] # Pipes[j]
  /\ Work \cap Targets = {}
<1>1. \A i, j \in 1 .. 3 : i # j => Pipes[i] # Pipes[j]
  BY DEF Pipes
<1> QED
  BY <1>1, TableAssumption, ShellAssumption, FilesAssumption

\* The place for a stage's output is a pipe, the target, or none.
LEMMA SinkIs ==
  ASSUME NEW n \in 1 .. MaxStages, NEW i \in 1 .. n, NEW t \in Targets \cup {None}
  PROVE  /\ i \in Nat /\ n \in Nat /\ n <= 4
         /\ i < n => i \in 1 .. 3 /\ SinkOf(i, n, t) = Pipes[i]
         /\ i = n => SinkOf(i, n, t) = t
         /\ SinkOf(i, n, t) \in Paths \cup {None}
         /\ i > 1 => /\ i - 1 \in 1 .. 3 /\ Pipes[i - 1] \in Paths
                     /\ SinkOf(i, n, t) # Pipes[i - 1]
<1>1. MaxStages \in 1 .. 4
  BY ShellAssumption
<1>2. /\ i \in Nat /\ n \in Nat /\ n <= 4 /\ 1 <= i /\ i <= n
      /\ i < n => i \in 1 .. 3
      /\ i > 1 => i - 1 \in 1 .. 3 /\ i - 1 # i
  BY <1>1
<1>3. i < n => SinkOf(i, n, t) = Pipes[i]
  BY DEF SinkOf
<1>4. i = n => SinkOf(i, n, t) = t
  BY <1>2 DEF SinkOf
<1>5. i < n \/ i = n
  BY <1>2
<1>6. i > 1 => Pipes[i - 1] \in Paths /\ SinkOf(i, n, t) # Pipes[i - 1]
  <2>1. i > 1 /\ i < n => Pipes[i - 1] # Pipes[i]
    BY <1>2, PathsFacts
  <2>2. i > 1 => Pipes[i - 1] \in Paths /\ Pipes[i - 1] # t
    BY <1>2, PathsFacts
  <2> QED
    BY <1>3, <1>4, <1>5, <2>1, <2>2
<1> QED
  BY <1>2, <1>3, <1>4, <1>5, <1>6, PathsFacts

\* File p, if there is one, is made in q and stdout led to it in slot h.
OutDone(q, p, h, r) ==
    /\ r \in Kernels /\ h \in Handles /\ r.stdin = q.stdin
    /\ p = None => h = None /\ r = q
    /\ h = None => InUse(r) = InUse(q) /\ r.redirect = q.redirect
    /\ h # None => /\ h \in Slots \ InUse(q) /\ InUse(r) = InUse(q) \cup {h}
                   /\ r.redirect = h
                   /\ r.open[h].path = p /\ r.open[h].pos = 0
                   /\ Exists(r, p) /\ r.content[p] = << >>
    /\ h = None /\ p # None => ~Exists(r, p)
    /\ Same(q, r, Slots \ {h}, Paths \ {p})

LEMMA OutDirectedIs ==
  ASSUME NEW q \in Kernels, NEW p \in Paths \cup {None}, NEW room \in BOOLEAN
  PROVE  OutDone(q, p, OutHandle(q, p, room), OutDirected(q, p, room))
<1> DEFINE r == OutDirected(q, p, room)
           h == OutHandle(q, p, room)
           d == Deleted(q, p)
           c == Created(d, p, room)
<1>1. ASSUME p = None PROVE OutDone(q, p, h, r)
  <2>1. r = q /\ h = None
    BY <1>1 DEF OutDirected, OutHandle
  <2>2. Same(q, q, Slots, Paths)
    BY DEF Same
  <2> QED
    <3> HIDE DEF r, h
    <3>1. r \in Kernels /\ h \in Handles /\ Same(q, r, Slots \ {h}, Paths \ {p})
      BY <2>1, <2>2 DEF Same, Handles
    <3> QED
      BY <1>1, <2>1, <3>1 DEF OutDone
<1>2. ASSUME p # None PROVE OutDone(q, p, h, r)
  <2>1. p \in Paths /\ h = CreateResult(d, p, room)
    BY <1>2 DEF OutHandle
  <2>2. r = IF h = None THEN c ELSE WithStdout(c, h)
    BY <1>2 DEF OutDirected
  <2> HIDE DEF r, h
  <2>3. /\ d \in Kernels
        /\ d.open = q.open /\ d.redirect = q.redirect /\ d.stdin = q.stdin
        /\ InUse(d) = InUse(q)
        /\ ~Exists(d, p)
        /\ Same(q, d, Slots, Paths \ {p})
    BY DeletedIs
  <2> HIDE DEF d
  <2>4. /\ c \in Kernels /\ h \in Handles
        /\ c.redirect = d.redirect /\ c.stdin = d.stdin
        /\ h = None => c = d
        /\ h # None => /\ h \in Slots \ InUse(d) /\ InUse(c) = InUse(d) \cup {h}
                       /\ c.open[h].path = p /\ c.open[h].pos = 0
                       /\ Exists(c, p) /\ c.content[p] = << >>
                       /\ Same(d, c, Slots \ {h}, Paths \ {p})
    <3>1. MadeIn(d, p, CreateResult(d, p, room), c)
      BY <2>1, <2>3, CreatedIs
    <3>2. MadeIn(d, p, h, c)
      BY <2>1, <3>1
    <3> HIDE DEF c
    <3> QED
      BY <3>2 DEF MadeIn
  <2> HIDE DEF c
  <2>5. CASE h = None
    <3>1. r = d
      BY <2>2, <2>4, <2>5
    <3>2. Same(q, r, Slots \ {h}, Paths \ {p})
      BY <2>3, <3>1 DEF Same
    <3> QED
      BY <1>2, <2>3, <2>4, <2>5, <3>1, <3>2 DEF OutDone
  <2>6. CASE h # None
    <3>1. r = WithStdout(c, h)
      BY <2>2, <2>6
    <3>2. /\ r \in Kernels /\ r.redirect = h /\ r.stdin = c.stdin
          /\ r.open = c.open /\ r.content = c.content /\ InUse(r) = InUse(c)
          /\ Same(c, r, Slots, Paths)
      BY <2>4, <3>1, WithIs
    <3>3. Same(q, r, Slots \ {h}, Paths \ {p})
      BY <2>3, <2>4, <2>6, <3>2 DEF Same
    <3>4. Exists(r, p)
      BY <2>4, <2>6, <3>2 DEF Exists
    <3> QED
      BY <1>2, <2>3, <2>4, <2>6, <3>2, <3>3, <3>4 DEF OutDone
  <2> QED
    BY <2>5, <2>6
<1>3. OutDone(q, p, h, r)
  BY <1>1, <1>2
<1> QED
  BY <1>3

LEMMA InDirectedIs ==
  ASSUME NEW q \in Kernels, NEW i \in 1 .. 4
  PROVE  LET r == InDirected(q, i)
             h == InHandle(q, i)
         IN  /\ r \in Kernels /\ h \in Handles
             /\ r.redirect = q.redirect /\ r.content = q.content
             /\ h = None => /\ r = q
                            /\ i > 1 /\ Exists(q, Pipes[i - 1]) => InUse(q) = Slots
             /\ h # None => /\ i > 1
                            /\ h \in Slots \ InUse(q) /\ InUse(r) = InUse(q) \cup {h}
                            /\ r.stdin = h
                            /\ r.open[h].path = Pipes[i - 1] /\ r.open[h].pos = 0
                            /\ Exists(q, Pipes[i - 1])
             /\ Same(q, r, Slots \ {h}, Paths)
<1> DEFINE r == InDirected(q, i)
           h == InHandle(q, i)
           p == Pipes[i - 1]
           o == Opened(q, p)
<1>0. Same(q, q, Slots \ {h}, Paths)
  BY DEF Same
<1>1. CASE i = 1
  BY <1>0, <1>1, NoSlot DEF InDirected, InHandle
<1>2. CASE i # 1
  <2>1. i > 1 /\ i - 1 \in 1 .. 3 /\ h = OpenResult(q, p)
    BY <1>2 DEF InHandle
  <2>2. p \in Paths
    BY <2>1, PathsFacts
  <2>3. r = IF h = None THEN q ELSE WithStdin(o, h)
    BY DEF InDirected
  <2> HIDE DEF h, r, p
  <2>4. /\ o \in Kernels /\ h \in Handles
        /\ o.redirect = q.redirect /\ o.stdin = q.stdin /\ o.content = q.content
        /\ h = None => o = q /\ (Exists(q, p) => InUse(q) = Slots)
        /\ h # None => /\ h \in Slots \ InUse(q) /\ InUse(o) = InUse(q) \cup {h}
                       /\ o.open[h].path = p /\ o.open[h].pos = 0
                       /\ o.open[h].kind = "file"
                       /\ Exists(q, p)
                       /\ Same(q, o, Slots \ {h}, Paths)
    BY <2>1, <2>2, OpenedIs
  <2> HIDE DEF o
  <2>5. CASE h = None
    BY <1>0, <2>3, <2>4, <2>5 DEF h, r, p
  <2>6. CASE h # None
    <3>1. r = WithStdin(o, h)
      BY <2>3, <2>6
    <3>2. /\ r \in Kernels /\ r.redirect = o.redirect /\ r.stdin = h
          /\ r.open = o.open /\ r.content = o.content /\ InUse(r) = InUse(o)
          /\ Same(o, r, Slots, Paths)
      BY <2>4, <3>1, WithIs
    <3>3. Same(q, r, Slots \ {h}, Paths)
      BY <2>4, <2>6, <3>2 DEF Same
    <3> QED
      BY <2>1, <2>4, <2>6, <3>2, <3>3 DEF h, r, p
  <2> QED
    BY <2>5, <2>6
<1> QED
  BY <1>1, <1>2
\* Stage i of n is started in q: it has new slots, or none when one is missing.
StageStarted(q, i, n, t, bat, r, s) ==
    LET p == SinkOf(i, n, t)
    IN  /\ r \in Kernels
        /\ s \in ShellState
        /\ s.stage = i /\ s.of = n /\ s.target = t /\ s.bat = bat
        /\ s.out \notin InUse(q) /\ s.in \notin InUse(q)
        /\ s.out # None => s.out # s.in
        /\ InUse(r) = InUse(q) \cup ({s.out, s.in} \ {None})
        /\ r.redirect = IF s.out = None THEN q.redirect ELSE s.out
        /\ r.stdin = IF s.in = None THEN q.stdin ELSE s.in
        /\ Same(q, r, InUse(q), Paths \ {p})
        /\ s.out # None => /\ p # None
                           /\ r.open[s.out].path = p /\ r.open[s.out].pos = 0
                           /\ Exists(r, p) /\ r.content[p] = << >>
        /\ s.out = None /\ p # None => ~Exists(r, p)
        /\ s.in # None => /\ i > 1
                          /\ r.open[s.in].path = Pipes[i - 1] /\ r.open[s.in].pos = 0
                          /\ Exists(q, Pipes[i - 1]) /\ Exists(r, Pipes[i - 1])
                          /\ r.content[Pipes[i - 1]] = q.content[Pipes[i - 1]]
        /\ s.in = None /\ i > 1 /\ Exists(q, Pipes[i - 1]) => InUse(r) = Slots

LEMMA StagedIs ==
  ASSUME NEW q \in Kernels, NEW n \in 1 .. MaxStages, NEW i \in 1 .. n,
         NEW t \in Targets \cup {None}, NEW room \in BOOLEAN, NEW bat \in Handles
  PROVE  StageStarted(q, i, n, t, bat, Staged(q, i, n, t, room),
                      ShellAt(q, i, n, t, room, bat))
<1> DEFINE p == SinkOf(i, n, t)
           d == OutDirected(q, p, room)
           w == OutHandle(q, p, room)
           r == InDirected(d, i)
           h == InHandle(d, i)
           s == ShellAt(q, i, n, t, room, bat)
<1>0. /\ p \in Paths \cup {None} /\ i \in 1 .. 4
      /\ i > 1 => Pipes[i - 1] \in Paths /\ p # Pipes[i - 1]
      /\ i \in 0 .. MaxStages /\ n \in 0 .. MaxStages
  <2>1. i \in Nat /\ n \in Nat /\ n <= 4 /\ 1 <= i /\ i <= n /\ n <= MaxStages /\ MaxStages \in Nat
    BY SinkIs, ShellAssumption
  <2>2. i \in 1 .. 4 /\ i \in 0 .. MaxStages /\ n \in 0 .. MaxStages
    BY <2>1
  <2> QED
    BY <2>2, SinkIs
<1>1. /\ Staged(q, i, n, t, room) = r
      /\ s = [stage |-> i, of |-> n, target |-> t, bat |-> bat, out |-> w, in |-> h]
  BY DEF Staged, ShellAt
<1>2. s.stage = i /\ s.of = n /\ s.target = t /\ s.bat = bat /\ s.out = w /\ s.in = h
  BY <1>1
<1> HIDE DEF p
<1>d. OutDone(q, p, w, d)
  BY <1>0, OutDirectedIs
<1>3. /\ d \in Kernels /\ w \in Handles
      /\ d.stdin = q.stdin
      /\ p = None => w = None /\ d = q
      /\ w = None => InUse(d) = InUse(q) /\ d.redirect = q.redirect
      /\ w # None => /\ w \in Slots \ InUse(q) /\ InUse(d) = InUse(q) \cup {w}
                     /\ d.redirect = w
                     /\ d.open[w].path = p /\ d.open[w].pos = 0
                     /\ Exists(d, p) /\ d.content[p] = << >>
      /\ w = None /\ p # None => ~Exists(d, p)
      /\ Same(q, d, Slots \ {w}, Paths \ {p})
  <2> HIDE DEF d, w
  <2> QED
    BY <1>d DEF OutDone
<1> HIDE DEF d, w
<1>4. /\ r \in Kernels /\ h \in Handles
      /\ r.redirect = d.redirect /\ r.content = d.content
      /\ h = None => /\ r = d
                     /\ i > 1 /\ Exists(d, Pipes[i - 1]) => InUse(d) = Slots
      /\ h # None => /\ i > 1
                     /\ h \in Slots \ InUse(d) /\ InUse(r) = InUse(d) \cup {h}
                     /\ r.stdin = h
                     /\ r.open[h].path = Pipes[i - 1] /\ r.open[h].pos = 0
                     /\ Exists(d, Pipes[i - 1])
      /\ Same(d, r, Slots \ {h}, Paths)
  BY <1>0, <1>3, InDirectedIs
<1> HIDE DEF r, h, s
<1>5. s \in ShellState
  BY <1>0, <1>1, <1>3, <1>4 DEF ShellState
<1>6. InUse(q) \subseteq Slots /\ None \notin Slots /\ InUse(d) \subseteq Slots
  BY <1>3, KernelFields, NoSlot
<1>7. /\ w \notin InUse(q) /\ h \notin InUse(q) /\ (w # None => w # h)
      /\ InUse(r) = InUse(q) \cup ({w, h} \ {None})
      /\ r.redirect = (IF w = None THEN q.redirect ELSE w)
      /\ r.stdin = (IF h = None THEN q.stdin ELSE h)
  BY <1>3, <1>4, <1>6
<1>8. Same(q, r, InUse(q), Paths \ {p})
  <2>1. Same(q, d, InUse(q), Paths \ {p})
    BY <1>3, <1>6 DEF Same
  <2>2. InUse(q) \subseteq Slots \ {h}
    BY <1>6, <1>7
  <2>3. Same(d, r, InUse(q), Paths \ {p})
    BY <1>4, <2>2, SameLess
  <2> QED
    BY <2>1, <2>3, SameTwice
<1>9. \A x : Exists(r, x) <=> Exists(d, x)
  BY <1>4 DEF Exists
<1>10. ASSUME w # None
       PROVE  /\ p # None
              /\ r.open[w].path = p /\ r.open[w].pos = 0
              /\ Exists(r, p) /\ r.content[p] = << >>
  <2>1. w \in Slots \ {h} /\ r.open[w] = d.open[w]
    BY <1>3, <1>4, <1>7, <1>10 DEF Same
  <2> QED
    BY <1>3, <1>4, <1>9, <1>10, <2>1
<1>11. ASSUME i > 1
       PROVE  /\ Exists(d, Pipes[i - 1]) <=> Exists(q, Pipes[i - 1])
              /\ Exists(q, Pipes[i - 1]) =>
                   d.content[Pipes[i - 1]] = q.content[Pipes[i - 1]]
  BY <1>0, <1>3, <1>11 DEF Same
<1>12. h # None => /\ i > 1
                   /\ r.open[h].path = Pipes[i - 1] /\ r.open[h].pos = 0
                   /\ Exists(q, Pipes[i - 1]) /\ Exists(r, Pipes[i - 1])
                   /\ r.content[Pipes[i - 1]] = q.content[Pipes[i - 1]]
  BY <1>4, <1>9, <1>11
<1>13. h = None /\ i > 1 /\ Exists(q, Pipes[i - 1]) => InUse(r) = Slots
  BY <1>4, <1>11
<1>14. w = None /\ p # None => ~Exists(r, p)
  BY <1>3, <1>9
<1> QED
  BY <1>1, <1>2, <1>4, <1>5, <1>7, <1>8, <1>10, <1>12, <1>13, <1>14
     DEF p, s, StageStarted

LEMMA UndirectedIs ==
  ASSUME NEW q \in Kernels, NEW s, s.out \in Handles
  PROVE  LET r == Undirected(q, s)
         IN  /\ r \in Kernels
             /\ r.stdin = q.stdin /\ r.content = q.content
             /\ r.redirect = IF s.out = None THEN q.redirect ELSE None
             /\ InUse(r) = InUse(q) \ {s.out}
             /\ Same(q, r, Slots \ {s.out}, Paths)
<1> DEFINE r == Undirected(q, s)
           d == WithStdout(q, None)
<1>0. Same(q, q, Slots \ {s.out}, Paths) /\ None \notin InUse(q)
  BY KernelFields, NoSlot DEF Same
<1>1. CASE s.out = None
  BY <1>0, <1>1 DEF Undirected
<1>2. CASE s.out # None
  <2>1. s.out \in Slots /\ r = Closed(d, s.out)
    BY <1>2, NoSlot DEF Undirected
  <2>2. /\ d \in Kernels /\ d.redirect = None /\ d.stdin = q.stdin
        /\ d.open = q.open /\ d.content = q.content /\ InUse(d) = InUse(q)
        /\ Same(q, d, Slots, Paths)
    BY ZenonT(30), WithIs, NoSlot
  <2> HIDE DEF d, r
  <2>3. /\ r \in Kernels
        /\ r.redirect = d.redirect /\ r.stdin = d.stdin /\ r.content = d.content
        /\ InUse(r) = InUse(d) \ {s.out}
        /\ Same(d, r, Slots \ {s.out}, Paths)
    BY <2>1, <2>2, ClosedIs
  <2>4. Same(q, r, Slots \ {s.out}, Paths)
    BY <2>2, <2>3 DEF Same
  <2> QED
    BY <1>2, <2>2, <2>3, <2>4 DEF r
<1> QED
  BY <1>1, <1>2

LEMMA UnfedIs ==
  ASSUME NEW q \in Kernels, NEW s, s.in \in Handles
  PROVE  LET r == Unfed(q, s)
             p == Pipes[s.stage - 1]
         IN  /\ r \in Kernels
             /\ r.redirect = q.redirect
             /\ r.stdin = IF s.in = None THEN q.stdin ELSE None
             /\ InUse(r) = InUse(q) \ {s.in}
             /\ Same(q, r, Slots \ {s.in}, IF s.in = None THEN Paths ELSE Paths \ {p})
<1> DEFINE r == Unfed(q, s)
           d == WithStdin(q, None)
           c == Closed(d, s.in)
           p == Pipes[s.stage - 1]
<1>0. Same(q, q, Slots \ {s.in}, Paths) /\ None \notin InUse(q)
  BY KernelFields, NoSlot DEF Same
<1>1. CASE s.in = None
  BY <1>0, <1>1 DEF Unfed
<1>2. CASE s.in # None
  <2>1. s.in \in Slots /\ r = Deleted(c, p)
    BY <1>2, NoSlot DEF Unfed
  <2>2. /\ d \in Kernels /\ d.redirect = q.redirect /\ d.stdin = None
        /\ d.open = q.open /\ d.content = q.content /\ InUse(d) = InUse(q)
        /\ Same(q, d, Slots, Paths)
    BY ZenonT(30), WithIs, NoSlot
  <2> HIDE DEF d, r, p
  <2>3. /\ c \in Kernels
        /\ c.redirect = d.redirect /\ c.stdin = d.stdin /\ c.content = d.content
        /\ InUse(c) = InUse(d) \ {s.in}
        /\ Same(d, c, Slots \ {s.in}, Paths)
    BY <2>1, <2>2, ClosedIs
  <2> HIDE DEF c
  <2>4. /\ r \in Kernels
        /\ r.open = c.open /\ r.redirect = c.redirect /\ r.stdin = c.stdin
        /\ InUse(r) = InUse(c)
        /\ Same(c, r, Slots, Paths \ {p})
    BY <2>1, <2>3, DeletedIs
  <2>5. Same(q, r, Slots \ {s.in}, Paths \ {p})
    BY <2>2, <2>3, <2>4 DEF Same
  <2> QED
    BY <1>2, <2>2, <2>3, <2>4, <2>5 DEF r, p
<1> QED
  BY <1>1, <1>2

\* The kernel after stage s has ended.
Ended(q, s) == Unfed(Undirected(q, s), s)

LEMMA EndedIs ==
  ASSUME NEW q \in Kernels, NEW s, s.in \in Handles, s.out \in Handles
  PROVE  LET r == Ended(q, s)
             p == Pipes[s.stage - 1]
         IN  /\ r \in Kernels
             /\ r.redirect = IF s.out = None THEN q.redirect ELSE None
             /\ r.stdin = IF s.in = None THEN q.stdin ELSE None
             /\ InUse(r) = InUse(q) \ {s.out, s.in}
             /\ Same(q, r, Slots \ {s.out, s.in}, IF s.in = None THEN Paths ELSE Paths \ {p})
<1> DEFINE d == Undirected(q, s)
           r == Unfed(d, s)
           p == Pipes[s.stage - 1]
           P == IF s.in = None THEN Paths ELSE Paths \ {p}
<1>1. /\ d \in Kernels
      /\ d.stdin = q.stdin /\ d.content = q.content
      /\ d.redirect = (IF s.out = None THEN q.redirect ELSE None)
      /\ InUse(d) = InUse(q) \ {s.out}
      /\ Same(q, d, Slots \ {s.out}, Paths)
  BY UndirectedIs
<1> HIDE DEF d, p
<1>2. /\ r \in Kernels
      /\ r.redirect = d.redirect
      /\ r.stdin = (IF s.in = None THEN d.stdin ELSE None)
      /\ InUse(r) = InUse(d) \ {s.in}
      /\ Same(d, r, Slots \ {s.in}, P)
  BY <1>1, UnfedIs DEF p
<1> HIDE DEF r
<1>3. P \subseteq Paths
  OBVIOUS
<1> HIDE DEF P
<1>4. Same(q, r, Slots \ {s.out, s.in}, P)
  BY <1>1, <1>2, <1>3 DEF Same
<1> QED
  BY <1>1, <1>2, <1>4 DEF Ended, d, r, p, P
----------------------------------------------------------------------------
(* The shells and their handles *)

Held(s)    == {s.out, s.in, s.bat} \ {None}
HeldBy(st) == UNION {Held(st[i]) : i \in 1 .. Len(st)}

\* A shell's own handles are different ones, and those it needs at its stage.
ShellSound(s) ==
    /\ s \in ShellState
    /\ s.out # None => s.out \notin {s.in, s.bat}
    /\ s.in # None => s.in # s.bat
    /\ s.stage <= s.of
    /\ s.stage = 0 => s = Ready(s.bat)
    /\ s.in # None => s.stage > 1
    /\ s.stage = s.of /\ s.target = None => s.out = None

\* The shells st wait for the program above them.
Waiting(st) ==
    /\ st \in Seq(ShellState)
    /\ \A i \in 1 .. Len(st) : ShellSound(st[i]) /\ st[i].stage > 0
    /\ \A i, j \in 1 .. Len(st) : i # j => Held(st[i]) \cap Held(st[j]) = {}

\* Shell s on top of the waiting shells st in kernel q, where the slots o are
\* open besides: no slot is in use that nobody knows of, and none twice.
OnTop(q, st, s, o) ==
    /\ q \in Kernels /\ ShellSound(s)
    /\ InUse(q) = o \cup HeldBy(st) \cup Held(s)
    /\ Held(s) \cap HeldBy(st) = {}
    /\ o \cap (HeldBy(st) \cup Held(s)) = {}
    /\ q.redirect \in {None, s.out} \cup {st[i].out : i \in 1 .. Len(st)}
    /\ q.stdin \in {None, s.in} \cup {st[i].in : i \in 1 .. Len(st)}

HandlesInv ==
    /\ shells \in Seq(ShellState) /\ Depth \in 1 .. MaxDepth
    /\ Waiting(Outer) /\ OnTop(k, Outer, Shell, mine \cup leaked)
    /\ mine \cap leaked = {}
    /\ AtPrompt => mine = {}

LEMMA ShellFields ==
  ASSUME NEW s \in ShellState
  PROVE  /\ s.stage \in Nat /\ s.of \in Nat
         /\ s.stage \in 0 .. MaxStages /\ s.of \in 0 .. MaxStages
         /\ s.out \in Handles /\ s.in \in Handles /\ s.bat \in Handles
         /\ s.target \in Targets \cup {None}
         /\ s = [stage |-> s.stage, of |-> s.of, target |-> s.target, out |-> s.out,
                 in |-> s.in, bat |-> s.bat]
         /\ Held(s) \subseteq Slots
BY ShellAssumption, NoSlot DEF ShellState, Held

LEMMA ReadyIs ==
  ASSUME NEW bat \in Handles
  PROVE  /\ ShellSound(Ready(bat)) /\ Ready(bat) \in ShellState
         /\ Ready(bat).stage = 0 /\ Ready(bat).of = 0 /\ Ready(bat).target = None
         /\ Ready(bat).out = None /\ Ready(bat).in = None /\ Ready(bat).bat = bat
         /\ Held(Ready(bat)) = {bat} \ {None}
<1>1. /\ Ready(bat).stage = 0 /\ Ready(bat).of = 0 /\ Ready(bat).target = None
      /\ Ready(bat).out = None /\ Ready(bat).in = None /\ Ready(bat).bat = bat
  BY DEF Ready
<1>2. Ready(bat) \in ShellState
  BY ShellAssumption, NoSlot DEF Ready, ShellState
<1> QED
  BY <1>1, <1>2 DEF ShellSound, Held

\* A stack with one shell more.
LEMMA StackMore ==
  ASSUME NEW st \in Seq(ShellState), NEW s \in ShellState
  PROVE  LET m == Append(st, s)
         IN  /\ m \in Seq(ShellState) /\ Len(m) = Len(st) + 1 /\ Len(st) \in Nat
             /\ \A i \in 1 .. Len(st) : m[i] = st[i]
             /\ m[Len(st) + 1] = s /\ m[Len(m)] = s
             /\ SubSeq(m, 1, Len(m) - 1) = st
             /\ HeldBy(m) = HeldBy(st) \cup Held(s)
             /\ {m[i].out : i \in 1 .. Len(m)} = {st[i].out : i \in 1 .. Len(st)} \cup {s.out}
             /\ {m[i].in : i \in 1 .. Len(m)} = {st[i].in : i \in 1 .. Len(st)} \cup {s.in}
<1> DEFINE m == Append(st, s)
<1>1. /\ m \in Seq(ShellState) /\ Len(m) = Len(st) + 1 /\ Len(st) \in Nat
      /\ \A i \in 1 .. Len(st) : m[i] = st[i]
      /\ m[Len(st) + 1] = s
  BY AppendProperties
<1>2. SubSeq(m, 1, Len(m) - 1) = st
  <2>1. Len(m) - 1 = Len(st)
    BY <1>1
  <2> QED
    BY <1>1, <2>1, AppendProperties
<1> HIDE DEF m
<1>3. 1 .. Len(m) = (1 .. Len(st)) \cup {Len(st) + 1}
  BY <1>1
<1>4. HeldBy(m) = HeldBy(st) \cup Held(s)
  BY <1>1, <1>3 DEF HeldBy
<1>5. /\ {m[i].out : i \in 1 .. Len(m)} = {st[i].out : i \in 1 .. Len(st)} \cup {s.out}
      /\ {m[i].in : i \in 1 .. Len(m)} = {st[i].in : i \in 1 .. Len(st)} \cup {s.in}
  BY <1>1, <1>3
<1> QED
  BY <1>1, <1>2, <1>4, <1>5 DEF m

\* A stack is its outer shells and the one on top.
LEMMA StackTop ==
  ASSUME NEW m \in Seq(ShellState), Len(m) > 0
  PROVE  /\ Len(m) \in Nat
         /\ SubSeq(m, 1, Len(m) - 1) \in Seq(ShellState)
         /\ m[Len(m)] \in ShellState
         /\ m = Append(SubSeq(m, 1, Len(m) - 1), m[Len(m)])
         /\ Len(SubSeq(m, 1, Len(m) - 1)) = Len(m) - 1
         /\ \A i \in 1 .. Len(m) - 1 : SubSeq(m, 1, Len(m) - 1)[i] = m[i]
<1> DEFINE f == SubSeq(m, 1, Len(m) - 1)
<1>1. Len(m) \in Nat /\ Len(m) - 1 \in 0 .. Len(m) /\ m[Len(m)] \in ShellState
  BY ElementOfSeq
<1>2. f \in Seq(ShellState) /\ Len(f) = Len(m) - 1 /\ \A i \in 1 .. Len(m) - 1 : f[i] = m[i]
  <2>1. \A n \in 0 .. Len(m) : /\ SubSeq(m, 1, n) \in Seq(ShellState) /\ Len(SubSeq(m, 1, n)) = n
                                /\ \A i \in 1 .. n : SubSeq(m, 1, n)[i] = m[i]
    OBVIOUS
  <2> QED
    BY <1>1, <2>1
<1>3. m = Append(f, m[Len(m)])
  <2>1. /\ Append(f, m[Len(m)]) \in Seq(ShellState)
        /\ Len(Append(f, m[Len(m)])) = Len(m)
        /\ \A i \in 1 .. Len(m) : Append(f, m[Len(m)])[i] = m[i]
    BY <1>1, <1>2
  <2> QED
    BY <2>1, SeqEqual
<1> QED
  BY <1>1, <1>2, <1>3

LEMMA WaitingMore ==
  ASSUME NEW st, NEW s, Waiting(st), ShellSound(s), s.stage > 0,
         Held(s) \cap HeldBy(st) = {}
  PROVE  Waiting(Append(st, s))
<1> DEFINE m == Append(st, s)
<1>1. st \in Seq(ShellState) /\ s \in ShellState
  BY DEF Waiting, ShellSound
<1>2. /\ m \in Seq(ShellState) /\ Len(m) = Len(st) + 1 /\ Len(st) \in Nat
      /\ \A i \in 1 .. Len(st) : m[i] = st[i]
      /\ m[Len(st) + 1] = s
  BY <1>1, StackMore
<1> HIDE DEF m
<1>3. \A i \in 1 .. Len(m) : i = Len(st) + 1 \/ i \in 1 .. Len(st)
  BY <1>2
<1>4. \A i \in 1 .. Len(m) : ShellSound(m[i]) /\ m[i].stage > 0
  BY <1>2, <1>3 DEF Waiting
<1>5. ASSUME NEW i \in 1 .. Len(m), NEW j \in 1 .. Len(m), i # j
      PROVE  Held(m[i]) \cap Held(m[j]) = {}
  <2>1. \A x \in 1 .. Len(st) : Held(st[x]) \cap Held(s) = {}
    BY DEF HeldBy
  <2>2. \A x, y \in 1 .. Len(st) : x # y => Held(st[x]) \cap Held(st[y]) = {}
    BY DEF Waiting
  <2> QED
    BY <1>2, <1>3, <1>5, <2>1, <2>2
<1> QED
  BY <1>2, <1>4, <1>5 DEF Waiting, m

LEMMA WaitingLess ==
  ASSUME NEW st, NEW s, st \in Seq(ShellState), s \in ShellState, Waiting(Append(st, s))
  PROVE  /\ Waiting(st) /\ ShellSound(s) /\ s.stage > 0
         /\ Held(s) \cap HeldBy(st) = {}
<1> DEFINE m == Append(st, s)
<1>2. /\ m \in Seq(ShellState) /\ Len(m) = Len(st) + 1 /\ Len(st) \in Nat
      /\ \A i \in 1 .. Len(st) : m[i] = st[i]
      /\ m[Len(st) + 1] = s
  BY StackMore
<1>3. Waiting(m)
  OBVIOUS
<1> HIDE DEF m
<1>4. /\ Len(st) + 1 \in 1 .. Len(m) /\ 1 .. Len(st) \subseteq 1 .. Len(m)
      /\ Len(st) + 1 \notin 1 .. Len(st)
  BY <1>2
<1>5. ShellSound(s) /\ s.stage > 0
  BY <1>2, <1>3, <1>4 DEF Waiting
<1>6. \A i \in 1 .. Len(st) : Held(st[i]) \cap Held(s) = {}
  BY <1>2, <1>3, <1>4 DEF Waiting
<1>7. Waiting(st)
  BY <1>2, <1>3, <1>4 DEF Waiting
<1> QED
  BY <1>5, <1>6, <1>7 DEF HeldBy
----------------------------------------------------------------------------
(* Handles, step by step *)

LEMMA StagedOnTop ==
  ASSUME NEW q, NEW st, NEW o, NEW bat \in Handles, OnTop(q, st, Ready(bat), o),
         NEW n \in 1 .. MaxStages, NEW i \in 1 .. n,
         NEW t \in Targets \cup {None}, NEW room \in BOOLEAN
  PROVE  OnTop(Staged(q, i, n, t, room), st, ShellAt(q, i, n, t, room, bat), o)
<1> DEFINE r == Staged(q, i, n, t, room)
           s == ShellAt(q, i, n, t, room, bat)
           B == HeldBy(st)
           O == {st[j].out : j \in 1 .. Len(st)}
           I == {st[j].in : j \in 1 .. Len(st)}
<1>1. q \in Kernels
  BY DEF OnTop
<1>a. StageStarted(q, i, n, t, bat, r, s)
  BY <1>1, StagedIs
<1> HIDE DEF r, s, B, O, I
<1>2. /\ r \in Kernels
      /\ s \in ShellState
      /\ s.stage = i /\ s.of = n /\ s.target = t /\ s.bat = bat
      /\ s.out \notin InUse(q) /\ s.in \notin InUse(q)
      /\ s.out # None => s.out # s.in
      /\ InUse(r) = InUse(q) \cup ({s.out, s.in} \ {None})
      /\ r.redirect = (IF s.out = None THEN q.redirect ELSE s.out)
      /\ r.stdin = (IF s.in = None THEN q.stdin ELSE s.in)
      /\ s.out # None => SinkOf(i, n, t) # None
      /\ s.in # None => i > 1
  BY <1>a DEF StageStarted
<1>3. /\ InUse(q) = o \cup B \cup ({bat} \ {None})
      /\ ({bat} \ {None}) \cap B = {}
      /\ o \cap (B \cup ({bat} \ {None})) = {}
      /\ q.redirect \in {None} \cup O /\ q.stdin \in {None} \cup I
  BY ReadyIs DEF OnTop, B, O, I
<1>4. Held(s) = ({s.out, s.in} \ {None}) \cup ({bat} \ {None})
  BY <1>2 DEF Held
<1>5. /\ InUse(r) = o \cup B \cup Held(s)
      /\ Held(s) \cap B = {}
      /\ o \cap (B \cup Held(s)) = {}
  BY <1>2, <1>3, <1>4
<1>6. r.redirect \in {None, s.out} \cup O /\ r.stdin \in {None, s.in} \cup I
  BY <1>2, <1>3
<1>7. /\ i \in Nat /\ n \in Nat /\ 1 <= i /\ i <= n
      /\ i = n => SinkOf(i, n, t) = t
  BY SinkIs
<1>8. bat # None => bat \in InUse(q)
  BY <1>3
<1>9. ShellSound(s)
  BY <1>2, <1>7, <1>8 DEF ShellSound
<1> QED
  BY <1>2, <1>5, <1>6, <1>9 DEF OnTop, r, s, B, O, I

LEMMA EndedOnTop ==
  ASSUME NEW q, NEW st, NEW s, NEW o, OnTop(q, st, s, o)
  PROVE  OnTop(Ended(q, s), st, Ready(s.bat), o)
<1> DEFINE r == Ended(q, s)
           B == HeldBy(st)
           O == {st[j].out : j \in 1 .. Len(st)}
           I == {st[j].in : j \in 1 .. Len(st)}
<1>1. /\ q \in Kernels /\ ShellSound(s) /\ s \in ShellState
      /\ s.in \in Handles /\ s.out \in Handles /\ s.bat \in Handles
      /\ InUse(q) \subseteq Slots
  BY ShellFields, KernelFields DEF OnTop, ShellSound
<1>2. /\ r \in Kernels
      /\ r.redirect = (IF s.out = None THEN q.redirect ELSE None)
      /\ r.stdin = (IF s.in = None THEN q.stdin ELSE None)
      /\ InUse(r) = InUse(q) \ {s.out, s.in}
  BY <1>1, EndedIs
<1> HIDE DEF r, B, O, I
<1>3. /\ InUse(q) = o \cup B \cup Held(s)
      /\ Held(s) \cap B = {}
      /\ o \cap (B \cup Held(s)) = {}
      /\ q.redirect \in {None, s.out} \cup O /\ q.stdin \in {None, s.in} \cup I
  BY DEF OnTop, B, O, I
<1>4. Held(s) = {s.out, s.in, s.bat} \ {None} /\ Held(Ready(s.bat)) = {s.bat} \ {None}
  BY <1>1, ReadyIs DEF Held
<1>5. /\ s.out # None => s.out # s.bat
      /\ s.in # None => s.in # s.bat
  BY <1>1 DEF ShellSound
<1>6. None \notin InUse(q)
  BY <1>1, NoSlot
<1>7. /\ InUse(r) = o \cup B \cup Held(Ready(s.bat))
      /\ Held(Ready(s.bat)) \cap B = {}
      /\ o \cap (B \cup Held(Ready(s.bat))) = {}
  BY <1>2, <1>3, <1>4, <1>5, <1>6
<1>8. r.redirect \in {None, Ready(s.bat).out} \cup O /\ r.stdin \in {None, Ready(s.bat).in} \cup I
  BY <1>2, <1>3
<1>9. ShellSound(Ready(s.bat))
  BY <1>1, ReadyIs
<1> QED
  BY <1>2, <1>7, <1>8, <1>9 DEF OnTop, r, B, O, I

\* A batch file opened in k: the old one is closed when there is a new one.
BatchOpened(q, t, room, bat) ==
    LET d      == OutDirected(q, t, room)
        h      == OpenResult(d, Script)
        opened == Opened(d, Script)
    IN  IF h # None /\ bat # None THEN Closed(opened, bat) ELSE opened

BatchHandle(q, t, room) == OpenResult(OutDirected(q, t, room), Script)

BatchDone(q, t, bat, h, r) ==
    /\ r \in Kernels /\ h \in Handles /\ h \notin InUse(q)
    /\ r.stdin = q.stdin
    /\ r.redirect = IF t = None THEN q.redirect ELSE None
    /\ InUse(r) = IF h = None THEN InUse(q) ELSE (InUse(q) \ {bat}) \cup {h}
    /\ Same(q, r, InUse(q) \ {bat}, Paths \ {t})

LEMMA BatchIs ==
  ASSUME NEW q \in Kernels, NEW t \in Targets \cup {None}, NEW room \in BOOLEAN,
         NEW bat \in Handles, bat # None => bat \in InUse(q),
         NEW s, s.out = OutHandle(q, t, room), t # None => s.out # None
  PROVE  BatchDone(q, t, bat, BatchHandle(q, t, room),
                   Undirected(BatchOpened(q, t, room, bat), s))
<1> DEFINE d == OutDirected(q, t, room)
           w == OutHandle(q, t, room)
           h == OpenResult(d, Script)
           a == Opened(d, Script)
           c == BatchOpened(q, t, room, bat)
           r == Undirected(c, s)
<1>0. /\ t \in Paths \cup {None} /\ Script \in Paths
      /\ InUse(q) \subseteq Slots /\ None \notin InUse(q)
  BY PathsFacts, KernelFields, NoSlot
<1>d. OutDone(q, t, w, d)
  BY <1>0, OutDirectedIs
<1>1. /\ d \in Kernels /\ w \in Handles
      /\ d.stdin = q.stdin
      /\ t = None => w = None /\ d = q
      /\ w = None => InUse(d) = InUse(q) /\ d.redirect = q.redirect
      /\ w # None => w \in Slots \ InUse(q) /\ InUse(d) = InUse(q) \cup {w}
      /\ Same(q, d, Slots \ {w}, Paths \ {t})
  <2> HIDE DEF d, w
  <2> QED
    BY <1>d DEF OutDone
<1>a. w = s.out /\ c = IF h # None /\ bat # None THEN Closed(a, bat) ELSE a
  BY DEF BatchOpened
<1> HIDE DEF d, w, c
<1>2. /\ a \in Kernels /\ h \in Handles
      /\ a.redirect = d.redirect /\ a.stdin = d.stdin /\ a.content = d.content
      /\ h = None => a = d
      /\ h # None => h \in Slots \ InUse(d) /\ InUse(a) = InUse(d) \cup {h}
      /\ h # None => Same(d, a, Slots \ {h}, Paths)
  BY <1>0, <1>1, OpenedIs
<1> HIDE DEF a, h
<1>3. /\ c \in Kernels
      /\ c.redirect = a.redirect /\ c.stdin = a.stdin
      /\ InUse(c) = IF h = None THEN InUse(a) ELSE InUse(a) \ {bat}
      /\ Same(a, c, Slots \ {bat}, Paths)
  <2>1. CASE h # None /\ bat # None
    <3>1. bat \in Slots
      BY <1>0, <2>1
    <3>2. /\ Closed(a, bat) \in Kernels
          /\ Closed(a, bat).redirect = a.redirect /\ Closed(a, bat).stdin = a.stdin
          /\ InUse(Closed(a, bat)) = InUse(a) \ {bat}
          /\ Same(a, Closed(a, bat), Slots \ {bat}, Paths)
      BY <1>2, <3>1, ClosedIs
    <3> QED
      BY <1>a, <2>1, <3>2
  <2>2. CASE ~(h # None /\ bat # None)
    <3>1. c = a
      BY <1>a, <2>2
    <3>2. None \notin InUse(a)
      BY <1>2, KernelFields, NoSlot
    <3>3. Same(a, a, Slots \ {bat}, Paths)
      BY DEF Same
    <3> QED
      BY <1>2, <2>2, <3>1, <3>2, <3>3
  <2> QED
    BY <2>1, <2>2
<1>4. /\ r \in Kernels
      /\ r.stdin = c.stdin
      /\ r.redirect = (IF w = None THEN c.redirect ELSE None)
      /\ InUse(r) = InUse(c) \ {w}
      /\ Same(c, r, Slots \ {w}, Paths)
  BY <1>1, <1>3, <1>a, UndirectedIs
<1> HIDE DEF r
<1>5. h \notin InUse(q) /\ w \notin InUse(q) /\ (w = None <=> t = None)
      /\ (w # None => w # h) /\ (bat # None => bat # h /\ bat # w)
  BY <1>0, <1>1, <1>2, <1>a
<1>6. InUse(r) = (IF h = None THEN InUse(q) ELSE (InUse(q) \ {bat}) \cup {h})
  <2>1. InUse(d) = InUse(q) \cup ({w} \ {None})
    BY <1>1
  <2>2. InUse(a) = InUse(d) \cup ({h} \ {None})
    BY <1>2
  <2> QED
    BY <1>0, <1>3, <1>4, <1>5, <2>1, <2>2
<1>7. Same(q, r, InUse(q) \ {bat}, Paths \ {t})
  <2> DEFINE H == InUse(q) \ {bat}
             P == Paths \ {t}
  <2>1. H \subseteq Slots \ {w} /\ H \subseteq Slots \ {h} /\ H \subseteq Slots \ {bat}
    BY <1>0, <1>5
  <2> HIDE DEF H
  <2>2. Same(q, d, H, P) /\ Same(a, c, H, P) /\ Same(c, r, H, P)
    BY <1>1, <1>3, <1>4, <2>1, SameLess
  <2>3. Same(d, a, H, P)
    <3>1. CASE h = None
      BY <1>2, <3>1 DEF Same
    <3>2. CASE h # None
      BY <1>2, <2>1, <3>2, SameLess
    <3> QED
      BY <3>1, <3>2
  <2> HIDE DEF P
  <2>4. Same(q, r, H, P)
    BY <2>2, <2>3, SameTwice
  <2> QED
    BY <2>4 DEF H, P
<1>8. /\ r.stdin = q.stdin
      /\ r.redirect = IF t = None THEN q.redirect ELSE None
  BY <1>1, <1>2, <1>3, <1>4, <1>5
<1> QED
  BY <1>2, <1>4, <1>5, <1>6, <1>7, <1>8 DEF r, c, h, d, BatchHandle, BatchDone
----------------------------------------------------------------------------
(* Where the streams lead *)

LEMMA Largest ==
  ASSUME NEW n \in Nat, NEW S \in SUBSET (1 .. n), S # {}
  PROVE  \E x \in S : \A y \in S : y <= x
<1> DEFINE T == {n - i : i \in S}
<1>1. T \in SUBSET Nat /\ T # {}
  <2>1. \A i \in S : n - i \in Nat
    OBVIOUS
  <2> QED
    BY <2>1
<1>2. \E x \in T : \A y \in T : x <= y
  BY <1>1, Least
<1>3. PICK x \in S : \A y \in T : n - x <= y
  BY <1>2
<1>4. \A y \in S : n - x <= n - y
  BY <1>3
<1> QED
  BY <1>4

\* The value of the last of h that has one.
LEMMA InnermostIs ==
  ASSUME NEW n \in Nat, NEW h, DOMAIN h = 1 .. n
  PROVE  \/ Innermost(h) = None /\ \A j \in 1 .. n : h[j] = None
         \/ \E i \in 1 .. n : /\ Innermost(h) = h[i] /\ h[i] # None
                              /\ \A j \in 1 .. n : h[j] # None => j <= i
<1> DEFINE S == {i \in DOMAIN h : h[i] # None}
<1>1. CASE S = {}
  BY <1>1 DEF Innermost
<1>2. CASE S # {}
  <2> DEFINE c == CHOOSE i \in S : \A j \in S : j <= i
  <2>1. S \in SUBSET (1 .. n)
    OBVIOUS
  <2>2. Innermost(h) = h[c]
    BY <1>2 DEF Innermost
  <2> HIDE DEF S
  <2>3. \E x \in S : \A y \in S : y <= x
    BY <1>2, <2>1, Largest
  <2>4. c \in S /\ \A j \in S : j <= c
    BY <2>3
  <2> HIDE DEF c
  <2> QED
    BY <2>1, <2>2, <2>4 DEF S
<1> QED
  BY <1>1, <1>2

LEMMA OuterIs ==
  ASSUME NEW st \in Seq(ShellState)
  PROVE  /\ \/ OuterOut(st) = None /\ \A j \in 1 .. Len(st) : st[j].out = None
            \/ \E i \in 1 .. Len(st) :
                 /\ OuterOut(st) = st[i].out /\ st[i].out # None
                 /\ \A j \in 1 .. Len(st) : st[j].out # None => j <= i
         /\ \/ OuterIn(st) = None /\ \A j \in 1 .. Len(st) : st[j].in = None
            \/ \E i \in 1 .. Len(st) :
                 /\ OuterIn(st) = st[i].in /\ st[i].in # None
                 /\ \A j \in 1 .. Len(st) : st[j].in # None => j <= i
<1> DEFINE f == [i \in 1 .. Len(st) |-> st[i].out]
           g == [i \in 1 .. Len(st) |-> st[i].in]
<1>1. Len(st) \in Nat /\ DOMAIN f = 1 .. Len(st) /\ DOMAIN g = 1 .. Len(st)
  OBVIOUS
<1>2. /\ OuterOut(st) = Innermost(f) /\ OuterIn(st) = Innermost(g)
      /\ \A i \in 1 .. Len(st) : f[i] = st[i].out /\ g[i] = st[i].in
  BY DEF OuterOut, OuterIn
<1> HIDE DEF f, g
<1>3. \/ Innermost(f) = None /\ \A j \in 1 .. Len(st) : f[j] = None
      \/ \E i \in 1 .. Len(st) : /\ Innermost(f) = f[i] /\ f[i] # None
                                 /\ \A j \in 1 .. Len(st) : f[j] # None => j <= i
  BY <1>1, InnermostIs
<1>4. \/ Innermost(g) = None /\ \A j \in 1 .. Len(st) : g[j] = None
      \/ \E i \in 1 .. Len(st) : /\ Innermost(g) = g[i] /\ g[i] # None
                                 /\ \A j \in 1 .. Len(st) : g[j] # None => j <= i
  BY <1>1, InnermostIs
<1>5. \/ OuterOut(st) = None /\ \A j \in 1 .. Len(st) : st[j].out = None
      \/ \E i \in 1 .. Len(st) :
           /\ OuterOut(st) = st[i].out /\ st[i].out # None
           /\ \A j \in 1 .. Len(st) : st[j].out # None => j <= i
  BY <1>2, <1>3
<1>6. \/ OuterIn(st) = None /\ \A j \in 1 .. Len(st) : st[j].in = None
      \/ \E i \in 1 .. Len(st) :
           /\ OuterIn(st) = st[i].in /\ st[i].in # None
           /\ \A j \in 1 .. Len(st) : st[j].in # None => j <= i
  BY <1>2, <1>4
<1> QED
  BY <1>5, <1>6

LEMMA OuterMore ==
  ASSUME NEW st \in Seq(ShellState), NEW s \in ShellState
  PROVE  /\ OuterOut(Append(st, s)) = IF s.out # None THEN s.out ELSE OuterOut(st)
         /\ OuterIn(Append(st, s)) = IF s.in # None THEN s.in ELSE OuterIn(st)
<1> DEFINE m == Append(st, s)
<1>1. /\ m \in Seq(ShellState) /\ Len(m) = Len(st) + 1 /\ Len(st) \in Nat
      /\ \A i \in 1 .. Len(st) : m[i] = st[i]
      /\ m[Len(st) + 1] = s
  BY StackMore
<1> HIDE DEF m
<1>2. /\ \A i \in 1 .. Len(m) : i = Len(st) + 1 \/ i \in 1 .. Len(st)
      /\ \A i \in 1 .. Len(st) : i \in 1 .. Len(m) /\ ~(Len(st) + 1 <= i)
      /\ Len(st) + 1 \in 1 .. Len(m)
      /\ \A i, j \in 1 .. Len(m) : i <= j /\ j <= i => i = j
  BY <1>1
<1>3. OuterOut(m) = IF s.out # None THEN s.out ELSE OuterOut(st)
  <2>1. \/ OuterOut(st) = None /\ \A j \in 1 .. Len(st) : st[j].out = None
        \/ \E i \in 1 .. Len(st) :
             /\ OuterOut(st) = st[i].out /\ st[i].out # None
             /\ \A j \in 1 .. Len(st) : st[j].out # None => j <= i
    BY OuterIs
  <2>2. \/ OuterOut(m) = None /\ \A j \in 1 .. Len(m) : m[j].out = None
        \/ \E i \in 1 .. Len(m) :
             /\ OuterOut(m) = m[i].out /\ m[i].out # None
             /\ \A j \in 1 .. Len(m) : m[j].out # None => j <= i
    BY <1>1, OuterIs
  <2>3. CASE s.out # None
    BY <1>1, <1>2, <2>2, <2>3
  <2>4. CASE s.out = None
    BY <1>1, <1>2, <2>1, <2>2, <2>4
  <2> QED
    BY <2>3, <2>4
<1>4. OuterIn(m) = IF s.in # None THEN s.in ELSE OuterIn(st)
  <2>1. \/ OuterIn(st) = None /\ \A j \in 1 .. Len(st) : st[j].in = None
        \/ \E i \in 1 .. Len(st) :
             /\ OuterIn(st) = st[i].in /\ st[i].in # None
             /\ \A j \in 1 .. Len(st) : st[j].in # None => j <= i
    BY OuterIs
  <2>2. \/ OuterIn(m) = None /\ \A j \in 1 .. Len(m) : m[j].in = None
        \/ \E i \in 1 .. Len(m) :
             /\ OuterIn(m) = m[i].in /\ m[i].in # None
             /\ \A j \in 1 .. Len(m) : m[j].in # None => j <= i
    BY <1>1, OuterIs
  <2>3. CASE s.in # None
    BY <1>1, <1>2, <2>2, <2>3
  <2>4. CASE s.in = None
    BY <1>1, <1>2, <2>1, <2>2, <2>4
  <2> QED
    BY <2>3, <2>4
<1> QED
  BY <1>3, <1>4 DEF m

\* Shell b runs somewhere above shell a: no pipe in a pipe, no redirect in a
\* redirect.
Nest(a, b) ==
    /\ b.of > 1 => a.of = 1 /\ a.out = None
    /\ b.target # None => a.out = None

\* The files of the stage of shell s: what it wrote is in its file, up to where
\* the slot stands; there is no old file where a pipe could not be made.
Files(q, s) ==
    /\ s.out # None => LET p == SinkOf(s.stage, s.of, s.target)
                       IN  /\ q.open[s.out].path = p /\ Exists(q, p)
                           /\ q.open[s.out].pos = Len(q.content[p])
    /\ s.in # None => LET p == Pipes[s.stage - 1]
                      IN  /\ q.open[s.in].path = p /\ Exists(q, p)
                          /\ q.open[s.in].pos <= Len(q.content[p])
    /\ s.out = None /\ s.stage < s.of => ~Exists(q, Pipes[s.stage])

\* The files a shell depends on.
Needs(s) == (IF s.stage < s.of \/ s.out # None THEN {SinkOf(s.stage, s.of, s.target)} ELSE {})
            \cup (IF s.in # None THEN {Pipes[s.stage - 1]} ELSE {})

NeedsOf(st) == UNION {Needs(st[i]) : i \in 1 .. Len(st)}

Nests(st)         == \A i, j \in 1 .. Len(st) : i < j => Nest(st[i], st[j])
NestOver(st, s)   == \A i \in 1 .. Len(st) : Nest(st[i], s)
FilesOfAll(q, st) == \A i \in 1 .. Len(st) : Files(q, st[i])

Flows(q, st, s) ==
    /\ Nests(st) /\ NestOver(st, s)
    /\ FilesOfAll(q, st) /\ Files(q, s)
    /\ q.redirect = IF s.out # None THEN s.out ELSE OuterOut(st)
    /\ q.stdin = IF s.in # None THEN s.in ELSE OuterIn(st)

\* Programs write to their own files.
OwnFiles(q, m) == \A h \in m : q.open[h].kind = "file" => q.open[h].path \in Work

FlowInv == Flows(k, Outer, Shell) /\ OwnFiles(k, mine)

LEMMA FilesKept ==
  ASSUME NEW q, NEW r, NEW s, ShellSound(s), Files(q, s), Same(q, r, Held(s), Needs(s))
  PROVE  Files(r, s)
<1>0. /\ s.stage \in Nat /\ s.of \in Nat /\ s.stage <= s.of
      /\ s.stage \in Nat /\ s.in # None => s.stage > 1
  BY ShellFields DEF ShellSound
<1>1. ASSUME s.out # None
      PROVE  LET p == SinkOf(s.stage, s.of, s.target)
             IN  /\ r.open[s.out].path = p /\ Exists(r, p)
                 /\ r.open[s.out].pos = Len(r.content[p])
  BY <1>1 DEF Files, Same, Held, Needs
<1>2. ASSUME s.in # None
      PROVE  LET p == Pipes[s.stage - 1]
             IN  /\ r.open[s.in].path = p /\ Exists(r, p)
                 /\ r.open[s.in].pos <= Len(r.content[p])
  BY <1>2 DEF Files, Same, Held, Needs
<1>3. ASSUME s.out = None, s.stage < s.of PROVE ~Exists(r, Pipes[s.stage])
  <2>1. SinkOf(s.stage, s.of, s.target) = Pipes[s.stage]
    BY <1>3 DEF SinkOf
  <2> QED
    BY <1>3, <2>1 DEF Files, Same, Needs
<1> QED
  BY <1>1, <1>2, <1>3 DEF Files
\* The stage a shell has running.
LEMMA StageIs ==
  ASSUME NEW s, ShellSound(s), s.stage > 0
  PROVE  /\ s \in ShellState
         /\ s.of \in 1 .. MaxStages /\ s.stage \in 1 .. s.of
         /\ s.target \in Targets \cup {None}
         /\ s.stage < s.of \/ s.stage = s.of
<1>1. /\ s \in ShellState /\ s.stage \in Nat /\ s.of \in Nat /\ s.stage <= s.of
      /\ s.of \in 0 .. MaxStages /\ s.target \in Targets \cup {None}
  BY ShellFields DEF ShellSound
<1> QED
  BY <1>1

LEMMA NeedsPaths ==
  ASSUME NEW s, ShellSound(s)
  PROVE  /\ Needs(s) \subseteq Paths \ Work
         /\ s.out # None \/ s.stage < s.of \/ s.in # None => s.stage > 0
         /\ s.out # None => SinkOf(s.stage, s.of, s.target) \in Paths \ Work
         /\ s.out = None => \A t \in Targets : t \notin Needs(s)
<1>1. /\ s.stage \in Nat /\ s.of \in Nat /\ s.stage <= s.of
      /\ s.stage = 0 => s = Ready(s.bat)
      /\ s.bat \in Handles
      /\ s.in # None => s.stage > 1
      /\ s.stage = s.of /\ s.target = None => s.out = None
  BY ShellFields DEF ShellSound
<1>2. s.stage = 0 => s.out = None /\ s.in = None /\ ~(s.stage < s.of)
  BY <1>1, ReadyIs
<1>3. CASE s.stage = 0
  BY <1>1, <1>2, <1>3 DEF Needs
<1>4. CASE s.stage > 0
  <2> DEFINE p == SinkOf(s.stage, s.of, s.target)
  <2>1. /\ s.of \in 1 .. MaxStages /\ s.stage \in 1 .. s.of
        /\ s.target \in Targets \cup {None}
        /\ s.stage < s.of \/ s.stage = s.of
    BY <1>4, StageIs
  <2>2. /\ s.stage < s.of => s.stage \in 1 .. 3 /\ p = Pipes[s.stage]
        /\ s.stage = s.of => p = s.target
        /\ s.stage > 1 => s.stage - 1 \in 1 .. 3
    BY <2>1, SinkIs
  <2> HIDE DEF p
  <2>3. /\ s.stage < s.of => p \in Paths \ Work /\ p \notin Targets
        /\ s.out # None => p \in Paths \ Work
        /\ s.in # None => Pipes[s.stage - 1] \in Paths \ Work
                          /\ Pipes[s.stage - 1] \notin Targets
    BY <1>1, <2>1, <2>2, PathsFacts
  <2>4. Needs(s) = (IF s.stage < s.of \/ s.out # None THEN {p} ELSE {})
                   \cup (IF s.in # None THEN {Pipes[s.stage - 1]} ELSE {})
    BY DEF Needs, p
  <2> QED
    BY <1>4, <2>3, <2>4 DEF p
<1> QED
  BY <1>1, <1>3, <1>4

\* What one shell writes or deletes another one does not depend on.
LEMMA NeedsApart ==
  ASSUME NEW a, NEW b, ShellSound(a), ShellSound(b), a.stage > 0, Nest(a, b)
  PROVE  /\ b.of > 1 => Needs(a) = {}
         /\ b.target # None => b.target \notin Needs(a)
         /\ b.out # None => SinkOf(b.stage, b.of, b.target) \notin Needs(a)
         /\ a.out # None => SinkOf(a.stage, a.of, a.target) \notin Needs(b)
<1>1. /\ a.stage \in Nat /\ a.of \in Nat /\ a.stage <= a.of
      /\ b.stage \in Nat /\ b.of \in Nat /\ b.stage <= b.of
      /\ a.in # None => a.stage > 1
      /\ b.in # None => b.stage > 1
      /\ b.stage = 0 => b = Ready(b.bat)
      /\ b.bat \in Handles
      /\ b.stage = b.of /\ b.target = None => b.out = None
      /\ b.target \in Targets \cup {None}
  BY ShellFields DEF ShellSound
<1>2. b.of > 1 => Needs(a) = {}
  <2>1. b.of > 1 => a.of = 1 /\ a.out = None
    BY DEF Nest
  <2>2. a.of = 1 => ~(a.stage < a.of) /\ a.in = None
    BY <1>1
  <2> QED
    BY <2>1, <2>2 DEF Needs
<1>3. b.target # None => b.target \notin Needs(a)
  BY <1>1, NeedsPaths DEF Nest
<1>4. ASSUME b.out # None, b.of <= 1
      PROVE  SinkOf(b.stage, b.of, b.target) = b.target /\ b.target # None
  <2>1. b.stage > 0 /\ ~(b.stage < b.of) /\ b.stage = b.of
    BY <1>1, <1>4, NeedsPaths
  <2> QED
    BY <1>1, <1>4, <2>1 DEF SinkOf
<1>5. b.of > 1 \/ b.of <= 1
  BY <1>1
<1>6. b.out # None => SinkOf(b.stage, b.of, b.target) \notin Needs(a)
  BY <1>2, <1>3, <1>4, <1>5
<1>7. ASSUME a.out # None PROVE Needs(b) = {}
  <2>1. ~(b.of > 1) /\ b.target = None
    BY <1>7 DEF Nest
  <2>2. b.stage = b.of /\ b.in = None
    <3>1. CASE b.stage = 0
      BY <1>1, <3>1, ReadyIs
    <3>2. CASE b.stage # 0
      BY <1>1, <2>1, <3>2
    <3> QED
      BY <3>1, <3>2
  <2> QED
    BY <1>1, <2>1, <2>2 DEF Needs
<1> QED
  BY <1>2, <1>3, <1>6, <1>7

LEMMA FilesBelow ==
  ASSUME NEW q, NEW r, NEW st, Waiting(st), FilesOfAll(q, st),
         Same(q, r, HeldBy(st), NeedsOf(st))
  PROVE  FilesOfAll(r, st)
<1>1. SUFFICES ASSUME NEW i \in 1 .. Len(st) PROVE Files(r, st[i])
  BY DEF FilesOfAll
<1>2. ShellSound(st[i]) /\ Files(q, st[i])
  BY DEF Waiting, FilesOfAll
<1>3. Held(st[i]) \subseteq HeldBy(st) /\ Needs(st[i]) \subseteq NeedsOf(st)
  BY DEF HeldBy, NeedsOf
<1>4. Same(q, r, Held(st[i]), Needs(st[i]))
  BY <1>3, SameLess
<1> QED
  BY <1>2, <1>4, FilesKept

\* The files that stage s writes, and deletes at its end, are no shell's below.
LEMMA NeedsBelow ==
  ASSUME NEW st, NEW s, Waiting(st), ShellSound(s), NestOver(st, s)
  PROVE  /\ NeedsOf(st) \subseteq Paths \ Work
         /\ s.of > 1 => NeedsOf(st) = {}
         /\ s.target \notin NeedsOf(st)
         /\ s.stage > 0 => SinkOf(s.stage, s.of, s.target) \notin NeedsOf(st)
<1>1. \A i \in 1 .. Len(st) : ShellSound(st[i]) /\ st[i].stage > 0 /\ Nest(st[i], s)
  BY DEF Waiting, NestOver
<1>2. \A i \in 1 .. Len(st) :
         /\ Needs(st[i]) \subseteq Paths \ Work
         /\ s.of > 1 => Needs(st[i]) = {}
         /\ s.target # None => s.target \notin Needs(st[i])
  BY <1>1, NeedsPaths, NeedsApart
<1>3. NeedsOf(st) \subseteq Paths \ Work
  BY <1>2 DEF NeedsOf
<1>4. s.of > 1 => NeedsOf(st) = {}
  BY <1>2 DEF NeedsOf
<1>5. s.target \notin NeedsOf(st)
  <2>1. CASE s.target = None
    BY <1>3, <2>1, PathsFacts
  <2>2. CASE s.target # None
    BY <1>2, <2>2 DEF NeedsOf
  <2> QED
    BY <2>1, <2>2
<1>6. ASSUME s.stage > 0 PROVE SinkOf(s.stage, s.of, s.target) \notin NeedsOf(st)
  <2>1. /\ s.of \in 1 .. MaxStages /\ s.stage \in 1 .. s.of
        /\ s.target \in Targets \cup {None}
        /\ s.stage < s.of \/ s.stage = s.of
    BY <1>6, StageIs
  <2>2. s.stage < s.of => s.of > 1
    BY <2>1
  <2>3. s.stage = s.of => SinkOf(s.stage, s.of, s.target) = s.target
    BY <2>1, SinkIs
  <2> QED
    BY <1>4, <1>5, <2>1, <2>2, <2>3
<1> QED
  BY <1>3, <1>4, <1>5, <1>6
LEMMA StagedFlows ==
  ASSUME NEW q, NEW st, NEW o, NEW bat \in Handles,
         Waiting(st), OnTop(q, st, Ready(bat), o), Flows(q, st, Ready(bat)),
         NEW n \in 1 .. MaxStages, NEW i \in 1 .. n,
         NEW t \in Targets \cup {None}, NEW room \in BOOLEAN,
         NestOver(st, ShellAt(q, i, n, t, room, bat))
  PROVE  /\ Flows(Staged(q, i, n, t, room), st, ShellAt(q, i, n, t, room, bat))
         /\ Same(q, Staged(q, i, n, t, room), HeldBy(st), NeedsOf(st))
<1> DEFINE r == Staged(q, i, n, t, room)
           s == ShellAt(q, i, n, t, room, bat)
           p == SinkOf(i, n, t)
<1>1. q \in Kernels /\ HeldBy(st) \subseteq InUse(q)
  BY DEF OnTop
<1>2. StageStarted(q, i, n, t, bat, r, s)
  BY <1>1, StagedIs
<1>3. OnTop(r, st, s, o)
  BY StagedOnTop
<1>4. NestOver(st, s)
  OBVIOUS
<1> HIDE DEF r, s
<1>5. /\ r \in Kernels /\ ShellSound(s)
      /\ s.stage = i /\ s.of = n /\ s.target = t
      /\ r.redirect = (IF s.out = None THEN q.redirect ELSE s.out)
      /\ r.stdin = (IF s.in = None THEN q.stdin ELSE s.in)
      /\ Same(q, r, InUse(q), Paths \ {p})
      /\ s.out # None => /\ r.open[s.out].path = p /\ r.open[s.out].pos = 0
                         /\ Exists(r, p) /\ r.content[p] = << >>
      /\ s.out = None /\ p # None => ~Exists(r, p)
      /\ s.in # None => /\ i > 1
                        /\ r.open[s.in].path = Pipes[i - 1] /\ r.open[s.in].pos = 0
                        /\ Exists(r, Pipes[i - 1])
  BY <1>2, <1>3 DEF StageStarted, OnTop
<1>6. /\ i \in Nat /\ 1 <= i
      /\ i < n => p = Pipes[i] /\ Pipes[i] \in Paths
  BY SinkIs, PathsFacts
<1>7. p \notin NeedsOf(st) /\ NeedsOf(st) \subseteq Paths
  <2>1. s.stage > 0
    BY <1>5, <1>6
  <2> QED
    BY <1>4, <1>5, <2>1, NeedsBelow
<1>a. Same(q, r, HeldBy(st), NeedsOf(st))
  <2>1. NeedsOf(st) \subseteq Paths \ {p}
    BY <1>7
  <2> QED
    BY <1>1, <1>5, <2>1, SameLess
<1>8. FilesOfAll(r, st)
  <2>1. FilesOfAll(q, st)
    BY DEF Flows
  <2> QED
    BY <1>a, <2>1, FilesBelow
<1>9. Files(r, s)
  <2>1. s.out # None => Len(r.content[p]) = 0
    BY <1>5
  <2>2. s.in # None => Len(r.content[Pipes[i - 1]]) \in Nat
    <3>1. ASSUME s.in # None PROVE r.content[Pipes[i - 1]] \in Seq(Bytes)
      BY <1>5, <3>1, KernelFields DEF Exists
    <3> QED
      BY <3>1
  <2>3. s.in # None => 0 <= Len(r.content[Pipes[i - 1]])
    BY <2>2
  <2>4. i < n => p # None
    BY <1>6, PathsFacts
  <2> HIDE DEF p
  <2>5. s.out # None => /\ r.open[s.out].path = p /\ Exists(r, p)
                        /\ r.open[s.out].pos = Len(r.content[p])
    BY <1>5, <2>1
  <2>6. s.in # None => /\ r.open[s.in].path = Pipes[i - 1] /\ Exists(r, Pipes[i - 1])
                       /\ r.open[s.in].pos <= Len(r.content[Pipes[i - 1]])
    BY <1>5, <2>3
  <2>7. s.out = None /\ i < n => ~Exists(r, Pipes[i])
    BY <1>5, <1>6, <2>4
  <2> QED
    BY <1>5, <2>5, <2>6, <2>7 DEF Files, p
<1>10. q.redirect = OuterOut(st) /\ q.stdin = OuterIn(st) /\ Nests(st)
  BY ReadyIs DEF Flows
<1> QED
  BY <1>4, <1>5, <1>8, <1>9, <1>10, <1>a DEF Flows, r, s

\* Below a shell with a redirect no other has one, and so for the input.
LEMMA QuietBelow ==
  ASSUME NEW st, NEW s, Waiting(st), ShellSound(s), NestOver(st, s)
  PROVE  /\ s.out # None => OuterOut(st) = None
         /\ s.in # None => OuterIn(st) = None
<1>0. st \in Seq(ShellState)
  BY DEF Waiting
<1>1. /\ s.stage \in Nat /\ s.of \in Nat /\ s.stage <= s.of
      /\ s.stage = s.of /\ s.target = None => s.out = None
      /\ s.in # None => s.stage > 1
  BY ShellFields DEF ShellSound
<1>2. ASSUME s.out # None, NEW j \in 1 .. Len(st) PROVE st[j].out = None
  <2>1. s.of > 1 \/ s.target # None
    <3>1. s.stage > 0
      BY <1>2, NeedsPaths
    <3> QED
      BY <1>1, <1>2, <3>1
  <2> QED
    BY <2>1 DEF NestOver, Nest
<1>3. ASSUME s.in # None, NEW j \in 1 .. Len(st) PROVE st[j].in = None
  <2>1. s.of > 1
    BY <1>1, <1>3
  <2>2. st[j].of = 1 /\ ShellSound(st[j])
    BY <2>1 DEF NestOver, Nest, Waiting
  <2>3. st[j].stage \in Nat /\ st[j].stage <= st[j].of /\ (st[j].in # None => st[j].stage > 1)
    BY <2>2, ShellFields DEF ShellSound
  <2> QED
    BY <2>2, <2>3
<1>4. \/ OuterOut(st) = None
      \/ \E i \in 1 .. Len(st) : st[i].out # None
  BY <1>0, OuterIs
<1>5. \/ OuterIn(st) = None
      \/ \E i \in 1 .. Len(st) : st[i].in # None
  BY <1>0, OuterIs
<1> QED
  BY <1>2, <1>3, <1>4, <1>5

LEMMA EndedFlows ==
  ASSUME NEW q, NEW st, NEW s, NEW o, Waiting(st), OnTop(q, st, s, o), Flows(q, st, s)
  PROVE  Flows(Ended(q, s), st, Ready(s.bat)) /\ Same(q, Ended(q, s), HeldBy(st), NeedsOf(st))
<1> DEFINE r == Ended(q, s)
           p == Pipes[s.stage - 1]
           P == IF s.in = None THEN Paths ELSE Paths \ {p}
<1>1. /\ q \in Kernels /\ ShellSound(s) /\ s \in ShellState
      /\ s.in \in Handles /\ s.out \in Handles /\ s.bat \in Handles
      /\ s.stage \in Nat /\ s.of \in Nat /\ s.stage <= s.of
      /\ s.in # None => s.stage > 1
      /\ HeldBy(st) \subseteq InUse(q) /\ InUse(q) \subseteq Slots
      /\ Held(s) \cap HeldBy(st) = {}
  BY ShellFields, KernelFields DEF OnTop, ShellSound
<1>2. /\ r \in Kernels
      /\ r.redirect = (IF s.out = None THEN q.redirect ELSE None)
      /\ r.stdin = (IF s.in = None THEN q.stdin ELSE None)
      /\ Same(q, r, Slots \ {s.out, s.in}, P)
  BY <1>1, EndedIs
<1> HIDE DEF r
<1>3. /\ Nests(st) /\ NestOver(st, s) /\ FilesOfAll(q, st)
      /\ q.redirect = (IF s.out # None THEN s.out ELSE OuterOut(st))
      /\ q.stdin = (IF s.in # None THEN s.in ELSE OuterIn(st))
  BY DEF Flows
<1>4. /\ NeedsOf(st) \subseteq Paths
      /\ s.of > 1 => NeedsOf(st) = {}
  BY <1>1, <1>3, NeedsBelow
<1>5. NeedsOf(st) \subseteq P
  <2>1. s.in # None => s.of > 1
    BY <1>1
  <2> QED
    BY <1>4, <2>1
<1>6. HeldBy(st) \subseteq Slots \ {s.out, s.in}
  <2>1. None \notin HeldBy(st)
    BY DEF HeldBy, Held
  <2> QED
    BY <1>1, <2>1 DEF Held
<1> HIDE DEF P
<1>a. Same(q, r, HeldBy(st), NeedsOf(st))
  BY <1>2, <1>5, <1>6, SameLess
<1>7. FilesOfAll(r, st)
  BY <1>3, <1>a, FilesBelow
<1>8. r.redirect = OuterOut(st) /\ r.stdin = OuterIn(st)
  BY <1>1, <1>2, <1>3, QuietBelow
<1>9. Files(r, Ready(s.bat)) /\ NestOver(st, Ready(s.bat))
  BY <1>1, ReadyIs DEF Files, NestOver, Nest
<1>10. Ready(s.bat).out = None /\ Ready(s.bat).in = None
  BY <1>1, ReadyIs
<1> QED
  BY <1>3, <1>7, <1>8, <1>9, <1>10, <1>a DEF Flows, r
----------------------------------------------------------------------------
(* What Streams sees of the outermost shell *)

SinkAt(s)      == IF s.out # None THEN "kept" ELSE "console"
SourceAt(s)    == IF s.in # None THEN "previous" ELSE "keyboard"
MadeAt(q, s)   == IF s.out # None THEN q.content[SinkOf(s.stage, s.of, s.target)] ELSE << >>
InputAt(q, s)  == IF s.in # None THEN Rest(q, s.in) ELSE << >>

\* Nothing that Streams sees is different for shell u in r than for s in q.
Keeps(q, s, r, u) ==
    /\ u.stage = s.stage /\ u.of = s.of
    /\ SinkAt(u) = SinkAt(s) /\ SourceAt(u) = SourceAt(s)
    /\ MadeAt(r, u) = MadeAt(q, s) /\ InputAt(r, u) = InputAt(q, s)

LEMMA KeepsSame ==
  ASSUME NEW q, NEW r, NEW s, Files(q, s), Same(q, r, Held(s), Needs(s))
  PROVE  Keeps(q, s, r, s)
<1>1. s.out # None => MadeAt(r, s) = MadeAt(q, s)
  BY DEF Files, Same, Needs, MadeAt
<1>2. s.in # None => InputAt(r, s) = InputAt(q, s)
  <2>1. s.in # None => LET x == Pipes[s.stage - 1]
                       IN  /\ r.open[s.in] = q.open[s.in] /\ q.open[s.in].path = x
                           /\ r.content[x] = q.content[x]
    BY DEF Files, Same, Needs, Held
  <2> QED
    BY <2>1 DEF InputAt, Rest
<1> QED
  BY <1>1, <1>2 DEF Keeps, MadeAt, InputAt

LEMMA KeepsIdle ==
  ASSUME NEW q, NEW r, NEW b \in Handles, NEW h \in Handles
  PROVE  Keeps(q, Ready(b), r, Ready(h))
BY ReadyIs DEF Keeps, SinkAt, SourceAt, MadeAt, InputAt

LEMMA KeepsBelow ==
  ASSUME NEW q, NEW r, NEW st, FilesOfAll(q, st), Same(q, r, HeldBy(st), NeedsOf(st)),
         Len(st) > 0, Len(st) \in Nat
  PROVE  Keeps(q, st[1], r, st[1])
<1>1. 1 \in 1 .. Len(st)
  OBVIOUS
<1>2. Files(q, st[1]) /\ Held(st[1]) \subseteq HeldBy(st) /\ Needs(st[1]) \subseteq NeedsOf(st)
  BY <1>1 DEF FilesOfAll, HeldBy, NeedsOf
<1>3. Same(q, r, Held(st[1]), Needs(st[1]))
  BY <1>2, SameLess
<1> QED
  BY <1>2, <1>3, KeepsSame

LEMMA MainIs ==
  ASSUME NEW st \in Seq(ShellState), NEW s \in ShellState
  PROVE  /\ shells = Append(st, s) => Main = IF Len(st) = 0 THEN s ELSE st[1]
         /\ shells' = Append(st, s) => Main' = IF Len(st) = 0 THEN s ELSE st[1]
         /\ Len(st) \in Nat /\ (Len(st) # 0 => Len(st) > 0)
<1>1. /\ Len(st) \in Nat /\ \A i \in 1 .. Len(st) : Append(st, s)[i] = st[i]
      /\ Append(st, s)[Len(st) + 1] = s
  BY StackMore
<1>2. Append(st, s)[1] = IF Len(st) = 0 THEN s ELSE st[1]
  <2>1. Len(st) # 0 => 1 \in 1 .. Len(st)
    BY <1>1
  <2> QED
    BY <1>1, <2>1
<1> QED
  BY <1>1, <1>2 DEF Main

\* The shell at its prompt has other batch files, or none: nobody sees that.
LEMMA PromptKeeps ==
  ASSUME NEW st \in Seq(ShellState), NEW b \in Handles, NEW h \in Handles,
         shells = Append(st, Ready(b)), shells' = Append(st, Ready(h)),
         FilesOfAll(k, st), Same(k, k', HeldBy(st), NeedsOf(st))
  PROVE  Keeps(k, Main, k', Main')
<1>1. Ready(b) \in ShellState /\ Ready(h) \in ShellState
  BY ReadyIs
<1>2. /\ Main = IF Len(st) = 0 THEN Ready(b) ELSE st[1]
      /\ Main' = IF Len(st) = 0 THEN Ready(h) ELSE st[1]
      /\ Len(st) \in Nat /\ (Len(st) # 0 => Len(st) > 0)
  BY <1>1, MainIs
<1>3. CASE Len(st) = 0
  BY <1>2, <1>3, KeepsIdle
<1>4. CASE Len(st) # 0
  BY <1>2, <1>4, KeepsBelow
<1> QED
  BY <1>3, <1>4

\* The outermost shell starts a line of n stages, goes on to the next stage, or
\* has done the last one.
Begun(n, r, u) ==
    u.stage = 1 /\ u.of = n /\ u.in = None /\ MadeAt(r, u) = << >>

Advanced(q, s, r, u) ==
    /\ s.stage > 0 /\ s.stage < s.of /\ u.stage = s.stage + 1 /\ u.of = s.of
    /\ MadeAt(r, u) = << >>
    /\ u.in # None => s.out # None /\ InputAt(r, u) = MadeAt(q, s)
    /\ u.in = None /\ s.out # None => InUse(r) = Slots

Finished(s, u) ==
    /\ s.stage > 0 /\ s.stage = s.of
    /\ u.stage = 0 /\ u.of = 0 /\ u.out = None /\ u.in = None

\* Stage i of n as Streams sees it when it starts.
StageShown(q, i, n, r, s) ==
    /\ s \in ShellState /\ s.stage = i /\ s.of = n
    /\ MadeAt(r, s) = << >>
    /\ i = 1 => s.in = None
    /\ s.in # None => Exists(q, Pipes[i - 1]) /\ InputAt(r, s) = q.content[Pipes[i - 1]]
    /\ s.in = None /\ i > 1 /\ Exists(q, Pipes[i - 1]) => InUse(r) = Slots

LEMMA StageSeen ==
  ASSUME NEW q, NEW n \in 1 .. MaxStages, NEW i \in 1 .. n,
         NEW t \in Targets \cup {None}, NEW bat \in Handles, NEW r, NEW s,
         StageStarted(q, i, n, t, bat, r, s)
  PROVE  StageShown(q, i, n, r, s)
<1>1. /\ r \in Kernels /\ s \in ShellState /\ s.stage = i /\ s.of = n /\ s.target = t
      /\ s.out # None => r.content[SinkOf(i, n, t)] = << >>
      /\ s.in # None => /\ i > 1
                        /\ r.open[s.in].path = Pipes[i - 1] /\ r.open[s.in].pos = 0
                        /\ Exists(q, Pipes[i - 1]) /\ Exists(r, Pipes[i - 1])
                        /\ r.content[Pipes[i - 1]] = q.content[Pipes[i - 1]]
      /\ s.in = None /\ i > 1 /\ Exists(q, Pipes[i - 1]) => InUse(r) = Slots
  BY DEF StageStarted
<1>2. MadeAt(r, s) = << >>
  BY <1>1 DEF MadeAt
<1>3. ASSUME s.in # None PROVE InputAt(r, s) = q.content[Pipes[i - 1]]
  <2> DEFINE c == r.content[Pipes[i - 1]]
  <2>1. c \in Seq(Bytes)
    BY <1>1, <1>3, KernelFields DEF Exists
  <2>2. InputAt(r, s) = SubSeq(c, 0 + 1, Len(c))
    BY <1>1, <1>3 DEF InputAt, Rest
  <2>3. \A w \in Seq(Bytes) : SubSeq(w, 0 + 1, Len(w)) = w
    OBVIOUS
  <2>4. c = q.content[Pipes[i - 1]]
    BY <1>1, <1>3
  <2> HIDE DEF c
  <2> QED
    BY <2>1, <2>2, <2>3, <2>4
<1> QED
  BY <1>1, <1>2, <1>3, SinkIs DEF StageShown

----------------------------------------------------------------------------
(* The invariant, step by step *)

Inv == HandlesInv /\ FlowInv

LEMMA Stacked ==
  ASSUME HandlesInv
  PROVE  /\ shells = Append(Outer, Shell)
         /\ Outer \in Seq(ShellState) /\ Len(Outer) = Depth - 1
         /\ Depth \in Nat /\ Depth > 0
         /\ ShellSound(Shell) /\ Shell \in ShellState /\ Shell.bat \in Handles
         /\ AtPrompt => Shell = Ready(Shell.bat) /\ mine = {}
         /\ Running => Shell.stage > 0
         /\ HeldBy(shells) = HeldBy(Outer) \cup Held(Shell)
         /\ k \in Kernels /\ InUse(k) \subseteq Slots
<1>1. shells \in Seq(ShellState) /\ Len(shells) > 0 /\ Depth \in Nat
  BY ShellAssumption DEF HandlesInv, Depth
<1>2. /\ shells = Append(Outer, Shell)
      /\ Outer \in Seq(ShellState) /\ Len(Outer) = Depth - 1
  BY <1>1, StackTop DEF Outer, Shell, Depth
<1>3. ShellSound(Shell) /\ Shell \in ShellState /\ Shell.bat \in Handles /\ Shell.stage \in Nat
  BY ShellFields DEF HandlesInv, OnTop, ShellSound
<1>4. HeldBy(shells) = HeldBy(Outer) \cup Held(Shell)
  BY <1>2, <1>3, StackMore
<1>5. AtPrompt => Shell = Ready(Shell.bat) /\ mine = {}
  BY <1>3 DEF HandlesInv, AtPrompt, ShellSound
<1>6. Running => Shell.stage > 0
  BY <1>3 DEF Running, AtPrompt
<1>7. k \in Kernels /\ InUse(k) \subseteq Slots
  BY KernelFields DEF HandlesInv, OnTop
<1>8. Depth > 0
  BY <1>1 DEF Depth
<1> QED
  BY <1>1, <1>2, <1>3, <1>4, <1>5, <1>6, <1>7, <1>8

\* Kernel q, with shell s on top of the shells st, is what a step leads to.
Led(q, st, s, m, l) ==
    /\ Waiting(st) /\ OnTop(q, st, s, m \cup l) /\ Flows(q, st, s)
    /\ OwnFiles(q, m) /\ m \cap l = {}
    /\ s.stage = 0 => m = {}
    /\ Len(st) + 1 \in 1 .. MaxDepth

LEMMA InvIsLed ==
  ASSUME Inv
  PROVE  Led(k, Outer, Shell, mine, leaked)
<1>1. Len(Outer) + 1 = Depth
  BY Stacked DEF Inv
<1> QED
  BY <1>1 DEF Inv, HandlesInv, FlowInv, Led, AtPrompt

LEMMA LedIsInv ==
  ASSUME NEW st, NEW s, shells' = Append(st, s), Led(k', st, s, mine', leaked')
  PROVE  Inv'
<1>1. st \in Seq(ShellState) /\ s \in ShellState
  BY DEF Led, Waiting, OnTop, ShellSound
<1>2. /\ shells' \in Seq(ShellState) /\ Len(shells') = Len(st) + 1
      /\ shells'[Len(shells')] = s
      /\ SubSeq(shells', 1, Len(shells') - 1) = st
  BY <1>1, StackMore
<1>3. Outer' = st /\ Shell' = s /\ Depth' = Len(st) + 1
  BY <1>2 DEF Outer, Shell, Depth
<1>4. HandlesInv'
  BY <1>2, <1>3 DEF Led, HandlesInv, AtPrompt
<1>5. FlowInv'
  BY <1>3 DEF Led, FlowInv
<1> QED
  BY <1>4, <1>5 DEF Inv

\* The first stage of a line, or the next one.
LEMMA StageLed ==
  ASSUME NEW q, NEW st, NEW bat \in Handles, NEW l, Led(q, st, Ready(bat), {}, l),
         NEW n \in 1 .. MaxStages, NEW i \in 1 .. n, NEW t \in Targets \cup {None},
         NEW room \in BOOLEAN,
         n > 1 => \A j \in 1 .. Len(st) : st[j].of = 1 /\ st[j].out = None,
         t # None => \A j \in 1 .. Len(st) : st[j].out = None
  PROVE  /\ Led(Staged(q, i, n, t, room), st, ShellAt(q, i, n, t, room, bat), {}, l)
         /\ Same(q, Staged(q, i, n, t, room), HeldBy(st), NeedsOf(st))
<1> DEFINE s == ShellAt(q, i, n, t, room, bat)
           r == Staged(q, i, n, t, room)
<1>1. q \in Kernels /\ OnTop(q, st, Ready(bat), {} \cup l)
  BY DEF Led, OnTop
<1>2. StageStarted(q, i, n, t, bat, r, s)
  BY <1>1, StagedIs
<1>3. OnTop(r, st, s, {} \cup l)
  BY <1>1, StagedOnTop
<1> HIDE DEF s, r
<1>4. s.of = n /\ s.target = t
  BY <1>2 DEF StageStarted
<1>5. NestOver(st, s)
  BY <1>4 DEF NestOver, Nest
<1>6. Flows(r, st, s) /\ Same(q, r, HeldBy(st), NeedsOf(st))
  BY <1>1, <1>5, StagedFlows DEF Led, r, s
<1> QED
  BY <1>3, <1>6 DEF Led, OwnFiles, s, r

LEMMA QuietAll ==
  ASSUME NEW st, Waiting(st), OuterOut(st) = None
  PROVE  \A j \in 1 .. Len(st) : st[j].out = None
<1>1. st \in Seq(ShellState)
  BY DEF Waiting
<1> QED
  BY <1>1, OuterIs

LEMMA LineInv ==
  ASSUME Inv, Risky = {}, NEW n \in 1 .. MaxStages, NEW t \in Targets \cup {None}, Line(n, t)
  PROVE  Inv'
<1>1. Led(k, Outer, Ready(Shell.bat), {}, leaked) /\ Shell.bat \in Handles
  BY InvIsLed, Stacked DEF Line, Inv
<1>2. n > 1 => \A j \in 1 .. Len(Outer) : Outer[j].of = 1 /\ Outer[j].out = None
  BY <1>1, QuietAll DEF Line, MayPipe, Led
<1>3. t # None => \A j \in 1 .. Len(Outer) : Outer[j].out = None
  BY <1>1, QuietAll DEF Line, MayName, Led
<1>4. PICK room \in BOOLEAN :
        /\ k' = Staged(k, 1, n, t, room)
        /\ shells' = Append(Outer, ShellAt(k, 1, n, t, room, Shell.bat))
  BY DEF Line
<1>5. 1 \in 1 .. n
  OBVIOUS
<1>6. Led(Staged(k, 1, n, t, room), Outer, ShellAt(k, 1, n, t, room, Shell.bat), {}, leaked)
  BY <1>1, <1>2, <1>3, <1>5, StageLed
<1>7. mine' = {} /\ leaked' = leaked
  BY Stacked DEF Line, Inv
<1> QED
  BY <1>4, <1>6, <1>7, LedIsInv

LEMMA EndedLed ==
  ASSUME NEW q, NEW st, NEW s, NEW m, NEW l, Led(q, st, s, m, l)
  PROVE  /\ Led(Ended(q, s), st, Ready(s.bat), {}, m \cup l)
         /\ Same(q, Ended(q, s), HeldBy(st), NeedsOf(st))
<1>1. OnTop(Ended(q, s), st, Ready(s.bat), m \cup l)
  BY EndedOnTop DEF Led
<1>2. Flows(Ended(q, s), st, Ready(s.bat)) /\ Same(q, Ended(q, s), HeldBy(st), NeedsOf(st))
  BY EndedFlows DEF Led
<1>3. {} \cup (m \cup l) = m \cup l
  OBVIOUS
<1> QED
  BY <1>1, <1>2, <1>3 DEF Led, OwnFiles

LEMMA ChildEndedInv ==
  ASSUME NEW q, NEW st, NEW s, NEW m, NEW l, Led(q, st, s, m, l), s.stage > 0,
         NEW room \in BOOLEAN, ChildEnded(q, st, s, room), mine' = {}, leaked' = m \cup l
  PROVE  Inv'
<1>1. /\ ShellSound(s) /\ s.bat \in Handles /\ NestOver(st, s)
      /\ s.of \in 1 .. MaxStages /\ s.stage \in 1 .. s.of
      /\ s.target \in Targets \cup {None}
  BY StageIs, ShellFields DEF Led, OnTop, Flows
<1>2. Led(Ended(q, s), st, Ready(s.bat), {}, m \cup l)
  BY EndedLed
<1>3. CASE s.stage < s.of
  <2>1. s.stage + 1 \in 1 .. s.of
    BY <1>1, <1>3
  <2>2. /\ s.of > 1 => \A j \in 1 .. Len(st) : st[j].of = 1 /\ st[j].out = None
        /\ s.target # None => \A j \in 1 .. Len(st) : st[j].out = None
    BY <1>1 DEF NestOver, Nest
  <2> DEFINE i == s.stage + 1
             r == Staged(Ended(q, s), i, s.of, s.target, room)
             a == ShellAt(Ended(q, s), i, s.of, s.target, room, s.bat)
  <2>3. k' = r /\ shells' = Append(st, a)
    BY <1>3 DEF ChildEnded, Ended
  <2> HIDE DEF i
  <2>4. Led(r, st, a, {}, m \cup l)
    BY <1>1, <1>2, <2>1, <2>2, StageLed DEF i
  <2> HIDE DEF r, a
  <2> QED
    BY <2>3, <2>4, LedIsInv
<1>4. CASE ~(s.stage < s.of)
  <2>1. k' = Ended(q, s) /\ shells' = Append(st, Ready(s.bat))
    BY <1>4 DEF ChildEnded, Ended
  <2> QED
    BY <1>2, <2>1, LedIsInv
<1> QED
  BY <1>3, <1>4

LEMMA ExitInv ==
  ASSUME Inv, Exit
  PROVE  Inv'
<1>1. Led(k, Outer, Shell, mine, leaked) /\ Shell.stage > 0
  BY InvIsLed, Stacked DEF Exit, Inv
<1>2. PICK room \in BOOLEAN : ChildEnded(k, Outer, Shell, room)
  BY DEF Exit
<1>3. mine' = {} /\ leaked' = mine \cup leaked
  BY DEF Exit
<1> QED
  BY <1>1, <1>2, <1>3, ChildEndedInv
----------------------------------------------------------------------------
(* Steps at the prompt *)

\* The handle of the batch file changes, and nothing that others need.
LEMMA BatLed ==
  ASSUME NEW q, NEW st, NEW bat \in Handles, NEW l, Led(q, st, Ready(bat), {}, l),
         NEW r \in Kernels, NEW h \in Handles, NEW D \in SUBSET Paths,
         h # None => h = bat \/ h \notin InUse(q),
         InUse(r) = (InUse(q) \ {bat}) \cup ({h} \ {None}),
         r.redirect = q.redirect, r.stdin = q.stdin,
         Same(q, r, InUse(q) \ {bat}, Paths \ D), NeedsOf(st) \cap D = {}
  PROVE  Led(r, st, Ready(h), {}, l) /\ Same(q, r, HeldBy(st), NeedsOf(st))
<1> DEFINE B == HeldBy(st)
           O == {st[j].out : j \in 1 .. Len(st)}
           I == {st[j].in : j \in 1 .. Len(st)}
<1>1. /\ OnTop(q, st, Ready(bat), {} \cup l) /\ Waiting(st) /\ Flows(q, st, Ready(bat))
      /\ {} \cup l = l
  BY DEF Led
<1> HIDE DEF B, O, I
<1>2. /\ InUse(q) = l \cup B \cup ({bat} \ {None})
      /\ ({bat} \ {None}) \cap B = {}
      /\ l \cap (B \cup ({bat} \ {None})) = {}
      /\ q.redirect \in {None} \cup O /\ q.stdin \in {None} \cup I
  BY <1>1, ReadyIs DEF OnTop, B, O, I
<1>3. None \notin B
  BY DEF B, HeldBy, Held
<1>4. None \notin InUse(q)
  <2>1. q \in Kernels
    BY <1>1 DEF OnTop
  <2> QED
    BY <2>1, KernelFields, NoSlot
<1>5. /\ InUse(r) = l \cup B \cup ({h} \ {None})
      /\ ({h} \ {None}) \cap B = {}
      /\ l \cap (B \cup ({h} \ {None})) = {}
  BY <1>2, <1>3, <1>4
<1>6. OnTop(r, st, Ready(h), l)
  BY <1>2, <1>5, ReadyIs DEF OnTop, B, O, I
<1>a. Same(q, r, B, NeedsOf(st))
  <2>1. B \subseteq InUse(q) \ {bat}
    BY <1>2, <1>3
  <2>2. NeedsOf(st) \subseteq Paths \ D
    <3>1. ShellSound(Ready(bat)) /\ NestOver(st, Ready(bat))
      BY <1>1, ReadyIs DEF Flows
    <3> QED
      BY <1>1, <3>1, NeedsBelow
  <2> QED
    BY <2>1, <2>2, SameLess
<1>7. FilesOfAll(r, st)
  BY <1>1, <1>a, FilesBelow DEF Flows, B
<1>8. Flows(r, st, Ready(h))
  <2>1. /\ Nests(st) /\ NestOver(st, Ready(h)) /\ Files(r, Ready(h))
        /\ q.redirect = OuterOut(st) /\ q.stdin = OuterIn(st)
    BY <1>1, ReadyIs DEF Flows, NestOver, Nest, Files
  <2>2. Ready(h).out = None /\ Ready(h).in = None
    BY ReadyIs
  <2> QED
    BY <1>7, <2>1, <2>2 DEF Flows
<1> QED
  BY <1>1, <1>6, <1>8, <1>a, ReadyIs DEF Led, OwnFiles, B

\* A target is no file of the shells below when none of them has a redirect.
LEMMA TargetApart ==
  ASSUME NEW st, Waiting(st), NEW t \in Targets, OuterOut(st) = None
  PROVE  NeedsOf(st) \cap {t} = {}
<1>1. \A j \in 1 .. Len(st) : st[j].out = None /\ ShellSound(st[j])
  BY QuietAll DEF Waiting
<1>2. \A j \in 1 .. Len(st) : t \notin Needs(st[j])
  BY <1>1, NeedsPaths
<1> QED
  BY <1>2 DEF NeedsOf

LEMMA LineRefusedStep ==
  ASSUME Inv, Risky = {}, NEW t \in Targets \cup {None}, LineRefused(t)
  PROVE  Inv' /\ Keeps(k, Main, k', Main')
<1>1. Led(k, Outer, Ready(Shell.bat), {}, leaked) /\ Shell.bat \in Handles
  BY InvIsLed, Stacked DEF LineRefused, Inv
<1>2. k' = Deleted(k, t) /\ t \in Targets /\ OuterOut(Outer) = None
  BY DEF LineRefused, MayName
<1>3. k \in Kernels /\ InUse(k) \subseteq Slots /\ None \notin Slots
  BY Stacked, NoSlot DEF Inv
<1>4. /\ k' \in Kernels /\ InUse(k') = InUse(k)
      /\ k'.redirect = k.redirect /\ k'.stdin = k.stdin
      /\ Same(k, k', Slots, Paths \ {t})
  BY <1>2, <1>3, DeletedIs
<1>5. NeedsOf(Outer) \cap {t} = {} /\ {t} \in SUBSET Paths
  BY <1>1, <1>2, TargetApart, PathsFacts DEF Led
<1>6. Same(k, k', InUse(k) \ {Shell.bat}, Paths \ {t})
  BY <1>3, <1>4 DEF Same
<1>7. InUse(k') = (InUse(k) \ {Shell.bat}) \cup ({Shell.bat} \ {None})
  <2>1. Shell.bat # None => Shell.bat \in InUse(k)
    BY <1>1, ReadyIs DEF Led, OnTop
  <2> QED
    BY <1>3, <1>4, <2>1
<1>8. Led(k', Outer, Ready(Shell.bat), {}, leaked)
      /\ Same(k, k', HeldBy(Outer), NeedsOf(Outer))
  BY <1>1, <1>4, <1>5, <1>6, <1>7, BatLed
<1>9. shells' = Append(Outer, Ready(Shell.bat)) /\ mine' = {} /\ leaked' = leaked
      /\ shells = Append(Outer, Ready(Shell.bat)) /\ Outer \in Seq(ShellState)
  BY Stacked DEF LineRefused, Inv
<1>10. Keeps(k, Main, k', Main')
  BY <1>1, <1>8, <1>9, PromptKeeps DEF Led, Flows
<1> QED
  BY <1>8, <1>9, <1>10, LedIsInv

\* The shell on top replaced.
LEMMA TopReplaced ==
  ASSUME NEW st \in Seq(ShellState), NEW x \in ShellState, NEW y \in ShellState
  PROVE  [Append(st, x) EXCEPT ![Len(st) + 1] = y] = Append(st, y)
<1> DEFINE m == Append(st, x)
           n == Append(st, y)
           e == [m EXCEPT ![Len(st) + 1] = y]
<1>1. /\ m \in Seq(ShellState) /\ Len(m) = Len(st) + 1 /\ Len(st) \in Nat
      /\ \A i \in 1 .. Len(st) : m[i] = st[i]
  BY StackMore
<1>2. /\ n \in Seq(ShellState) /\ Len(n) = Len(st) + 1
      /\ \A i \in 1 .. Len(st) : n[i] = st[i]
      /\ n[Len(st) + 1] = y
  BY StackMore
<1> HIDE DEF m, n
<1>3. e \in Seq(ShellState) /\ Len(e) = Len(m)
      /\ \A i \in 1 .. Len(m) : e[i] = IF i = Len(st) + 1 THEN y ELSE m[i]
  <2>1. Len(st) + 1 \in 1 .. Len(m)
    BY <1>1
  <2> QED
    BY <1>1, <2>1, ExceptSeq
<1> HIDE DEF e
<1>4. \A i \in 1 .. Len(m) : e[i] = n[i]
  BY <1>1, <1>2, <1>3
<1>5. e = n
  BY <1>1, <1>2, <1>3, <1>4, SeqEqual
<1> QED
  BY <1>5 DEF e, m, n

\* A shell at its prompt.
LEMMA Prompted ==
  ASSUME Inv, AtPrompt
  PROVE  /\ Led(k, Outer, Ready(Shell.bat), {}, leaked) /\ Shell.bat \in Handles
         /\ shells = Append(Outer, Ready(Shell.bat)) /\ Depth = Len(Outer) + 1
         /\ Outer \in Seq(ShellState) /\ Len(Outer) \in Nat
         /\ Shell = Ready(Shell.bat) /\ mine = {}
         /\ k \in Kernels /\ InUse(k) \subseteq Slots
         /\ Shell.bat # None => Shell.bat \in InUse(k)
<1>1. /\ shells = Append(Outer, Shell)
      /\ Outer \in Seq(ShellState) /\ Len(Outer) = Depth - 1
      /\ Depth \in Nat /\ Depth > 0
      /\ Shell.bat \in Handles
      /\ Shell = Ready(Shell.bat) /\ mine = {}
      /\ k \in Kernels /\ InUse(k) \subseteq Slots
  BY Stacked DEF Inv
<1>2. Depth = Len(Outer) + 1 /\ Len(Outer) \in Nat
  BY <1>1
<1>3. Led(k, Outer, Shell, mine, leaked)
  BY InvIsLed
<1>4. Led(k, Outer, Ready(Shell.bat), {}, leaked)
  BY <1>1, <1>3
<1>5. Shell.bat # None => Shell.bat \in InUse(k)
  BY <1>1, <1>4, ReadyIs DEF Led, OnTop
<1> QED
  BY <1>1, <1>2, <1>4, <1>5

\* The shell at its prompt has another batch file, or none.
LEMMA BatReplaced ==
  ASSUME Inv, AtPrompt, NEW h \in Handles
  PROVE  [shells EXCEPT ![Depth].bat = h] = Append(Outer, Ready(h))
<1>1. /\ Shell.bat \in Handles /\ Shell = Ready(Shell.bat)
      /\ shells = Append(Outer, Ready(Shell.bat)) /\ Depth = Len(Outer) + 1
      /\ Outer \in Seq(ShellState)
  BY Prompted
<1>2. [Ready(Shell.bat) EXCEPT !.bat = h] = Ready(h)
  BY DEF Ready
<1>3. [shells EXCEPT ![Depth].bat = h] = [shells EXCEPT ![Depth] = [Shell EXCEPT !.bat = h]]
  BY DEF Shell
<1>4. Ready(Shell.bat) \in ShellState /\ Ready(h) \in ShellState
  BY <1>1, ReadyIs
<1>5. [Append(Outer, Ready(Shell.bat)) EXCEPT ![Len(Outer) + 1] = Ready(h)]
        = Append(Outer, Ready(h))
  BY <1>1, <1>4, TopReplaced
<1> QED
  BY <1>1, <1>2, <1>3, <1>5, Zenon

LEMMA BatchEndStep ==
  ASSUME Inv, BatchEnd
  PROVE  Inv' /\ Keeps(k, Main, k', Main')
<1>1. /\ Led(k, Outer, Ready(Shell.bat), {}, leaked) /\ Shell.bat \in Handles
      /\ k \in Kernels /\ InUse(k) \subseteq Slots /\ mine = {}
  BY Prompted DEF BatchEnd
<1>2. Shell.bat \in Slots /\ None \in Handles
  BY <1>1, NoSlot DEF BatchEnd
<1>3. /\ k' \in Kernels
      /\ k'.redirect = k.redirect /\ k'.stdin = k.stdin
      /\ InUse(k') = InUse(k) \ {Shell.bat}
      /\ Same(k, k', Slots \ {Shell.bat}, Paths)
  BY <1>1, <1>2, ClosedIs DEF BatchEnd
<1>4. Same(k, k', InUse(k) \ {Shell.bat}, Paths \ {})
  BY <1>1, <1>3 DEF Same
<1>5. InUse(k') = (InUse(k) \ {Shell.bat}) \cup ({None} \ {None})
  BY <1>3
<1>6. Led(k', Outer, Ready(None), {}, leaked)
      /\ Same(k, k', HeldBy(Outer), NeedsOf(Outer))
  <2>1. {} \in SUBSET Paths /\ NeedsOf(Outer) \cap {} = {}
    OBVIOUS
  <2> QED
    BY <1>1, <1>2, <1>3, <1>4, <1>5, <2>1, BatLed
<1>7. shells' = Append(Outer, Ready(None))
  BY <1>2, BatReplaced DEF BatchEnd
<1>8. mine' = {} /\ leaked' = leaked
  BY <1>1 DEF BatchEnd
<1>9. shells = Append(Outer, Ready(Shell.bat)) /\ Outer \in Seq(ShellState)
  BY Prompted DEF BatchEnd
<1>10. Keeps(k, Main, k', Main')
  BY <1>1, <1>2, <1>6, <1>7, <1>9, PromptKeeps DEF Led, Flows
<1> QED
  BY <1>6, <1>7, <1>8, <1>10, LedIsInv

LEMMA BatchStep ==
  ASSUME Inv, Risky = {}, NEW t \in Targets \cup {None}, Batch(t)
  PROVE  Inv' /\ Keeps(k, Main, k', Main')
<1>1. /\ Led(k, Outer, Ready(Shell.bat), {}, leaked) /\ Shell.bat \in Handles
      /\ k \in Kernels /\ InUse(k) \subseteq Slots /\ mine = {}
      /\ Shell.bat # None => Shell.bat \in InUse(k)
  BY Prompted DEF Batch
<1>2. PICK room \in BOOLEAN :
        /\ t # None => OutHandle(k, t, room) # None
        /\ k' = Undirected(BatchOpened(k, t, room, Shell.bat),
                           [Shell EXCEPT !.out = OutHandle(k, t, room)])
        /\ shells' = [shells EXCEPT ![Depth].bat =
                        IF BatchHandle(k, t, room) = None THEN Shell.bat
                        ELSE BatchHandle(k, t, room)]
  BY DEF Batch, BatchOpened, BatchHandle, Shell
<1> DEFINE s == [Shell EXCEPT !.out = OutHandle(k, t, room)]
           h == BatchHandle(k, t, room)
           b == IF h = None THEN Shell.bat ELSE h
           D == IF t = None THEN {} ELSE {t}
<1>3. s.out = OutHandle(k, t, room)
  <2>1. Shell = Ready(Shell.bat)
    BY Prompted DEF Batch
  <2> QED
    BY <2>1 DEF Ready
<1> HIDE DEF s, h
<1>4. /\ k' \in Kernels /\ h \in Handles /\ h \notin InUse(k)
      /\ k'.stdin = k.stdin
      /\ k'.redirect = (IF t = None THEN k.redirect ELSE None)
      /\ InUse(k') = (IF h = None THEN InUse(k) ELSE (InUse(k) \ {Shell.bat}) \cup {h})
      /\ Same(k, k', InUse(k) \ {Shell.bat}, Paths \ {t})
  <2>1. t # None => s.out # None
    BY <1>2, <1>3
  <2>2. k' = Undirected(BatchOpened(k, t, room, Shell.bat), s)
    BY <1>2 DEF s
  <2>3. BatchDone(k, t, Shell.bat, h, k')
    BY <1>1, <1>3, <2>1, <2>2, BatchIs DEF h
  <2> QED
    BY <2>3 DEF BatchDone
<1>5. b \in Handles /\ (b # None => b = Shell.bat \/ b \notin InUse(k))
  BY <1>1, <1>4
<1>6. InUse(k') = (InUse(k) \ {Shell.bat}) \cup ({b} \ {None})
  <2>1. None \notin InUse(k)
    BY <1>1, NoSlot
  <2> QED
    BY <1>1, <1>4, <2>1
<1>7. D \in SUBSET Paths /\ Paths \ {t} = Paths \ D /\ NeedsOf(Outer) \cap D = {}
  <2>1. CASE t = None
    BY <2>1, PathsFacts
  <2>2. CASE t # None
    <3>1. OuterOut(Outer) = None /\ t \in Targets
      BY <2>2 DEF Batch, MayName
    <3> QED
      BY <1>1, <2>2, <3>1, TargetApart, PathsFacts DEF Led
  <2> QED
    BY <2>1, <2>2
<1>8. k'.redirect = k.redirect
  <2>1. CASE t = None
    BY <1>4, <2>1
  <2>2. CASE t # None
    <3>1. OuterOut(Outer) = None
      BY <2>2 DEF Batch, MayName
    <3>2. k.redirect = None
      BY <1>1, <3>1, ReadyIs DEF Led, Flows
    <3> QED
      BY <1>4, <2>2, <3>2
  <2> QED
    BY <2>1, <2>2
<1>9. shells' = Append(Outer, Ready(b))
  <2>1. AtPrompt
    BY DEF Batch
  <2>2. shells' = [shells EXCEPT ![Depth].bat = b]
    BY <1>2 DEF h
  <2> HIDE DEF b
  <2>3. [shells EXCEPT ![Depth].bat = b] = Append(Outer, Ready(b))
    BY <1>5, <2>1, BatReplaced
  <2> QED
    BY <2>2, <2>3
<1> HIDE DEF b, D
<1>10. Led(k', Outer, Ready(b), {}, leaked)
       /\ Same(k, k', HeldBy(Outer), NeedsOf(Outer))
  <2>1. Same(k, k', InUse(k) \ {Shell.bat}, Paths \ D)
    BY <1>4, <1>7
  <2> QED
    BY <1>1, <1>4, <1>5, <1>6, <1>7, <1>8, <2>1, BatLed
<1>11. mine' = {} /\ leaked' = leaked
  BY <1>1 DEF Batch
<1>12. shells = Append(Outer, Ready(Shell.bat)) /\ Outer \in Seq(ShellState)
  BY Prompted DEF Batch
<1>13. Keeps(k, Main, k', Main')
  BY <1>1, <1>5, <1>9, <1>10, <1>12, PromptKeeps DEF Led, Flows
<1> QED
  BY <1>9, <1>10, <1>11, <1>13, LedIsInv
----------------------------------------------------------------------------
(* Shells that start and end *)

LEMMA FreedIs ==
  ASSUME NEW q \in Kernels, NEW s \in Handles
  PROVE  LET r == Freed(q, s)
         IN  /\ r \in Kernels
             /\ r.redirect = q.redirect /\ r.stdin = q.stdin /\ r.content = q.content
             /\ InUse(r) = InUse(q) \ {s}
             /\ Same(q, r, Slots \ {s}, Paths)
<1>1. CASE s = None
  BY <1>1, KernelFields, NoSlot DEF Freed, Same
<1>2. CASE s # None
  <2>1. s \in Slots /\ Freed(q, s) = Closed(q, s)
    BY <1>2, NoSlot DEF Freed
  <2> QED
    BY <2>1, ClosedIs
<1> QED
  BY <1>1, <1>2

LEMMA FinalizedIs ==
  ASSUME NEW q \in Kernels
  PROVE  LET r == Finalized(q)
         IN  /\ r \in Kernels /\ r.redirect = None /\ r.stdin = None
             /\ InUse(r) = InUse(q) \ {q.redirect, q.stdin}
<1> DEFINE a == Freed(q, q.redirect)
           b == Freed(a, q.stdin)
           c == WithStdout(b, None)
           r == WithStdin(c, None)
<1>0. q.redirect \in Handles /\ q.stdin \in Handles /\ None \in Handles
  BY KernelFields, NoSlot
<1>1. a \in Kernels /\ InUse(a) = InUse(q) \ {q.redirect}
  BY <1>0, FreedIs
<1> HIDE DEF a
<1>2. b \in Kernels /\ InUse(b) = InUse(a) \ {q.stdin}
  BY <1>0, <1>1, FreedIs
<1> HIDE DEF b
<1>3. c \in Kernels /\ c.redirect = None /\ InUse(c) = InUse(b)
  BY <1>0, <1>2, WithIs
<1> HIDE DEF c
<1>4. r \in Kernels /\ r.redirect = c.redirect /\ r.stdin = None /\ InUse(r) = InUse(c)
  BY <1>0, <1>3, WithIs
<1>5. Finalized(q) = r
  BY DEF Finalized, a, b, c
<1> HIDE DEF r
<1> QED
  BY <1>1, <1>2, <1>3, <1>4, <1>5

\* Shells nest, and their files are there, when this holds below the top and of it.
LEMMA NestsMore ==
  ASSUME NEW q, NEW st \in Seq(ShellState), NEW s \in ShellState
  PROVE  /\ Nests(Append(st, s)) <=> Nests(st) /\ NestOver(st, s)
         /\ FilesOfAll(q, Append(st, s)) <=> FilesOfAll(q, st) /\ Files(q, s)
<1> DEFINE m == Append(st, s)
<1>1. /\ Len(m) = Len(st) + 1 /\ Len(st) \in Nat
      /\ \A i \in 1 .. Len(st) : m[i] = st[i]
      /\ m[Len(st) + 1] = s
  BY StackMore
<1> HIDE DEF m
<1>2. /\ \A i \in 1 .. Len(m) : i = Len(st) + 1 \/ i \in 1 .. Len(st)
      /\ \A i \in 1 .. Len(st) : i \in 1 .. Len(m) /\ i < Len(st) + 1
      /\ Len(st) + 1 \in 1 .. Len(m)
      /\ \A i \in 1 .. Len(m) : ~(Len(st) + 1 < i)
  BY <1>1
<1>3. FilesOfAll(q, m) <=> FilesOfAll(q, st) /\ Files(q, s)
  BY <1>1, <1>2 DEF FilesOfAll
<1>4. ASSUME Nests(m) PROVE Nests(st) /\ NestOver(st, s)
  BY <1>1, <1>2, <1>4 DEF Nests, NestOver
<1>5. ASSUME Nests(st), NestOver(st, s) PROVE Nests(m)
  BY <1>1, <1>2, <1>5 DEF Nests, NestOver
<1> QED
  BY <1>3, <1>4, <1>5 DEF m

LEMMA Pushed ==
  ASSUME NEW q, NEW st, NEW s, NEW l, Led(q, st, s, {}, l), s.stage > 0,
         Len(st) + 1 < MaxDepth
  PROVE  Led(q, Append(st, s), Ready(None), {}, l)
<1> DEFINE m == Append(st, s)
<1>1. /\ Waiting(st) /\ ShellSound(s) /\ Held(s) \cap HeldBy(st) = {}
      /\ st \in Seq(ShellState) /\ s \in ShellState
      /\ OnTop(q, st, s, {} \cup l) /\ Flows(q, st, s) /\ {} \cup l = l
  BY DEF Led, OnTop, Waiting, ShellSound
<1>2. Waiting(m)
  BY <1>1, WaitingMore
<1>3. /\ Len(m) = Len(st) + 1 /\ Len(st) \in Nat
      /\ HeldBy(m) = HeldBy(st) \cup Held(s)
      /\ {m[i].out : i \in 1 .. Len(m)} = {st[i].out : i \in 1 .. Len(st)} \cup {s.out}
      /\ {m[i].in : i \in 1 .. Len(m)} = {st[i].in : i \in 1 .. Len(st)} \cup {s.in}
  BY <1>1, StackMore
<1>4. /\ OuterOut(m) = (IF s.out # None THEN s.out ELSE OuterOut(st))
      /\ OuterIn(m) = (IF s.in # None THEN s.in ELSE OuterIn(st))
  BY <1>1, OuterMore
<1>5. Nests(m) /\ FilesOfAll(q, m)
  BY <1>1, NestsMore DEF Flows
<1> HIDE DEF m
<1>6. /\ ShellSound(Ready(None)) /\ Held(Ready(None)) = {}
      /\ Ready(None).of = 0 /\ Ready(None).target = None /\ Ready(None).stage = 0
      /\ Ready(None).out = None /\ Ready(None).in = None
  BY ReadyIs, NoSlot
<1>7. OnTop(q, m, Ready(None), l)
  BY <1>1, <1>3, <1>6 DEF OnTop
<1>8. Flows(q, m, Ready(None))
  <2>1. NestOver(m, Ready(None)) /\ Files(q, Ready(None))
    BY <1>6 DEF NestOver, Nest, Files
  <2> QED
    BY <1>1, <1>4, <1>5, <1>6, <2>1 DEF Flows
<1>9. Len(m) + 1 \in 1 .. MaxDepth
  BY <1>3, ShellAssumption
<1> QED
  BY <1>1, <1>2, <1>6, <1>7, <1>8, <1>9 DEF Led, OwnFiles, m

LEMMA Popped ==
  ASSUME NEW q, NEW st \in Seq(ShellState), NEW s \in ShellState, NEW bat \in Handles,
         NEW l, Led(q, Append(st, s), Ready(bat), {}, l)
  PROVE  /\ Led(Freed(q, bat), st, s, {}, l) /\ s.stage > 0
         /\ Same(q, Freed(q, bat), HeldBy(st), NeedsOf(st))
         /\ Freed(q, bat).content = q.content
         /\ FilesOfAll(q, st)
<1> DEFINE m == Append(st, s)
           r == Freed(q, bat)
<1>1. /\ Waiting(m) /\ OnTop(q, m, Ready(bat), {} \cup l) /\ Flows(q, m, Ready(bat))
      /\ {} \cup l = l /\ Len(m) + 1 \in 1 .. MaxDepth
  BY DEF Led
<1>2. /\ Waiting(st) /\ ShellSound(s) /\ s.stage > 0 /\ Held(s) \cap HeldBy(st) = {}
  BY <1>1, WaitingLess
<1>3. /\ Len(m) = Len(st) + 1 /\ Len(st) \in Nat
      /\ HeldBy(m) = HeldBy(st) \cup Held(s)
      /\ {m[i].out : i \in 1 .. Len(m)} = {st[i].out : i \in 1 .. Len(st)} \cup {s.out}
      /\ {m[i].in : i \in 1 .. Len(m)} = {st[i].in : i \in 1 .. Len(st)} \cup {s.in}
  BY StackMore
<1>4. /\ OuterOut(m) = (IF s.out # None THEN s.out ELSE OuterOut(st))
      /\ OuterIn(m) = (IF s.in # None THEN s.in ELSE OuterIn(st))
  BY OuterMore
<1>5. Nests(st) /\ NestOver(st, s) /\ FilesOfAll(q, st) /\ Files(q, s)
  BY <1>1, NestsMore DEF Flows
<1> HIDE DEF m
<1>6. /\ Held(Ready(bat)) = {bat} \ {None}
      /\ Ready(bat).out = None /\ Ready(bat).in = None
  BY ReadyIs
<1>7. /\ q \in Kernels /\ InUse(q) = l \cup HeldBy(m) \cup Held(Ready(bat))
      /\ Held(Ready(bat)) \cap HeldBy(m) = {}
      /\ l \cap (HeldBy(m) \cup Held(Ready(bat))) = {}
      /\ q.redirect \in {None} \cup {m[i].out : i \in 1 .. Len(m)}
      /\ q.stdin \in {None} \cup {m[i].in : i \in 1 .. Len(m)}
  BY <1>1, <1>6 DEF OnTop
<1>8. /\ r \in Kernels
      /\ r.redirect = q.redirect /\ r.stdin = q.stdin /\ r.content = q.content
      /\ InUse(r) = InUse(q) \ {bat}
      /\ Same(q, r, Slots \ {bat}, Paths)
  BY <1>7, FreedIs
<1> HIDE DEF r
<1>9. InUse(q) \subseteq Slots /\ None \notin InUse(q)
  BY <1>7, KernelFields, NoSlot
<1>10. /\ InUse(r) = l \cup HeldBy(st) \cup Held(s)
       /\ l \cap (HeldBy(st) \cup Held(s)) = {}
       /\ HeldBy(st) \cup Held(s) \subseteq Slots \ {bat}
  BY <1>3, <1>6, <1>7, <1>8, <1>9
<1>11. OnTop(r, st, s, l)
  BY <1>2, <1>3, <1>7, <1>8, <1>10 DEF OnTop
<1>12. /\ NeedsOf(st) \subseteq Paths /\ Needs(s) \subseteq Paths
  BY <1>2, <1>5, NeedsBelow, NeedsPaths
<1>a. Same(q, r, HeldBy(st), NeedsOf(st))
  BY <1>8, <1>10, <1>12, SameLess
<1>13. FilesOfAll(r, st)
  BY <1>2, <1>5, <1>a, FilesBelow
<1>14. Files(r, s)
  <2>1. Same(q, r, Held(s), Needs(s))
    BY <1>8, <1>10, <1>12, SameLess
  <2> QED
    BY <1>2, <1>5, <2>1, FilesKept
<1>15. Flows(r, st, s)
  BY <1>1, <1>4, <1>5, <1>6, <1>8, <1>13, <1>14 DEF Flows
<1>16. Len(st) + 1 \in 1 .. MaxDepth
  BY <1>1, <1>3, ShellAssumption
<1> QED
  BY <1>1, <1>2, <1>5, <1>8, <1>11, <1>15, <1>16, <1>a DEF Led, OwnFiles, r

LEMMA StartShellStep ==
  ASSUME Inv, StartShell
  PROVE  Inv' /\ Keeps(k, Main, k', Main')
<1>1. Led(k, Outer, Shell, {}, leaked) /\ Shell.stage > 0
  BY InvIsLed, Stacked DEF StartShell, Inv
<1>2. Len(Outer) + 1 < MaxDepth /\ shells = Append(Outer, Shell)
  <2>1. Len(Outer) = Depth - 1 /\ Depth \in Nat /\ shells = Append(Outer, Shell)
    BY Stacked DEF Inv
  <2>2. Depth < MaxDepth
    BY DEF StartShell
  <2> QED
    BY <2>1, <2>2
<1>3. Led(k, Append(Outer, Shell), Ready(None), {}, leaked)
  BY <1>1, <1>2, Pushed
<1>4. shells' = Append(Append(Outer, Shell), Ready(None))
      /\ k' = k /\ mine' = {} /\ leaked' = leaked
  BY <1>2 DEF StartShell
<1>5. Main' = Main
  <2>1. Outer \in Seq(ShellState) /\ Shell \in ShellState
    BY Stacked DEF Inv
  <2> DEFINE m == Append(Outer, Shell)
  <2>2. m \in Seq(ShellState) /\ Len(m) = Len(Outer) + 1 /\ Len(Outer) \in Nat
    BY <2>1, StackMore
  <2> HIDE DEF m
  <2>3. Len(m) # 0
    BY <2>2
  <2>4. Ready(None) \in ShellState
    BY ReadyIs, NoSlot
  <2>5. shells = m /\ shells' = Append(m, Ready(None))
    BY <1>2, <1>4 DEF m
  <2> QED
    BY <2>2, <2>3, <2>4, <2>5, MainIs DEF Main
<1>6. Keeps(k, Main, k', Main')
  BY <1>4, <1>5 DEF Keeps
<1> QED
  BY <1>3, <1>4, <1>6, LedIsInv
LEMMA OuterTop ==
  ASSUME NEW m \in Seq(ShellState), Len(m) > 1
  PROVE  /\ SubSeq(m, 1, Len(m) - 2) \in Seq(ShellState) /\ m[Len(m) - 1] \in ShellState
         /\ SubSeq(m, 1, Len(m) - 1) = Append(SubSeq(m, 1, Len(m) - 2), m[Len(m) - 1])
<1> DEFINE f == SubSeq(m, 1, Len(m) - 1)
           g == SubSeq(m, 1, Len(m) - 2)
           s == m[Len(m) - 1]
<1>1. /\ Len(m) \in Nat /\ Len(m) - 1 \in 1 .. Len(m) /\ Len(m) - 2 \in 0 .. Len(m)
      /\ Len(m) - 1 \in 0 .. Len(m) /\ s \in ShellState
      /\ Len(m) - 1 = (Len(m) - 2) + 1
  BY ElementOfSeq
<1>2. \A n \in 0 .. Len(m) : /\ SubSeq(m, 1, n) \in Seq(ShellState) /\ Len(SubSeq(m, 1, n)) = n
                              /\ \A i \in 1 .. n : SubSeq(m, 1, n)[i] = m[i]
  OBVIOUS
<1>3. /\ f \in Seq(ShellState) /\ Len(f) = Len(m) - 1 /\ \A i \in 1 .. Len(m) - 1 : f[i] = m[i]
      /\ g \in Seq(ShellState) /\ Len(g) = Len(m) - 2 /\ \A i \in 1 .. Len(m) - 2 : g[i] = m[i]
  BY <1>1, <1>2
<1> HIDE DEF f, g, s
<1>4. /\ Append(g, s) \in Seq(ShellState) /\ Len(Append(g, s)) = Len(g) + 1
      /\ \A i \in 1 .. Len(g) : Append(g, s)[i] = g[i]
      /\ Append(g, s)[Len(g) + 1] = s
  BY <1>1, <1>3, StackMore
<1>5. Len(Append(g, s)) = Len(f)
  BY <1>1, <1>3, <1>4
<1>6. \A i \in 1 .. Len(f) : Append(g, s)[i] = f[i]
  <2>1. \A i \in 1 .. Len(f) : i = Len(m) - 1 \/ i \in 1 .. Len(g)
    <3>1. Len(f) = Len(m) - 1 /\ Len(g) = Len(m) - 2 /\ Len(m) \in Nat
      BY <1>1, <1>3
    <3> QED
      BY <3>1
  <2>2. f[Len(m) - 1] = s
    BY <1>1, <1>3 DEF s
  <2>3. \A i \in 1 .. Len(g) : i \in 1 .. Len(m) - 1
    BY <1>1, <1>3
  <2>4. Append(g, s)[Len(m) - 1] = s
    BY <1>1, <1>3, <1>4
  <2> QED
    BY <1>3, <1>4, <2>1, <2>2, <2>3, <2>4
<1>7. f = Append(g, s)
  BY <1>3, <1>4, <1>5, <1>6, SeqEqual
<1> QED
  BY <1>1, <1>3, <1>7 DEF f, g, s

\* The outermost shell ends: its handles are closed, and the kernel starts it again.
LEMMA LastShellInv ==
  ASSUME Inv, NEW t \in Targets \cup {None}, NEW room \in BOOLEAN, AtPrompt, Depth = 1,
         t # None => OutHandle(k, t, room) # None,
         k' = Finalized(Freed(OutDirected(k, t, room), Shell.bat)),
         shells' = <<Ready(None)>>, UNCHANGED <<mine, leaked, event>>
  PROVE  Inv'
<1> DEFINE q == OutDirected(k, t, room)
           w == OutHandle(k, t, room)
           r == Freed(q, Shell.bat)
<1>1. /\ Led(k, Outer, Ready(Shell.bat), {}, leaked) /\ Shell.bat \in Handles
      /\ k \in Kernels /\ InUse(k) \subseteq Slots /\ mine = {}
      /\ Depth = Len(Outer) + 1 /\ Outer \in Seq(ShellState) /\ Len(Outer) \in Nat
  BY Prompted
<1>2. Len(Outer) = 0
  BY <1>1
<1>3. Outer = << >>
  BY <1>1, <1>2, EmptySeq
<1>4. HeldBy(Outer) = {} /\ OuterOut(Outer) = None /\ OuterIn(Outer) = None
  <2>1. \A i \in 1 .. Len(Outer) : FALSE
    BY <1>2
  <2>2. HeldBy(Outer) = {}
    BY <2>1 DEF HeldBy
  <2> QED
    BY <1>1, <2>1, <2>2, OuterIs
<1>5. /\ InUse(k) = leaked \cup ({Shell.bat} \ {None})
      /\ leaked \cap ({Shell.bat} \ {None}) = {}
      /\ k.redirect = None /\ k.stdin = None
  BY <1>1, <1>4, ReadyIs DEF Led, OnTop, Flows
<1>a. t \in Paths \cup {None} /\ k \in Kernels
  BY <1>1, PathsFacts
<1>b. OutDone(k, t, w, q)
  BY <1>a, OutDirectedIs
<1>6. /\ q \in Kernels /\ w \in Handles /\ q.stdin = k.stdin
      /\ t = None => w = None /\ q = k
      /\ w = None => InUse(q) = InUse(k) /\ q.redirect = k.redirect
      /\ w # None => /\ w \in Slots \ InUse(k) /\ InUse(q) = InUse(k) \cup {w}
                     /\ q.redirect = w
  <2> HIDE DEF q, w
  <2> QED
    BY <1>b DEF OutDone
<1> HIDE DEF q, w
<1>7. r \in Kernels /\ r.redirect = q.redirect /\ r.stdin = q.stdin
      /\ InUse(r) = InUse(q) \ {Shell.bat}
  BY <1>1, <1>6, FreedIs
<1> HIDE DEF r
<1>8. /\ k' \in Kernels /\ k'.redirect = None /\ k'.stdin = None
      /\ InUse(k') = InUse(r) \ {r.redirect, r.stdin}
  BY <1>7, FinalizedIs DEF r, q
<1>9. None \notin InUse(k)
  BY <1>1, NoSlot
<1>10. InUse(k') = leaked
  BY <1>5, <1>6, <1>7, <1>8, <1>9
<1> DEFINE e == Outer
<1>11. Waiting(Outer) /\ Len(Outer) + 1 \in 1 .. MaxDepth
  BY <1>1 DEF Led
<1>12. /\ ShellSound(Ready(None)) /\ Held(Ready(None)) = {}
       /\ Ready(None).out = None /\ Ready(None).in = None /\ Ready(None).stage = 0
       /\ Ready(None).of = 0 /\ Ready(None).target = None
  BY ZenonT(30), ReadyIs, NoSlot
<1>13. OnTop(k', Outer, Ready(None), {} \cup leaked)
  BY <1>4, <1>8, <1>10, <1>12 DEF OnTop
<1>14. Flows(k', Outer, Ready(None))
  <2>1. \A i \in 1 .. Len(Outer) : FALSE
    BY <1>2
  <2> QED
    BY <1>4, <1>8, <1>12, <2>1 DEF Flows, Nests, NestOver, FilesOfAll, Files
<1>15. Led(k', Outer, Ready(None), {}, leaked)
  BY <1>11, <1>13, <1>14, <1>12 DEF Led, OwnFiles
<1>16. shells' = Append(Outer, Ready(None)) /\ mine' = {} /\ leaked' = leaked
  BY <1>1, <1>3
<1> QED
  BY <1>15, <1>16, LedIsInv

LEMMA ExitShellInv ==
  ASSUME Inv, Risky = {}, NEW t \in Targets \cup {None}, ExitShell(t)
  PROVE  Inv'
<1>1. AtPrompt /\ (t # None => Depth = 1) /\ UNCHANGED <<mine, leaked, event>>
  BY DEF ExitShell
<1>2. PICK room \in BOOLEAN :
        LET q == Freed(OutDirected(k, t, room), Shell.bat)
        IN  /\ t # None => OutHandle(k, t, room) # None
            /\ IF Depth = 1
               THEN k' = Finalized(q) /\ shells' = <<Ready(None)>>
               ELSE \E room2 \in BOOLEAN :
                      ChildEnded(q, SubSeq(shells, 1, Depth - 2), shells[Depth - 1], room2)
  BY DEF ExitShell, Freed
<1>3. CASE Depth = 1
  BY <1>1, <1>2, <1>3, LastShellInv
<1>4. CASE Depth # 1
  <2> DEFINE st == SubSeq(shells, 1, Depth - 2)
             s == shells[Depth - 1]
             q == Freed(k, Shell.bat)
  <2>1. t = None /\ OutDirected(k, t, room) = k
    BY <1>1, <1>4 DEF OutDirected
  <2>2. PICK room2 \in BOOLEAN : ChildEnded(q, st, s, room2)
    BY <1>2, <1>4, <2>1
  <2>3. /\ shells \in Seq(ShellState) /\ Len(shells) > 1
        /\ Led(k, Outer, Ready(Shell.bat), {}, leaked) /\ Shell.bat \in Handles
        /\ mine = {}
    <3>1. Depth \in Nat /\ Depth > 0 /\ shells \in Seq(ShellState)
      BY Stacked DEF Inv, HandlesInv
    <3>2. Depth > 1
      BY <1>4, <3>1
    <3> QED
      BY <1>1, <3>1, <3>2, Prompted DEF Depth
  <2>4. st \in Seq(ShellState) /\ s \in ShellState /\ Outer = Append(st, s)
    BY <2>3, OuterTop DEF Outer, Depth
  <2> HIDE DEF st, s
  <2>5. Led(q, st, s, {}, leaked) /\ s.stage > 0
    BY <2>3, <2>4, Popped
  <2>6. mine' = {} /\ leaked' = {} \cup leaked
    BY <1>1, <2>3
  <2> QED
    BY <2>2, <2>5, <2>6, ChildEndedInv
<1> QED
  BY <1>3, <1>4
----------------------------------------------------------------------------
(* The running program *)

\* A program that keeps to its own slots and files disturbs no shell.
LEMMA MineLed ==
  ASSUME NEW q, NEW st, NEW s, NEW m, NEW l, Led(q, st, s, m, l), s.stage > 0,
         NEW r \in Kernels, NEW n, r.redirect = q.redirect, r.stdin = q.stdin,
         InUse(r) = n \cup (InUse(q) \ m), n \cap (InUse(q) \ m) = {},
         Same(q, r, InUse(q) \ m, Paths \ Work), OwnFiles(r, n)
  PROVE  Led(r, st, s, n, l)
<1>1. /\ Waiting(st) /\ OnTop(q, st, s, m \cup l) /\ Flows(q, st, s) /\ m \cap l = {}
      /\ ShellSound(s) /\ s.stage \in Nat
  BY ShellFields DEF Led, OnTop, ShellSound
<1>2. /\ InUse(q) = (m \cup l) \cup HeldBy(st) \cup Held(s)
      /\ (m \cup l) \cap (HeldBy(st) \cup Held(s)) = {}
      /\ Held(s) \cap HeldBy(st) = {}
  BY <1>1 DEF OnTop
<1>3. InUse(q) \ m = l \cup HeldBy(st) \cup Held(s)
  BY <1>1, <1>2
<1>4. /\ InUse(r) = (n \cup l) \cup HeldBy(st) \cup Held(s)
      /\ (n \cup l) \cap (HeldBy(st) \cup Held(s)) = {}
      /\ n \cap l = {}
  BY <1>2, <1>3
<1>5. OnTop(r, st, s, n \cup l)
  BY <1>1, <1>2, <1>4 DEF OnTop
<1>6. NeedsOf(st) \subseteq Paths \ Work /\ Needs(s) \subseteq Paths \ Work
  BY <1>1, NeedsBelow, NeedsPaths DEF Flows
<1>7. FilesOfAll(r, st)
  <2>1. Same(q, r, HeldBy(st), NeedsOf(st))
    BY <1>3, <1>6, SameLess
  <2> QED
    BY <1>1, <2>1, FilesBelow DEF Flows
<1>8. Files(r, s)
  <2>1. Same(q, r, Held(s), Needs(s))
    BY <1>3, <1>6, SameLess
  <2> QED
    BY <1>1, <2>1, FilesKept DEF Flows
<1>9. Flows(r, st, s)
  BY <1>1, <1>7, <1>8 DEF Flows
<1> QED
  BY <1>1, <1>4, <1>5, <1>9 DEF Led

\* A shell whose stage is running.
LEMMA Ran ==
  ASSUME Inv, Running
  PROVE  /\ Led(k, Outer, Shell, mine, leaked) /\ Shell.stage > 0
         /\ shells = Append(Outer, Shell) /\ Outer \in Seq(ShellState) /\ Shell \in ShellState
         /\ k \in Kernels /\ InUse(k) \subseteq Slots /\ mine \subseteq InUse(k)
         /\ OwnFiles(k, mine)
         /\ Waiting(shells) /\ Nests(shells) /\ FilesOfAll(k, shells)
<1>1. /\ Led(k, Outer, Shell, mine, leaked) /\ Shell.stage > 0
      /\ shells = Append(Outer, Shell) /\ Outer \in Seq(ShellState) /\ Shell \in ShellState
      /\ k \in Kernels /\ InUse(k) \subseteq Slots
  BY InvIsLed, Stacked DEF Inv
<1>2. /\ Waiting(Outer) /\ OnTop(k, Outer, Shell, mine \cup leaked) /\ Flows(k, Outer, Shell)
      /\ OwnFiles(k, mine)
  BY <1>1 DEF Led
<1>3. mine \subseteq InUse(k) /\ ShellSound(Shell) /\ Held(Shell) \cap HeldBy(Outer) = {}
  BY <1>2 DEF OnTop
<1>4. Waiting(shells)
  BY <1>1, <1>2, <1>3, WaitingMore
<1>5. Nests(shells) /\ FilesOfAll(k, shells)
  <2>1. /\ Nests(Append(Outer, Shell)) <=> Nests(Outer) /\ NestOver(Outer, Shell)
        /\ FilesOfAll(k, Append(Outer, Shell)) <=> FilesOfAll(k, Outer) /\ Files(k, Shell)
    BY <1>1, NestsMore
  <2> QED
    BY <1>1, <1>2, <2>1 DEF Flows
<1> QED
  BY <1>1, <1>2, <1>3, <1>4, <1>5

LEMMA MineStep ==
  ASSUME Inv, Running, k' \in Kernels, k'.redirect = k.redirect, k'.stdin = k.stdin,
         InUse(k') = mine' \cup (InUse(k) \ mine), mine' \cap (InUse(k) \ mine) = {},
         Same(k, k', InUse(k) \ mine, Paths \ Work), OwnFiles(k', mine'),
         shells' = shells, leaked' = leaked
  PROVE  Inv' /\ Keeps(k, Main, k', Main')
<1>1. Led(k, Outer, Shell, mine, leaked) /\ Shell.stage > 0
      /\ shells = Append(Outer, Shell)
  BY Ran
<1>2. Led(k', Outer, Shell, mine', leaked)
  BY <1>1, MineLed
<1>3. shells \in Seq(ShellState) /\ Len(shells) > 0 /\ Len(shells) \in Nat
      /\ Waiting(shells) /\ Nests(shells) /\ FilesOfAll(k, shells)
  BY Ran, Stacked DEF Inv, HandlesInv, Depth
<1>4. HeldBy(shells) \subseteq InUse(k) \ mine
  <2>1. HeldBy(shells) = HeldBy(Outer) \cup Held(Shell)
    BY Stacked DEF Inv
  <2> QED
    BY <1>1, <2>1 DEF Led, OnTop
<1>5. NeedsOf(shells) \subseteq Paths \ Work
  BY <1>3, NeedsPaths DEF NeedsOf, Waiting
<1>6. Same(k, k', HeldBy(shells), NeedsOf(shells))
  BY <1>4, <1>5, SameLess
<1>7. Keeps(k, Main, k', Main')
  BY <1>3, <1>6, KeepsBelow DEF Main
<1> QED
  BY <1>1, <1>2, <1>7, LedIsInv

\* A slot that was free is the program's.
LEMMA TookOne ==
  ASSUME Inv, Running, k' \in Kernels, k'.redirect = k.redirect, k'.stdin = k.stdin,
         NEW h \in Slots, h \notin InUse(k), InUse(k') = InUse(k) \cup {h}, mine' = Took(k'),
         Same(k, k', Slots \ {h}, Paths \ Work),
         k'.open[h].kind = "file" => k'.open[h].path \in Work,
         shells' = shells, leaked' = leaked
  PROVE  Inv' /\ Keeps(k, Main, k', Main')
<1>1. InUse(k) \subseteq Slots /\ mine \subseteq InUse(k) /\ OwnFiles(k, mine)
  BY Ran
<1>2. mine' = mine \cup {h}
  BY DEF Took
<1>3. /\ InUse(k') = mine' \cup (InUse(k) \ mine)
      /\ mine' \cap (InUse(k) \ mine) = {}
      /\ InUse(k) \ mine \subseteq Slots \ {h}
      /\ mine \subseteq Slots \ {h}
  BY <1>1, <1>2
<1>4. Same(k, k', InUse(k) \ mine, Paths \ Work)
  BY <1>3, SameLess
<1>5. \A s \in mine : k'.open[s] = k.open[s]
  BY <1>3 DEF Same
<1>6. OwnFiles(k', mine')
  BY <1>1, <1>2, <1>5 DEF OwnFiles
<1> QED
  BY <1>3, <1>4, <1>6, MineStep

LEMMA TookNone ==
  ASSUME Inv, Running, k' = k, mine' = Took(k'), shells' = shells, leaked' = leaked
  PROVE  Inv' /\ Keeps(k, Main, k', Main')
<1>1. mine' = mine
  BY DEF Took
<1>2. Led(k', Outer, Shell, mine', leaked') /\ shells' = Append(Outer, Shell)
  BY <1>1, Ran
<1>3. Keeps(k, Main, k', Main')
  BY DEF Keeps, Main
<1> QED
  BY <1>2, <1>3, LedIsInv

LEMMA OpenWorkStep ==
  ASSUME Inv, NEW p \in Work, OpenWork(p)
  PROVE  Inv' /\ Keeps(k, Main, k', Main')
<1> DEFINE h == OpenResult(k, p)
<1>1. /\ k \in Kernels /\ p \in Paths /\ Running /\ k' = Opened(k, p) /\ mine' = Took(k')
      /\ shells' = shells /\ leaked' = leaked
  BY Ran, PathsFacts DEF OpenWork
<1>2. /\ k' \in Kernels /\ h \in Handles
      /\ k'.redirect = k.redirect /\ k'.stdin = k.stdin /\ k'.content = k.content
      /\ h = None => k' = k /\ (Exists(k, p) => InUse(k) = Slots)
      /\ h # None => /\ h \in Slots \ InUse(k) /\ InUse(k') = InUse(k) \cup {h}
                     /\ k'.open[h].path = p /\ k'.open[h].pos = 0
                     /\ k'.open[h].kind = "file"
                     /\ Exists(k, p)
                     /\ Same(k, k', Slots \ {h}, Paths)
  BY <1>1, OpenedIs
<1> HIDE DEF h
<1>3. CASE h = None
  BY <1>1, <1>2, <1>3, TookNone
<1>4. CASE h # None
  <2>1. Same(k, k', Slots \ {h}, Paths \ Work)
    BY <1>2, <1>4, SameLess
  <2> QED
    BY <1>1, <1>2, <1>4, <2>1, TookOne
<1> QED
  BY <1>3, <1>4

LEMMA OpenDeviceStep ==
  ASSUME Inv, OpenDevice
  PROVE  Inv' /\ Keeps(k, Main, k', Main')
<1>1. /\ k \in Kernels /\ Running /\ k' = DeviceOpened(k) /\ mine' = Took(k')
      /\ shells' = shells /\ leaked' = leaked
  BY Ran DEF OpenDevice
<1>2. /\ k' \in Kernels
      /\ k'.redirect = k.redirect /\ k'.stdin = k.stdin /\ k'.content = k.content
      /\ \/ k' = k
         \/ \E h \in Slots \ InUse(k) :
              /\ InUse(k') = InUse(k) \cup {h}
              /\ k'.open[h].kind = "serial"
              /\ Same(k, k', Slots \ {h}, Paths)
  BY <1>1, DeviceIs
<1>3. CASE k' = k
  BY <1>1, <1>3, TookNone
<1>4. CASE k' # k
  <2>1. PICK h \in Slots \ InUse(k) :
              /\ InUse(k') = InUse(k) \cup {h}
              /\ k'.open[h].kind = "serial"
              /\ Same(k, k', Slots \ {h}, Paths)
    BY <1>2, <1>4
  <2>2. Same(k, k', Slots \ {h}, Paths \ Work)
    BY <2>1, SameLess
  <2> QED
    BY <1>1, <1>2, <2>1, <2>2, TookOne
<1> QED
  BY <1>3, <1>4

LEMMA CreateWorkStep ==
  ASSUME Inv, NEW p \in Work, CreateWork(p)
  PROVE  Inv' /\ Keeps(k, Main, k', Main')
<1> DEFINE h == CreateResult(k, p, TRUE)
<1>1. /\ k \in Kernels /\ p \in Paths /\ Running /\ k' = Created(k, p, TRUE) /\ mine' = Took(k')
      /\ shells' = shells /\ leaked' = leaked
  BY Ran, PathsFacts DEF CreateWork
<1>2. MadeIn(k, p, h, k')
  BY <1>1, CreatedIs
<1> HIDE DEF h
<1>3. CASE h = None
  <2>1. k' = k
    BY <1>2, <1>3 DEF MadeIn
  <2> QED
    BY <1>1, <2>1, TookNone
<1>4. CASE h # None
  <2>1. /\ k' \in Kernels /\ k'.redirect = k.redirect /\ k'.stdin = k.stdin
        /\ h \in Slots /\ h \notin InUse(k) /\ InUse(k') = InUse(k) \cup {h}
        /\ k'.open[h].path = p
        /\ Same(k, k', Slots \ {h}, Paths \ {p})
    BY <1>2, <1>4 DEF MadeIn
  <2>2. Same(k, k', Slots \ {h}, Paths \ Work)
    BY <2>1, SameLess
  <2> QED
    BY <1>1, <2>1, <2>2, TookOne
<1> QED
  BY <1>3, <1>4

LEMMA DeleteWorkStep ==
  ASSUME Inv, NEW p \in Work, DeleteWork(p)
  PROVE  Inv' /\ Keeps(k, Main, k', Main')
<1>1. /\ k \in Kernels /\ Running /\ k' = Deleted(k, p) /\ mine' = mine
      /\ shells' = shells /\ leaked' = leaked
      /\ mine \subseteq InUse(k) /\ InUse(k) \subseteq Slots /\ OwnFiles(k, mine)
  BY Ran DEF DeleteWork
<1>2. /\ k' \in Kernels /\ k'.open = k.open
      /\ k'.redirect = k.redirect /\ k'.stdin = k.stdin
      /\ InUse(k') = InUse(k)
      /\ Same(k, k', Slots, Paths \ {p})
  BY <1>1, DeletedIs
<1>3. OwnFiles(k', mine')
  BY <1>1, <1>2 DEF OwnFiles
<1>4. Same(k, k', InUse(k) \ mine, Paths \ Work)
  BY <1>1, <1>2, SameLess
<1>5. /\ InUse(k') = mine' \cup (InUse(k) \ mine) /\ mine' \cap (InUse(k) \ mine) = {}
  BY <1>1, <1>2
<1> QED
  BY <1>1, <1>2, <1>3, <1>4, <1>5, MineStep

LEMMA CloseWorkStep ==
  ASSUME Inv, NEW s \in mine, CloseWork(s)
  PROVE  Inv' /\ Keeps(k, Main, k', Main')
<1>1. /\ k \in Kernels /\ Running /\ k' = Closed(k, s) /\ mine' = mine \ {s}
      /\ shells' = shells /\ leaked' = leaked /\ s \in Slots
      /\ mine \subseteq InUse(k) /\ InUse(k) \subseteq Slots /\ OwnFiles(k, mine)
  BY Ran DEF CloseWork
<1>2. /\ k' \in Kernels
      /\ k'.redirect = k.redirect /\ k'.stdin = k.stdin
      /\ InUse(k') = InUse(k) \ {s}
      /\ Same(k, k', Slots \ {s}, Paths)
  BY <1>1, ClosedIs
<1>3. OwnFiles(k', mine')
  BY <1>1, <1>2 DEF OwnFiles, Same
<1>4. Same(k, k', InUse(k) \ mine, Paths \ Work)
  <2>1. InUse(k) \ mine \subseteq Slots \ {s}
    BY <1>1
  <2> QED
    BY <1>2, <2>1, SameLess
<1>5. /\ InUse(k') = mine' \cup (InUse(k) \ mine) /\ mine' \cap (InUse(k) \ mine) = {}
  BY <1>1, <1>2
<1> QED
  BY <1>1, <1>2, <1>3, <1>4, <1>5, MineStep

LEMMA WriteWorkStep ==
  ASSUME Inv, NEW s \in mine, NEW b \in Bytes, WriteWork(s, b)
  PROVE  Inv' /\ Keeps(k, Main, k', Main')
<1>1. /\ k \in Kernels /\ Running /\ k' = Written(k, s, b) /\ mine' = mine
      /\ shells' = shells /\ leaked' = leaked /\ s \in Slots
      /\ mine \subseteq InUse(k) /\ InUse(k) \subseteq Slots /\ OwnFiles(k, mine)
  BY Ran DEF WriteWork
<1>2. CASE k.open[s].kind # "file"
  <2>1. k' = k
    BY <1>1, <1>2 DEF Written
  <2>2. Led(k', Outer, Shell, mine', leaked') /\ shells' = Append(Outer, Shell)
    BY <1>1, <2>1, Ran
  <2>3. Keeps(k, Main, k', Main')
    BY <1>1, <2>1 DEF Keeps, Main
  <2> QED
    BY <2>2, <2>3, LedIsInv
<1>3. CASE k.open[s].kind = "file"
  <2> DEFINE p == k.open[s].path
  <2>1. k' = Through(k, s, b) /\ p \in Work
    BY <1>1, <1>3 DEF Written, OwnFiles
  <2> HIDE DEF p
  <2>2. /\ k' \in Kernels /\ InUse(k') = InUse(k)
        /\ k'.redirect = k.redirect /\ k'.stdin = k.stdin
        /\ k'.open[s].path = p /\ k'.open[s].kind = k.open[s].kind
        /\ Same(k, k', Slots \ {s}, Paths \ {p})
    <3>1. Wrote(k, s, k.open[s].path, b, k')
      BY <1>1, <2>1, ThroughDone
    <3> QED
      BY <3>1 DEF Wrote, p
  <2>3. \A h \in mine \ {s} : k'.open[h] = k.open[h]
    BY <1>1, <2>2 DEF Same
  <2>4. OwnFiles(k', mine')
    BY <1>1, <2>1, <2>2, <2>3 DEF OwnFiles
  <2>5. Same(k, k', InUse(k) \ mine, Paths \ Work)
    <3>1. InUse(k) \ mine \subseteq Slots \ {s} /\ Paths \ Work \subseteq Paths \ {p}
      BY <1>1, <2>1
    <3> QED
      BY <2>2, <3>1, SameLess
  <2>6. /\ InUse(k') = mine' \cup (InUse(k) \ mine) /\ mine' \cap (InUse(k) \ mine) = {}
    BY <1>1, <2>2
  <2> QED
    BY <1>1, <2>2, <2>4, <2>5, <2>6, MineStep
<1> QED
  BY <1>2, <1>3
\* A byte to the redirect of shell i is in its file, and no other shell's file
\* or slot changes.
LEMMA PutFiles ==
  ASSUME NEW q \in Kernels, NEW m, Waiting(m), Nests(m), FilesOfAll(q, m),
         NEW i \in 1 .. Len(m), m[i].out # None, NEW b \in Bytes
  PROVE  FilesOfAll(Through(q, m[i].out, b), m)
<1> DEFINE s == m[i].out
           p == SinkOf(m[i].stage, m[i].of, m[i].target)
           r == Through(q, s, b)
<1>1. /\ m \in Seq(ShellState) /\ Len(m) \in Nat
      /\ \A j \in 1 .. Len(m) : ShellSound(m[j]) /\ m[j].stage > 0 /\ Files(q, m[j])
                                /\ m[j] \in ShellState /\ Held(m[j]) \subseteq Slots
  BY ShellFields DEF Waiting, FilesOfAll, ShellSound
<1>2. /\ s \in Slots /\ s \in Held(m[i])
      /\ q.open[s].path = p /\ Exists(q, p) /\ q.open[s].pos = Len(q.content[p])
  BY <1>1 DEF Files, Held
<1>3. /\ r \in Kernels
      /\ r.open[s].path = p
      /\ Same(q, r, Slots \ {s}, Paths \ {p})
      /\ Exists(r, p) /\ r.open[s].pos = Len(r.content[p])
  <2>1. Wrote(q, s, q.open[s].path, b, r)
    BY <1>2, ThroughDone
  <2> HIDE DEF r, s, p
  <2> QED
    BY <1>2, <2>1 DEF Wrote
<1> HIDE DEF r
<1>4. ASSUME NEW j \in 1 .. Len(m), j # i PROVE Files(r, m[j])
  <2>1. s \notin Held(m[j])
    BY <1>2, <1>4 DEF Waiting
  <2>2. p \notin Needs(m[j])
    <3>1. i < j \/ j < i
      BY <1>1, <1>4
    <3>2. CASE i < j
      <4>1. Nest(m[i], m[j])
        BY <3>2 DEF Nests
      <4> QED
        BY <1>1, <4>1, NeedsApart
    <3>3. CASE j < i
      <4>1. Nest(m[j], m[i])
        BY <3>3 DEF Nests
      <4> QED
        BY <1>1, <4>1, NeedsApart
    <3> QED
      BY <3>1, <3>2, <3>3
  <2>3. Needs(m[j]) \subseteq Paths
    BY <1>1, NeedsPaths
  <2>4. Same(q, r, Held(m[j]), Needs(m[j]))
    <3>1. Held(m[j]) \subseteq Slots \ {s} /\ Needs(m[j]) \subseteq Paths \ {p}
      BY <1>1, <2>1, <2>2, <2>3
    <3> QED
      BY <1>3, <3>1, SameLess
  <2> QED
    BY <1>1, <2>4, FilesKept
<1>5. Files(r, m[i])
  <2> DEFINE a == m[i]
  <2>1. ShellSound(a) /\ a.stage > 0 /\ Files(q, a) /\ a \in ShellState
    BY <1>1
  <2>2. /\ a.of \in 1 .. MaxStages /\ a.stage \in 1 .. a.of
        /\ a.target \in Targets \cup {None}
    BY <2>1, StageIs
  <2>3. a.in # None => /\ a.in \in Slots \ {s} /\ Pipes[a.stage - 1] \in Paths \ {p}
    <3>1. a.in # None => a.stage > 1 /\ a.in # a.out /\ a.in \in Slots
      BY <2>1, ShellFields, NoSlot DEF ShellSound
    <3>2. a.stage > 1 => Pipes[a.stage - 1] \in Paths /\ p # Pipes[a.stage - 1]
      BY <2>2, SinkIs
    <3> QED
      BY <3>1, <3>2
  <2>4. a.in # None => LET x == Pipes[a.stage - 1]
                       IN  /\ r.open[a.in].path = x /\ Exists(r, x)
                           /\ r.open[a.in].pos <= Len(r.content[x])
    BY <1>3, <2>1, <2>3 DEF Files, Same
  <2>5. a.out # None /\ a.out = s /\ p = SinkOf(a.stage, a.of, a.target)
    OBVIOUS
  <2> HIDE DEF a, s, p
  <2> QED
    BY <1>3, <2>4, <2>5 DEF Files, a
<1> QED
  BY <1>4, <1>5 DEF FilesOfAll, r, s

\* What a shell reads moves only the position of its handle.
LEMMA GetFiles ==
  ASSUME NEW q \in Kernels, NEW m, Waiting(m), FilesOfAll(q, m),
         NEW i \in 1 .. Len(m), m[i].in # None, NEW n \in Nat
  PROVE  FilesOfAll(AfterRead(q, m[i].in, n), m)
<1> DEFINE s == m[i].in
           p == Pipes[m[i].stage - 1]
           r == AfterRead(q, s, n)
<1>1. /\ m \in Seq(ShellState) /\ Len(m) \in Nat
      /\ \A j \in 1 .. Len(m) : ShellSound(m[j]) /\ m[j].stage > 0 /\ Files(q, m[j])
                                /\ m[j] \in ShellState /\ Held(m[j]) \subseteq Slots
  BY ShellFields DEF Waiting, FilesOfAll, ShellSound
<1>2. /\ s \in Slots /\ s \in Held(m[i])
      /\ q.open[s].path = p /\ Exists(q, p) /\ q.open[s].pos <= Len(q.content[p])
  BY <1>1 DEF Files, Held
<1>3. /\ r \in Kernels /\ r.content = q.content
      /\ r.open[s].path = p
      /\ Same(q, r, Slots \ {s}, Paths)
      /\ r.open[s].pos <= Len(r.content[p])
  <2>1. ReadDone(q, s, n, q.open[s].path, r)
    BY <1>2, ReadIsDone
  <2> HIDE DEF r, s, p
  <2> QED
    BY <1>2, <2>1 DEF ReadDone
<1> HIDE DEF r
<1>4. ASSUME NEW j \in 1 .. Len(m), j # i PROVE Files(r, m[j])
  <2>1. s \notin Held(m[j])
    BY <1>2, <1>4 DEF Waiting
  <2>2. Needs(m[j]) \subseteq Paths
    BY <1>1, NeedsPaths
  <2>3. Same(q, r, Held(m[j]), Needs(m[j]))
    <3>1. Held(m[j]) \subseteq Slots \ {s}
      BY <1>1, <2>1
    <3> QED
      BY <1>3, <2>2, <3>1, SameLess
  <2> QED
    BY <1>1, <2>3, FilesKept
<1>5. Files(r, m[i])
  <2> DEFINE a == m[i]
  <2>1. ShellSound(a) /\ Files(q, a) /\ a \in ShellState
    BY <1>1
  <2>2. a.out # None => a.out \in Slots \ {s}
    BY <2>1, ShellFields, NoSlot DEF ShellSound
  <2>3. \A x : Exists(r, x) <=> Exists(q, x)
    BY <1>3 DEF Exists
  <2>4. a.out # None => r.open[a.out] = q.open[a.out]
    BY <1>3, <2>2 DEF Same
  <2>5. a.in = s /\ p = Pipes[a.stage - 1]
    OBVIOUS
  <2> HIDE DEF a, s, p
  <2> QED
    BY <1>2, <1>3, <2>1, <2>3, <2>4, <2>5 DEF Files, a
<1> QED
  BY <1>4, <1>5 DEF FilesOfAll, r, s

\* Only positions and contents of the shells' own files have changed.
LEMMA StreamInv ==
  ASSUME Inv, Running, k' \in Kernels, k'.redirect = k.redirect, k'.stdin = k.stdin,
         InUse(k') = InUse(k), FilesOfAll(k', shells),
         \A h \in mine : k'.open[h] = k.open[h],
         shells' = shells, mine' = mine, leaked' = leaked
  PROVE  Inv'
<1>1. /\ Led(k, Outer, Shell, mine, leaked) /\ shells = Append(Outer, Shell)
      /\ Outer \in Seq(ShellState) /\ Shell \in ShellState
  BY Ran
<1>2. FilesOfAll(k', Outer) /\ Files(k', Shell)
  <2>1. FilesOfAll(k', Append(Outer, Shell)) <=> FilesOfAll(k', Outer) /\ Files(k', Shell)
    BY <1>1, NestsMore
  <2> QED
    BY <1>1, <2>1
<1>3. OnTop(k', Outer, Shell, mine \cup leaked)
  BY <1>1 DEF Led, OnTop
<1>4. Flows(k', Outer, Shell)
  BY <1>1, <1>2 DEF Led, Flows
<1>5. OwnFiles(k', mine)
  BY <1>1 DEF Led, OwnFiles
<1>6. Led(k', Outer, Shell, mine', leaked')
  BY <1>1, <1>3, <1>4, <1>5 DEF Led
<1> QED
  BY <1>1, <1>6, LedIsInv
\* What stdout and stdin lead to are handles of shells that have not ended.
LEMMA LedByShell ==
  ASSUME Inv
  PROVE  /\ k.redirect = OuterOut(shells) /\ k.stdin = OuterIn(shells)
         /\ k.redirect # None => \E i \in 1 .. Depth : shells[i].out = k.redirect
         /\ k.stdin # None => \E i \in 1 .. Depth : shells[i].in = k.stdin
         /\ shells \in Seq(ShellState)
         /\ InUse(k) = mine \cup leaked \cup HeldBy(shells)
         /\ mine \cap HeldBy(shells) = {}
<1>1. /\ shells = Append(Outer, Shell) /\ Outer \in Seq(ShellState) /\ Shell \in ShellState
      /\ HeldBy(shells) = HeldBy(Outer) \cup Held(Shell)
      /\ shells \in Seq(ShellState)
  BY Stacked DEF Inv, HandlesInv
<1>2. /\ OuterOut(Append(Outer, Shell)) = IF Shell.out # None THEN Shell.out ELSE OuterOut(Outer)
      /\ OuterIn(Append(Outer, Shell)) = IF Shell.in # None THEN Shell.in ELSE OuterIn(Outer)
  BY <1>1, OuterMore
<1>3. k.redirect = OuterOut(shells) /\ k.stdin = OuterIn(shells)
  BY <1>1, <1>2 DEF Inv, FlowInv, Flows
<1>4. /\ k.redirect # None => \E i \in 1 .. Depth : shells[i].out = k.redirect
      /\ k.stdin # None => \E i \in 1 .. Depth : shells[i].in = k.stdin
  BY <1>1, <1>3, OuterIs DEF Depth
<1>5. /\ InUse(k) = mine \cup leaked \cup HeldBy(shells)
      /\ mine \cap HeldBy(shells) = {}
  BY <1>1 DEF Inv, HandlesInv, OnTop
<1> QED
  BY <1>1, <1>3, <1>4, <1>5

LEMMA PutInv ==
  ASSUME Inv, NEW b \in Bytes, Put(b)
  PROVE  Inv'
<1>1. /\ Running /\ k' = OutByte(k, b) /\ shells' = shells /\ mine' = mine /\ leaked' = leaked
      /\ k \in Kernels /\ shells = Append(Outer, Shell)
      /\ Waiting(shells) /\ Nests(shells) /\ FilesOfAll(k, shells)
      /\ Led(k, Outer, Shell, mine, leaked)
      /\ mine \subseteq InUse(k) /\ InUse(k) \subseteq Slots
  BY Ran DEF Put
<1>2. CASE ~Redirected(k, k.redirect)
  <2>1. Led(k', Outer, Shell, mine', leaked') /\ shells' = Append(Outer, Shell)
    BY <1>1, <1>2 DEF OutByte
  <2> QED
    BY <2>1, LedIsInv
<1>3. CASE Redirected(k, k.redirect)
  <2>1. k.redirect # None /\ k' = Through(k, k.redirect, b)
    BY <1>1, <1>3 DEF OutByte, Redirected
  <2>2. PICK i \in 1 .. Depth : shells[i].out = k.redirect
    BY <2>1, LedByShell
  <2>3. i \in 1 .. Len(shells) /\ shells[i].out # None /\ k' = Through(k, shells[i].out, b)
    BY <2>1, <2>2 DEF Depth
  <2>4. FilesOfAll(k', shells)
    BY <1>1, <2>3, PutFiles
  <2>5. k.redirect \in Slots
    <3>1. k.redirect \in Handles
      BY <1>1, KernelFields
    <3> QED
      BY <2>1, <3>1, NoSlot
  <2>6. Wrote(k, k.redirect, k.open[k.redirect].path, b, k')
    BY <1>1, <2>1, <2>5, ThroughDone
  <2>7. /\ k' \in Kernels /\ InUse(k') = InUse(k)
        /\ k'.redirect = k.redirect /\ k'.stdin = k.stdin
        /\ \A h \in Slots \ {k.redirect} : k'.open[h] = k.open[h]
    BY <2>6 DEF Wrote, Same
  <2>8. k.redirect \notin mine
    <3>1. k.redirect \in HeldBy(shells)
      BY <2>1, <2>2, <2>3 DEF HeldBy, Held
    <3> QED
      BY <3>1, LedByShell
  <2>9. \A h \in mine : k'.open[h] = k.open[h]
    BY <1>1, <2>7, <2>8
  <2> QED
    BY <1>1, <2>4, <2>7, <2>9, StreamInv
<1> QED
  BY <1>2, <1>3

LEMMA GetInv ==
  ASSUME Inv, NEW n \in 1 .. MaxBytes, Get(n)
  PROVE  Inv'
<1>1. /\ Running /\ shells' = shells /\ mine' = mine /\ leaked' = leaked
      /\ k' = IF Redirected(k, k.stdin) THEN AfterRead(k, k.stdin, n) ELSE k
      /\ k \in Kernels /\ shells = Append(Outer, Shell)
      /\ Waiting(shells) /\ FilesOfAll(k, shells)
      /\ Led(k, Outer, Shell, mine, leaked)
      /\ mine \subseteq InUse(k) /\ InUse(k) \subseteq Slots /\ n \in Nat
  BY Ran, ShellAssumption DEF Get
<1>2. CASE ~Redirected(k, k.stdin)
  <2>1. Led(k', Outer, Shell, mine', leaked') /\ shells' = Append(Outer, Shell)
    BY <1>1, <1>2
  <2> QED
    BY <2>1, LedIsInv
<1>3. CASE Redirected(k, k.stdin)
  <2>1. k.stdin # None /\ k' = AfterRead(k, k.stdin, n)
    BY <1>1, <1>3 DEF Redirected
  <2>2. PICK i \in 1 .. Depth : shells[i].in = k.stdin
    BY <2>1, LedByShell
  <2>3. /\ i \in 1 .. Len(shells) /\ shells[i].in # None
        /\ k' = AfterRead(k, shells[i].in, n)
    BY <2>1, <2>2 DEF Depth
  <2>4. FilesOfAll(k', shells)
    BY <1>1, <2>3, GetFiles
  <2>5. k.stdin \in Slots
    <3>1. k.stdin \in Handles
      BY <1>1, KernelFields
    <3> QED
      BY <2>1, <3>1, NoSlot
  <2>6. ReadDone(k, k.stdin, n, k.open[k.stdin].path, k')
    <3>1. LET p == Pipes[shells[i].stage - 1]
          IN  /\ k.open[k.stdin].path = p /\ Exists(k, p)
              /\ k.open[k.stdin].pos <= Len(k.content[p])
      BY <1>1, <2>2, <2>3 DEF FilesOfAll, Files
    <3> QED
      BY <1>1, <2>1, <2>5, <3>1, ReadIsDone
  <2>7. /\ k' \in Kernels /\ InUse(k') = InUse(k)
        /\ k'.redirect = k.redirect /\ k'.stdin = k.stdin
        /\ \A h \in Slots \ {k.stdin} : k'.open[h] = k.open[h]
    BY <2>6 DEF ReadDone, Same
  <2>8. k.stdin \notin mine
    <3>1. k.stdin \in HeldBy(shells)
      BY <2>1, <2>2, <2>3 DEF HeldBy, Held
    <3> QED
      BY <3>1, LedByShell
  <2>9. \A h \in mine : k'.open[h] = k.open[h]
    BY <1>1, <2>7, <2>8
  <2> QED
    BY <1>1, <2>4, <2>7, <2>9, StreamInv
<1> QED
  BY <1>2, <1>3
----------------------------------------------------------------------------
(* The invariant *)

LEMMA InitInv ==
  ASSUME Init
  PROVE  Inv
<1> DEFINE o == [s \in Slots |-> Unused]
           c == [p \in {Script} |-> << >>]
<1>1. /\ k = [open |-> o, redirect |-> None, stdin |-> None, content |-> c]
      /\ shells = <<Ready(None)>> /\ mine = {} /\ leaked = {}
  BY DEF Init, Started
<1>2. /\ o \in [Slots -> Entry] /\ \A s \in Slots : ~o[s].used
      /\ {Script} \in SUBSET Paths /\ c \in [{Script} -> Seq(Bytes)]
      /\ None \in Handles
  BY PathsFacts, NoSlot DEF Unused, Entry
<1> HIDE DEF o, c
<1>3. k \in Kernels
  <2>1. [open |-> o, redirect |-> None, stdin |-> None, content |-> c] \in Kernels
    BY <1>2, KernelMade
  <2> QED
    BY <1>1, <2>1
<1>4. k.redirect = None /\ k.stdin = None /\ InUse(k) = {}
  BY <1>1, <1>2 DEF InUse
<1>5. /\ ShellSound(Ready(None)) /\ Ready(None) \in ShellState /\ Held(Ready(None)) = {}
      /\ Ready(None).out = None /\ Ready(None).in = None /\ Ready(None).stage = 0
      /\ Ready(None).of = 0
  BY ReadyIs, NoSlot
<1>6. shells \in Seq(ShellState) /\ Depth = 1 /\ Shell = Ready(None)
  BY <1>1, <1>5 DEF Depth, Shell
<1>7. Outer \in Seq(ShellState) /\ Len(Outer) = 0
  <2>1. Len(shells) > 0 /\ Len(shells) - 1 = 0
    BY <1>6 DEF Depth
  <2>2. SubSeq(shells, 1, Len(shells) - 1) \in Seq(ShellState)
        /\ Len(SubSeq(shells, 1, Len(shells) - 1)) = Len(shells) - 1
    BY <1>6, <2>1, StackTop
  <2> QED
    BY <2>1, <2>2 DEF Outer, Depth
<1>8. \A i \in 1 .. Len(Outer) : FALSE
  BY <1>7
<1>9. HeldBy(Outer) = {} /\ OuterOut(Outer) = None /\ OuterIn(Outer) = None
  <2>1. HeldBy(Outer) = {}
    BY <1>8 DEF HeldBy
  <2> QED
    BY <1>7, <1>8, <2>1, OuterIs
<1>10. Waiting(Outer)
  BY <1>7, <1>8 DEF Waiting
<1>11. OnTop(k, Outer, Shell, mine \cup leaked)
  BY <1>1, <1>3, <1>4, <1>5, <1>6, <1>9 DEF OnTop
<1>12. HandlesInv
  <2>1. 1 \in 1 .. MaxDepth
    BY ShellAssumption
  <2> QED
    BY <1>1, <1>6, <1>10, <1>11, <2>1 DEF HandlesInv
<1>13. FlowInv
  BY <1>1, <1>4, <1>5, <1>6, <1>8, <1>9
     DEF FlowInv, Flows, OwnFiles, Nests, NestOver, FilesOfAll, Files
<1> QED
  BY <1>12, <1>13 DEF Inv

LEMMA NextInv ==
  ASSUME Inv, Risky = {}, [Next]_vars
  PROVE  Inv'
<1>1. CASE UNCHANGED vars
  <2>1. Led(k', Outer, Shell, mine', leaked') /\ shells' = Append(Outer, Shell)
    BY <1>1, InvIsLed, Stacked DEF Inv, vars
  <2> QED
    BY <2>1, LedIsInv
<1>2. ASSUME NEW t \in Targets \cup {None},
             \/ \E n \in 1 .. MaxStages : Line(n, t)
             \/ LineRefused(t) \/ Batch(t) \/ ExitShell(t)
      PROVE  Inv'
  BY <1>2, LineInv, LineRefusedStep, BatchStep, ExitShellInv
<1>3. CASE BatchEnd
  BY <1>3, BatchEndStep
<1>4. CASE Program
  <2>1. ASSUME NEW b \in Bytes, Put(b) PROVE Inv'
    BY <2>1, PutInv
  <2>2. ASSUME NEW b \in Bytes, NEW s \in mine, WriteWork(s, b) PROVE Inv'
    BY <2>2, WriteWorkStep
  <2>3. ASSUME NEW n \in 1 .. MaxBytes, Get(n) PROVE Inv'
    BY <2>3, GetInv
  <2>4. ASSUME NEW p \in Work, OpenWork(p) \/ CreateWork(p) \/ DeleteWork(p) PROVE Inv'
    BY <2>4, OpenWorkStep, CreateWorkStep, DeleteWorkStep
  <2>5. ASSUME NEW s \in mine, CloseWork(s) PROVE Inv'
    BY <2>5, CloseWorkStep
  <2>6. ASSUME OpenDevice \/ StartShell \/ Exit PROVE Inv'
    BY <2>6, OpenDeviceStep, StartShellStep, ExitInv
  <2> QED
    BY <1>4, <2>1, <2>2, <2>3, <2>4, <2>5, <2>6 DEF Program
<1> QED
  BY <1>1, <1>2, <1>3, <1>4 DEF Next

\* Every state of a run where users do neither of the risky things keeps the
\* invariant: each open slot is one shell's, the running program's or left open,
\* and each line's files hold what its stages have written so far.
THEOREM Invariant ==
  ASSUME Risky = {}
  PROVE  Spec => []Inv
<1>1. Init => Inv
  BY InitInv
<1>2. Inv /\ [Next]_vars => Inv'
  BY NextInv
<1> QED
  BY <1>1, <1>2, PTL DEF Spec

\* Redirects lead where the innermost shell with one has led them, and to a slot
\* that is in use.
THEOREM RedirectsDirected ==
  ASSUME Risky = {}
  PROVE  Spec => []Directed
<1>1. Inv => Directed
  <2> SUFFICES ASSUME Inv PROVE Directed
    OBVIOUS
  <2>1. /\ k.redirect = OuterOut(shells) /\ k.stdin = OuterIn(shells)
        /\ k.redirect # None => \E i \in 1 .. Depth : shells[i].out = k.redirect
        /\ k.stdin # None => \E i \in 1 .. Depth : shells[i].in = k.stdin
        /\ HeldBy(shells) \subseteq InUse(k)
    BY LedByShell
  <2>2. /\ k.redirect # None => k.redirect \in InUse(k)
        /\ k.stdin # None => k.stdin \in InUse(k)
    BY <2>1 DEF HeldBy, Held, Depth
  <2> QED
    BY <2>1, <2>2 DEF Directed, Redirected, InUse
<1> QED
  BY <1>1, Invariant, PTL

\* The slots in use are those of lines and batch files under way, of the running
\* program, and those programs have left open: no line leaves one behind.
THEOREM NoHandleLost ==
  ASSUME Risky = {}
  PROVE  Spec => []HandlesAccounted
<1>1. Inv => HandlesAccounted
  <2> SUFFICES ASSUME Inv PROVE HandlesAccounted
    OBVIOUS
  <2>1. InUse(k) = mine \cup leaked \cup HeldBy(shells)
    BY LedByShell
  <2> DEFINE held == UNION {{shells[i].out, shells[i].in, shells[i].bat} : i \in 1 .. Depth}
  <2>2. ASSUME NEW h PROVE h \in HeldBy(shells) <=> h \in held /\ h # None
    BY DEF HeldBy, Held, Depth
  <2>3. HandlesAccounted <=> InUse(k) = mine \cup leaked \cup (held \ {None})
    BY DEF HandlesAccounted
  <2> HIDE DEF held
  <2>4. HeldBy(shells) = held \ {None}
    BY <2>2
  <2> QED
    BY <2>1, <2>3, <2>4
<1> QED
  BY <1>1, Invariant, PTL
----------------------------------------------------------------------------
(* The outermost shell's line is what Streams promises *)

\* The shell that waited goes on to its next stage, or has done the last one.
WentOn(q, st, s, l, u) ==
    /\ u \in ShellState /\ shells' = Append(st, u)
    /\ Led(k', st, u, {}, l) /\ Same(q, k', HeldBy(st), NeedsOf(st))
    /\ Advanced(q, s, k', u) \/ Finished(s, u)

LEMMA ChildSeen ==
  ASSUME NEW q, NEW st, NEW s, NEW m, NEW l, Led(q, st, s, m, l), s.stage > 0,
         NEW room \in BOOLEAN, ChildEnded(q, st, s, room)
  PROVE  \E u : WentOn(q, st, s, m \cup l, u)
<1>1. /\ ShellSound(s) /\ s.bat \in Handles /\ NestOver(st, s) /\ Files(q, s)
      /\ s.of \in 1 .. MaxStages /\ s.stage \in 1 .. s.of
      /\ s.target \in Targets \cup {None} /\ s.in \in Handles /\ s.out \in Handles
      /\ q \in Kernels
  BY StageIs, ShellFields DEF Led, OnTop, Flows
<1> DEFINE d == Ended(q, s)
<1>2. Led(d, st, Ready(s.bat), {}, m \cup l) /\ Same(q, d, HeldBy(st), NeedsOf(st))
  BY EndedLed
<1>3. CASE s.stage < s.of
  <2>1. s.stage + 1 \in 1 .. s.of /\ s.stage \in 1 .. 3 /\ s.stage + 1 - 1 = s.stage
        /\ s.stage + 1 > 1
    BY <1>1, <1>3, SinkIs
  <2>2. /\ s.of > 1 => \A j \in 1 .. Len(st) : st[j].of = 1 /\ st[j].out = None
        /\ s.target # None => \A j \in 1 .. Len(st) : st[j].out = None
    BY <1>1 DEF NestOver, Nest
  <2> DEFINE i == s.stage + 1
             r == Staged(d, i, s.of, s.target, room)
             a == ShellAt(d, i, s.of, s.target, room, s.bat)
             p == Pipes[s.stage]
  <2>3. k' = r /\ shells' = Append(st, a)
    BY <1>3 DEF ChildEnded, Ended
  <2>4. /\ SinkOf(s.stage, s.of, s.target) = p
        /\ p \in Paths /\ (s.stage > 1 => p # Pipes[s.stage - 1])
    <3>1. /\ s.stage < s.of => SinkOf(s.stage, s.of, s.target) = p
          /\ s.stage > 1 => SinkOf(s.stage, s.of, s.target) # Pipes[s.stage - 1]
      BY <1>1, SinkIs
    <3> QED
      BY <1>3, <2>1, <3>1, PathsFacts
  <2>5. (Exists(d, p) <=> Exists(q, p)) /\ (Exists(q, p) => d.content[p] = q.content[p])
    <3>1. Same(q, d, Slots \ {s.out, s.in},
               IF s.in = None THEN Paths ELSE Paths \ {Pipes[s.stage - 1]})
      BY <1>1, EndedIs
    <3>2. s.in # None => s.stage > 1
      BY <1>1 DEF ShellSound
    <3>3. p \in (IF s.in = None THEN Paths ELSE Paths \ {Pipes[s.stage - 1]})
      BY <2>4, <3>2
    <3> QED
      BY <3>1, <3>3 DEF Same
  <2> HIDE DEF i, d
  <2>6. Led(r, st, a, {}, m \cup l) /\ Same(d, r, HeldBy(st), NeedsOf(st))
    BY <1>1, <1>2, <2>1, <2>2, StageLed DEF i
  <2>7. StageStarted(d, i, s.of, s.target, s.bat, r, a)
    <3>1. d \in Kernels
      BY <1>2 DEF Led, OnTop
    <3> QED
      BY <1>1, <2>1, <3>1, StagedIs DEF i
  <2> HIDE DEF r, a
  <2>8. /\ a \in ShellState /\ a.stage = i /\ a.of = s.of
        /\ MadeAt(r, a) = << >>
        /\ i = 1 => a.in = None
        /\ a.in # None => Exists(d, Pipes[i - 1]) /\ InputAt(r, a) = d.content[Pipes[i - 1]]
        /\ a.in = None /\ i > 1 /\ Exists(d, Pipes[i - 1]) => InUse(r) = Slots
    <3>1. i \in 1 .. s.of
      BY <2>1 DEF i
    <3>2. StageShown(d, i, s.of, r, a)
      BY <1>1, <2>7, <3>1, StageSeen
    <3> QED
      BY <3>2 DEF StageShown
  <2>9. i > 1 /\ Pipes[i - 1] = p /\ i = s.stage + 1
    BY <2>1 DEF i
  <2>10. /\ s.out # None => Exists(q, p) /\ MadeAt(q, s) = q.content[p]
         /\ s.out = None => ~Exists(q, p)
    BY <1>1, <1>3, <2>4 DEF Files, MadeAt
  <2> HIDE DEF p
  <2>11. Advanced(q, s, r, a)
    BY <1>3, <2>5, <2>8, <2>9, <2>10 DEF Advanced
  <2>12. Same(q, r, HeldBy(st), NeedsOf(st))
    BY <1>2, <2>6, SameTwice
  <2>13. WentOn(q, st, s, m \cup l, a)
    BY <2>3, <2>6, <2>8, <2>11, <2>12 DEF WentOn
  <2> QED
    BY <2>13
<1>4. CASE ~(s.stage < s.of)
  <2>1. k' = d /\ shells' = Append(st, Ready(s.bat))
    BY <1>4 DEF ChildEnded, Ended
  <2>2. s.stage = s.of
    BY <1>1, <1>4
  <2>3. Finished(s, Ready(s.bat)) /\ Ready(s.bat) \in ShellState
    BY <1>1, <2>2, ReadyIs DEF Finished
  <2> HIDE DEF d
  <2>4. WentOn(q, st, s, m \cup l, Ready(s.bat))
    BY <1>2, <2>1, <2>3 DEF WentOn
  <2> QED
    BY <2>4
<1> QED
  BY <1>3, <1>4

\* A pipe that cannot be opened with three slots: programs have left files open.
LEMMA LeftOpen ==
  ASSUME MaxOpenFiles >= 3, NEW q, NEW st, NEW u, NEW l, Led(q, st, u, {}, l),
         Len(st) = 0, u.in = None, InUse(q) = Slots
  PROVE  l # {}
<1>1. OnTop(q, st, u, {} \cup l)
  BY DEF Led
<1>2. HeldBy(st) = {}
  BY DEF HeldBy
<1>3. Slots \subseteq l \cup {u.out, u.bat}
  BY <1>1, <1>2 DEF OnTop, Held
<1>4. 0 \in Slots /\ 1 \in Slots /\ 2 \in Slots
  BY TableAssumption DEF Slots
<1> QED
  BY <1>3, <1>4

\* What a step is for Streams when it is none of Put, Get and GetKey.
Seen ==
    \/ Keeps(k, Main, k', Main')
    \/ \E n \in 1 .. MaxStages : Main.stage = 0 /\ Begun(n, k', Main') /\ leaked' = leaked
    \/ /\ Advanced(k, Main, k', Main')
       /\ Main'.in = None /\ Main.out # None => leaked' # {}
    \/ Finished(Main, Main')

LEMMA WentOnSeen ==
  ASSUME NEW q, NEW st, NEW s, NEW l, NEW u, WentOn(q, st, s, l, u), s \in ShellState,
         Main = IF Len(st) = 0 THEN s ELSE st[1], MaxOpenFiles >= 3,
         MadeAt(q, s) = MadeAt(k, s), leaked' = l,
         FilesOfAll(k, st), Same(k, q, HeldBy(st), NeedsOf(st))
  PROVE  Seen
<1>1. /\ u \in ShellState /\ shells' = Append(st, u)
      /\ Led(k', st, u, {}, l) /\ Same(q, k', HeldBy(st), NeedsOf(st))
      /\ Advanced(q, s, k', u) \/ Finished(s, u)
  BY DEF WentOn
<1>2. /\ Main' = IF Len(st) = 0 THEN u ELSE st[1]
      /\ Len(st) \in Nat /\ (Len(st) # 0 => Len(st) > 0)
  <2>1. st \in Seq(ShellState)
    BY <1>1 DEF Led, Waiting
  <2> QED
    BY <1>1, <2>1, MainIs
<1>3. CASE Len(st) # 0
  <2>1. Same(k, k', HeldBy(st), NeedsOf(st))
    BY <1>1, SameTwice
  <2>2. Keeps(k, st[1], k', st[1])
    BY <1>2, <1>3, <2>1, KeepsBelow
  <2> QED
    BY <1>2, <1>3, <2>2 DEF Seen
<1>4. CASE Len(st) = 0
  <2>1. Main = s /\ Main' = u
    BY <1>2, <1>4
  <2>2. CASE Finished(s, u)
    BY <2>1, <2>2 DEF Seen
  <2>3. CASE Advanced(q, s, k', u)
    <3>1. Advanced(k, s, k', u)
      BY <2>3 DEF Advanced
    <3>2. u.in = None /\ s.out # None => leaked' # {}
      <4>1. u.in = None /\ s.out # None => InUse(k') = Slots
        BY <2>3 DEF Advanced
      <4> QED
        BY <1>1, <1>4, <4>1, LeftOpen
    <3> QED
      BY <2>1, <3>1, <3>2 DEF Seen
  <2> QED
    BY <1>1, <2>2, <2>3
<1> QED
  BY <1>3, <1>4

LEMMA ExitSeen ==
  ASSUME Inv, MaxOpenFiles >= 3, Exit
  PROVE  Seen
<1>1. /\ Led(k, Outer, Shell, mine, leaked) /\ Shell.stage > 0
      /\ shells = Append(Outer, Shell) /\ Outer \in Seq(ShellState) /\ Shell \in ShellState
      /\ leaked' = mine \cup leaked
  BY Ran DEF Exit
<1>2. PICK u : WentOn(k, Outer, Shell, mine \cup leaked, u)
  BY <1>1, ChildSeen DEF Exit
<1>3. Main = IF Len(Outer) = 0 THEN Shell ELSE Outer[1]
  BY <1>1, MainIs
<1>4. FilesOfAll(k, Outer) /\ Same(k, k, HeldBy(Outer), NeedsOf(Outer))
  BY <1>1 DEF Led, Flows, Same
<1> QED
  BY <1>1, <1>2, <1>3, <1>4, WentOnSeen
LEMMA LineSeen ==
  ASSUME Inv, Risky = {}, NEW n \in 1 .. MaxStages, NEW t \in Targets \cup {None}, Line(n, t)
  PROVE  Seen
<1>1. /\ Led(k, Outer, Ready(Shell.bat), {}, leaked) /\ Shell.bat \in Handles
      /\ shells = Append(Outer, Ready(Shell.bat)) /\ Outer \in Seq(ShellState)
      /\ k \in Kernels
  BY Prompted DEF Line
<1>2. /\ n > 1 => \A j \in 1 .. Len(Outer) : Outer[j].of = 1 /\ Outer[j].out = None
      /\ t # None => \A j \in 1 .. Len(Outer) : Outer[j].out = None
  BY <1>1, QuietAll DEF Line, MayName, MayPipe, Led
<1>3. PICK room \in BOOLEAN :
        /\ k' = Staged(k, 1, n, t, room)
        /\ shells' = Append(Outer, ShellAt(k, 1, n, t, room, Shell.bat))
  BY DEF Line
<1> DEFINE u == ShellAt(k, 1, n, t, room, Shell.bat)
<1>4. 1 \in 1 .. n
  OBVIOUS
<1>5. Same(k, k', HeldBy(Outer), NeedsOf(Outer))
  BY <1>1, <1>2, <1>3, <1>4, StageLed
<1>6. StageShown(k, 1, n, k', u)
  <2>1. StageStarted(k, 1, n, t, Shell.bat, k', u)
    BY <1>1, <1>3, <1>4, StagedIs
  <2> HIDE DEF u
  <2> QED
    BY <1>1, <1>4, <2>1, StageSeen
<1>7. shells' = Append(Outer, u)
  BY <1>3
<1> HIDE DEF u
<1>8. /\ u \in ShellState /\ u.stage = 1 /\ u.of = n /\ u.in = None /\ MadeAt(k', u) = << >>
  BY <1>6 DEF StageShown
<1>9. /\ Main = IF Len(Outer) = 0 THEN Ready(Shell.bat) ELSE Outer[1]
      /\ Main' = IF Len(Outer) = 0 THEN u ELSE Outer[1]
      /\ Len(Outer) \in Nat /\ (Len(Outer) # 0 => Len(Outer) > 0)
  <2>1. Ready(Shell.bat) \in ShellState
    BY <1>1, ReadyIs
  <2> QED
    BY <1>1, <1>7, <1>8, <2>1, MainIs
<1>10. CASE Len(Outer) = 0
  <2>1. Main.stage = 0 /\ leaked' = leaked
    BY <1>1, <1>9, <1>10, ReadyIs DEF Line
  <2> QED
    BY <1>8, <1>9, <1>10, <2>1 DEF Seen, Begun
<1>11. CASE Len(Outer) # 0
  <2>1. FilesOfAll(k, Outer)
    BY <1>1 DEF Led, Flows
  <2> QED
    BY <1>5, <1>9, <1>11, <2>1, KeepsBelow DEF Seen
<1> QED
  BY <1>10, <1>11

LEMMA ExitShellSeen ==
  ASSUME Inv, Risky = {}, MaxOpenFiles >= 3, NEW t \in Targets \cup {None}, ExitShell(t)
  PROVE  Seen
<1>1. AtPrompt /\ (t # None => Depth = 1) /\ UNCHANGED <<mine, leaked, event>>
  BY DEF ExitShell
<1>2. PICK room \in BOOLEAN :
        LET q == Freed(OutDirected(k, t, room), Shell.bat)
        IN  /\ t # None => OutHandle(k, t, room) # None
            /\ IF Depth = 1
               THEN k' = Finalized(q) /\ shells' = <<Ready(None)>>
               ELSE \E room2 \in BOOLEAN :
                      ChildEnded(q, SubSeq(shells, 1, Depth - 2), shells[Depth - 1], room2)
  BY DEF ExitShell, Freed
<1>3. /\ Led(k, Outer, Ready(Shell.bat), {}, leaked) /\ Shell.bat \in Handles
      /\ shells = Append(Outer, Ready(Shell.bat)) /\ Outer \in Seq(ShellState)
      /\ Depth = Len(Outer) + 1 /\ Len(Outer) \in Nat
  BY <1>1, Prompted
<1>a. Ready(Shell.bat) \in ShellState /\ Ready(None) \in ShellState /\ None \in Handles
  BY <1>3, ReadyIs, NoSlot
<1>4. CASE Depth = 1
  <2>1. shells' = <<Ready(None)>> /\ Len(Outer) = 0
    BY <1>2, <1>3, <1>4
  <2>2. Main' = Ready(None)
    BY <2>1 DEF Main
  <2>3. Main = Ready(Shell.bat)
    BY <1>3, <1>a, <2>1, MainIs
  <2>4. Keeps(k, Main, k', Main')
    BY <1>3, <1>a, <2>2, <2>3, KeepsIdle
  <2> QED
    BY <2>4 DEF Seen
<1>5. CASE Depth # 1
  <2> DEFINE st == SubSeq(shells, 1, Depth - 2)
             s == shells[Depth - 1]
             q == Freed(k, Shell.bat)
  <2>1. t = None /\ OutDirected(k, t, room) = k
    BY <1>1, <1>5 DEF OutDirected
  <2>2. PICK room2 \in BOOLEAN : ChildEnded(q, st, s, room2)
    BY <1>2, <1>5, <2>1
  <2>3. shells \in Seq(ShellState) /\ Len(shells) > 1
    <3>1. Depth \in Nat /\ Depth > 0 /\ shells \in Seq(ShellState)
      BY Stacked DEF Inv, HandlesInv
    <3>2. Depth > 1
      BY <1>5, <3>1
    <3> QED
      BY <3>1, <3>2 DEF Depth
  <2>4. st \in Seq(ShellState) /\ s \in ShellState /\ Outer = Append(st, s)
    BY <2>3, OuterTop DEF Outer, Depth
  <2> HIDE DEF st, s
  <2>5. /\ Led(q, st, s, {}, leaked) /\ s.stage > 0
        /\ Same(k, q, HeldBy(st), NeedsOf(st))
        /\ q.content = k.content
        /\ FilesOfAll(k, st)
    BY <1>3, <2>4, Popped
  <2> HIDE DEF q
  <2>6. PICK u : WentOn(q, st, s, {} \cup leaked, u)
    BY <2>2, <2>5, ChildSeen
  <2>7. Main = IF Len(st) = 0 THEN s ELSE st[1]
    <3>1. /\ Len(st) \in Nat /\ \A i \in 1 .. Len(st) : Append(st, s)[i] = st[i]
          /\ Append(st, s)[Len(st) + 1] = s /\ Len(Append(st, s)) = Len(st) + 1
      BY <2>4, StackMore
    <3>2. Main = Outer[1]
      <4>1. Len(Outer) # 0
        BY <1>3, <1>5
      <4> QED
        BY <1>3, <1>a, <4>1, MainIs
    <3>3. Len(st) # 0 => 1 \in 1 .. Len(st)
      BY <3>1
    <3> QED
      BY <2>4, <3>1, <3>2, <3>3
  <2>8. MadeAt(q, s) = MadeAt(k, s) /\ leaked' = {} \cup leaked
    BY <1>1, <2>5 DEF MadeAt
  <2> QED
    BY <2>4, <2>5, <2>6, <2>7, <2>8, WentOnSeen
<1> QED
  BY <1>4, <1>5
\* A byte is written, as Streams sees it: one that is kept can be lost, on a
\* full volume.
Putting(b) ==
    /\ Main' = Main /\ leaked' = leaked
    /\ InputAt(k', Main) = InputAt(k, Main)
    /\ Main.out # None =>
         /\ \/ MadeAt(k', Main) = Append(MadeAt(k, Main), b)
            \/ ~HasRoom(k) /\ MadeAt(k', Main) = MadeAt(k, Main)
         /\ event' = PutEvent(b)
    /\ Main.out = None => event' = <<"console", b>>

LEMMA PutSeen ==
  ASSUME Inv, NEW b \in Bytes, Put(b)
  PROVE  Putting(b) \/ (Seen /\ event' = event)
<1>1. /\ k' = OutByte(k, b) /\ shells' = shells /\ leaked' = leaked
      /\ event' = IF ~Redirected(k, k.redirect) THEN <<"console", b>>
                  ELSE IF k.redirect = Main.out THEN PutEvent(b) ELSE event
      /\ k \in Kernels /\ Waiting(shells) /\ Nests(shells) /\ FilesOfAll(k, shells)
      /\ Main' = Main
  BY Ran DEF Put, Main
<1>2. /\ shells \in Seq(ShellState) /\ Len(shells) \in Nat /\ Len(shells) > 0
      /\ 1 \in 1 .. Len(shells)
      /\ k.redirect # None => k.redirect \in InUse(k)
      /\ \A i \in 1 .. Len(shells) : shells[i] \in ShellState
  <2>1. shells \in Seq(ShellState) /\ Len(shells) \in Nat /\ Len(shells) > 0
    BY Stacked DEF Inv, HandlesInv, Depth
  <2>2. k.redirect # None => k.redirect \in HeldBy(shells)
    BY LedByShell DEF HeldBy, Held, Depth
  <2> QED
    BY <2>1, <2>2, LedByShell
<1>3. /\ ShellSound(Main) /\ Main.stage > 0 /\ Files(k, Main) /\ Main \in ShellState
      /\ Main = shells[1] /\ Held(Main) \subseteq Slots
  BY <1>1, <1>2, ShellFields DEF Waiting, FilesOfAll, Main
<1>4. CASE ~Redirected(k, k.redirect)
  <2>1. k.redirect = None
    BY <1>2, <1>4 DEF Redirected, InUse
  <2>2. OuterOut(shells) = None
    BY <2>1, LedByShell
  <2>3. Main.out = None
    BY <1>1, <1>2, <1>3, <2>2, QuietAll
  <2>4. k' = k
    BY <1>1, <1>4 DEF OutByte
  <2> QED
    BY <1>1, <1>4, <2>3, <2>4 DEF Putting
<1>5. CASE Redirected(k, k.redirect)
  <2>1. /\ k.redirect # None /\ k' = Through(k, k.redirect, b)
        /\ event' = IF k.redirect = Main.out THEN PutEvent(b) ELSE event
    BY <1>1, <1>5 DEF OutByte, Redirected
  <2>2. PICK i \in 1 .. Len(shells) : shells[i].out = k.redirect
    BY <2>1, LedByShell DEF Depth
  <2> DEFINE s == k.redirect
             x == shells[i]
             p == SinkOf(x.stage, x.of, x.target)
  <2>3. s \in Slots
    <3>1. k.redirect \in Handles
      BY <1>1, KernelFields
    <3> QED
      BY <2>1, <3>1, NoSlot
  <2>4. Wrote(k, s, k.open[s].path, b, k')
    BY <1>1, <2>1, <2>3, ThroughDone
  <2>5. /\ ShellSound(x) /\ x.stage > 0
        /\ k.open[s].path = p /\ Exists(k, p) /\ k.open[s].pos = Len(k.content[p])
    BY <1>1, <2>1, <2>2 DEF Waiting, FilesOfAll, Files
  <2>6. /\ Same(k, k', Slots \ {s}, Paths \ {p})
        /\ \/ k'.content[p] = Append(k.content[p], b)
           \/ ~HasRoom(k) /\ k'.content[p] = k.content[p]
    <3> HIDE DEF p, s
    <3> QED
      BY <2>4, <2>5 DEF Wrote
  <2>7. CASE i = 1
    <3>1. x = Main /\ Main.out # None /\ Main.out = s
      BY <1>3, <2>1, <2>2, <2>7
    <3>2. \/ MadeAt(k', Main) = Append(MadeAt(k, Main), b)
          \/ ~HasRoom(k) /\ MadeAt(k', Main) = MadeAt(k, Main)
      BY <2>6, <3>1 DEF MadeAt
    <3>3. InputAt(k', Main) = InputAt(k, Main)
      <4>1. CASE Main.in = None
        BY <4>1 DEF InputAt
      <4>2. CASE Main.in # None
        <5> DEFINE y == Pipes[Main.stage - 1]
        <5>1. /\ Main.of \in 1 .. MaxStages /\ Main.stage \in 1 .. Main.of
              /\ Main.target \in Targets \cup {None}
          BY <1>3, StageIs
        <5>2. Main.stage > 1 /\ Main.in # Main.out /\ Main.in \in Slots
          BY <1>3, <3>1, <4>2, ShellFields, NoSlot DEF ShellSound
        <5>3. y \in Paths \ {p}
          <6>1. y \in Paths \ {SinkOf(Main.stage, Main.of, Main.target)}
            BY <5>1, <5>2, SinkIs
          <6> QED
            BY <3>1, <6>1
        <5>4. k.open[Main.in].path = y /\ Exists(k, y)
          BY <1>3, <4>2 DEF Files
        <5>5. Main.in \in Slots \ {s}
          BY <3>1, <5>2
        <5> HIDE DEF y, p, s
        <5>6. k'.open[Main.in] = k.open[Main.in] /\ k'.content[y] = k.content[y]
          BY <2>6, <5>3, <5>4, <5>5 DEF Same
        <5> QED
          BY <4>2, <5>4, <5>6 DEF InputAt, Rest
      <4> QED
        BY <4>1, <4>2
    <3> QED
      BY <1>1, <2>1, <3>1, <3>2, <3>3 DEF Putting
  <2>8. CASE i # 1
    <3>1. 1 < i /\ Nest(Main, x)
      <4>1. 1 < i
        BY <1>2, <2>8
      <4> QED
        BY <1>1, <1>2, <1>3, <4>1 DEF Nests
    <3>2. x.out # None
      BY <2>1, <2>2
    <3>3. p \notin Needs(Main) /\ Needs(Main) \subseteq Paths
      BY <1>3, <2>5, <3>1, <3>2, NeedsApart, NeedsPaths
    <3>4. s \notin Held(Main)
      <4>1. s \in Held(x)
        BY <2>1, <2>2 DEF Held
      <4> QED
        BY <1>1, <1>2, <1>3, <2>8, <4>1 DEF Waiting
    <3>5. Same(k, k', Held(Main), Needs(Main))
      <4>1. Held(Main) \subseteq Slots \ {s} /\ Needs(Main) \subseteq Paths \ {p}
        BY <1>3, <3>3, <3>4
      <4> HIDE DEF p, s
      <4> QED
        BY <2>6, <4>1, SameLess
    <3>6. Keeps(k, Main, k', Main)
      BY <1>3, <3>5, KeepsSame
    <3>7. Main.out # s
      BY <2>1, <3>4 DEF Held
    <3> QED
      BY <1>1, <2>1, <3>6, <3>7 DEF Seen
  <2> QED
    BY <2>7, <2>8
<1> QED
  BY <1>4, <1>5

\* Bytes of the previous stage are read, as Streams sees it, or a key.
Getting(n) ==
    /\ Main' = Main /\ leaked' = leaked /\ Main.in # None
    /\ MadeAt(k', Main) = MadeAt(k, Main)
    /\ \E m \in 0 .. n :
         /\ m = IF n < Len(InputAt(k, Main)) THEN n ELSE Len(InputAt(k, Main))
         /\ event' = <<"read", SubSeq(InputAt(k, Main), 1, m)>>
         /\ InputAt(k', Main) = SubSeq(InputAt(k, Main), m + 1, Len(InputAt(k, Main)))

Keying == k' = k /\ Main' = Main /\ leaked' = leaked /\ Main.in = None /\ event' = <<"keyboard">>

LEMMA GetSeen ==
  ASSUME Inv, NEW n \in 1 .. MaxBytes, Get(n)
  PROVE  Getting(n) \/ Keying \/ (Seen /\ event' = event)
<1>1. /\ shells' = shells /\ leaked' = leaked /\ Main' = Main
      /\ k \in Kernels /\ Waiting(shells) /\ Nests(shells) /\ FilesOfAll(k, shells)
      /\ n \in Nat
  BY Ran, ShellAssumption DEF Get, Main
<1>2. /\ shells \in Seq(ShellState) /\ Len(shells) \in Nat /\ Len(shells) > 0
      /\ 1 \in 1 .. Len(shells)
      /\ k.stdin # None => k.stdin \in InUse(k)
      /\ \A i \in 1 .. Len(shells) : shells[i] \in ShellState
  <2>1. shells \in Seq(ShellState) /\ Len(shells) \in Nat /\ Len(shells) > 0
    BY Stacked DEF Inv, HandlesInv, Depth
  <2>2. k.stdin # None => k.stdin \in HeldBy(shells)
    BY LedByShell DEF HeldBy, Held, Depth
  <2> QED
    BY <2>1, <2>2, LedByShell
<1>3. /\ ShellSound(Main) /\ Main.stage > 0 /\ Files(k, Main) /\ Main \in ShellState
      /\ Main = shells[1] /\ Held(Main) \subseteq Slots
  BY <1>1, <1>2, ShellFields DEF Waiting, FilesOfAll, Main
<1>4. CASE ~Redirected(k, k.stdin)
  <2>1. k.stdin = None
    BY <1>2, <1>4 DEF Redirected, InUse
  <2>2. OuterIn(shells) = None
    BY <2>1, LedByShell
  <2>3. \A j \in 1 .. Len(shells) : shells[j].in = None
    BY <1>2, <2>2, OuterIs
  <2>4. k' = k /\ event' = <<"keyboard">>
    BY <1>4 DEF Get
  <2> QED
    BY <1>1, <1>2, <1>3, <2>3, <2>4 DEF Keying
<1>5. CASE Redirected(k, k.stdin)
  <2>1. /\ k.stdin # None /\ k' = AfterRead(k, k.stdin, n)
        /\ event' = IF AtOutermost THEN <<"read", Taken(k, k.stdin, n)>> ELSE event
    BY <1>5 DEF Get, Redirected
  <2>2. PICK i \in 1 .. Len(shells) : shells[i].in = k.stdin
    BY <2>1, LedByShell DEF Depth
  <2> DEFINE s == k.stdin
             x == shells[i]
             p == Pipes[x.stage - 1]
  <2>3. s \in Slots
    <3>1. k.stdin \in Handles
      BY <1>1, KernelFields
    <3> QED
      BY <2>1, <3>1, NoSlot
  <2>4. k.open[s].path = p /\ Exists(k, p) /\ k.open[s].pos <= Len(k.content[p])
    BY <1>1, <2>1, <2>2 DEF FilesOfAll, Files
  <2>5. ReadDone(k, s, n, k.open[s].path, k')
    <3> HIDE DEF p
    <3> QED
      BY <1>1, <2>1, <2>3, <2>4, ReadIsDone
  <2> DEFINE m == IF n < Len(Rest(k, s)) THEN n ELSE Len(Rest(k, s))
  <2>6. /\ Same(k, k', Slots \ {s}, Paths) /\ k'.content = k.content
        /\ m \in 0 .. n
        /\ Taken(k, s, n) = SubSeq(Rest(k, s), 1, m)
        /\ Rest(k', s) = SubSeq(Rest(k, s), m + 1, Len(Rest(k, s)))
    BY <2>5 DEF ReadDone
  <2>7. CASE i = 1
    <3>1. x = Main /\ Main.in # None /\ Main.in = s
      BY <1>3, <2>1, <2>2, <2>7
    <3>2. AtOutermost
      <4> SUFFICES ASSUME NEW j \in 2 .. Len(shells) PROVE shells[j].in = None
        BY DEF AtOutermost, Depth
      <4>1. j \in 1 .. Len(shells) /\ 1 < j
        BY <1>2
      <4>2. Nest(Main, shells[j])
        BY <1>1, <1>2, <1>3, <4>1 DEF Nests
      <4>3. Main.stage > 1 /\ Main.stage \in Nat /\ Main.of \in Nat /\ Main.stage <= Main.of
        BY <1>3, <3>1, ShellFields DEF ShellSound
      <4>4. ~(shells[j].of > 1)
        BY <4>2, <4>3 DEF Nest
      <4>5. ShellSound(shells[j]) /\ shells[j] \in ShellState
        BY <1>1, <1>2, <4>1 DEF Waiting
      <4>6. /\ shells[j].stage \in Nat /\ shells[j].of \in Nat
            /\ shells[j].stage <= shells[j].of
            /\ shells[j].in # None => shells[j].stage > 1
        BY <4>5, ShellFields DEF ShellSound
      <4> QED
        BY <4>4, <4>6
    <3>3. MadeAt(k', Main) = MadeAt(k, Main)
      BY <2>6 DEF MadeAt
    <3>4. InputAt(k, Main) = Rest(k, s) /\ InputAt(k', Main) = Rest(k', s)
      BY <3>1 DEF InputAt
    <3>5. event' = <<"read", SubSeq(InputAt(k, Main), 1, m)>>
      BY <2>1, <2>6, <3>2, <3>4
    <3>6. m = IF n < Len(InputAt(k, Main)) THEN n ELSE Len(InputAt(k, Main))
      BY <3>4
    <3> HIDE DEF m
    <3> QED
      BY <1>1, <2>6, <3>1, <3>3, <3>4, <3>5, <3>6 DEF Getting
  <2>8. CASE i # 1
    <3>1. ~AtOutermost
      <4>1. i \in 2 .. Len(shells)
        BY <1>2, <2>8
      <4> QED
        BY <2>1, <2>2, <4>1 DEF AtOutermost, Depth
    <3>2. Needs(Main) \subseteq Paths
      BY <1>3, NeedsPaths
    <3>4. s \notin Held(Main)
      <4>1. s \in Held(x)
        BY <2>1, <2>2 DEF Held
      <4> QED
        BY <1>1, <1>2, <1>3, <2>8, <4>1 DEF Waiting
    <3>5. Same(k, k', Held(Main), Needs(Main))
      <4>1. Held(Main) \subseteq Slots \ {s}
        BY <1>3, <3>4
      <4> HIDE DEF s
      <4> QED
        BY <2>6, <3>2, <4>1, SameLess
    <3>6. Keeps(k, Main, k', Main)
      BY <1>3, <3>5, KeepsSame
    <3> QED
      BY <1>1, <2>1, <3>1, <3>6 DEF Seen
  <2> QED
    BY <2>7, <2>8
<1> QED
  BY <1>4, <1>5
LEMMA MainFields ==
  ASSUME Inv
  PROVE  Main \in ShellState /\ Main.stage \in Nat /\ Main.of \in Nat
<1>1. shells \in Seq(ShellState) /\ Len(shells) \in Nat /\ Len(shells) > 0
  BY Stacked DEF Inv, HandlesInv, Depth
<1>2. 1 \in 1 .. Len(shells)
  BY <1>1
<1>3. Main \in ShellState
  BY <1>1, <1>2 DEF Main
<1> QED
  BY <1>3, ShellFields

LEMMA SeenNext ==
  ASSUME Inv, Seen, event' = event
  PROVE  Lines!Next
<1>1. CASE Keeps(k, Main, k', Main')
  <2>1. Lines!Leave
    BY <1>1 DEF Keeps, SinkAt, SourceAt, MadeAt, InputAt, Lines!Leave, Kept, Fed
  <2> QED
    BY <2>1 DEF Lines!Next
<1>2. ASSUME NEW n \in 1 .. MaxStages, Main.stage = 0, Begun(n, k', Main'), leaked' = leaked
      PROVE  Lines!Next
  <2>1. Lines!Begin(n)
    BY <1>2 DEF Begun, MadeAt, Lines!Begin, Lines!Sinks, Kept, Fed
  <2> QED
    BY <2>1 DEF Lines!Next
<1>3. ASSUME Advanced(k, Main, k', Main'), Main'.in = None /\ Main.out # None => leaked' # {}
      PROVE  Lines!Next
  <2>1. Main.stage \in 1 .. Main.of - 1
    BY <1>3, MainFields DEF Advanced
  <2>2. Lines!Advance
    BY <1>3, <2>1 DEF Advanced, MadeAt, InputAt, Lines!Advance, Lines!Sinks, Kept, Fed
  <2> QED
    BY <2>2 DEF Lines!Next
<1>4. CASE Finished(Main, Main')
  <2>1. Lines!Finish
    BY <1>4 DEF Finished, Lines!Finish, Lines!Idle, Kept, Fed
  <2> QED
    BY <2>1 DEF Lines!Next
<1> QED
  BY <1>1, <1>2, <1>3, <1>4 DEF Seen

LEMMA PuttingNext ==
  ASSUME NEW b \in Bytes, Putting(b)
  PROVE  Lines!Next
<1>1. Lines!Put(b)
  BY DEF Putting, MadeAt, InputAt, PutEvent, Lines!Put, Lines!PutEvent, Kept, Fed
<1> QED
  BY <1>1 DEF Lines!Next

LEMMA GettingNext ==
  ASSUME NEW n \in 1 .. MaxBytes, Getting(n)
  PROVE  Lines!Next
<1>1. Lines!Get(n)
  BY DEF Getting, MadeAt, InputAt, Lines!Get, Kept, Fed
<1> QED
  BY <1>1 DEF Lines!Next

LEMMA KeyingNext ==
  ASSUME Keying
  PROVE  Lines!Next
<1>1. Lines!GetKey
  BY DEF Keying, Lines!GetKey, Kept, Fed, Main
<1> QED
  BY <1>1 DEF Lines!Next

LEMMA StepIsLines ==
  ASSUME Inv, Risky = {}, MaxOpenFiles >= 3, [Next]_vars
  PROVE  [Lines!Next]_Lines!vars
<1>1. CASE UNCHANGED vars
  BY <1>1 DEF vars, Lines!vars, Main, Kept, Fed
<1>2. ASSUME NEW t \in Targets \cup {None},
             \/ \E n \in 1 .. MaxStages : Line(n, t)
             \/ LineRefused(t) \/ Batch(t) \/ ExitShell(t)
      PROVE  Lines!Next
  <2>1. ASSUME NEW n \in 1 .. MaxStages, Line(n, t) PROVE Lines!Next
    BY <2>1, LineSeen, SeenNext DEF Line
  <2>2. CASE LineRefused(t)
    <3>1. Seen /\ event' = event
      BY <2>2, LineRefusedStep DEF LineRefused, Seen
    <3> QED
      BY <3>1, SeenNext
  <2>3. CASE Batch(t)
    <3>1. Seen /\ event' = event
      BY <2>3, BatchStep DEF Batch, Seen
    <3> QED
      BY <3>1, SeenNext
  <2>4. CASE ExitShell(t)
    <3>1. Seen /\ event' = event
      BY <2>4, ExitShellSeen DEF ExitShell
    <3> QED
      BY <3>1, SeenNext
  <2> QED
    BY <1>2, <2>1, <2>2, <2>3, <2>4
<1>3. CASE BatchEnd
  <2>1. Seen /\ event' = event
    BY <1>3, BatchEndStep DEF BatchEnd, Seen
  <2> QED
    BY <2>1, SeenNext
<1>4. CASE Program
  <2>1. ASSUME NEW b \in Bytes, Put(b) PROVE Lines!Next
    BY <2>1, PutSeen, PuttingNext, SeenNext
  <2>2. ASSUME NEW b \in Bytes, NEW s \in mine, WriteWork(s, b) PROVE Lines!Next
    <3>1. Seen /\ event' = event
      BY <2>2, WriteWorkStep DEF WriteWork, Seen
    <3> QED
      BY <3>1, SeenNext
  <2>3. ASSUME NEW n \in 1 .. MaxBytes, Get(n) PROVE Lines!Next
    BY <2>3, GetSeen, GettingNext, KeyingNext, SeenNext
  <2>4. ASSUME NEW p \in Work, OpenWork(p) \/ CreateWork(p) \/ DeleteWork(p) PROVE Lines!Next
    <3>1. Seen /\ event' = event
      BY <2>4, OpenWorkStep, CreateWorkStep, DeleteWorkStep
         DEF OpenWork, CreateWork, DeleteWork, Seen
    <3> QED
      BY <3>1, SeenNext
  <2>5. ASSUME NEW s \in mine, CloseWork(s) PROVE Lines!Next
    <3>1. Seen /\ event' = event
      BY <2>5, CloseWorkStep DEF CloseWork, Seen
    <3> QED
      BY <3>1, SeenNext
  <2>6. CASE OpenDevice \/ StartShell
    <3>1. Seen /\ event' = event
      BY <2>6, OpenDeviceStep, StartShellStep DEF OpenDevice, StartShell, Seen
    <3> QED
      BY <3>1, SeenNext
  <2>7. CASE Exit
    <3>1. Seen /\ event' = event
      BY <2>7, ExitSeen DEF Exit
    <3> QED
      BY <3>1, SeenNext
  <2> QED
    BY <1>4, <2>1, <2>2, <2>3, <2>4, <2>5, <2>6, <2>7 DEF Program
<1> QED
  BY <1>1, <1>2, <1>3, <1>4 DEF Next

\* Whatever programs open, leave open, write and delete meanwhile, the line of the
\* outermost shell runs as Streams says: each stage reads what the one before it
\* wrote, and nothing else is in the file behind ">"; the only byte that may be
\* missing is one out_byte had to write while the volume had no cluster left.
THEOREM LineIsStreams ==
  ASSUME Risky = {}, MaxOpenFiles >= 3
  PROVE  Spec => ImplementsStreams
<1>1. Init => Lines!Init
  BY DEF Init, Ready, Lines!Init, Lines!Idle, Kept, Fed, Main
<1>2. Inv /\ [Next]_vars => [Lines!Next]_Lines!vars
  BY StepIsLines
<1>3. Spec => []Inv
  BY Invariant
<1> QED
  BY <1>1, <1>2, <1>3, PTL DEF Spec, ImplementsStreams, Lines!Spec
=============================================================================
