---------------------------- MODULE Fat16_proofs ----------------------------
(***************************************************************************)
(* For every size of the volume and every order of the calls of Fat16: the *)
(* variables keep their types, clusters are never cross-linked, the chains *)
(* of the entries hold every allocated cluster, and searches find all      *)
(* entries.  When no call moves a handle to the end of a file of whole     *)
(* clusters: a handle in use stays on the entry and in the cluster its     *)
(* position lies in, and the chain of a file or directory is as long as    *)
(* its bytes or slots need.  When, besides, a file has one handle at a     *)
(* time, Fat16 implements FileStore: every call of the driver does to      *)
(* files, directories and handles what the call of the same name does to   *)
(* byte sequences, paths and positions.                                    *)
(***************************************************************************)
EXTENDS Fat16Store, FiniteSetTheorems, SequenceTheorems, TLAPS

\* Clusters and the free mark are FAT entries; the end mark is neither.
LEMMA ClustersFacts ==
    /\ Clusters \subseteq Nat
    /\ Clusters \subseteq Cells
    /\ FAT16_FREE \in Cells /\ FAT16_EOF_MIN \in Cells
    /\ FAT16_FREE \notin Clusters /\ FAT16_EOF_MIN \notin Clusters
    /\ FAT16_FREE # FAT16_EOF_MIN
    /\ \A v \in Cells : IsEof(v) <=> v = FAT16_EOF_MIN
    /\ \A f : FreeClusters(f) \subseteq Clusters
BY SizesAssumption
   DEF Clusters, Cells, IsEof, FreeClusters, FAT16_FREE, FAT16_EOF_MIN

----------------------------------------------------------------------------
(* Links *)

\* Marking a free cluster as the end of a chain disturbs no chain.
LEMMA TerminateFree ==
    ASSUME NEW f \in [Clusters -> Cells], NEW t, NEW c \in Clusters,
           f[c] = FAT16_FREE, LinksSound(f), HeadsSound(f, t)
    PROVE  /\ Terminated(f, c) \in [Clusters -> Cells]
           /\ LinksSound(Terminated(f, c))
           /\ HeadsSound(Terminated(f, c), t)
           /\ Terminated(f, c)[c] = FAT16_EOF_MIN
           /\ \A b \in Clusters : Terminated(f, c)[b] # c
           /\ \A e \in EntriesOf(t) : FirstIn(t, e) # c
BY ClustersFacts DEF Terminated, LinksSound, HeadsSound

\* Linking a free cluster behind the last one of a chain disturbs no chain.
LEMMA LinkFree ==
    ASSUME NEW f \in [Clusters -> Cells], NEW t,
           NEW last \in Clusters, NEW new \in Clusters,
           IsEof(f[last]), f[new] = FAT16_FREE,
           LinksSound(f), HeadsSound(f, t)
    PROVE  /\ Linked(f, last, new) \in [Clusters -> Cells]
           /\ LinksSound(Linked(f, last, new))
           /\ HeadsSound(Linked(f, last, new), t)
           /\ \A h \in Clusters :
                 h # new /\ (\A b \in Clusters : f[b] # h)
                 => \A b \in Clusters : Linked(f, last, new)[b] # h
           /\ \A b \in Clusters : f[b] # FAT16_FREE => Linked(f, last, new)[b] # FAT16_FREE
<1> DEFINE g == Linked(f, last, new)
<1>1. last # new
  BY ClustersFacts
<1>2. /\ g \in [Clusters -> Cells]
      /\ g[last] = new /\ g[new] = FAT16_EOF_MIN
      /\ \A b \in Clusters \ {last, new} : g[b] = f[b]
  BY <1>1, ClustersFacts DEF Linked, Terminated
<1>3. \A b \in Clusters : f[b] # new
  BY ClustersFacts DEF LinksSound
<1>4. \A b \in Clusters : f[b] # FAT16_FREE => g[b] # FAT16_FREE
  BY <1>1, <1>2, ClustersFacts
<1>5. ASSUME NEW h \in Clusters, h # new, \A b \in Clusters : f[b] # h
      PROVE  \A b \in Clusters : g[b] # h
  BY <1>1, <1>2, <1>5, ClustersFacts
<1>6. LinksSound(g)
  <2> SUFFICES ASSUME NEW b \in Clusters, g[b] \in Clusters
               PROVE  /\ g[g[b]] # FAT16_FREE
                      /\ \A c \in Clusters : g[c] = g[b] => c = b
    BY DEF LinksSound
  <2> HIDE DEF g
  <2>1. CASE b = last
    BY <2>1, <1>1, <1>2, <1>3, ClustersFacts
  <2>2. CASE b # last
    <3>1. b # new /\ g[b] = f[b] /\ f[b] # new
      BY <2>2, <1>2, <1>3, ClustersFacts
    <3>2. g[f[b]] # FAT16_FREE
      BY <3>1, <1>4 DEF LinksSound
    <3>3. \A c \in Clusters : g[c] = g[b] => g[c] = f[c]
      BY <3>1, <1>2, <1>3, ClustersFacts
    <3> QED
      BY <3>1, <3>2, <3>3 DEF LinksSound
  <2> QED
    BY <2>1, <2>2
<1>7. HeadsSound(g, t)
  <2> SUFFICES ASSUME NEW e \in EntriesOf(t)
               PROVE  /\ FirstIn(t, e) \in Clusters
                      /\ g[FirstIn(t, e)] # FAT16_FREE
                      /\ \A c \in Clusters : g[c] # FirstIn(t, e)
    BY DEF HeadsSound
  <2>1. /\ FirstIn(t, e) \in Clusters /\ f[FirstIn(t, e)] # FAT16_FREE
        /\ \A c \in Clusters : f[c] # FirstIn(t, e)
    BY DEF HeadsSound
  <2>2. FirstIn(t, e) # new
    BY <2>1
  <2> QED
    BY <2>1, <2>2, <1>4, <1>5
<1> QED
  BY <1>2, <1>4, <1>5, <1>6, <1>7

\* A walk from c stays among the clusters, and meets c and all its successors.
LEMMA ChainClosed ==
    ASSUME NEW f \in [Clusters -> Cells], NEW c \in Clusters
    PROVE  /\ Chain(f, c) \subseteq Clusters
           /\ c \in Chain(f, c)
           /\ FollowsFat(f, Chain(f, c))
BY DEF Chain, FollowsFat

\* A cluster of a chain other than its first has a predecessor in the chain.
LEMMA ChainPredecessor ==
    ASSUME NEW f \in [Clusters -> Cells], NEW h \in Clusters,
           NEW x \in Chain(f, h), x # h
    PROVE  \E y \in Chain(f, h) : f[y] = x
<1> SUFFICES ASSUME \A y \in Chain(f, h) : f[y] # x
             PROVE  FALSE
  OBVIOUS
<1> DEFINE T == Chain(f, h) \ {x}
<1>1. T \in SUBSET Clusters /\ h \in T
  BY ChainClosed
<1>2. FollowsFat(f, T)
  BY ChainClosed DEF FollowsFat
<1> QED
  BY <1>1, <1>2 DEF Chain

\* Freeing the chain of a cluster no link leads to leaves the others whole.
LEMMA FreeWholeChain ==
    ASSUME NEW f \in [Clusters -> Cells], NEW h \in Clusters,
           \A b \in Clusters : f[b] # h,
           LinksSound(f)
    PROVE  /\ ChainFreed(f, h) \in [Clusters -> Cells]
           /\ LinksSound(ChainFreed(f, h))
           /\ \A g \in Clusters :
                 g # h /\ f[g] # FAT16_FREE /\ (\A b \in Clusters : f[b] # g)
                 => /\ ChainFreed(f, h)[g] # FAT16_FREE
                    /\ \A b \in Clusters : ChainFreed(f, h)[b] # g
<1> DEFINE C == Chain(f, h)
           g == ChainFreed(f, h)
<1>1. C \subseteq Clusters /\ h \in C
  BY ChainClosed
<1>2. /\ g \in [Clusters -> Cells]
      /\ \A x \in C : g[x] = FAT16_FREE
      /\ \A x \in Clusters \ C : g[x] = f[x]
  BY <1>1, ClustersFacts DEF ChainFreed
<1>3. ASSUME NEW b \in Clusters \ C, f[b] \in C
      PROVE  FALSE
  <2>1. PICK y \in C : f[y] = f[b]
    BY <1>3, ChainPredecessor
  <2> QED
    BY <2>1, <1>1, <1>3 DEF LinksSound
<1>4. LinksSound(g)
  <2> SUFFICES ASSUME NEW b \in Clusters, g[b] \in Clusters
               PROVE  /\ g[g[b]] # FAT16_FREE
                      /\ \A c \in Clusters : g[c] = g[b] => c = b
    BY DEF LinksSound
  <2>1. b \notin C /\ g[b] = f[b] /\ f[b] \notin C
    BY <1>2, <1>3, ClustersFacts
  <2>2. g[f[b]] = f[f[b]]
    BY <2>1, <1>2
  <2>3. \A c \in Clusters : g[c] = g[b] => g[c] = f[c]
    BY <2>1, <1>1, <1>2, ClustersFacts
  <2> QED
    BY <2>1, <2>2, <2>3 DEF LinksSound
<1>5. ASSUME NEW x \in Clusters, x # h, f[x] # FAT16_FREE,
             \A b \in Clusters : f[b] # x
      PROVE  g[x] # FAT16_FREE /\ \A b \in Clusters : g[b] # x
  <2>1. x \notin C
    BY <1>1, <1>5, ChainPredecessor
  <2> QED
    BY <2>1, <1>1, <1>2, <1>5, ClustersFacts
<1> QED
  BY <1>2, <1>4, <1>5

----------------------------------------------------------------------------
(* Entries *)

\* An entry is a slot that is not vacant.
LEMMA EntriesDef ==
    ASSUME NEW t, NEW e
    PROVE  e \in EntriesOf(t) <=>
             \E d \in DOMAIN t : \E i \in 1 .. Len(t[d]) :
                e = <<d, i>> /\ ~Vacant(t[d][i])
<1>1. e \in UNION {{d} \X (1 .. Len(t[d])) : d \in DOMAIN t} <=>
        \E d \in DOMAIN t : \E i \in 1 .. Len(t[d]) : e = <<d, i>>
  OBVIOUS
<1> QED
  BY <1>1 DEF EntriesOf

\* The two parts of an entry.
LEMMA EntryParts ==
    ASSUME NEW t, NEW e \in EntriesOf(t)
    PROVE  /\ e[1] \in DOMAIN t /\ e[2] \in 1 .. Len(t[e[1]])
           /\ e = <<e[1], e[2]>> /\ ~Vacant(t[e[1]][e[2]])
BY EntriesDef

\* Losing entries, or changing anything but a first cluster, is harmless.
LEMMA EntriesKept ==
    ASSUME NEW f, NEW t, NEW u,
           \A e \in EntriesOf(u) : e \in EntriesOf(t) /\ FirstIn(u, e) = FirstIn(t, e)
    PROVE  /\ HeadsSound(f, t) => HeadsSound(f, u)
           /\ HeadsDistinct(t) => HeadsDistinct(u)
BY DEF HeadsSound, HeadsDistinct

\* The slots of a new directory cluster are vacant slots.
LEMMA EmptySlotsType ==
    \A n \in Nat : /\ EmptySlots(n) \in Seq(Slot)
                   /\ Len(EmptySlots(n)) = n
                   /\ \A i \in 1 .. n : Vacant(EmptySlots(n)[i])
BY ClustersFacts DEF EmptySlots, EmptySlot, Slot, Vacant

\* What dir_free_slot adds to a directory is vacant.
LEMMA WithRoomFacts ==
    ASSUME NEW d \in DOMAIN table, table[d] \in Seq(Slot)
    PROVE  /\ WithRoom(d) \in Seq(Slot)
           /\ \A j \in 1 .. Len(WithRoom(d)) : ~Vacant(WithRoom(d)[j]) =>
                 j \in 1 .. Len(table[d]) /\ WithRoom(d)[j] = table[d][j]
<1> DEFINE more == EmptySlots(DirEntries)
<1>1. more \in Seq(Slot) /\ \A i \in 1 .. Len(more) : Vacant(more[i])
  BY EmptySlotsType, SizesAssumption
<1> HIDE DEF more
<1>2. /\ table[d] \o more \in Seq(Slot)
      /\ Len(table[d] \o more) = Len(table[d]) + Len(more)
      /\ \A j \in 1 .. Len(table[d] \o more) :
            (table[d] \o more)[j] = IF j <= Len(table[d]) THEN table[d][j]
                                     ELSE more[j - Len(table[d])]
  BY <1>1
<1>3. \A j \in 1 .. Len(table[d] \o more) : j > Len(table[d]) =>
         Vacant((table[d] \o more)[j])
  BY <1>1, <1>2
<1>4. \A j \in 1 .. Len(table[d] \o more) : j <= Len(table[d]) =>
         j \in 1 .. Len(table[d]) /\ (table[d] \o more)[j] = table[d][j]
  BY <1>1, <1>2
<1>5. CASE Extends(d)
  <2>1. WithRoom(d) = table[d] \o more
    BY <1>5 DEF WithRoom, more
  <2>2. \A j \in 1 .. Len(table[d] \o more) : j <= Len(table[d]) \/ j > Len(table[d])
    BY <1>1
  <2> HIDE DEF more
  <2> QED
    BY <1>2, <1>3, <1>4, <2>1, <2>2, Zenon
<1>6. CASE ~Extends(d)
  BY <1>6 DEF WithRoom
<1> QED
  BY <1>5, <1>6

\* Writing an entry keeps a directory a sequence of slots.
LEMMA WithEntryFacts ==
    ASSUME NEW d \in DOMAIN table, table[d] \in Seq(Slot),
           NEW i \in 1 .. Len(WithRoom(d)), NEW s \in Slot
    PROVE  /\ WithEntry(d, i, s) \in Seq(Slot)
           /\ Len(WithEntry(d, i, s)) = Len(WithRoom(d))
           /\ WithEntry(d, i, s)[i] = s
           /\ \A j \in 1 .. Len(WithEntry(d, i, s)) :
                 j # i /\ ~Vacant(WithEntry(d, i, s)[j]) =>
                 j \in 1 .. Len(table[d]) /\ WithEntry(d, i, s)[j] = table[d][j]
BY WithRoomFacts DEF WithEntry

\* A table that differs from table in the entry written into a vacant slot of
\* d, and in a directory with no entries, has that entry and no other more.
LEMMA EntriesWithNew ==
    ASSUME NEW d \in DOMAIN table, \A x \in DOMAIN table : table[x] \in Seq(Slot),
           NEW i \in 1 .. Len(WithRoom(d)), NEW s \in Slot, NEW u,
           d \in DOMAIN u, u[d] = WithEntry(d, i, s),
           \A x \in DOMAIN u \ {d} :
              \/ x \in DOMAIN table /\ u[x] = table[x]
              \/ EmptyDirectory(u[x])
    PROVE  \A e \in EntriesOf(u) :
              \/ e = <<d, i>> /\ FirstIn(u, e) = s.first
              \/ e \in EntriesOf(table) /\ FirstIn(u, e) = FirstIn(table, e)
<1> SUFFICES ASSUME NEW x \in DOMAIN u, NEW j \in 1 .. Len(u[x]), ~Vacant(u[x][j])
             PROVE  \/ x = d /\ j = i /\ u[x][j] = s
                    \/ /\ x \in DOMAIN table /\ j \in 1 .. Len(table[x])
                       /\ ~Vacant(table[x][j]) /\ u[x][j] = table[x][j]
  BY EntriesDef DEF FirstIn
<1>1. CASE x = d
  BY SMTT(30), <1>1, WithEntryFacts
<1>2. CASE x # d
  BY <1>2 DEF EmptyDirectory
<1> QED
  BY <1>1, <1>2

----------------------------------------------------------------------------
(* The inductive invariant.  The types alone are not inductive: that rmdir   *)
(* keeps the root among the directories needs the first cluster of an entry  *)
(* to be a cluster.                                                          *)

Inv == TypeOK /\ ChainsSound

\* ChainsSound of the next state, part by part.
LEMMA ChainsSoundNext ==
    ChainsSound' <=> /\ LinksSound(fat')
                     /\ HeadsSound(fat', table')
                     /\ HeadsDistinct(table')
BY DEF ChainsSound, LinksSound, HeadsSound, HeadsDistinct, EntriesOf, FirstIn, Vacant

\* What a call says is a reply.
LEMMA SayType == \A s \in Statuses : Say(s) \in Reply
BY DEF Say, Reply

\* A formatted volume.
LEMMA InitInv == Init => Inv
<1> SUFFICES ASSUME Init PROVE Inv
  OBVIOUS
<1>1. table[0] \in Seq(Slot) /\ \A i \in 1 .. Len(table[0]) : Vacant(table[0][i])
  BY EmptySlotsType, SizesAssumption DEF Init
<1>2. EntriesOf(table) = {}
  BY <1>1, EntriesDef DEF Init
<1>3. ChainsSound
  BY <1>2, ClustersFacts DEF ChainsSound, LinksSound, HeadsSound, HeadsDistinct, Init
<1>4. TypeOK
  BY <1>1, ClustersFacts, SayType DEF TypeOK, Init, Statuses
<1> QED
  BY <1>3, <1>4 DEF Inv

\* What create and mkdir take before they write the entry.
LEMMA PlacedFacts ==
    ASSUME Inv, NEW d \in DOMAIN table, NEW c, NEW i, Placed(d, c, i)
    PROVE  /\ c \in Clusters
           /\ fat' \in [Clusters -> Cells]
           /\ LinksSound(fat') /\ HeadsSound(fat', table)
           /\ fat'[c] # FAT16_FREE /\ \A b \in Clusters : fat'[b] # c
           /\ \A e \in EntriesOf(table) : FirstIn(table, e) # c
<1> DEFINE f == Terminated(fat, c)
<1>1. c \in Clusters /\ fat[c] = FAT16_FREE
  BY ClustersFacts DEF Placed, FirstFree, FreeClusters
<1>2. /\ f \in [Clusters -> Cells]
      /\ LinksSound(f) /\ HeadsSound(f, table)
      /\ f[c] = FAT16_EOF_MIN /\ \A b \in Clusters : f[b] # c
      /\ \A e \in EntriesOf(table) : FirstIn(table, e) # c
  BY <1>1, TerminateFree DEF Inv, TypeOK, ChainsSound
<1> HIDE DEF f
<1>3. CASE ~Extends(d)
  <2>1. fat' = f
    BY <1>3 DEF Placed, FatWithRoom, f
  <2> QED
    BY <1>1, <1>2, <2>1, ClustersFacts
<1>4. CASE Extends(d)
  <2>1. PICK last \in Chain(f, d), new \in FreeClusters(f) :
           IsEof(f[last]) /\ fat' = Linked(f, last, new)
    BY <1>4 DEF Placed, FatWithRoom, f
  <2>2. d \in Clusters
    BY <1>4 DEF Extends, Inv, TypeOK
  <2>3. last \in Clusters /\ new \in Clusters /\ f[new] = FAT16_FREE /\ new # c
    BY <1>2, <2>1, <2>2, ChainClosed, ClustersFacts DEF FreeClusters
  <2> QED
    BY <1>1, <1>2, <2>1, <2>3, LinkFree, ClustersFacts
<1> QED
  BY <1>3, <1>4

----------------------------------------------------------------------------
(* Every call keeps the invariant. *)

\* fat16_create_in_dir.
LEMMA CreateInv ==
    ASSUME Inv, NEW h \in Handles, NEW d \in DOMAIN table, NEW n \in Names,
           Create(h, d, n)
    PROVE  Inv'
<1>1. PICK c \in FreeClusters(fat), i \in 1 .. Len(WithRoom(d)) :
         /\ Placed(d, c, i)
         /\ table' = [table EXCEPT ![d] = WithEntry(d, i, NewEntry(n, FALSE, c))]
         /\ file' = [file EXCEPT ![h] = AtStart(d, i, c, 0)]
  BY DEF Create
<1> DEFINE s == NewEntry(n, FALSE, c)
<1>2. c \in Clusters /\ s \in Slot /\ s.first = c
  BY <1>1, PlacedFacts, ClustersFacts DEF NewEntry, Slot
<1>3. \A x \in DOMAIN table : table[x] \in Seq(Slot)
  BY DEF Inv, TypeOK
<1> HIDE DEF s
<1>4. /\ DOMAIN table' = DOMAIN table /\ table'[d] = WithEntry(d, i, s)
      /\ \A x \in DOMAIN table' \ {d} : table'[x] = table[x]
  BY <1>1 DEF Inv, TypeOK, s
<1>5. ChainsSound'
  <2>1. \A e \in EntriesOf(table') :
           \/ e = <<d, i>> /\ FirstIn(table', e) = c
           \/ e \in EntriesOf(table) /\ FirstIn(table', e) = FirstIn(table, e)
    BY <1>2, <1>3, <1>4, EntriesWithNew
  <2>2. /\ LinksSound(fat') /\ HeadsSound(fat', table)
        /\ fat'[c] # FAT16_FREE /\ \A b \in Clusters : fat'[b] # c
        /\ \A e \in EntriesOf(table) : FirstIn(table, e) # c
    BY <1>1, PlacedFacts
  <2>3. HeadsDistinct(table)
    BY DEF Inv, ChainsSound
  <2>4. HeadsSound(fat', table') /\ HeadsDistinct(table')
    BY <1>2, <2>1, <2>2, <2>3 DEF HeadsSound, HeadsDistinct
  <2> QED
    BY <2>2, <2>4, ChainsSoundNext
<1>6. TypeOK'
  <2>1. fat' \in [Clusters -> Cells]
    BY <1>1, PlacedFacts
  <2>2. WithEntry(d, i, s) \in Seq(Slot)
    BY <1>2, <1>3, WithEntryFacts
  <2>3. AtStart(d, i, c, 0) \in Handle
    BY <1>2, <1>3, ClustersFacts, WithRoomFacts DEF AtStart, Handle, Inv, TypeOK
  <2>4. file' \in [Handles -> Handle \cup {Closed, Orphan}]
    BY <1>1, <2>3 DEF Inv, TypeOK
  <2>5. reply' \in Reply /\ data' = data /\ stray' = stray
    BY SayType DEF Create, Statuses
  <2>6. table' \in [DOMAIN table' -> Seq(Slot)]
    BY <1>1, <2>2 DEF s, Inv, TypeOK
  <2> QED
    BY <1>4, <2>1, <2>4, <2>5, <2>6 DEF Inv, TypeOK
<1> QED
  BY <1>5, <1>6 DEF Inv

\* fat16_mkdir_in_dir.
LEMMA MkdirInv ==
    ASSUME Inv, NEW d \in DOMAIN table, NEW n \in Names, Mkdir(d, n)
    PROVE  Inv'
<1>1. PICK c \in FreeClusters(fat), i \in 1 .. Len(WithRoom(d)) :
         /\ Placed(d, c, i)
         /\ table' = [x \in DOMAIN table \cup {c} |->
                        IF x = d THEN WithEntry(d, i, NewEntry(n, TRUE, c))
                        ELSE IF x = c THEN EmptySlots(DirEntries - 2)
                        ELSE table[x]]
  BY DEF Mkdir
<1> DEFINE s == NewEntry(n, TRUE, c)
<1>2. c \in Clusters /\ s \in Slot /\ s.first = c
  BY <1>1, PlacedFacts, ClustersFacts DEF NewEntry, Slot
<1>3. \A x \in DOMAIN table : table[x] \in Seq(Slot)
  BY DEF Inv, TypeOK
<1>4. LET t == EmptySlots(DirEntries - 2)
      IN  t \in Seq(Slot) /\ EmptyDirectory(t)
  BY EmptySlotsType, SizesAssumption DEF EmptyDirectory
<1> HIDE DEF s
<1>5. /\ DOMAIN table' = DOMAIN table \cup {c} /\ table'[d] = WithEntry(d, i, s)
      /\ \A x \in DOMAIN table' \ {d} :
            \/ x \in DOMAIN table /\ table'[x] = table[x]
            \/ table'[x] \in Seq(Slot) /\ EmptyDirectory(table'[x])
  BY <1>1, <1>4 DEF s
<1>6. ChainsSound'
  <2>1. \A e \in EntriesOf(table') :
           \/ e = <<d, i>> /\ FirstIn(table', e) = c
           \/ e \in EntriesOf(table) /\ FirstIn(table', e) = FirstIn(table, e)
    BY <1>2, <1>3, <1>5, EntriesWithNew
  <2>2. /\ LinksSound(fat') /\ HeadsSound(fat', table)
        /\ fat'[c] # FAT16_FREE /\ \A b \in Clusters : fat'[b] # c
        /\ \A e \in EntriesOf(table) : FirstIn(table, e) # c
    BY <1>1, PlacedFacts
  <2>3. HeadsDistinct(table)
    BY DEF Inv, ChainsSound
  <2>4. HeadsSound(fat', table') /\ HeadsDistinct(table')
    BY <1>2, <2>1, <2>2, <2>3 DEF HeadsSound, HeadsDistinct
  <2> QED
    BY <2>2, <2>4, ChainsSoundNext
<1>7. TypeOK'
  <2>1. fat' \in [Clusters -> Cells]
    BY <1>1, PlacedFacts
  <2>2. WithEntry(d, i, s) \in Seq(Slot)
    BY <1>2, <1>3, WithEntryFacts
  <2>3. reply' \in Reply /\ data' = data /\ file' = file /\ stray' = stray
    BY SayType DEF Mkdir, Statuses
  <2>4. table' \in [DOMAIN table' -> Seq(Slot)]
    <3> HIDE DEF s
    <3>1. \A x \in DOMAIN table' : table'[x] \in Seq(Slot)
      BY <1>3, <1>5, <2>2
    <3> QED
      BY <1>1, <3>1, Zenon
  <2> QED
    BY <1>2, <1>5, <2>1, <2>3, <2>4 DEF Inv, TypeOK
<1> QED
  BY <1>6, <1>7 DEF Inv

\* Marking a slot as deleted.
LEMMA RemovedFacts ==
    ASSUME NEW d \in DOMAIN table, table[d] \in Seq(Slot), NEW i \in 1 .. Len(table[d])
    PROVE  /\ Removed(d, i) \in Seq(Slot)
           /\ Len(Removed(d, i)) = Len(table[d])
           /\ Vacant(Removed(d, i)[i])
           /\ \A j \in 1 .. Len(table[d]) : j # i => Removed(d, i)[j] = table[d][j]
<1> DEFINE s == [EmptySlot EXCEPT !.name = Deleted]
<1>1. s \in Slot /\ Vacant(s)
  BY ClustersFacts DEF EmptySlot, Slot, Vacant
<1> HIDE DEF s
<1>2. Removed(d, i) = [table[d] EXCEPT ![i] = s]
  BY DEF Removed, s
<1> QED
  BY <1>1, <1>2

\* Giving up an entry and its whole chain, as delete and rmdir do.
LEMMA EntryGone ==
    ASSUME Inv, NEW e \in EntriesOf(table), NEW u,
           e \notin EntriesOf(u),
           \A g \in EntriesOf(u) : g \in EntriesOf(table) /\ FirstIn(u, g) = FirstIn(table, g)
    PROVE  LET f == ChainFreed(fat, FirstIn(table, e))
           IN  /\ f \in [Clusters -> Cells]
               /\ LinksSound(f) /\ HeadsSound(f, u) /\ HeadsDistinct(u)
<1> DEFINE h == FirstIn(table, e)
           f == ChainFreed(fat, h)
<1>1. /\ h \in Clusters /\ \A b \in Clusters : fat[b] # h
      /\ fat \in [Clusters -> Cells] /\ LinksSound(fat)
  BY DEF Inv, TypeOK, ChainsSound, HeadsSound
<1>2. /\ f \in [Clusters -> Cells] /\ LinksSound(f)
      /\ \A g \in Clusters :
            g # h /\ fat[g] # FAT16_FREE /\ (\A b \in Clusters : fat[b] # g)
            => f[g] # FAT16_FREE /\ \A b \in Clusters : f[b] # g
  BY <1>1, FreeWholeChain
<1>3. HeadsDistinct(u)
  BY EntriesKept DEF Inv, ChainsSound
<1>4. HeadsSound(f, u)
  <2> SUFFICES ASSUME NEW g \in EntriesOf(u)
               PROVE  /\ FirstIn(u, g) \in Clusters
                      /\ f[FirstIn(u, g)] # FAT16_FREE
                      /\ \A b \in Clusters : f[b] # FirstIn(u, g)
    BY DEF HeadsSound
  <2> DEFINE x == FirstIn(table, g)
  <2>1. /\ g \in EntriesOf(table) /\ FirstIn(u, g) = x /\ g # e
    OBVIOUS
  <2>2. x # h
    BY <2>1 DEF Inv, ChainsSound, HeadsDistinct
  <2>3. x \in Clusters /\ fat[x] # FAT16_FREE /\ \A b \in Clusters : fat[b] # x
    BY <2>1 DEF Inv, ChainsSound, HeadsSound
  <2> HIDE DEF x, f, h
  <2> QED
    BY <1>2, <2>1, <2>2, <2>3
<1> QED
  BY <1>2, <1>3, <1>4

\* fat16_delete_in_dir.
LEMMA DeleteInv ==
    ASSUME Inv, NEW d \in DOMAIN table, NEW n \in Names, Delete(d, n)
    PROVE  Inv'
<1>1. PICK i \in 1 .. Len(table[d]) :
         /\ table[d][i].name = n
         /\ table' = [table EXCEPT ![d] = Removed(d, i)]
         /\ fat' = ChainFreed(fat, table[d][i].first)
  BY DEF Delete, Found
<1>2. /\ \A x \in DOMAIN table : table[x] \in Seq(Slot)
      /\ DOMAIN table' = DOMAIN table
      /\ \A x \in DOMAIN table \ {d} : table'[x] = table[x]
      /\ table'[d] = Removed(d, i)
  BY <1>1 DEF Inv, TypeOK
<1>3. /\ Removed(d, i) \in Seq(Slot) /\ Len(Removed(d, i)) = Len(table[d])
      /\ Vacant(Removed(d, i)[i])
      /\ \A j \in 1 .. Len(table[d]) : j # i => Removed(d, i)[j] = table[d][j]
  BY <1>2, RemovedFacts
<1>4. <<d, i>> \in EntriesOf(table) /\ FirstIn(table, <<d, i>>) = table[d][i].first
  BY <1>1, EntriesDef, MarksAssumption DEF Vacant, FirstIn
<1>5. <<d, i>> \notin EntriesOf(table')
  BY <1>2, <1>3, EntriesDef
<1>6. \A g \in EntriesOf(table') :
         g \in EntriesOf(table) /\ FirstIn(table', g) = FirstIn(table, g)
  BY <1>2, <1>3, EntriesDef DEF FirstIn
<1>7. /\ fat' \in [Clusters -> Cells]
      /\ LinksSound(fat') /\ HeadsSound(fat', table') /\ HeadsDistinct(table')
  BY <1>1, <1>4, <1>5, <1>6, EntryGone
<1>8. TypeOK'
  <2>1. file' \in [Handles -> Handle \cup {Closed, Orphan}]
    BY DEF Delete, Inv, TypeOK
  <2>2. reply' \in Reply /\ data' = data /\ stray' = stray
    BY SayType DEF Delete, Statuses
  <2>3. table' \in [DOMAIN table' -> Seq(Slot)]
    BY <1>1, <1>3 DEF Inv, TypeOK
  <2> QED
    BY <1>2, <1>7, <2>1, <2>2, <2>3 DEF Inv, TypeOK
<1> QED
  BY <1>7, <1>8, ChainsSoundNext DEF Inv

\* fat16_rmdir_in_dir, done or denied.
LEMMA RmdirInv ==
    ASSUME Inv, NEW d \in DOMAIN table, NEW n \in Names, Rmdir(d, n)
    PROVE  Inv'
<1>1. CASE UNCHANGED <<fat, table>>
  <2>1. ChainsSound'
    BY <1>1 DEF Inv, ChainsSound, LinksSound, HeadsSound, HeadsDistinct, EntriesOf, FirstIn, Vacant
  <2>2. reply' \in Reply /\ UNCHANGED <<data, file, stray>>
    BY SayType DEF Rmdir, Statuses
  <2> QED
    BY <1>1, <2>1, <2>2 DEF Inv, TypeOK
<1>2. CASE ~UNCHANGED <<fat, table>>
  <2>1. PICK i \in 1 .. Len(table[d]) :
           /\ table[d][i].name = n
           /\ fat' = ChainFreed(fat, table[d][i].first)
           /\ table' = [x \in DOMAIN table \ {table[d][i].first} |->
                           IF x = d THEN Removed(d, i) ELSE table[x]]
    BY <1>2 DEF Rmdir, Found
  <2> DEFINE c == table[d][i].first
  <2>2. /\ \A x \in DOMAIN table : table[x] \in Seq(Slot)
        /\ DOMAIN table' = DOMAIN table \ {c}
        /\ \A x \in DOMAIN table' \ {d} : table'[x] = table[x]
        /\ d \in DOMAIN table' => table'[d] = Removed(d, i)
    BY <2>1 DEF Inv, TypeOK
  <2>3. /\ Removed(d, i) \in Seq(Slot) /\ Len(Removed(d, i)) = Len(table[d])
        /\ Vacant(Removed(d, i)[i])
        /\ \A j \in 1 .. Len(table[d]) : j # i => Removed(d, i)[j] = table[d][j]
    BY <2>2, RemovedFacts
  <2>4. <<d, i>> \in EntriesOf(table) /\ FirstIn(table, <<d, i>>) = c
    BY <2>1, EntriesDef, MarksAssumption DEF Vacant, FirstIn
  <2>5. <<d, i>> \notin EntriesOf(table')
    BY <2>2, <2>3, EntriesDef
  <2>6. \A g \in EntriesOf(table') :
           g \in EntriesOf(table) /\ FirstIn(table', g) = FirstIn(table, g)
    BY <2>2, <2>3, EntriesDef DEF FirstIn
  <2>7. /\ fat' \in [Clusters -> Cells]
        /\ LinksSound(fat') /\ HeadsSound(fat', table') /\ HeadsDistinct(table')
    BY <2>1, <2>4, <2>5, <2>6, EntryGone
  <2>8. c # 0
    BY <2>4, ClustersFacts DEF Inv, ChainsSound, HeadsSound, FAT16_FREE
  <2>9. TypeOK'
    <3>1. reply' \in Reply /\ data' = data /\ file' = file /\ stray' = stray
      BY SayType DEF Rmdir, Statuses
    <3>2. table' \in [DOMAIN table' -> Seq(Slot)]
      BY <2>1, <2>3 DEF Inv, TypeOK
    <3> QED
      BY <2>2, <2>7, <2>8, <3>1, <3>2 DEF Inv, TypeOK
  <2> QED
    BY <2>7, <2>9, ChainsSoundNext DEF Inv
<1> QED
  BY <1>1, <1>2

\* A call that changes no entry's first cluster keeps what is said of them.
LEMMA SameFirsts ==
    ASSUME Inv, NEW d \in DOMAIN table, NEW i \in 1 .. Len(table[d]), NEW s \in Slot,
           table' = [table EXCEPT ![d] = [@ EXCEPT ![i] = s]],
           ~Vacant(s) => ~Vacant(table[d][i]), s.first = table[d][i].first
    PROVE  /\ DOMAIN table' = DOMAIN table
           /\ table' \in [DOMAIN table -> Seq(Slot)]
           /\ \A g \in EntriesOf(table') :
                 g \in EntriesOf(table) /\ FirstIn(table', g) = FirstIn(table, g)
<1>1. \A x \in DOMAIN table : table[x] \in Seq(Slot)
  BY DEF Inv, TypeOK
<1> DEFINE t == [table[d] EXCEPT ![i] = s]
<1>2. /\ t \in Seq(Slot) /\ Len(t) = Len(table[d]) /\ t[i] = s
      /\ \A j \in 1 .. Len(table[d]) : j # i => t[j] = table[d][j]
  BY <1>1
<1>3. /\ DOMAIN table' = DOMAIN table /\ table'[d] = t
      /\ \A x \in DOMAIN table \ {d} : table'[x] = table[x]
  BY DEF Inv, TypeOK
<1> HIDE DEF t
<1>4. ASSUME NEW x \in DOMAIN table', NEW j \in 1 .. Len(table'[x]), ~Vacant(table'[x][j])
      PROVE  /\ j \in 1 .. Len(table[x]) /\ ~Vacant(table[x][j])
             /\ table'[x][j].first = table[x][j].first
  <2>1. CASE x # d
    BY <2>1, <1>3, <1>4
  <2>2. CASE x = d
    BY <2>2, <1>2, <1>3, <1>4
  <2> QED
    BY <2>1, <2>2
<1>5. \A g \in EntriesOf(table') :
         g \in EntriesOf(table) /\ FirstIn(table', g) = FirstIn(table, g)
  <2> TAKE g \in EntriesOf(table')
  <2>1. /\ g[1] \in DOMAIN table' /\ g[2] \in 1 .. Len(table'[g[1]])
        /\ g = <<g[1], g[2]>> /\ ~Vacant(table'[g[1]][g[2]])
    BY EntryParts
  <2> QED
    BY <2>1, <1>3, <1>4, EntriesDef DEF FirstIn
<1> QED
  BY <1>1, <1>2, <1>3, <1>5 DEF Inv, TypeOK

\* fat16_rename_in_dir, done or refused.
LEMMA RenameInv ==
    ASSUME Inv, NEW d \in DOMAIN table, NEW old \in Names, NEW new \in Names,
           Rename(d, old, new)
    PROVE  Inv'
<1>1. PICK i \in 1 .. Len(table[d]) :
         /\ table[d][i].name = old
         /\ \/ table' = [table EXCEPT ![d][i].name = new]
            \/ table' = table
  BY DEF Rename, Found
<1>2. reply' \in Reply /\ UNCHANGED <<fat, data, file, stray>>
  BY SayType DEF Rename, Statuses
<1>3. CASE table' = table
  <2>1. ChainsSound'
    BY <1>2, <1>3 DEF Inv, ChainsSound, LinksSound, HeadsSound, HeadsDistinct, EntriesOf, FirstIn, Vacant
  <2> QED
    BY <1>2, <1>3, <2>1 DEF Inv, TypeOK
<1>4. CASE table' = [table EXCEPT ![d][i].name = new]
  <2> DEFINE s == [table[d][i] EXCEPT !.name = new]
  <2>1. /\ s \in Slot /\ ~Vacant(table[d][i]) /\ s.first = table[d][i].first
        /\ table' = [table EXCEPT ![d] = [@ EXCEPT ![i] = s]]
    <3>1. table[d][i] \in Slot
      BY DEF Inv, TypeOK
    <3> QED
      BY <1>1, <1>4, <3>1, MarksAssumption DEF Slot, Vacant
  <2> HIDE DEF s
  <2>2. /\ DOMAIN table' = DOMAIN table
        /\ table' \in [DOMAIN table -> Seq(Slot)]
        /\ \A g \in EntriesOf(table') :
              g \in EntriesOf(table) /\ FirstIn(table', g) = FirstIn(table, g)
    BY <2>1, SameFirsts
  <2>3. HeadsSound(fat', table') /\ HeadsDistinct(table') /\ LinksSound(fat')
    BY <1>2, <2>2 DEF Inv, ChainsSound, HeadsSound, HeadsDistinct
  <2> QED
    BY <1>2, <2>2, <2>3, ChainsSoundNext DEF Inv, TypeOK
<1> QED
  BY <1>1, <1>3, <1>4

\* The part of a write that does not touch the FAT.
LEMMA PutInv ==
    ASSUME Inv, NEW h \in Handles, Usable(h), NEW c \in Cells, NEW p \in Nat,
           NEW bs \in Chunks, Put(h, c, p, bs)
    PROVE  /\ DOMAIN table' = DOMAIN table
           /\ table' \in [DOMAIN table -> Seq(Slot)]
           /\ \A g \in EntriesOf(table') :
                 g \in EntriesOf(table) /\ FirstIn(table', g) = FirstIn(table, g)
           /\ data' \in [Clusters -> [0 .. ClusterSize - 1 -> Bytes]]
           /\ file' \in [Handles -> Handle \cup {Closed, Orphan}]
           /\ reply' \in Reply /\ stray' \in BOOLEAN
<1> DEFINE f == file[h]
           pos == f.pos + Len(bs)
<1>1. f \in Handle
  BY DEF Inv, TypeOK, Usable
<1>2. bs \in Seq(Bytes) /\ Len(bs) \in Nat /\ \A j \in 1 .. Len(bs) : bs[j] \in Bytes
  BY SizesAssumption DEF Chunks
<1>3. pos \in Nat /\ Larger(pos, f.size) \in Nat /\ p + Len(bs) \in Nat
  BY <1>1, <1>2 DEF Handle, Larger
<1>4. data' \in [Clusters -> [0 .. ClusterSize - 1 -> Bytes]]
  <2>1. ASSUME NEW x \in [0 .. ClusterSize - 1 -> Bytes]
        PROVE  Patched(x, p, bs) \in [0 .. ClusterSize - 1 -> Bytes]
    BY <1>2 DEF Patched
  <2> QED
    BY ZenonT(30), <2>1 DEF Put, Inv, TypeOK
<1>5. file' \in [Handles -> Handle \cup {Closed, Orphan}]
  <2>1. [f EXCEPT !.cur = c, !.pos = pos, !.cpos = p + Len(bs),
                  !.size = Larger(pos, f.size)] \in Handle
    BY <1>1, <1>3 DEF Handle
  <2> QED
    BY <2>1 DEF Put, Inv, TypeOK
<1>6. reply' \in Reply /\ stray' \in BOOLEAN
  BY SayType DEF Put, Statuses, Inv, TypeOK
<1>7. CASE table' = table
  BY <1>4, <1>5, <1>6, <1>7 DEF Inv, TypeOK
<1>8. CASE table' # table
  <2> DEFINE s == [table[f.dir][f.slot] EXCEPT !.size = pos]
  <2>1. table' = [table EXCEPT ![f.dir] = [@ EXCEPT ![f.slot] = s]]
    BY <1>8 DEF Put, Resized
  <2>2. f.dir \in DOMAIN table /\ f.slot \in 1 .. Len(table[f.dir])
    BY <1>8, <2>1 DEF Inv, TypeOK
  <2>3. /\ s \in Slot /\ s.first = table[f.dir][f.slot].first
        /\ Vacant(s) <=> Vacant(table[f.dir][f.slot])
    <3>1. table[f.dir][f.slot] \in Slot
      BY <2>2 DEF Inv, TypeOK
    <3> QED
      BY <1>3, <3>1 DEF Slot, Vacant
  <2> HIDE DEF s, f
  <2>4. /\ DOMAIN table' = DOMAIN table
        /\ table' \in [DOMAIN table -> Seq(Slot)]
        /\ \A g \in EntriesOf(table') :
              g \in EntriesOf(table) /\ FirstIn(table', g) = FirstIn(table, g)
    BY <2>1, <2>2, <2>3, SameFirsts
  <2> QED
    BY <1>4, <1>5, <1>6, <2>4
<1> QED
  BY <1>7, <1>8

\* One chunk of fat16_write.
LEMMA WriteInv ==
    ASSUME Inv, NEW h \in Handles, NEW bs \in Chunks, Write(h, bs)
    PROVE  Inv'
<1> DEFINE cur == file[h].cur
<1>1. Usable(h) /\ cur \in Cells /\ file[h].cpos \in Nat
  BY DEF Write, Usable, Inv, TypeOK, Handle
<1>2. PICK c \in Cells, p \in Nat :
         /\ Put(h, c, p, bs)
         /\ \/ fat' = fat
            \/ /\ cur \in Clusters /\ IsEof(fat[cur]) /\ c \in FreeClusters(fat)
               /\ fat' = Linked(fat, cur, c)
  <2>1. CASE Put(h, cur, file[h].cpos, bs) /\ UNCHANGED fat
    BY <2>1, <1>1
  <2>2. CASE cur \in Clusters /\ Put(h, fat[cur], 0, bs) /\ UNCHANGED fat
    BY <2>2 DEF Inv, TypeOK
  <2>3. CASE /\ cur \in Clusters /\ IsEof(fat[cur])
             /\ \E c \in FreeClusters(fat) :
                   FirstFree(fat, c) /\ fat' = Linked(fat, cur, c) /\ Put(h, c, 0, bs)
    BY <2>3, ClustersFacts
  <2> QED
    BY <2>1, <2>2, <2>3 DEF Write
<1>3. /\ DOMAIN table' = DOMAIN table
      /\ table' \in [DOMAIN table -> Seq(Slot)]
      /\ \A g \in EntriesOf(table') :
            g \in EntriesOf(table) /\ FirstIn(table', g) = FirstIn(table, g)
      /\ data' \in [Clusters -> [0 .. ClusterSize - 1 -> Bytes]]
      /\ file' \in [Handles -> Handle \cup {Closed, Orphan}]
      /\ reply' \in Reply /\ stray' \in BOOLEAN
  BY <1>1, <1>2, PutInv
<1>4. /\ fat' \in [Clusters -> Cells]
      /\ LinksSound(fat') /\ HeadsSound(fat', table)
  <2>1. CASE fat' = fat
    BY <2>1 DEF Inv, TypeOK, ChainsSound
  <2>2. CASE /\ cur \in Clusters /\ IsEof(fat[cur]) /\ c \in FreeClusters(fat)
             /\ fat' = Linked(fat, cur, c)
    <3>1. c \in Clusters /\ fat[c] = FAT16_FREE
      BY <2>2, ClustersFacts DEF FreeClusters
    <3> QED
      BY <2>2, <3>1, LinkFree DEF Inv, TypeOK, ChainsSound
  <2> QED
    BY <1>2, <2>1, <2>2
<1>5. HeadsSound(fat', table') /\ HeadsDistinct(table')
  BY <1>3, <1>4 DEF Inv, ChainsSound, HeadsSound, HeadsDistinct
<1> QED
  BY <1>3, <1>4, <1>5, ChainsSoundNext DEF Inv, TypeOK

\* The calls below leave the volume as it is.
LEMMA VolumeUnchanged ==
    ASSUME Inv, UNCHANGED <<fat, table, data>>,
           file' \in [Handles -> Handle \cup {Closed, Orphan}],
           reply' \in Reply, stray' \in BOOLEAN
    PROVE  Inv'
<1>1. ChainsSound'
  BY DEF Inv, ChainsSound, LinksSound, HeadsSound, HeadsDistinct, EntriesOf, FirstIn, Vacant
<1> QED
  BY <1>1 DEF Inv, TypeOK

\* fat16_open_in_dir.
LEMMA OpenInv ==
    ASSUME Inv, NEW h \in Handles, NEW d \in DOMAIN table, NEW n \in Names, Open(h, d, n)
    PROVE  Inv'
<1>1. PICK i \in 1 .. Len(table[d]) :
         file' = [file EXCEPT ![h] = AtStart(d, i, table[d][i].first, table[d][i].size)]
  BY DEF Open
<1>2. table[d][i] \in Slot /\ d \in {0} \cup Clusters /\ i \in Nat \ {0}
  BY DEF Inv, TypeOK
<1>3. AtStart(d, i, table[d][i].first, table[d][i].size) \in Handle
  BY <1>2 DEF AtStart, Handle, Slot
<1>4. file' \in [Handles -> Handle \cup {Closed, Orphan}]
  BY <1>1, <1>3 DEF Inv, TypeOK
<1>5. reply' \in Reply /\ UNCHANGED <<fat, table, data, stray>>
  BY SayType DEF Open, Statuses
<1> QED
  BY <1>4, <1>5, VolumeUnchanged DEF Inv, TypeOK

\* Whatever the offset, SYSCALL_SEEK asks for some position.
LEMMA TargetsFacts ==
    ASSUME Inv, NEW h \in Handles, Usable(h), NEW pos \in SeekTargets(file[h])
    PROVE  pos \in Int
<1>1. file[h] \in Handle
  BY DEF Usable, Inv, TypeOK
<1>2. PICK whence \in Whences, offset \in -1 .. MaxSize :
         pos = SeekTarget(file[h], whence, offset)
  BY DEF SeekTargets
<1>3. offset \in Int
  BY <1>2, SizesAssumption
<1> QED
  BY <1>1, <1>2, <1>3 DEF SeekTarget, Whences, Handle

\* fat16_seek.
LEMMA SeekInv ==
    ASSUME Inv, NEW h \in Handles, NEW pos \in Int, Seek(h, pos)
    PROVE  Inv'
<1> DEFINE f == file[h]
           k == pos \div ClusterSize
<1>1. f \in Handle
  BY DEF Seek, Usable, Inv, TypeOK
<1>2. pos \in 0 .. f.size => k \in Nat /\ pos % ClusterSize \in Nat
  BY SizesAssumption
<1>3. file' \in [Handles -> Handle \cup {Closed, Orphan}]
  <2>1. CASE pos \notin 0 .. f.size
    BY <2>1 DEF Seek, Inv, TypeOK
  <2>2. CASE pos \in 0 .. f.size
    <3>1. PICK w \in [0 .. k -> Cells] :
             file' = [file EXCEPT ![h].cur = w[k], ![h].pos = pos,
                        ![h].cpos = pos % ClusterSize]
      BY <2>2, Zenon DEF Seek
    <3>2. w[k] \in Cells
      BY <1>2, <2>2, <3>1
    <3>3. [f EXCEPT !.cur = w[k], !.pos = pos, !.cpos = pos % ClusterSize] \in Handle
      <4> DEFINE c    == w[k]
                 cpos == pos % ClusterSize
      <4>1. pos \in Nat /\ cpos \in Nat /\ c \in Cells
        BY <1>1, <1>2, <2>2, <3>2 DEF Handle
      <4> HIDE DEF f, c, cpos
      <4>2. [f EXCEPT !.cur = c, !.pos = pos, !.cpos = cpos] \in Handle
        BY <1>1, <4>1 DEF Handle
      <4> QED
        BY <4>2 DEF c, cpos
    <3> HIDE DEF k, f
    <3>4. file' = [file EXCEPT ![h] = [f EXCEPT !.cur = w[k], !.pos = pos,
                                                !.cpos = pos % ClusterSize]]
      BY <3>1 DEF f, Inv, TypeOK
    <3> QED
      BY <3>3, <3>4 DEF Inv, TypeOK
  <2> QED
    BY <2>1, <2>2
<1>4. reply' \in Reply /\ UNCHANGED <<fat, table, data, stray>>
  BY SayType DEF Seek, Statuses
<1> QED
  BY <1>3, <1>4, VolumeUnchanged DEF Inv, TypeOK

\* One chunk of fat16_read.
LEMMA ReadInv ==
    ASSUME Inv, NEW h \in Handles, NEW n \in 1 .. ClusterSize, Read(h, n)
    PROVE  Inv'
<1> DEFINE f    == file[h]
           next == f.cpos >= ClusterSize
           c    == IF next /\ f.cur \in Clusters THEN fat[f.cur] ELSE f.cur
           p    == IF next THEN 0 ELSE f.cpos
           k    == Smaller(ClusterSize - p, Smaller((f.size - f.pos) % WordSize, n))
<1>1. f \in Handle /\ n \in Nat
  BY DEF Read, Usable, Inv, TypeOK
<1>2. c \in Cells /\ p \in Nat /\ p < ClusterSize
  BY <1>1, SizesAssumption DEF Handle, Inv, TypeOK
<1>3. UNCHANGED <<fat, table, data>>
  BY DEF Read
<1>4. CASE f.pos >= f.size
  <2>1. UNCHANGED <<file, stray>> /\ reply' \in Reply
    BY <1>4, SayType DEF Read, Statuses
  <2> QED
    BY <1>3, <2>1, VolumeUnchanged DEF Inv, TypeOK
<1>5. CASE ~(f.pos >= f.size) /\ next /\ IsEof(c)
  <2>1. /\ file' = [file EXCEPT ![h].cur = c, ![h].cpos = ClusterSize]
        /\ UNCHANGED stray /\ reply' \in Reply
    BY <1>5, SayType DEF Read, Statuses
  <2> HIDE DEF c
  <2>2. [f EXCEPT !.cur = c, !.cpos = ClusterSize] \in Handle
    BY <1>1, <1>2, SizesAssumption DEF Handle
  <2>3. file' \in [Handles -> Handle \cup {Closed, Orphan}]
    BY <2>1, <2>2 DEF Inv, TypeOK
  <2> QED
    BY <1>3, <2>1, <2>3, VolumeUnchanged DEF Inv, TypeOK
<1>6. CASE ~(f.pos >= f.size) /\ ~(next /\ IsEof(c))
  <2>1. /\ file' = [file EXCEPT ![h].cur = c, ![h].cpos = p + k, ![h].pos = f.pos + k]
        /\ \/ /\ c \in Clusters /\ UNCHANGED stray
              /\ reply' = [status |-> "ok",
                           bytes |-> [x \in 1 .. k |-> data[c][p + x - 1]]]
           \/ /\ stray' = TRUE
              /\ \E bs \in [1 .. k -> Bytes] :
                    reply' = [status |-> "ok", bytes |-> bs]
    BY <1>6, Zenon DEF Read
  <2>2. k \in Nat /\ k <= ClusterSize - p
    <3>1. (f.size - f.pos) % WordSize \in Nat
      BY <1>1, <1>6, SizesAssumption DEF Handle
    <3> HIDE DEF p
    <3> QED
      BY <1>1, <1>2, <3>1, SizesAssumption DEF Smaller
  <2> HIDE DEF c, p, k
  <2>3. stray' \in BOOLEAN
    BY <2>1 DEF Inv, TypeOK
  <2>4. [f EXCEPT !.cur = c, !.cpos = p + k, !.pos = f.pos + k] \in Handle
    <3>1. f.pos + k \in Nat /\ p + k \in Nat
      BY <1>1, <1>2, <2>2 DEF Handle
    <3> HIDE DEF f
    <3> QED
      BY <1>1, <1>2, <3>1 DEF Handle
  <2>5. file' \in [Handles -> Handle \cup {Closed, Orphan}]
    BY <2>1, <2>4 DEF Inv, TypeOK
  <2>6. reply' \in Reply
    <3>1. ASSUME c \in Clusters, NEW x \in 1 .. k
          PROVE  data[c][p + x - 1] \in Bytes
      <4>1. p + x - 1 \in 0 .. ClusterSize - 1
        BY <1>2, <2>2, SizesAssumption
      <4> QED
        BY <3>1, <4>1 DEF Inv, TypeOK
    <3>2. ASSUME NEW bs \in [1 .. k -> Bytes]
          PROVE  [status |-> "ok", bytes |-> bs] \in Reply
      BY <2>2 DEF Reply, Statuses
    <3> QED
      BY <2>1, <3>1, <3>2
  <2> QED
    BY <1>3, <2>3, <2>5, <2>6, VolumeUnchanged
<1> QED
  BY <1>4, <1>5, <1>6

----------------------------------------------------------------------------

\* Every step.
LEMMA NextInv == Inv /\ [Next]_vars => Inv'
<1> SUFFICES ASSUME Inv, [Next]_vars PROVE Inv'
  OBVIOUS
<1>1. ASSUME NEW d \in DOMAIN table, NEW n \in Names,
             \/ \E h \in Handles : Create(h, d, n) \/ Open(h, d, n)
             \/ Mkdir(d, n)
             \/ MakeRefused(d, n)
             \/ NameMissing(d, n)
             \/ Delete(d, n)
             \/ Rmdir(d, n)
             \/ \E m \in Names : Rename(d, n, m)
      PROVE  Inv'
  <2>1. CASE MakeRefused(d, n) \/ NameMissing(d, n)
    <3>1. reply' \in Reply /\ UNCHANGED <<fat, table, data, file, stray>>
      BY <2>1, SayType DEF MakeRefused, NameMissing, Statuses
    <3> QED
      BY <3>1, VolumeUnchanged DEF Inv, TypeOK
  <2> QED
    BY <1>1, <2>1, CreateInv, OpenInv, MkdirInv, DeleteInv, RmdirInv, RenameInv
<1>2. ASSUME NEW h \in Handles,
             \/ Close(h)
             \/ \E bs \in Chunks : Write(h, bs)
             \/ WriteRefused(h)
             \/ \E n \in 1 .. ClusterSize : Read(h, n)
             \/ Usable(h) /\ \E pos \in SeekTargets(file[h]) : Seek(h, pos)
      PROVE  Inv'
  <2>1. CASE Close(h) \/ WriteRefused(h)
    <3>1. /\ reply' \in Reply /\ UNCHANGED <<fat, table, data, stray>>
          /\ file' \in [Handles -> Handle \cup {Closed, Orphan}]
      BY <2>1, SayType DEF Close, WriteRefused, Statuses, Inv, TypeOK
    <3> QED
      BY <3>1, VolumeUnchanged DEF Inv, TypeOK
  <2>2. CASE Usable(h) /\ \E pos \in SeekTargets(file[h]) : Seek(h, pos)
    BY <2>2, TargetsFacts, SeekInv
  <2> QED
    BY <1>2, <2>1, <2>2, WriteInv, ReadInv
<1>3. CASE UNCHANGED vars
  BY <1>3, VolumeUnchanged DEF vars, Inv, TypeOK
<1> QED
  BY <1>1, <1>2, <1>3 DEF Next, DirectoryCall, HandleCall

\* The inductive invariant: the types, and chains that are not cross-linked.
THEOREM Invariance == Spec => []Inv
BY InitInv, NextInv, PTL DEF Spec

\* Whatever the sizes of the volume and whatever calls are made, the FAT, the
\* directories and the handles hold only what the driver may put there.
THEOREM TypeCorrectness == Spec => []TypeOK
<1>1. Inv => TypeOK
  BY DEF Inv
<1> QED
  BY <1>1, Invariance, PTL

\* And no two files or directories ever share a cluster: the allocation of
\* clusters by create, mkdir, write and the extension of a directory, and
\* their release by delete and rmdir, never cross-link two chains.
THEOREM NoCrossLinks == Spec => []ChainsSound
<1>1. Inv => ChainsSound
  BY DEF Inv
<1> QED
  BY <1>1, Invariance, PTL

----------------------------------------------------------------------------
(* Chains *)

\* A chain is the least set of clusters that holds its first and follows links.
LEMMA ChainLeast ==
    ASSUME NEW f \in [Clusters -> Cells], NEW c \in Clusters,
           NEW T \in SUBSET Clusters, c \in T, FollowsFat(f, T)
    PROVE  Chain(f, c) \subseteq T
<1> DEFINE linked == {c} \cup {x \in Clusters : \E b \in Clusters : f[b] = x}
<1>1. T \cap linked \in SUBSET linked /\ c \in T \cap linked
  OBVIOUS
<1>2. FollowsFat(f, T \cap linked)
  BY DEF FollowsFat
<1> QED
  BY <1>1, <1>2 DEF Chain

\* Links added elsewhere only make a chain longer.
LEMMA ChainGrows ==
    ASSUME NEW f \in [Clusters -> Cells], NEW g \in [Clusters -> Cells], NEW c \in Clusters,
           \A b \in Clusters : f[b] \in Clusters => g[b] = f[b]
    PROVE  Chain(f, c) \subseteq Chain(g, c)
<1>1. Chain(g, c) \subseteq Clusters /\ c \in Chain(g, c) /\ FollowsFat(g, Chain(g, c))
  BY ChainClosed
<1>2. FollowsFat(f, Chain(g, c))
  BY <1>1 DEF FollowsFat
<1> QED
  BY <1>1, <1>2, ChainLeast

\* A chain depends on the marks of its own clusters only.
LEMMA ChainSame ==
    ASSUME NEW f \in [Clusters -> Cells], NEW g \in [Clusters -> Cells], NEW c \in Clusters,
           \A b \in Chain(f, c) : g[b] = f[b]
    PROVE  Chain(g, c) = Chain(f, c)
<1>1. Chain(f, c) \subseteq Clusters /\ c \in Chain(f, c) /\ FollowsFat(f, Chain(f, c))
  BY ChainClosed
<1>2. FollowsFat(g, Chain(f, c))
  BY <1>1 DEF FollowsFat
<1>3. Chain(g, c) \subseteq Chain(f, c)
  BY <1>1, <1>2, ChainLeast
<1>4. Chain(g, c) \subseteq Clusters /\ c \in Chain(g, c) /\ FollowsFat(g, Chain(g, c))
  BY ChainClosed
<1>5. FollowsFat(f, Chain(g, c))
  BY <1>3, <1>4 DEF FollowsFat
<1>6. Chain(f, c) \subseteq Chain(g, c)
  BY <1>4, <1>5, ChainLeast
<1> QED
  BY <1>3, <1>6

\* No cluster of a chain is free when its first is not.
LEMMA ChainAllocated ==
    ASSUME NEW f \in [Clusters -> Cells], NEW c \in Clusters,
           f[c] # FAT16_FREE, LinksSound(f)
    PROVE  \A x \in Chain(f, c) : f[x] # FAT16_FREE
<1> SUFFICES ASSUME NEW x \in Chain(f, c), x # c
             PROVE  f[x] # FAT16_FREE
  OBVIOUS
<1>1. PICK y \in Chain(f, c) : f[y] = x
  BY ChainPredecessor
<1>2. x \in Clusters /\ y \in Clusters
  BY ChainClosed
<1> QED
  BY <1>1, <1>2 DEF LinksSound

\* Chains that begin at different heads have no cluster in common.
LEMMA ChainsDisjoint ==
    ASSUME NEW f \in [Clusters -> Cells], NEW a \in Clusters, NEW b \in Clusters, a # b,
           \A x \in Clusters : f[x] # a /\ f[x] # b,
           LinksSound(f)
    PROVE  Chain(f, a) \cap Chain(f, b) = {}
<1> DEFINE A == Chain(f, a)
           B == Chain(f, b)
           T == A \ B
<1>1. /\ A \subseteq Clusters /\ a \in A /\ FollowsFat(f, A)
      /\ B \subseteq Clusters /\ b \in B
  BY ChainClosed
<1>2. a \notin B
  BY <1>1, ChainPredecessor
<1>3. ASSUME NEW x \in T, f[x] \in Clusters
      PROVE  f[x] \in T
  <2>1. f[x] \in A
    BY <1>1, <1>3 DEF FollowsFat
  <2>2. ASSUME f[x] \in B PROVE FALSE
    <3>1. PICK y \in B : f[y] = f[x]
      BY <1>1, <1>3, <2>2, ChainPredecessor
    <3>2. y = x
      BY <1>1, <1>3, <3>1 DEF LinksSound
    <3> QED
      BY <3>2
  <2> QED
    BY <2>1, <2>2
<1>4. A \subseteq T
  <2>1. T \in SUBSET Clusters /\ a \in T /\ FollowsFat(f, T)
    BY <1>1, <1>2, <1>3 DEF FollowsFat
  <2> HIDE DEF T
  <2> QED
    BY <2>1, ChainLeast
<1> QED
  BY <1>4

\* The chain a cluster is linked behind gains that cluster.
LEMMA ChainExtended ==
    ASSUME NEW f \in [Clusters -> Cells], NEW c \in Clusters,
           NEW last \in Chain(f, c), NEW new \in Clusters,
           IsEof(f[last]), f[new] = FAT16_FREE, f[c] # FAT16_FREE, LinksSound(f)
    PROVE  /\ Chain(Linked(f, last, new), c) = Chain(f, c) \cup {new}
           /\ new \notin Chain(f, c)
<1> DEFINE g == Linked(f, last, new)
<1>1. /\ Chain(f, c) \subseteq Clusters /\ c \in Chain(f, c) /\ FollowsFat(f, Chain(f, c))
      /\ new \notin Chain(f, c) /\ last # new
  BY ChainClosed, ChainAllocated
<1>2. /\ g \in [Clusters -> Cells]
      /\ g[last] = new /\ g[new] = FAT16_EOF_MIN
      /\ \A b \in Clusters \ {last, new} : g[b] = f[b]
  BY <1>1, ClustersFacts DEF Linked, Terminated
<1> HIDE DEF g
<1>3. FollowsFat(g, Chain(f, c) \cup {new})
  BY <1>1, <1>2, ClustersFacts DEF FollowsFat
<1>4. Chain(g, c) \subseteq Chain(f, c) \cup {new}
  BY <1>1, <1>2, <1>3, ChainLeast
<1>5. Chain(f, c) \subseteq Chain(g, c)
  BY <1>1, <1>2, ChainGrows, ClustersFacts
<1>6. new \in Chain(g, c)
  BY <1>1, <1>2, <1>5, ChainClosed DEF FollowsFat
<1> QED
  BY <1>1, <1>4, <1>5, <1>6 DEF g

----------------------------------------------------------------------------
(* What a call does to the volume: it makes an entry, removes one, or leaves *)
(* every entry in its slot.                                                  *)

Made(d, i, c, n, isDir) ==
    /\ Missing(table[d], n) /\ Placed(d, c, i) /\ i \in 1 .. Len(WithRoom(d))
    /\ DOMAIN table' = IF isDir THEN DOMAIN table \cup {c} ELSE DOMAIN table
    /\ table'[d] = WithEntry(d, i, NewEntry(n, isDir, c))
    /\ \A x \in DOMAIN table' \ {d} :
          table'[x] = IF x \notin DOMAIN table THEN EmptySlots(DirEntries - 2) ELSE table[x]

Gone(d, i) ==
    /\ ~Vacant(table[d][i])
    /\ table[d][i].dir => EmptyDirectory(table[table[d][i].first])
    /\ DOMAIN table' = IF table[d][i].dir THEN DOMAIN table \ {table[d][i].first} ELSE DOMAIN table
    /\ table'[d] = Removed(d, i)
    /\ \A x \in DOMAIN table' \ {d} : table'[x] = table[x]
    /\ fat' = ChainFreed(fat, table[d][i].first)

SameSlots ==
    /\ DOMAIN table' = DOMAIN table
    /\ \A x \in DOMAIN table :
          /\ Len(table'[x]) = Len(table[x])
          /\ \A j \in 1 .. Len(table[x]) :
                /\ Vacant(table'[x][j]) <=> Vacant(table[x][j])
                /\ table'[x][j].first = table[x][j].first
                /\ table'[x][j].dir = table[x][j].dir

SameNames ==
    \A x \in DOMAIN table : \A j \in 1 .. Len(table[x]) : table'[x][j].name = table[x][j].name

Renamed(d, i, m) ==
    /\ ~Vacant(table[d][i]) /\ Missing(table[d], m)
    /\ table' = [table EXCEPT ![d][i].name = m]

Kept ==
    /\ SameSlots
    /\ \/ SameNames
       \/ \E d \in DOMAIN table, m \in Names : \E i \in 1 .. Len(table[d]) : Renamed(d, i, m)
    /\ \/ fat' = fat
       \/ \E last \in Clusters, new \in Clusters :
             IsEof(fat[last]) /\ fat[new] = FAT16_FREE /\ fat' = Linked(fat, last, new)

\* The directories are the first clusters of the entries that are marked so.
DirIn(t, e) == t[e[1]][e[2]].dir
Rooted ==
    \A x : x \in DOMAIN table \ {0} <=>
             \E e \in EntriesOf(table) : DirIn(table, e) /\ FirstIn(table, e) = x

LEMMA RootedIs == Rooted <=> DirectoriesSound
<1>1. \A x : x \in {First(e) : e \in {g \in Entries : table[g[1]][g[2]].dir}} <=>
        \E e \in EntriesOf(table) : DirIn(table, e) /\ FirstIn(table, e) = x
  BY DEF Entries, First, DirIn
<1> QED
  BY <1>1 DEF Rooted, DirectoriesSound

\* No directory begins at a free cluster, and an entry marked as one leads to it.
LEMMA RootedFacts ==
    ASSUME Inv, Rooted
    PROVE  /\ \A x \in DOMAIN table \ {0} : x \in Clusters /\ fat[x] # FAT16_FREE
           /\ \A e \in EntriesOf(table) :
                 /\ FirstIn(table, e) \in Clusters /\ fat[FirstIn(table, e)] # FAT16_FREE
                 /\ DirIn(table, e) => FirstIn(table, e) \in DOMAIN table \ {0}
BY DEF Rooted, Inv, ChainsSound, HeadsSound

\* Every call that succeeds has one of the three effects.
LEMMA DirectoryEffects ==
    ASSUME Inv, Rooted, NEW d \in DOMAIN table, NEW n \in Names
    PROVE  /\ \A h \in Handles : Create(h, d, n) =>
                 \E c, i : Made(d, i, c, n, FALSE) /\ file' = [file EXCEPT ![h] = AtStart(d, i, c, 0)]
           /\ Mkdir(d, n) => \E c, i : Made(d, i, c, n, TRUE) /\ file' = file
           /\ Delete(d, n) => \E i \in 1 .. Len(table[d]) :
                 /\ Gone(d, i) /\ ~table[d][i].dir
                 /\ file' = [h \in Handles |-> IF OnSlot(h, d, i) THEN Orphan ELSE file[h]]
           /\ Rmdir(d, n) => \/ UNCHANGED <<fat, table, file>>
                             \/ \E i \in 1 .. Len(table[d]) :
                                   Gone(d, i) /\ table[d][i].dir /\ file' = file
           /\ \A m \in Names : Rename(d, n, m) => Kept /\ file' = file
<1>1. ASSUME NEW h \in Handles, Create(h, d, n)
      PROVE  \E c, i : Made(d, i, c, n, FALSE) /\ file' = [file EXCEPT ![h] = AtStart(d, i, c, 0)]
  <2>1. PICK c \in FreeClusters(fat), i \in 1 .. Len(WithRoom(d)) :
          /\ Placed(d, c, i)
          /\ table' = [table EXCEPT ![d] = WithEntry(d, i, NewEntry(n, FALSE, c))]
          /\ file' = [file EXCEPT ![h] = AtStart(d, i, c, 0)]
    BY <1>1 DEF Create
  <2>2. Made(d, i, c, n, FALSE)
    <3> DEFINE s == NewEntry(n, FALSE, c)
    <3> HIDE DEF s
    <3>1. /\ DOMAIN table' = DOMAIN table /\ table'[d] = WithEntry(d, i, s)
          /\ \A x \in DOMAIN table' \ {d} : table'[x] = table[x]
      BY <2>1 DEF Inv, TypeOK, s
    <3> QED
      BY <1>1, <2>1, <3>1 DEF Made, Create, s
  <2> QED
    BY <2>1, <2>2
<1>2. ASSUME Mkdir(d, n)
      PROVE  \E c, i : Made(d, i, c, n, TRUE) /\ file' = file
  <2>1. PICK c \in FreeClusters(fat), i \in 1 .. Len(WithRoom(d)) :
          /\ Placed(d, c, i)
          /\ table' = [x \in DOMAIN table \cup {c} |->
                         IF x = d THEN WithEntry(d, i, NewEntry(n, TRUE, c))
                         ELSE IF x = c THEN EmptySlots(DirEntries - 2)
                         ELSE table[x]]
    BY <1>2 DEF Mkdir
  <2>2. c \notin DOMAIN table
    BY RootedFacts, ClustersFacts DEF FreeClusters, Clusters, FAT16_FREE
  <2>3. Made(d, i, c, n, TRUE)
    <3> DEFINE s == NewEntry(n, TRUE, c)
    <3>1. /\ DOMAIN table' = DOMAIN table \cup {c} /\ table'[d] = WithEntry(d, i, s)
          /\ \A x \in DOMAIN table' \ {d} :
                table'[x] = IF x \notin DOMAIN table THEN EmptySlots(DirEntries - 2) ELSE table[x]
      BY <2>1, <2>2
    <3> HIDE DEF s
    <3> QED
      BY <1>2, <2>1, <3>1 DEF Made, Mkdir, s
  <2> QED
    BY <1>2, <2>3 DEF Mkdir
<1>3. ASSUME Delete(d, n)
      PROVE  \E i \in 1 .. Len(table[d]) :
                 /\ Gone(d, i) /\ ~table[d][i].dir
                 /\ file' = [h \in Handles |-> IF OnSlot(h, d, i) THEN Orphan ELSE file[h]]
  <2>1. PICK i \in 1 .. Len(table[d]) :
           /\ table[d][i].name = n /\ ~table[d][i].dir
           /\ table' = [table EXCEPT ![d] = Removed(d, i)]
           /\ fat' = ChainFreed(fat, table[d][i].first)
           /\ file' = [h \in Handles |-> IF OnSlot(h, d, i) THEN Orphan ELSE file[h]]
    BY <1>3 DEF Delete, Found
  <2>2. ~Vacant(table[d][i])
    BY <2>1, MarksAssumption DEF Vacant
  <2>3. /\ DOMAIN table' = DOMAIN table /\ table'[d] = Removed(d, i)
        /\ \A x \in DOMAIN table' \ {d} : table'[x] = table[x]
    BY <2>1 DEF Inv, TypeOK
  <2> QED
    BY <2>1, <2>2, <2>3 DEF Gone
<1>4. ASSUME Rmdir(d, n), ~UNCHANGED <<fat, table, file>>
      PROVE  \E i \in 1 .. Len(table[d]) : Gone(d, i) /\ table[d][i].dir /\ file' = file
  <2>1. PICK i \in 1 .. Len(table[d]) :
           /\ table[d][i].name = n /\ table[d][i].dir
           /\ EmptyDirectory(table[table[d][i].first])
           /\ fat' = ChainFreed(fat, table[d][i].first)
           /\ table' = [x \in DOMAIN table \ {table[d][i].first} |->
                           IF x = d THEN Removed(d, i) ELSE table[x]]
           /\ file' = file
    BY <1>4 DEF Rmdir, Found
  <2>2. ~Vacant(table[d][i]) /\ table[d][i].first # d
    BY <2>1, MarksAssumption DEF Vacant, EmptyDirectory
  <2>3. /\ DOMAIN table' = DOMAIN table \ {table[d][i].first} /\ table'[d] = Removed(d, i)
        /\ \A x \in DOMAIN table' \ {d} : table'[x] = table[x]
    BY <2>1, <2>2
  <2> QED
    BY <2>1, <2>2, <2>3 DEF Gone
<1>5. ASSUME NEW m \in Names, Rename(d, n, m)
      PROVE  Kept /\ file' = file
  <2>1. PICK i \in 1 .. Len(table[d]) :
           /\ table[d][i].name = n
           /\ \/ Missing(table[d], m) /\ table' = [table EXCEPT ![d][i].name = m]
              \/ table' = table
           /\ fat' = fat /\ file' = file
    BY <1>5 DEF Rename, Found
  <2>2. CASE table' = table
    BY <2>1, <2>2 DEF Kept, SameSlots, SameNames
  <2>3. CASE Missing(table[d], m) /\ table' = [table EXCEPT ![d][i].name = m]
    <3> DEFINE s == [table[d][i] EXCEPT !.name = m]
    <3>1. /\ ~Vacant(s) /\ ~Vacant(table[d][i])
          /\ s.first = table[d][i].first /\ s.dir = table[d][i].dir
      <4>1. table[d][i] \in Slot
        BY DEF Inv, TypeOK
      <4> QED
        BY <2>1, <4>1, MarksAssumption DEF Slot, Vacant
    <3>2. table' = [table EXCEPT ![d] = [@ EXCEPT ![i] = s]]
      BY <2>3
    <3> HIDE DEF s
    <3>3. \A x \in DOMAIN table : table[x] \in Seq(Slot)
      BY DEF Inv, TypeOK
    <3>4. SameSlots
      BY <3>1, <3>2, <3>3 DEF SameSlots, Inv, TypeOK
    <3>5. Renamed(d, i, m)
      BY <2>3, <3>1 DEF Renamed
    <3> QED
      BY <2>1, <3>4, <3>5 DEF Kept
  <2> QED
    BY <2>1, <2>2, <2>3
<1> QED
  BY <1>1, <1>2, <1>3, <1>4, <1>5

LEMMA WriteEffect ==
    ASSUME Inv, NEW h \in Handles, NEW bs \in Chunks, Write(h, bs)
    PROVE  Kept
<1> DEFINE f == file[h]
<1>1. f \in Handle
  BY DEF Write, Usable, Inv, TypeOK
<1>2. SameSlots /\ SameNames
  <2>1. table' = table \/ \E pos : table' = [table EXCEPT ![f.dir][f.slot].size = pos]
    BY DEF Write, Put, Resized
  <2>2. CASE table' = table
    BY <2>2 DEF SameSlots, SameNames
  <2>3. ASSUME NEW pos, table' = [table EXCEPT ![f.dir][f.slot].size = pos]
        PROVE  SameSlots /\ SameNames
    <3> DEFINE d == f.dir
               i == f.slot
               s == [table[d][i] EXCEPT !.size = pos]
    <3> HIDE DEF f
    <3>1. \A x \in DOMAIN table : table[x] \in Seq(Slot)
      BY DEF Inv, TypeOK
    <3>2. table' = [table EXCEPT ![d] = [@ EXCEPT ![i] = s]]
      BY <2>3
    <3>3. CASE d \in DOMAIN table /\ i \in 1 .. Len(table[d])
      <4>1. table[d][i] \in Slot
        BY <3>1, <3>3
      <4>2. (Vacant(s) <=> Vacant(table[d][i])) /\ s.first = table[d][i].first /\ s.dir = table[d][i].dir
            /\ s.name = table[d][i].name
        BY <4>1 DEF Slot, Vacant
      <4> HIDE DEF s, d, i
      <4> QED
        BY <3>1, <3>2, <3>3, <4>2 DEF SameSlots, SameNames
    <3>4. CASE ~(d \in DOMAIN table /\ i \in 1 .. Len(table[d]))
      <4> HIDE DEF s, d, i
      <4>1. \A x \in DOMAIN table : table'[x] = table[x]
        BY <3>1, <3>2, <3>4
      <4> QED
        BY <3>2, <4>1 DEF SameSlots, SameNames
    <3> QED
      BY <3>3, <3>4
  <2> QED
    BY <2>1, <2>2, <2>3
<1>3. \/ fat' = fat
      \/ \E last \in Clusters, new \in Clusters :
            IsEof(fat[last]) /\ fat[new] = FAT16_FREE /\ fat' = Linked(fat, last, new)
  BY ClustersFacts DEF Write, FreeClusters
<1> QED
  BY <1>2, <1>3 DEF Kept

\* The effect of every step.
LEMMA VolumeEffects ==
    ASSUME Inv, Rooted, [Next]_vars
    PROVE  \/ \E d \in DOMAIN table, n \in Names, isDir \in BOOLEAN : \E c, i : Made(d, i, c, n, isDir)
           \/ \E d \in DOMAIN table : \E i \in 1 .. Len(table[d]) : Gone(d, i)
           \/ Kept
<1>1. UNCHANGED <<fat, table>> => Kept
  BY DEF Kept, SameSlots, SameNames
<1>2. ASSUME NEW d \in DOMAIN table, NEW n \in Names,
             \/ \E h \in Handles : Create(h, d, n) \/ Open(h, d, n)
             \/ Mkdir(d, n) \/ MakeRefused(d, n) \/ NameMissing(d, n)
             \/ Delete(d, n) \/ Rmdir(d, n)
             \/ \E m \in Names : Rename(d, n, m)
      PROVE  \/ \E isDir \in BOOLEAN : \E c, i : Made(d, i, c, n, isDir)
             \/ \E i \in 1 .. Len(table[d]) : Gone(d, i)
             \/ Kept
  <2>1. ASSUME NEW h \in Handles, Create(h, d, n)
        PROVE  \E isDir \in BOOLEAN : \E c, i : Made(d, i, c, n, isDir)
    BY <2>1, DirectoryEffects, Zenon
  <2>2. ASSUME Mkdir(d, n)
        PROVE  \E isDir \in BOOLEAN : \E c, i : Made(d, i, c, n, isDir)
    BY <2>2, DirectoryEffects, Zenon
  <2>3. CASE \E h \in Handles : Open(h, d, n)
    BY <1>1, <2>3 DEF Open
  <2>4. CASE MakeRefused(d, n) \/ NameMissing(d, n)
    BY <1>1, <2>4 DEF MakeRefused, NameMissing
  <2>5. CASE Delete(d, n) \/ Rmdir(d, n)
    BY <1>1, <2>5, DirectoryEffects
  <2>6. CASE \E m \in Names : Rename(d, n, m)
    BY <2>6, DirectoryEffects
  <2> QED
    BY <1>2, <2>1, <2>2, <2>3, <2>4, <2>5, <2>6
<1>3. CASE HandleCall
  <2>1. ASSUME NEW h \in Handles,
               \/ Close(h) \/ WriteRefused(h)
               \/ \E n \in 1 .. ClusterSize : Read(h, n)
               \/ \E pos : Seek(h, pos)
        PROVE  UNCHANGED <<fat, table>>
    BY <2>1 DEF Close, WriteRefused, Read, Seek
  <2> QED
    BY <1>1, <1>3, <2>1, WriteEffect DEF HandleCall
<1>4. CASE UNCHANGED vars
  BY <1>1, <1>4 DEF vars
<1> QED
  BY <1>2, <1>3, <1>4 DEF Next, DirectoryCall

----------------------------------------------------------------------------
(* Entries after a step *)

\* An extended directory begins with the slots it had.
LEMMA WithRoomKeeps ==
    ASSUME NEW d \in DOMAIN table, table[d] \in Seq(Slot)
    PROVE  /\ Len(WithRoom(d)) >= Len(table[d])
           /\ \A j \in 1 .. Len(table[d]) : WithRoom(d)[j] = table[d][j]
<1> DEFINE more == EmptySlots(DirEntries)
<1>1. more \in Seq(Slot)
  BY EmptySlotsType, SizesAssumption
<1> HIDE DEF more
<1>2. /\ Len(table[d] \o more) >= Len(table[d])
      /\ \A j \in 1 .. Len(table[d]) : (table[d] \o more)[j] = table[d][j]
  BY <1>1
<1> QED
  BY <1>2 DEF WithRoom, more

LEMMA MadeEntries ==
    ASSUME Inv, Rooted, NEW d \in DOMAIN table, NEW n \in Names, NEW isDir \in BOOLEAN,
           NEW c, NEW i, Made(d, i, c, n, isDir)
    PROVE  /\ c \in Clusters /\ c \notin DOMAIN table /\ fat[c] = FAT16_FREE
           /\ <<d, i>> \notin EntriesOf(table)
           /\ EntriesOf(table') = EntriesOf(table) \cup {<<d, i>>}
           /\ FirstIn(table', <<d, i>>) = c /\ DirIn(table', <<d, i>>) = isDir
           /\ \A e \in EntriesOf(table) :
                 /\ table'[e[1]][e[2]] = table[e[1]][e[2]]
                 /\ FirstIn(table', e) = FirstIn(table, e) /\ DirIn(table', e) = DirIn(table, e)
<1> DEFINE s == NewEntry(n, isDir, c)
<1>1. c \in Clusters /\ fat[c] = FAT16_FREE /\ Vacant(WithRoom(d)[i]) /\ i \in 1 .. Len(WithRoom(d))
  BY ClustersFacts DEF Made, Placed, FirstFree, FreeClusters, FirstVacant
<1>2. c \notin DOMAIN table
  BY <1>1, RootedFacts, ClustersFacts DEF Clusters, FAT16_FREE
<1>3. s \in Slot /\ s.first = c /\ s.dir = isDir /\ ~Vacant(s)
  BY <1>1, ClustersFacts, MarksAssumption DEF NewEntry, Slot, Vacant
<1>4. /\ table[d] \in Seq(Slot) /\ table'[d] = WithEntry(d, i, s)
      /\ d \in DOMAIN table' /\ DOMAIN table \subseteq DOMAIN table'
      /\ \A x \in DOMAIN table' \ {d} :
            table'[x] = IF x \notin DOMAIN table THEN EmptySlots(DirEntries - 2) ELSE table[x]
  BY DEF Made, Inv, TypeOK
<1> HIDE DEF s
<1>5. /\ WithRoom(d) \in Seq(Slot) /\ Len(WithRoom(d)) >= Len(table[d])
      /\ \A j \in 1 .. Len(table[d]) : WithRoom(d)[j] = table[d][j]
      /\ \A j \in 1 .. Len(WithRoom(d)) : ~Vacant(WithRoom(d)[j]) => j \in 1 .. Len(table[d])
  BY <1>4, WithRoomFacts, WithRoomKeeps
<1>6. /\ Len(table'[d]) = Len(WithRoom(d)) /\ table'[d][i] = s
      /\ \A j \in 1 .. Len(WithRoom(d)) : j # i => table'[d][j] = WithRoom(d)[j]
  BY <1>1, <1>3, <1>4, <1>5 DEF WithEntry
<1>7. <<d, i>> \notin EntriesOf(table)
  BY <1>1, <1>5, EntriesDef
<1>8. \A x \in DOMAIN table' \ DOMAIN table : EmptyDirectory(table'[x])
  <2>1. EmptyDirectory(EmptySlots(DirEntries - 2))
    BY EmptySlotsType, SizesAssumption DEF EmptyDirectory
  <2> QED
    BY <1>4, <2>1
<1>9. \A x \in DOMAIN table' : \A j \in 1 .. Len(table'[x]) :
         ~Vacant(table'[x][j]) <=>
            \/ x = d /\ j = i
            \/ x \in DOMAIN table /\ j \in 1 .. Len(table[x]) /\ ~Vacant(table[x][j])
  <2> TAKE x \in DOMAIN table'
  <2>1. CASE x = d
    BY <2>1, <1>1, <1>3, <1>5, <1>6
  <2>2. CASE x # d
    BY <2>2, <1>4, <1>8 DEF EmptyDirectory
  <2> QED
    BY <2>1, <2>2
<1>10. \A e \in EntriesOf(table) :
          /\ e[1] \in DOMAIN table' /\ e[2] \in 1 .. Len(table'[e[1]])
          /\ table'[e[1]][e[2]] = table[e[1]][e[2]]
  <2> TAKE e \in EntriesOf(table)
  <2>1. /\ e[1] \in DOMAIN table /\ e[2] \in 1 .. Len(table[e[1]])
        /\ e = <<e[1], e[2]>> /\ ~Vacant(table[e[1]][e[2]])
    BY EntryParts
  <2>2. CASE e[1] = d
    BY <2>1, <2>2, <1>1, <1>4, <1>5, <1>6
  <2>3. CASE e[1] # d
    BY <2>1, <2>3, <1>4
  <2> QED
    BY <2>2, <2>3
<1>11. \A e : e \in EntriesOf(table') <=> e \in EntriesOf(table) \/ e = <<d, i>>
  <2> TAKE e
  <2>1. ASSUME e \in EntriesOf(table') PROVE e \in EntriesOf(table) \/ e = <<d, i>>
    <3>1. /\ e[1] \in DOMAIN table' /\ e[2] \in 1 .. Len(table'[e[1]])
          /\ e = <<e[1], e[2]>> /\ ~Vacant(table'[e[1]][e[2]])
      BY <2>1, EntryParts
    <3> QED
      BY <3>1, <1>9, EntriesDef
  <2>2. ASSUME e \in EntriesOf(table) PROVE e \in EntriesOf(table')
    <3>1. e = <<e[1], e[2]>> /\ ~Vacant(table[e[1]][e[2]])
      BY <2>2, EntryParts
    <3> QED
      BY <2>2, <3>1, <1>10, EntriesDef
  <2>3. <<d, i>> \in EntriesOf(table')
    BY <1>1, <1>3, <1>4, <1>5, <1>6, EntriesDef
  <2> QED
    BY <2>1, <2>2, <2>3
<1> QED
  BY <1>1, <1>2, <1>3, <1>6, <1>7, <1>10, <1>11 DEF FirstIn, DirIn

LEMMA GoneEntries ==
    ASSUME Inv, Rooted, NEW d \in DOMAIN table, NEW i \in 1 .. Len(table[d]), Gone(d, i)
    PROVE  /\ <<d, i>> \in EntriesOf(table)
           /\ FirstIn(table, <<d, i>>) = table[d][i].first
           /\ DirIn(table, <<d, i>>) = table[d][i].dir
           /\ EntriesOf(table') = EntriesOf(table) \ {<<d, i>>}
           /\ \A e \in EntriesOf(table') :
                 /\ table'[e[1]][e[2]] = table[e[1]][e[2]]
                 /\ FirstIn(table', e) = FirstIn(table, e) /\ DirIn(table', e) = DirIn(table, e)
<1> DEFINE c == table[d][i].first
<1>1. <<d, i>> \in EntriesOf(table)
  BY EntriesDef DEF Gone
<1>2. d \in DOMAIN table'
  BY DEF Gone, EmptyDirectory
<1>3. /\ \A x \in DOMAIN table : table[x] \in Seq(Slot)
      /\ DOMAIN table' \subseteq DOMAIN table
      /\ table'[d] = Removed(d, i)
      /\ \A x \in DOMAIN table' \ {d} : table'[x] = table[x]
      /\ \A x \in DOMAIN table \ DOMAIN table' : EmptyDirectory(table[x])
  BY DEF Gone, Inv, TypeOK
<1>4. /\ Len(table'[d]) = Len(table[d]) /\ Vacant(table'[d][i])
      /\ \A j \in 1 .. Len(table[d]) : j # i => table'[d][j] = table[d][j]
  BY <1>3, RemovedFacts
<1>5. \A e : e \in EntriesOf(table') <=> e \in EntriesOf(table) /\ e # <<d, i>>
  <2> TAKE e
  <2>1. ASSUME e \in EntriesOf(table') PROVE e \in EntriesOf(table) /\ e # <<d, i>>
    <3>1. /\ e[1] \in DOMAIN table' /\ e[2] \in 1 .. Len(table'[e[1]])
          /\ e = <<e[1], e[2]>> /\ ~Vacant(table'[e[1]][e[2]])
      BY <2>1, EntryParts
    <3> QED
      BY <3>1, <1>3, <1>4, EntriesDef
  <2>2. ASSUME e \in EntriesOf(table), e # <<d, i>> PROVE e \in EntriesOf(table')
    <3>1. /\ e[1] \in DOMAIN table /\ e[2] \in 1 .. Len(table[e[1]])
          /\ e = <<e[1], e[2]>> /\ ~Vacant(table[e[1]][e[2]])
      BY <2>2, EntryParts
    <3>2. e[1] \in DOMAIN table'
      BY <3>1, <1>3 DEF EmptyDirectory
    <3> QED
      BY <2>2, <3>1, <3>2, <1>2, <1>3, <1>4, EntriesDef
  <2> QED
    BY <2>1, <2>2
<1>6. \A e \in EntriesOf(table') : table'[e[1]][e[2]] = table[e[1]][e[2]]
  <2> TAKE e \in EntriesOf(table')
  <2>1. /\ e[1] \in DOMAIN table' /\ e[2] \in 1 .. Len(table'[e[1]])
        /\ e = <<e[1], e[2]>> /\ ~Vacant(table'[e[1]][e[2]])
    BY EntryParts
  <2> QED
    BY <2>1, <1>3, <1>4
<1> QED
  BY <1>1, <1>5, <1>6 DEF FirstIn, DirIn

LEMMA KeptEntries ==
    ASSUME Kept
    PROVE  /\ EntriesOf(table') = EntriesOf(table)
           /\ \A e \in EntriesOf(table) :
                 FirstIn(table', e) = FirstIn(table, e) /\ DirIn(table', e) = DirIn(table, e)
<1>1. \A e : e \in EntriesOf(table') <=> e \in EntriesOf(table)
  BY EntriesDef DEF Kept, SameSlots
<1>2. \A e \in EntriesOf(table) :
         FirstIn(table', e) = FirstIn(table, e) /\ DirIn(table', e) = DirIn(table, e)
  BY EntryParts DEF Kept, SameSlots, FirstIn, DirIn
<1> QED
  BY <1>1, <1>2

----------------------------------------------------------------------------
(* Nothing leaks *)

Leakless ==
    \A x \in Clusters : fat[x] # FAT16_FREE =>
       \E e \in EntriesOf(table) : x \in Chain(fat, FirstIn(table, e))

LEMMA RootedNext ==
    ASSUME Inv, Rooted, [Next]_vars
    PROVE  Rooted'
<1>1. ASSUME NEW d \in DOMAIN table, NEW n \in Names, NEW isDir \in BOOLEAN, NEW c, NEW i,
             Made(d, i, c, n, isDir)
      PROVE  Rooted'
  <2>1. DOMAIN table' = IF isDir THEN DOMAIN table \cup {c} ELSE DOMAIN table
    BY <1>1 DEF Made
  <2>2. /\ c # 0
        /\ EntriesOf(table') = EntriesOf(table) \cup {<<d, i>>}
        /\ FirstIn(table', <<d, i>>) = c /\ DirIn(table', <<d, i>>) = isDir
        /\ \A e \in EntriesOf(table) :
              FirstIn(table', e) = FirstIn(table, e) /\ DirIn(table', e) = DirIn(table, e)
    BY <1>1, MadeEntries, ClustersFacts DEF FAT16_FREE
  <2> QED
    BY <2>1, <2>2 DEF Rooted
<1>2. ASSUME NEW d \in DOMAIN table, NEW i \in 1 .. Len(table[d]), Gone(d, i)
      PROVE  Rooted'
  <2> DEFINE g == <<d, i>>
             c == FirstIn(table, g)
  <2>1. /\ g \in EntriesOf(table) /\ EntriesOf(table') = EntriesOf(table) \ {g}
        /\ \A e \in EntriesOf(table') :
              FirstIn(table', e) = FirstIn(table, e) /\ DirIn(table', e) = DirIn(table, e)
        /\ DOMAIN table' = IF DirIn(table, g) THEN DOMAIN table \ {c} ELSE DOMAIN table
    BY <1>2, GoneEntries DEF Gone
  <2>2. \A e \in EntriesOf(table) : FirstIn(table, e) = c => e = g
    BY <2>1 DEF Inv, ChainsSound, HeadsDistinct
  <2> HIDE DEF g, c
  <2>3. FirstIn(table, g) = c
    BY DEF c
  <2> QED
    BY <2>1, <2>2, <2>3 DEF Rooted
<1>3. CASE Kept
  BY <1>3, KeptEntries DEF Rooted, Kept, SameSlots
<1> QED
  BY <1>1, <1>2, <1>3, VolumeEffects

LEMMA LinkedMark ==
    ASSUME NEW f \in [Clusters -> Cells], NEW last \in Clusters, NEW new \in Clusters,
           IsEof(f[last]), f[new] = FAT16_FREE
    PROVE  /\ Linked(f, last, new) \in [Clusters -> Cells]
           /\ Linked(f, last, new)[last] = new
           /\ Linked(f, last, new)[new] = FAT16_EOF_MIN
           /\ \A b \in Clusters \ {last, new} : Linked(f, last, new)[b] = f[b]
           /\ \A b \in Clusters : f[b] \in Clusters => Linked(f, last, new)[b] = f[b]
BY ClustersFacts DEF Linked, Terminated

\* Linking a free cluster behind one that is in a chain leaks nothing.
LEMMA LinkedLeakless ==
    ASSUME NEW f \in [Clusters -> Cells], NEW last \in Clusters, NEW new \in Clusters,
           IsEof(f[last]), f[new] = FAT16_FREE, NEW H \in SUBSET Clusters,
           \A x \in Clusters : f[x] # FAT16_FREE => \E y \in H : x \in Chain(f, y)
    PROVE  \A x \in Clusters : Linked(f, last, new)[x] # FAT16_FREE =>
              \E y \in H : x \in Chain(Linked(f, last, new), y)
<1> DEFINE g == Linked(f, last, new)
<1>1. /\ g \in [Clusters -> Cells] /\ g[last] = new
      /\ \A b \in Clusters \ {last, new} : g[b] = f[b]
      /\ \A b \in Clusters : f[b] \in Clusters => g[b] = f[b]
  BY LinkedMark
<1> HIDE DEF g
<1>2. \A y \in H : Chain(f, y) \subseteq Chain(g, y)
  BY <1>1, ChainGrows
<1>3. PICK y \in H : last \in Chain(f, y)
  BY ClustersFacts
<1>4. new \in Chain(g, y)
  BY <1>1, <1>2, <1>3, ChainClosed DEF FollowsFat
<1>5. ASSUME NEW x \in Clusters, g[x] # FAT16_FREE
      PROVE  \E z \in H : x \in Chain(g, z)
  <2>1. CASE x = new
    BY <2>1, <1>4
  <2>2. CASE x # new
    <3>1. f[x] # FAT16_FREE
      BY <2>2, <1>1, <1>5, ClustersFacts
    <3> QED
      BY <3>1, <1>2
  <2> QED
    BY <2>1, <2>2
<1> QED
  BY <1>5 DEF g

Firsts(t) == {FirstIn(t, e) : e \in EntriesOf(t)}

LEMMA LeaklessNext ==
    ASSUME Inv, Rooted, Leakless, [Next]_vars
    PROVE  Leakless'
<1> DEFINE H == Firsts(table)
<1>1. /\ fat \in [Clusters -> Cells] /\ H \in SUBSET Clusters /\ LinksSound(fat)
      /\ \A y \in H : fat[y] # FAT16_FREE /\ \A b \in Clusters : fat[b] # y
      /\ \A x \in Clusters : fat[x] # FAT16_FREE => \E y \in H : x \in Chain(fat, y)
  BY DEF Inv, TypeOK, ChainsSound, HeadsSound, Leakless, Firsts
<1>2. SUFFICES \A x \in Clusters : fat'[x] # FAT16_FREE =>
                  \E y \in Firsts(table') : x \in Chain(fat', y)
  BY DEF Leakless, Firsts
<1>3. ASSUME NEW d \in DOMAIN table, NEW n \in Names, NEW isDir \in BOOLEAN, NEW c, NEW i,
             Made(d, i, c, n, isDir)
      PROVE  \A x \in Clusters : fat'[x] # FAT16_FREE =>
                \E y \in Firsts(table') : x \in Chain(fat', y)
  <2>1. /\ c \in Clusters /\ fat[c] = FAT16_FREE
        /\ Firsts(table') = H \cup {c}
    <3>1. /\ c \in Clusters /\ fat[c] = FAT16_FREE
          /\ EntriesOf(table') = EntriesOf(table) \cup {<<d, i>>}
          /\ FirstIn(table', <<d, i>>) = c
          /\ \A e \in EntriesOf(table) : FirstIn(table', e) = FirstIn(table, e)
      BY <1>3, MadeEntries
    <3> QED
      BY <3>1 DEF Firsts
  <2> DEFINE f == Terminated(fat, c)
  <2>2. /\ f \in [Clusters -> Cells]
        /\ \A b \in Clusters \ {c} : f[b] = fat[b]
        /\ f[c] = FAT16_EOF_MIN
    BY <1>1, <2>1, ClustersFacts DEF Terminated
  <2> HIDE DEF f, H
  <2>3. \A x \in Clusters : f[x] # FAT16_FREE => \E y \in H \cup {c} : x \in Chain(f, y)
    <3>1. \A y \in H : Chain(fat, y) \subseteq Chain(f, y)
      BY <1>1, <2>1, <2>2, ChainGrows, ClustersFacts
    <3>2. c \in Chain(f, c)
      BY <2>1, <2>2, ChainClosed
    <3> QED
      BY <1>1, <2>1, <2>2, <3>1, <3>2
  <2>4. CASE ~Extends(d)
    <3>1. fat' = f
      BY <1>3, <2>4 DEF Made, Placed, FatWithRoom, f
    <3> QED
      BY <2>1, <2>3, <3>1
  <2>5. CASE Extends(d)
    <3>1. PICK last \in Chain(f, d), new \in FreeClusters(f) :
             IsEof(f[last]) /\ fat' = Linked(f, last, new)
      BY <1>3, <2>5 DEF Made, Placed, FatWithRoom, f
    <3>2. d \in Clusters
      BY <2>5 DEF Extends, Inv, TypeOK
    <3>3. last \in Clusters /\ new \in Clusters /\ f[new] = FAT16_FREE
      BY <2>2, <3>1, <3>2, ChainClosed, ClustersFacts DEF FreeClusters
    <3>4. H \cup {c} \in SUBSET Clusters
      BY <1>1, <2>1
    <3> QED
      BY <2>1, <2>2, <2>3, <3>1, <3>3, <3>4, LinkedLeakless
  <2> QED
    BY <2>4, <2>5
<1>4. ASSUME NEW d \in DOMAIN table, NEW i \in 1 .. Len(table[d]), Gone(d, i)
      PROVE  \A x \in Clusters : fat'[x] # FAT16_FREE =>
                \E y \in Firsts(table') : x \in Chain(fat', y)
  <2> DEFINE h == table[d][i].first
  <2>1. h \in H /\ Firsts(table') = H \ {h}
    <3>1. /\ <<d, i>> \in EntriesOf(table) /\ FirstIn(table, <<d, i>>) = h
          /\ EntriesOf(table') = EntriesOf(table) \ {<<d, i>>}
          /\ \A e \in EntriesOf(table') : FirstIn(table', e) = FirstIn(table, e)
      BY <1>4, GoneEntries
    <3>2. \A e \in EntriesOf(table) : FirstIn(table, e) = h => e = <<d, i>>
      BY <3>1 DEF Inv, ChainsSound, HeadsDistinct
    <3> HIDE DEF h
    <3> QED
      BY <3>1, <3>2 DEF Firsts
  <2>2. fat' = ChainFreed(fat, h)
    BY <1>4 DEF Gone
  <2> HIDE DEF h, H
  <2>3. /\ fat' \in [Clusters -> Cells]
        /\ \A x \in Clusters : fat'[x] = IF x \in Chain(fat, h) THEN FAT16_FREE ELSE fat[x]
    BY <1>1, <2>2, ClustersFacts DEF ChainFreed
  <2>4. ASSUME NEW y \in H \ {h}
        PROVE  Chain(fat', y) = Chain(fat, y)
    <3>1. Chain(fat, y) \cap Chain(fat, h) = {} /\ Chain(fat, y) \subseteq Clusters
      BY <1>1, <2>1, ChainsDisjoint, ChainClosed
    <3> QED
      BY <1>1, <2>3, <3>1, ChainSame
  <2> QED
    BY <1>1, <2>1, <2>3, <2>4
<1>5. CASE Kept
  <2>1. Firsts(table') = H
    BY <1>5, KeptEntries DEF Firsts
  <2> HIDE DEF H
  <2>2. CASE fat' = fat
    BY <1>1, <2>1, <2>2
  <2>3. ASSUME NEW last \in Clusters, NEW new \in Clusters,
               IsEof(fat[last]), fat[new] = FAT16_FREE, fat' = Linked(fat, last, new)
        PROVE  \A x \in Clusters : fat'[x] # FAT16_FREE =>
                  \E y \in Firsts(table') : x \in Chain(fat', y)
    BY <1>1, <2>1, <2>3, LinkedLeakless
  <2> QED
    BY <1>5, <2>2, <2>3 DEF Kept
<1> QED
  BY <1>3, <1>4, <1>5, VolumeEffects

\* The volume's directories and clusters are all reached by entries.
VolumeInv == Inv /\ Rooted /\ Leakless

LEMMA VolumeInvariant == Spec => []VolumeInv
<1>1. Init => Rooted /\ Leakless
  <2> SUFFICES ASSUME Init PROVE Rooted /\ Leakless
    OBVIOUS
  <2>1. table[0] \in Seq(Slot) /\ \A i \in 1 .. Len(table[0]) : Vacant(table[0][i])
    BY EmptySlotsType, SizesAssumption DEF Init
  <2>2. EntriesOf(table) = {} /\ DOMAIN table = {0}
    BY <2>1, EntriesDef DEF Init
  <2> QED
    BY <2>2 DEF Rooted, Leakless, Init
<1>2. VolumeInv /\ [Next]_vars => VolumeInv'
  BY NextInv, RootedNext, LeaklessNext DEF VolumeInv
<1> QED
  BY <1>1, <1>2, InitInv, PTL DEF Spec, VolumeInv

\* Directories can be reached from the root by entries, and from nowhere else.
THEOREM DirectoriesReached == Spec => []DirectoriesSound
<1>1. VolumeInv => DirectoriesSound
  BY RootedIs DEF VolumeInv
<1> QED
  BY <1>1, VolumeInvariant, PTL

\* Create, mkdir, write and the extension of a directory, whatever fails in
\* them, and delete and rmdir lose no cluster: what SYSCALL_STATFS counts as in
\* use is exactly what the files and directories occupy.
THEOREM SpaceAccounted == Spec => []NothingLeaked
<1>1. VolumeInv => NothingLeaked
  <2> SUFFICES ASSUME VolumeInv PROVE NothingLeaked
    OBVIOUS
  <2>1. fat \in [Clusters -> Cells] /\ LinksSound(fat)
    BY DEF VolumeInv, Inv, TypeOK, ChainsSound
  <2>2. \A e \in EntriesOf(table) :
           FirstIn(table, e) \in Clusters /\ fat[FirstIn(table, e)] # FAT16_FREE
    BY DEF VolumeInv, Inv, ChainsSound, HeadsSound
  <2> DEFINE free == {c \in Clusters : fat[c] = FAT16_FREE}
  <2>3. \A c \in Clusters : fat[c] # FAT16_FREE => c \in Occupied
    BY DEF VolumeInv, Leakless, Occupied, Entries, First
  <2>4. \A c \in Occupied : c \in Clusters /\ fat[c] # FAT16_FREE
    <3> TAKE c \in Occupied
    <3>1. PICK e \in EntriesOf(table) : c \in Chain(fat, FirstIn(table, e))
      BY DEF Occupied, Entries, First
    <3> QED
      BY <2>1, <2>2, <3>1, ChainClosed, ChainAllocated
  <2>5. Occupied = Clusters \ free
    BY <2>3, <2>4
  <2>6. IsFiniteSet(Clusters) /\ Cardinality(Clusters) = TotalClusters
    BY FS_Interval, SizesAssumption DEF Clusters
  <2>7. /\ Cardinality(Clusters \ free) = Cardinality(Clusters) - Cardinality(free)
        /\ Cardinality(free) \in Nat
    <3>1. IsFiniteSet(free) /\ Clusters \cap free = free
      BY <2>6, FS_Subset
    <3> HIDE DEF free
    <3> QED
      BY <2>6, <3>1, FS_Difference, FS_CardinalityType
  <2>8. Statfs.total - Statfs.free = Cardinality(Occupied)
    BY <2>5, <2>6, <2>7, SizesAssumption DEF Statfs, FreeCount
  <2> QED
    BY <2>3, <2>8 DEF NothingLeaked
<1> QED
  BY <1>1, VolumeInvariant, PTL

----------------------------------------------------------------------------
(* A search finds every entry *)

\* No entry of t is behind an end mark or another entry of its name.
Ordered(t) ==
    \A i \in 1 .. Len(t) : ~Vacant(t[i]) =>
       \A j \in 1 .. i - 1 : t[j].name \notin {t[i].name, End}

AllOrdered == \A d \in DOMAIN table : Ordered(table[d])

LEMMA AllOrderedIs == AllOrdered <=> EntriesFound
<1>1. \A e \in EntriesOf(table) :
         /\ e[1] \in DOMAIN table /\ e[2] \in 1 .. Len(table[e[1]])
         /\ ~Vacant(table[e[1]][e[2]])
  BY EntryParts
<1>2. \A d \in DOMAIN table : \A i \in 1 .. Len(table[d]) : ~Vacant(table[d][i]) =>
         <<d, i>> \in EntriesOf(table) /\ <<d, i>>[1] = d /\ <<d, i>>[2] = i
  BY EntriesDef
<1>3. ASSUME AllOrdered PROVE EntriesFound
  BY <1>1, <1>3 DEF AllOrdered, Ordered, EntriesFound, Entries, Found
<1>4. ASSUME EntriesFound PROVE AllOrdered
  <2> SUFFICES ASSUME NEW d \in DOMAIN table, NEW i \in 1 .. Len(table[d]), ~Vacant(table[d][i])
               PROVE  \A j \in 1 .. i - 1 : table[d][j].name \notin {table[d][i].name, End}
    BY DEF AllOrdered, Ordered
  <2>1. Found(table[d], table[d][i].name, i)
    BY <1>2, <1>4, Zenon DEF EntriesFound, Entries
  <2> QED
    BY <2>1 DEF Found
<1> QED
  BY <1>3, <1>4

\* A name that a search does not find is in no entry.
LEMMA MissingOrdered ==
    ASSUME NEW t \in Seq(Slot), Ordered(t), NEW n \in Names, Missing(t, n)
    PROVE  \A j \in 1 .. Len(t) : t[j].name # n
<1> SUFFICES ASSUME NEW j \in 1 .. Len(t), t[j].name = n PROVE FALSE
  OBVIOUS
<1>1. ~Vacant(t[j])
  BY MarksAssumption DEF Vacant
<1>2. Found(t, n, j)
  BY <1>1 DEF Ordered, Found
<1> QED
  BY <1>2 DEF Missing

LEMMA OrderedNext ==
    ASSUME Inv, Rooted, AllOrdered, [Next]_vars
    PROVE  AllOrdered'
<1>1. \A x \in DOMAIN table : table[x] \in Seq(Slot) /\ Ordered(table[x])
  BY DEF Inv, TypeOK, AllOrdered
<1>2. ASSUME NEW d \in DOMAIN table, NEW n \in Names, NEW isDir \in BOOLEAN, NEW c, NEW i,
             Made(d, i, c, n, isDir)
      PROVE  AllOrdered'
  <2> DEFINE s == NewEntry(n, isDir, c)
             w == WithRoom(d)
  <2>1. c \in Clusters /\ FirstVacant(w, i) /\ i \in 1 .. Len(w) /\ Missing(table[d], n)
    BY <1>2, ClustersFacts DEF Made, Placed, FirstFree, FreeClusters
  <2>2. s \in Slot /\ s.name = n /\ ~Vacant(s)
    BY <2>1, ClustersFacts, MarksAssumption DEF NewEntry, Slot, Vacant
  <2>3. /\ table'[d] = WithEntry(d, i, s)
        /\ \A x \in DOMAIN table' \ {d} :
              table'[x] = IF x \notin DOMAIN table THEN EmptySlots(DirEntries - 2) ELSE table[x]
    BY <1>2 DEF Made
  <2> HIDE DEF s, w
  <2>4. /\ w \in Seq(Slot) /\ Len(w) >= Len(table[d])
        /\ \A j \in 1 .. Len(table[d]) : w[j] = table[d][j]
        /\ \A j \in 1 .. Len(w) : ~Vacant(w[j]) => j \in 1 .. Len(table[d])
    BY <1>1, WithRoomFacts, WithRoomKeeps DEF w
  <2>5. /\ Len(table'[d]) = Len(w) /\ table'[d][i] = s
        /\ \A j \in 1 .. Len(w) : j # i => table'[d][j] = w[j]
    BY <2>1, <2>2, <2>3, <2>4 DEF WithEntry, w
  <2>6. \A j \in 1 .. Len(table[d]) : table[d][j].name # n
    BY <1>1, <2>1, MissingOrdered
  <2>7. Ordered(table'[d])
    <3> SUFFICES ASSUME NEW k \in 1 .. Len(w), ~Vacant(table'[d][k]), NEW j \in 1 .. k - 1
                 PROVE  table'[d][j].name \notin {table'[d][k].name, End}
      BY <2>5 DEF Ordered
    <3>1. j \in 1 .. Len(w) /\ Len(w) \in Nat
      BY <2>4
    <3>2. CASE k = i
      <4>1. ~Vacant(w[j]) /\ table'[d][j] = w[j] /\ w[j] = table[d][j] /\ j \in 1 .. Len(table[d])
        BY <2>1, <2>4, <2>5, <3>1, <3>2 DEF FirstVacant
      <4> QED
        BY <2>2, <2>5, <2>6, <3>2, <4>1 DEF Vacant
    <3>3. CASE k # i
      <4>1. /\ k \in 1 .. Len(table[d]) /\ table'[d][k] = table[d][k]
            /\ j \in 1 .. Len(table[d])
        BY <2>4, <2>5, <3>1, <3>3
      <4>2. CASE j = i
        BY <2>2, <2>5, <2>6, <4>1, <4>2, MarksAssumption
      <4>3. CASE j # i
        BY <1>1, <2>4, <2>5, <3>1, <4>1, <4>3 DEF Ordered
      <4> QED
        BY <4>2, <4>3
    <3> QED
      BY <3>2, <3>3
  <2>8. Ordered(EmptySlots(DirEntries - 2))
    BY EmptySlotsType, SizesAssumption DEF Ordered
  <2> QED
    BY ZenonT(30), <1>1, <2>3, <2>7, <2>8 DEF AllOrdered, Ordered
<1>3. ASSUME NEW d \in DOMAIN table, NEW i \in 1 .. Len(table[d]), Gone(d, i)
      PROVE  AllOrdered'
  <2> DEFINE r == Removed(d, i)
  <2>1. /\ Len(r) = Len(table[d]) /\ Vacant(r[i])
        /\ \A j \in 1 .. Len(table[d]) : j # i => r[j] = table[d][j]
    BY <1>1, RemovedFacts
  <2>2. r[i].name = Deleted
    BY <1>1 DEF Removed, EmptySlot
  <2>3. /\ \A x \in DOMAIN table' \ {d} : x \in DOMAIN table /\ table'[x] = table[x]
        /\ table'[d] = r
    BY <1>3 DEF Gone
  <2> HIDE DEF r
  <2>4. Ordered(r)
    <3> SUFFICES ASSUME NEW k \in 1 .. Len(r), ~Vacant(r[k]), NEW j \in 1 .. k - 1
                 PROVE  r[j].name \notin {r[k].name, End}
      BY DEF Ordered
    <3>1. k # i /\ k \in 1 .. Len(table[d]) /\ j \in 1 .. Len(table[d])
      BY <1>1, <2>1
    <3>2. CASE j = i
      BY <2>2, <3>2, MarksAssumption DEF Vacant
    <3>3. CASE j # i
      BY <1>1, <2>1, <3>1, <3>3 DEF Ordered
    <3> QED
      BY <3>2, <3>3
  <2> QED
    BY <1>1, <2>3, <2>4 DEF AllOrdered, Ordered
<1>4. ASSUME SameSlots, SameNames
      PROVE  AllOrdered'
  BY <1>1, <1>4 DEF SameSlots, SameNames, AllOrdered, Ordered
<1>5. ASSUME NEW d \in DOMAIN table, NEW m \in Names, NEW i \in 1 .. Len(table[d]), Renamed(d, i, m)
      PROVE  AllOrdered'
  <2> DEFINE s == [table[d][i] EXCEPT !.name = m]
             r == [table[d] EXCEPT ![i] = s]
  <2>0. table[d][i] \in Slot
    BY <1>1
  <2>1. s.name = m /\ s \in Slot
    BY <2>0 DEF Slot
  <2>2. table' = [table EXCEPT ![d] = r]
    BY <1>5 DEF Renamed
  <2> HIDE DEF s
  <2>3. /\ Len(r) = Len(table[d]) /\ r[i] = s
        /\ \A j \in 1 .. Len(table[d]) : j # i => r[j] = table[d][j]
    BY <1>1, <2>1
  <2> HIDE DEF r
  <2>4. \A j \in 1 .. Len(table[d]) : table[d][j].name # m
    BY <1>1, <1>5, MissingOrdered DEF Renamed
  <2>5. Ordered(r)
    <3> SUFFICES ASSUME NEW k \in 1 .. Len(r), ~Vacant(r[k]), NEW j \in 1 .. k - 1
                 PROVE  r[j].name \notin {r[k].name, End}
      BY DEF Ordered
    <3>1. k \in 1 .. Len(table[d]) /\ j \in 1 .. Len(table[d]) /\ ~Vacant(table[d][k])
      BY <1>1, <1>5, <2>3 DEF Renamed
    <3>2. table[d][j].name \notin {table[d][k].name, End}
      BY <1>1, <3>1 DEF Ordered
    <3> QED
      BY <2>1, <2>3, <2>4, <3>1, <3>2, MarksAssumption
  <2> QED
    BY ZenonT(30), <1>1, <2>2, <2>5 DEF AllOrdered, Ordered, Inv, TypeOK
<1> QED
  BY <1>2, <1>3, <1>4, <1>5, VolumeEffects DEF Kept

LEMMA OrderedInvariant == Spec => []AllOrdered
<1>1. Init => AllOrdered
  <2> SUFFICES ASSUME Init PROVE AllOrdered
    OBVIOUS
  <2>1. DOMAIN table = {0} /\ table[0] = EmptySlots(RootEntries)
    BY DEF Init
  <2> QED
    BY <2>1, EmptySlotsType, SizesAssumption DEF AllOrdered, Ordered
<1>2. VolumeInv /\ AllOrdered /\ [Next]_vars => AllOrdered'
  BY OrderedNext DEF VolumeInv
<1> QED
  BY <1>1, <1>2, VolumeInvariant, PTL DEF Spec

\* However slots are emptied, reused and renamed, a search of a directory
\* reaches each of its entries.
THEOREM SearchFinds == Spec => []EntriesFound
BY AllOrderedIs, OrderedInvariant, PTL

----------------------------------------------------------------------------
(* Induction: a set of numbers that is not empty has a least element *)

LEMMA LessWellFounded ==
    \E R : IsWellFoundedOn(R, Nat) /\ \A x, y \in Nat : y < x => <<y, x>> \in R
<1> WITNESS OpToRel(<, Nat)
<1>1. IsWellFoundedOn(OpToRel(<, Nat), Nat)
  BY NatLessThanWellFounded
<1>2. \A x, y \in Nat : y < x => <<y, x>> \in OpToRel(<, Nat)
  BY DEF OpToRel
<1> QED
  BY <1>1, <1>2, Zenon

LEMMA Least ==
    ASSUME NEW T \in SUBSET Nat, T # {}
    PROVE  \E x \in T : \A y \in T : x <= y
<1>1. PICK R : IsWellFoundedOn(R, Nat) /\ \A x, y \in Nat : y < x => <<y, x>> \in R
  BY LessWellFounded, Zenon
<1>2. \E x \in T : \A y \in T : ~(<<y, x>> \in R)
  BY <1>1, WFMin
<1>3. \A x, y \in T : ~(<<y, x>> \in R) => x <= y
  BY <1>1
<1> QED
  BY <1>2, <1>3, Zenon

----------------------------------------------------------------------------
(* Walks *)

\* w is the clusters met by k links of f from c.
Steps(f, c, k, w) ==
    /\ w \in [0 .. k -> Clusters] /\ w[0] = c
    /\ \A i \in 1 .. k : w[i] = f[w[i - 1]]

\* k links of f lead from c to x.
Reaches(f, c, k, x) == \E w : Steps(f, c, k, w) /\ w[k] = x

LEMMA StepsInChain ==
    ASSUME NEW f \in [Clusters -> Cells], NEW c \in Clusters, NEW k \in Nat,
           NEW w, Steps(f, c, k, w)
    PROVE  \A i \in 0 .. k : w[i] \in Chain(f, c)
<1> DEFINE T == {i \in 0 .. k : w[i] \notin Chain(f, c)}
<1>1. SUFFICES ASSUME T # {} PROVE FALSE
  OBVIOUS
<1>0. T \in SUBSET Nat
  OBVIOUS
<1>2. PICK i \in T : \A j \in T : i <= j
  BY <1>0, <1>1, Least, Zenon
<1>3. i # 0
  BY ChainClosed DEF Steps
<1>4. i \in 1 .. k /\ i - 1 \in 0 .. k /\ i - 1 \notin T
  BY <1>2, <1>3
<1>5. w[i - 1] \in Chain(f, c) /\ f[w[i - 1]] = w[i] /\ w[i] \in Clusters
  BY <1>4 DEF Steps
<1> QED
  BY <1>5, ChainClosed DEF FollowsFat

\* No walk from the first cluster of a chain comes to a cluster twice.
LEMMA StepsInjective ==
    ASSUME NEW f \in [Clusters -> Cells], NEW c \in Clusters, NEW k \in Nat,
           NEW w, Steps(f, c, k, w),
           LinksSound(f), \A b \in Clusters : f[b] # c
    PROVE  \A i, j \in 0 .. k : w[i] = w[j] => i = j
<1> DEFINE T == {i \in 0 .. k : \E j \in 0 .. k : i < j /\ w[i] = w[j]}
<1>1. ASSUME T # {} PROVE FALSE
  <2>0. T \in SUBSET Nat
    OBVIOUS
  <2>1. PICK i \in T : \A m \in T : i <= m
    BY <1>1, <2>0, Least, Zenon
  <2>2. PICK j \in 0 .. k : i < j /\ w[i] = w[j]
    OBVIOUS
  <2>3. j \in 1 .. k /\ j - 1 \in 0 .. k /\ w[j] = f[w[j - 1]] /\ w[j - 1] \in Clusters /\ w[j] \in Clusters
    BY <2>2 DEF Steps
  <2>4. i # 0
    BY <2>2, <2>3 DEF Steps
  <2>5. i \in 1 .. k /\ i - 1 \in 0 .. k /\ w[i] = f[w[i - 1]] /\ w[i - 1] \in Clusters
    BY <2>4 DEF Steps
  <2>6. w[i - 1] = w[j - 1]
    BY <2>2, <2>3, <2>5 DEF LinksSound
  <2>7. i - 1 \in T
    BY <2>2, <2>3, <2>5, <2>6
  <2> QED
    BY <2>1, <2>7
<1> QED
  BY <1>1

LEMMA ClustersFinite == IsFiniteSet(Clusters)
BY FS_Interval, SizesAssumption DEF Clusters

LEMMA ChainFinite ==
    ASSUME NEW f \in [Clusters -> Cells], NEW c \in Clusters
    PROVE  IsFiniteSet(Chain(f, c)) /\ Cardinality(Chain(f, c)) \in Nat /\ Cardinality(Chain(f, c)) >= 1
<1>1. IsFiniteSet(Chain(f, c)) /\ c \in Chain(f, c)
  BY ClustersFinite, ChainClosed, FS_Subset
<1>2. Cardinality(Chain(f, c)) \in Nat /\ Cardinality(Chain(f, c)) # 0
  BY <1>1, FS_CardinalityType, FS_EmptySet
<1> QED
  BY <1>1, <1>2

\* A chain has a cluster for each place a walk comes to.
LEMMA StepsCount ==
    ASSUME NEW f \in [Clusters -> Cells], NEW c \in Clusters, NEW k \in Nat,
           NEW x, Reaches(f, c, k, x),
           LinksSound(f), \A b \in Clusters : f[b] # c
    PROVE  /\ x \in Chain(f, c)
           /\ k + 1 <= Cardinality(Chain(f, c))
<1>1. PICK w : Steps(f, c, k, w) /\ w[k] = x
  BY DEF Reaches
<1>2. x \in Chain(f, c)
  BY <1>1, StepsInChain
<1>3. w \in Injection(0 .. k, Chain(f, c))
  <2>1. w \in [0 .. k -> Chain(f, c)] /\ DOMAIN w = 0 .. k
    BY <1>1, StepsInChain DEF Steps
  <2>2. \A i, j \in 0 .. k : w[i] = w[j] => i = j
    BY <1>1, StepsInjective
  <2> QED
    BY <2>1, <2>2 DEF Injection, IsInjective
<1>4. Cardinality(0 .. k) = k + 1
  BY FS_Interval
<1> QED
  BY <1>2, <1>3, <1>4, ChainFinite, FS_Injection

\* A walk that is at the end of the chain has met all of it.
LEMMA StepsEnd ==
    ASSUME NEW f \in [Clusters -> Cells], NEW c \in Clusters, NEW k \in Nat,
           NEW x, Reaches(f, c, k, x), f[x] \notin Clusters
    PROVE  Cardinality(Chain(f, c)) <= k + 1
<1>1. PICK w : Steps(f, c, k, w) /\ w[k] = x
  BY DEF Reaches
<1> DEFINE T == {w[i] : i \in 0 .. k}
<1>2. T \in SUBSET Clusters /\ c \in T
  BY <1>1 DEF Steps
<1>3. FollowsFat(f, T)
  <2> SUFFICES ASSUME NEW i \in 0 .. k, f[w[i]] \in Clusters PROVE f[w[i]] \in T
    BY DEF FollowsFat
  <2>1. i + 1 \in 1 .. k /\ (i + 1) - 1 = i
    BY <1>1
  <2>2. f[w[i]] = w[i + 1]
    BY <1>1, <2>1 DEF Steps
  <2> QED
    BY <2>1, <2>2
<1>4. w \in Surjection(0 .. k, T)
  BY <1>1 DEF Surjection, Steps
<1> HIDE DEF T
<1>5. Chain(f, c) \subseteq T
  BY <1>2, <1>3, ChainLeast
<1>6. IsFiniteSet(T) /\ Cardinality(T) <= k + 1 /\ Cardinality(T) \in Nat
  BY <1>4, FS_Interval, FS_Surjection, FS_CardinalityType
<1> QED
  BY <1>5, <1>6, FS_Subset, ChainFinite

\* No link leads nowhere else.
LEMMA StepsNone ==
    ASSUME NEW f, NEW c \in Clusters
    PROVE  Reaches(f, c, 0, c)
<1> DEFINE w == [j \in 0 .. 0 |-> c]
<1>1. w \in [0 .. 0 -> Clusters] /\ w[0] = c
  OBVIOUS
<1> HIDE DEF w
<1>2. Steps(f, c, 0, w)
  BY <1>1 DEF Steps
<1> QED
  BY <1>1, <1>2 DEF Reaches

\* One link more.
LEMMA StepsMore ==
    ASSUME NEW f \in [Clusters -> Cells], NEW c \in Clusters, NEW k \in Nat,
           NEW x, Reaches(f, c, k, x), f[x] \in Clusters
    PROVE  Reaches(f, c, k + 1, f[x])
<1>1. PICK w : Steps(f, c, k, w) /\ w[k] = x
  BY DEF Reaches
<1> DEFINE v == [i \in 0 .. k + 1 |-> IF i = k + 1 THEN f[x] ELSE w[i]]
<1>2. \A i \in 0 .. k : w[i] \in Clusters
  BY <1>1 DEF Steps
<1>3. /\ v \in [0 .. k + 1 -> Clusters] /\ v[k + 1] = f[x]
      /\ \A i \in 0 .. k : v[i] = w[i]
  BY <1>2
<1> HIDE DEF v
<1>4. Steps(f, c, k + 1, v)
  <2>1. v[0] = c
    BY <1>1, <1>3 DEF Steps
  <2>2. \A i \in 1 .. k + 1 : v[i] = f[v[i - 1]]
    <3> TAKE i \in 1 .. k + 1
    <3>1. i - 1 \in 0 .. k
      OBVIOUS
    <3> QED
      BY <1>1, <1>3, <3>1 DEF Steps
  <2> QED
    BY <1>3, <2>1, <2>2 DEF Steps
<1> QED
  BY <1>3, <1>4 DEF Reaches

\* A walk depends on the links of its own chain only.
LEMMA StepsKept ==
    ASSUME NEW f \in [Clusters -> Cells], NEW g \in [Clusters -> Cells], NEW c \in Clusters,
           NEW k \in Nat, NEW x, Reaches(f, c, k, x),
           \A b \in Chain(f, c) : f[b] \in Clusters => g[b] = f[b]
    PROVE  Reaches(g, c, k, x)
<1>1. PICK w : Steps(f, c, k, w) /\ w[k] = x
  BY DEF Reaches
<1>2. Steps(g, c, k, w)
  <2>1. ASSUME NEW i \in 1 .. k PROVE w[i] = g[w[i - 1]]
    <3>1. i \in 0 .. k /\ i - 1 \in 0 .. k
      OBVIOUS
    <3>2. w[i] = f[w[i - 1]] /\ w[i] \in Clusters /\ w[i - 1] \in Chain(f, c)
      BY <1>1, <3>1, StepsInChain DEF Steps
    <3> QED
      BY <3>2
  <2> QED
    BY <1>1, <2>1 DEF Steps
<1> QED
  BY <1>1, <1>2 DEF Reaches

\* The loop of fat16_seek stays in the chain for as long as there is one.
LEMMA WalkSteps ==
    ASSUME fat \in [Clusters -> Cells], NEW c \in Clusters, NEW k \in Nat,
           NEW w \in [0 .. k -> Cells], Walk(c, k, w),
           k < Cardinality(Chain(fat, c))
    PROVE  Steps(fat, c, k, w)
<1> DEFINE T == {i \in 0 .. k : w[i] \notin Clusters}
<1>1. ASSUME T # {} PROVE FALSE
  <2>0. T \in SUBSET Nat
    OBVIOUS
  <2>1. PICK i \in T : \A m \in T : i <= m
    BY <1>1, <2>0, Least, Zenon
  <2>2. i # 0
    BY DEF Walk
  <2> DEFINE n == i - 1
  <2>3. n \in Nat /\ n + 1 <= k /\ i = n + 1
    BY <2>2
  <2> HIDE DEF n
  <2>4. \A j \in 0 .. n : w[j] \in Clusters
    <3> TAKE j \in 0 .. n
    <3>1. j \in 0 .. k /\ j < i
      BY <2>3
    <3> QED
      BY <2>1, <3>1
  <2>5. \A j \in 1 .. n + 1 : w[j] = fat[w[j - 1]]
    <3> TAKE j \in 1 .. n + 1
    <3>1. j \in 1 .. k /\ j - 1 \in 0 .. n
      BY <2>3
    <3> QED
      BY <2>4, <3>1 DEF Walk
  <2> DEFINE v == [j \in 0 .. n |-> w[j]]
  <2>6. Steps(fat, c, n, v) /\ v[n] = w[n]
    <3>1. v \in [0 .. n -> Clusters] /\ v[0] = c /\ v[n] = w[n]
      BY <2>3, <2>4 DEF Walk
    <3>2. \A j \in 1 .. n : v[j] = fat[v[j - 1]]
      <4> TAKE j \in 1 .. n
      <4>1. j \in 0 .. n /\ j - 1 \in 0 .. n /\ j \in 1 .. n + 1
        BY <2>3
      <4> QED
        BY <2>5, <4>1
    <3> HIDE DEF v
    <3> QED
      BY <3>1, <3>2 DEF Steps
  <2>7. Reaches(fat, c, n, w[n]) /\ fat[w[n]] \notin Clusters
    <3>1. fat[w[n]] = w[i]
      BY <2>3, <2>5
    <3> QED
      BY <2>6, <3>1, Zenon DEF Reaches
  <2>8. Cardinality(Chain(fat, c)) <= n + 1
    BY <2>3, <2>7, StepsEnd
  <2> QED
    BY <2>3, <2>8, ChainFinite
<1>2. \A i \in 0 .. k : w[i] \in Clusters
  BY <1>1
<1>3. w \in [0 .. k -> Clusters]
  BY <1>2
<1>4. \A i \in 1 .. k : w[i] = fat[w[i - 1]]
  <2> TAKE i \in 1 .. k
  <2>1. i - 1 \in 0 .. k
    OBVIOUS
  <2> QED
    BY <1>2, <2>1 DEF Walk
<1> QED
  BY <1>3, <1>4 DEF Steps, Walk

\* What links lead to, the loop of fat16_seek finds.
LEMMA StepsWalk ==
    ASSUME fat \in [Clusters -> Cells], NEW c \in Clusters, NEW k \in Nat,
           NEW x, Reaches(fat, c, k, x)
    PROVE  \E w \in [0 .. k -> Cells] : Walk(c, k, w) /\ w[k] = x
<1>1. PICK w : Steps(fat, c, k, w) /\ w[k] = x
  BY DEF Reaches
<1>2. w \in [0 .. k -> Cells] /\ \A i \in 0 .. k : w[i] \in Clusters
  BY <1>1, ClustersFacts DEF Steps
<1>3. Walk(c, k, w)
  <2>1. ASSUME NEW i \in 1 .. k PROVE w[i] = fat[w[i - 1]] /\ w[i - 1] \in Clusters
    <3>1. i - 1 \in 0 .. k
      OBVIOUS
    <3> QED
      BY <1>1, <1>2, <3>1 DEF Steps
  <2> QED
    BY <1>1, <2>1 DEF Walk, Steps
<1> QED
  BY <1>1, <1>2, <1>3

----------------------------------------------------------------------------
(* The bytes of n clusters *)

Room(n) == n * ClusterSize

LEMMA RoomFacts ==
    /\ \A n \in Nat : Room(n) \in Nat /\ Room(n + 1) = Room(n) + ClusterSize
    /\ Room(0) = 0 /\ Room(1) = ClusterSize
BY SizesAssumption DEF Room

LEMMA RoomGrows ==
    ASSUME NEW m \in Nat, NEW n \in Nat
    PROVE  /\ m <= n => Room(m) <= Room(n)
           /\ Room(m) < Room(n) => m < n
           /\ m < n => Room(m) + ClusterSize <= Room(n)
<1>1. \A a, b \in Nat : a <= b => Room(a) <= Room(b)
  <2> SUFFICES ASSUME NEW a \in Nat, NEW b \in Nat, a <= b PROVE Room(a) <= Room(b)
    OBVIOUS
  <2>1. b - a \in Nat /\ (b - a) * ClusterSize \in Nat
    BY SizesAssumption
  <2>2. Room(b) - Room(a) = (b - a) * ClusterSize
    BY SizesAssumption DEF Room
  <2> QED
    BY <2>1, <2>2, RoomFacts
<1>2. m < n => m + 1 <= n /\ m + 1 \in Nat
  OBVIOUS
<1>3. m < n => Room(m) + ClusterSize <= Room(n)
  BY <1>1, <1>2, RoomFacts
<1>4. ~(m < n) => Room(n) <= Room(m)
  BY <1>1
<1>5. Room(m) < Room(n) => m < n
  BY <1>4, RoomFacts
<1> QED
  BY <1>1, <1>3, <1>5

\* A position is in the cluster its quotient by the cluster size counts.
LEMMA RoomOf ==
    ASSUME NEW p \in Nat
    PROVE  /\ p \div ClusterSize \in Nat
           /\ p % ClusterSize \in 0 .. ClusterSize - 1
           /\ p = Room(p \div ClusterSize) + (p % ClusterSize)
<1>1. p \div ClusterSize \in Nat /\ p % ClusterSize \in 0 .. ClusterSize - 1
  BY SizesAssumption
<1>2. p = ClusterSize * (p \div ClusterSize) + (p % ClusterSize)
  BY SizesAssumption
<1> QED
  BY <1>1, <1>2, SizesAssumption DEF Room

LEMMA RoomDiv ==
    ASSUME NEW k \in Nat
    PROVE  Room(k) \div ClusterSize = k
BY SizesAssumption DEF Room

----------------------------------------------------------------------------
(* Chains after a call *)

\* A head: an allocated cluster that no link leads to.
IsHead(f, c) == c \in Clusters /\ f[c] # FAT16_FREE /\ \A b \in Clusters : f[b] # c

LEMMA HeadsOfEntries ==
    ASSUME Inv
    PROVE  /\ fat \in [Clusters -> Cells] /\ LinksSound(fat)
           /\ \A e \in EntriesOf(table) : IsHead(fat, FirstIn(table, e))
           /\ \A e, g \in EntriesOf(table) : FirstIn(table, e) = FirstIn(table, g) => e = g
BY DEF Inv, TypeOK, ChainsSound, HeadsSound, HeadsDistinct, IsHead

\* Linking a free cluster behind the last one of the chain of a makes that
\* chain one longer and leaves the other ones as they are.
LEMMA LinkedChains ==
    ASSUME NEW f \in [Clusters -> Cells], LinksSound(f), NEW a, IsHead(f, a),
           NEW last \in Chain(f, a), NEW new \in Clusters,
           IsEof(f[last]), f[new] = FAT16_FREE
    PROVE  LET g == Linked(f, last, new)
           IN  /\ g \in [Clusters -> Cells]
               /\ \A b \in Clusters : f[b] \in Clusters => g[b] = f[b]
               /\ Cardinality(Chain(g, a)) = Cardinality(Chain(f, a)) + 1
               /\ \A c : IsHead(f, c) /\ c # a => Chain(g, c) = Chain(f, c)
<1> DEFINE g == Linked(f, last, new)
<1>1. a \in Clusters /\ last \in Clusters
  BY ChainClosed DEF IsHead
<1>2. /\ g \in [Clusters -> Cells] /\ \A b \in Clusters \ {last, new} : g[b] = f[b]
      /\ \A b \in Clusters : f[b] \in Clusters => g[b] = f[b]
  BY <1>1, LinkedMark
<1>3. Chain(g, a) = Chain(f, a) \cup {new} /\ new \notin Chain(f, a)
  BY <1>1, ChainExtended DEF IsHead
<1>4. Cardinality(Chain(g, a)) = Cardinality(Chain(f, a)) + 1
  <2>1. IsFiniteSet(Chain(f, a))
    BY <1>1, ChainFinite
  <2>2. Cardinality(Chain(f, a) \cup {new}) = Cardinality(Chain(f, a)) + 1
    BY <1>3, <2>1, FS_AddElement
  <2> QED
    BY <1>3, <2>2
<1> HIDE DEF g
<1>5. ASSUME NEW c, IsHead(f, c), c # a
      PROVE  Chain(g, c) = Chain(f, c)
  <2>1. c \in Clusters /\ Chain(f, c) \cap Chain(f, a) = {}
    BY <1>1, <1>5, ChainsDisjoint DEF IsHead
  <2>2. Chain(f, c) \subseteq Clusters /\ \A x \in Chain(f, c) : f[x] # FAT16_FREE
    BY <1>5, <2>1, ChainClosed, ChainAllocated DEF IsHead
  <2> QED
    BY <1>2, <2>1, <2>2, ChainSame
<1> QED
  BY <1>2, <1>4, <1>5 DEF g

\* What create and mkdir do to the chains: the new entry's is one cluster, that
\* of an extended directory grows by one, and the others stay.
LEMMA MadeChains ==
    ASSUME Inv, Rooted, NEW d \in DOMAIN table, NEW n \in Names, NEW isDir \in BOOLEAN,
           NEW c, NEW i, Made(d, i, c, n, isDir)
    PROVE  /\ fat' \in [Clusters -> Cells]
           /\ \A b \in Clusters : fat[b] \in Clusters => fat'[b] = fat[b]
           /\ Cardinality(Chain(fat', c)) = 1
           /\ \A x : IsHead(fat, x) /\ ~(x = d /\ Extends(d)) => Chain(fat', x) = Chain(fat, x)
           /\ Extends(d) => Cardinality(Chain(fat', d)) = Cardinality(Chain(fat, d)) + 1
<1> DEFINE f == Terminated(fat, c)
<1>1. c \in Clusters /\ fat[c] = FAT16_FREE
  BY ClustersFacts DEF Made, Placed, FirstFree, FreeClusters
<1>2. fat \in [Clusters -> Cells] /\ LinksSound(fat)
  BY HeadsOfEntries
<1>3. /\ f \in [Clusters -> Cells] /\ LinksSound(f)
      /\ f[c] = FAT16_EOF_MIN /\ \A b \in Clusters : f[b] # c
      /\ \A b \in Clusters \ {c} : f[b] = fat[b]
      /\ \A b \in Clusters : fat[b] \in Clusters => f[b] = fat[b]
  <2>1. /\ f \in [Clusters -> Cells] /\ LinksSound(f)
        /\ f[c] = FAT16_EOF_MIN /\ \A b \in Clusters : f[b] # c
    BY <1>1, <1>2, TerminateFree DEF Inv, ChainsSound
  <2>2. \A b \in Clusters \ {c} : f[b] = fat[b]
    BY <1>1, <1>2 DEF Terminated
  <2> HIDE DEF f
  <2> QED
    BY <1>1, <2>1, <2>2, ClustersFacts
<1> HIDE DEF f
<1>4. IsHead(f, c)
  BY <1>1, <1>3, ClustersFacts DEF IsHead
<1>5. Cardinality(Chain(f, c)) = 1
  <2>1. FollowsFat(f, {c})
    BY <1>3, ClustersFacts DEF FollowsFat
  <2>2. Chain(f, c) \subseteq {c} /\ c \in Chain(f, c)
    <3>1. {c} \in SUBSET Clusters /\ c \in {c}
      BY <1>1
    <3> QED
      BY <1>1, <1>3, <2>1, <3>1, ChainLeast, ChainClosed
  <2>3. Chain(f, c) = {c}
    BY <2>2
  <2> QED
    BY <2>3, FS_Singleton
<1>6. ASSUME NEW x, IsHead(fat, x)
      PROVE  IsHead(f, x) /\ x # c /\ Chain(f, x) = Chain(fat, x)
  <2>1. x \in Clusters /\ x # c /\ IsHead(f, x)
    BY <1>1, <1>3, <1>6, ClustersFacts DEF IsHead
  <2>2. c \notin Chain(fat, x) /\ Chain(fat, x) \subseteq Clusters
    BY <1>1, <1>2, <1>6, <2>1, ChainAllocated, ChainClosed DEF IsHead
  <2> QED
    BY <1>2, <1>3, <2>1, <2>2, ChainSame
<1>7. CASE ~Extends(d)
  <2>1. fat' = f
    BY <1>7 DEF Made, Placed, FatWithRoom, f
  <2> QED
    BY <1>3, <1>5, <1>6, <1>7, <2>1
<1>8. CASE Extends(d)
  <2>1. PICK last \in Chain(f, d), new \in FreeClusters(f) :
           IsEof(f[last]) /\ fat' = Linked(f, last, new)
    BY <1>8 DEF Made, Placed, FatWithRoom, f
  <2>2. IsHead(fat, d)
    <3>1. \E e \in EntriesOf(table) : FirstIn(table, e) = d
      BY <1>8 DEF Extends, Rooted
    <3> QED
      BY <3>1, HeadsOfEntries
  <2>3. IsHead(f, d) /\ d # c /\ Chain(f, d) = Chain(fat, d)
    BY <1>6, <2>2
  <2>4. new \in Clusters /\ f[new] = FAT16_FREE
    BY <2>1, ClustersFacts DEF FreeClusters
  <2>5. /\ fat' \in [Clusters -> Cells]
        /\ \A b \in Clusters : f[b] \in Clusters => fat'[b] = f[b]
        /\ Cardinality(Chain(fat', d)) = Cardinality(Chain(f, d)) + 1
        /\ \A x : IsHead(f, x) /\ x # d => Chain(fat', x) = Chain(f, x)
    BY <1>3, <2>1, <2>3, <2>4, LinkedChains
  <2>6. \A b \in Clusters : fat[b] \in Clusters => fat'[b] = fat[b]
    BY <1>3, <2>5
  <2>7. \A x : IsHead(fat, x) /\ x # d => Chain(fat', x) = Chain(fat, x)
    BY <1>6, <2>5
  <2>8. Cardinality(Chain(fat', c)) = 1
    BY <1>4, <1>5, <2>3, <2>5
  <2> QED
    BY <1>8, <2>3, <2>5, <2>6, <2>7, <2>8
<1> QED
  BY <1>7, <1>8

\* What delete and rmdir do to the chains: the other entries' stay.
LEMMA GoneChains ==
    ASSUME Inv, Rooted, NEW d \in DOMAIN table, NEW i \in 1 .. Len(table[d]), Gone(d, i)
    PROVE  /\ fat' \in [Clusters -> Cells]
           /\ \A e \in EntriesOf(table) : e # <<d, i>> =>
                 /\ \A b \in Chain(fat, FirstIn(table, e)) : fat'[b] = fat[b]
                 /\ Chain(fat', FirstIn(table, e)) = Chain(fat, FirstIn(table, e))
<1> DEFINE h == table[d][i].first
<1>1. /\ <<d, i>> \in EntriesOf(table) /\ FirstIn(table, <<d, i>>) = h
      /\ fat' = ChainFreed(fat, h)
  BY GoneEntries DEF Gone
<1>2. fat \in [Clusters -> Cells] /\ LinksSound(fat) /\ IsHead(fat, h)
  BY <1>1, HeadsOfEntries
<1>3. /\ fat' \in [Clusters -> Cells]
      /\ \A x \in Clusters : fat'[x] = IF x \in Chain(fat, h) THEN FAT16_FREE ELSE fat[x]
  BY <1>1, <1>2, ClustersFacts DEF ChainFreed
<1>4. ASSUME NEW e \in EntriesOf(table), e # <<d, i>>
      PROVE  /\ \A b \in Chain(fat, FirstIn(table, e)) : fat'[b] = fat[b]
             /\ Chain(fat', FirstIn(table, e)) = Chain(fat, FirstIn(table, e))
  <2> DEFINE y == FirstIn(table, e)
  <2>1. IsHead(fat, y) /\ y # h
    BY <1>1, <1>4, HeadsOfEntries
  <2> HIDE DEF y, h
  <2>2. y \in Clusters /\ Chain(fat, y) \cap Chain(fat, h) = {} /\ Chain(fat, y) \subseteq Clusters
    BY <1>2, <2>1, ChainsDisjoint, ChainClosed DEF IsHead
  <2>3. \A b \in Chain(fat, y) : fat'[b] = fat[b]
    BY <1>3, <2>2
  <2> QED
    BY <1>2, <1>3, <2>2, <2>3, ChainSame DEF y
<1> QED
  BY <1>3, <1>4
----------------------------------------------------------------------------
(* The invariant *)

SizeIn(t, e) == t[e[1]][e[2]].size
Slots(n)     == n * DirEntries

\* The chain of every entry is as long as it has to be.
LongEnough(f, t) ==
    \A e \in EntriesOf(t) :
       IF DirIn(t, e)
       THEN Slots(Cardinality(Chain(f, FirstIn(t, e)))) = Len(t[FirstIn(t, e)]) + 2
       ELSE SizeIn(t, e) <= Room(Cardinality(Chain(f, FirstIn(t, e))))

\* The handle o is on the entry of a file.
OnEntry(t, o) ==
    /\ <<o.dir, o.slot>> \in EntriesOf(t)
    /\ ~DirIn(t, <<o.dir, o.slot>>) /\ FirstIn(t, <<o.dir, o.slot>>) = o.first

\* And in the cluster its position lies in or ends, of a chain that holds all
\* the bytes it knows of.
AtPlace(f, o) ==
    /\ o.first \in Clusters
    /\ o.cpos <= ClusterSize /\ o.pos <= o.size
    /\ o.size <= Room(Cardinality(Chain(f, o.first)))
    /\ \E k \in Nat : o.pos = Room(k) + o.cpos /\ Reaches(f, o.first, k, o.cur)

HandlesPlaced ==
    \A h \in Handles : Usable(h) => OnEntry(table, file[h]) /\ AtPlace(fat, file[h])

PlaceInv == VolumeInv /\ LongEnough(fat, table) /\ HandlesPlaced

LEMMA SlotsFacts ==
    /\ \A n \in Nat : Slots(n) \in Nat /\ Slots(n + 1) = Slots(n) + DirEntries
    /\ Slots(1) = DirEntries
BY SizesAssumption DEF Slots

\* A handle stays in its place while the links of its chain stay.
LEMMA PlaceKept ==
    ASSUME NEW f \in [Clusters -> Cells], NEW g \in [Clusters -> Cells],
           NEW o \in Handle, AtPlace(f, o),
           \A b \in Chain(f, o.first) : f[b] \in Clusters => g[b] = f[b],
           Cardinality(Chain(g, o.first)) >= Cardinality(Chain(f, o.first))
    PROVE  AtPlace(g, o)
<1> DEFINE m == Cardinality(Chain(f, o.first))
           n == Cardinality(Chain(g, o.first))
<1>1. o.first \in Clusters /\ o.size \in Nat
  BY DEF AtPlace, Handle
<1>2. m \in Nat /\ n \in Nat /\ m <= n
  BY <1>1, ChainFinite
<1>3. o.size <= Room(m)
  BY DEF AtPlace
<1> HIDE DEF m, n
<1>4. o.size <= Room(n)
  <2>1. Room(m) \in Nat /\ Room(n) \in Nat /\ Room(m) <= Room(n)
    BY <1>2, RoomGrows, RoomFacts
  <2> QED
    BY <1>1, <1>3, <2>1
<1>5. PICK k \in Nat : o.pos = Room(k) + o.cpos /\ Reaches(f, o.first, k, o.cur)
  BY DEF AtPlace
<1>6. Reaches(g, o.first, k, o.cur)
  BY <1>1, <1>5, StepsKept
<1> QED
  BY <1>1, <1>4, <1>5, <1>6 DEF AtPlace, n

\* A handle just opened is at the first byte.
LEMMA StartPlace ==
    ASSUME NEW f \in [Clusters -> Cells], NEW d, NEW i, NEW c \in Clusters, NEW n \in Nat,
           n <= Room(Cardinality(Chain(f, c)))
    PROVE  AtPlace(f, AtStart(d, i, c, n))
<1>1. Reaches(f, c, 0, c)
  BY StepsNone
<1> DEFINE o == AtStart(d, i, c, n)
<1>2. o.first = c /\ o.cur = c /\ o.pos = 0 /\ o.cpos = 0 /\ o.size = n
  BY DEF AtStart
<1> HIDE DEF o
<1>3. o.pos = Room(0) + o.cpos
  BY <1>2, RoomFacts
<1>4. o.cpos <= ClusterSize /\ o.pos <= o.size
  BY <1>2, SizesAssumption
<1>5. \E k \in Nat : o.pos = Room(k) + o.cpos /\ Reaches(f, o.first, k, o.cur)
  <2> WITNESS 0 \in Nat
  <2> QED
    BY <1>1, <1>2, <1>3
<1> QED
  BY <1>2, <1>4, <1>5 DEF AtPlace, o

LEMMA WithRoomLength ==
    ASSUME NEW d \in DOMAIN table, table[d] \in Seq(Slot)
    PROVE  Len(WithRoom(d)) = IF Extends(d) THEN Len(table[d]) + DirEntries ELSE Len(table[d])
<1> DEFINE more == EmptySlots(DirEntries)
<1>1. more \in Seq(Slot) /\ Len(more) = DirEntries
  BY EmptySlotsType, SizesAssumption
<1> HIDE DEF more
<1>2. Len(table[d] \o more) = Len(table[d]) + DirEntries
  BY <1>1
<1> QED
  BY <1>2 DEF WithRoom, more

\* create and mkdir.
LEMMA MadePlaced ==
    ASSUME Inv, Rooted, LongEnough(fat, table),
           NEW d \in DOMAIN table, NEW n \in Names, NEW isDir \in BOOLEAN,
           NEW c, NEW i, Made(d, i, c, n, isDir)
    PROVE  /\ LongEnough(fat', table')
           /\ \A o \in Handle : OnEntry(table, o) /\ AtPlace(fat, o) =>
                 OnEntry(table', o) /\ AtPlace(fat', o)
           /\ ~isDir => LET o == AtStart(d, i, c, 0)
                        IN  OnEntry(table', o) /\ AtPlace(fat', o)
<1> DEFINE s == NewEntry(n, isDir, c)
<1>1. /\ c \in Clusters /\ c \notin DOMAIN table /\ fat[c] = FAT16_FREE
      /\ <<d, i>> \notin EntriesOf(table)
      /\ EntriesOf(table') = EntriesOf(table) \cup {<<d, i>>}
      /\ FirstIn(table', <<d, i>>) = c /\ DirIn(table', <<d, i>>) = isDir
      /\ \A e \in EntriesOf(table) :
            /\ table'[e[1]][e[2]] = table[e[1]][e[2]]
            /\ FirstIn(table', e) = FirstIn(table, e) /\ DirIn(table', e) = DirIn(table, e)
  BY MadeEntries
<1>2. /\ fat' \in [Clusters -> Cells]
      /\ \A b \in Clusters : fat[b] \in Clusters => fat'[b] = fat[b]
      /\ Cardinality(Chain(fat', c)) = 1
      /\ \A x : IsHead(fat, x) /\ ~(x = d /\ Extends(d)) => Chain(fat', x) = Chain(fat, x)
      /\ Extends(d) => Cardinality(Chain(fat', d)) = Cardinality(Chain(fat, d)) + 1
  BY MadeChains
<1>3. /\ fat \in [Clusters -> Cells] /\ LinksSound(fat)
      /\ \A e \in EntriesOf(table) : IsHead(fat, FirstIn(table, e))
  BY HeadsOfEntries
<1>4. s \in Slot /\ s.size = 0
  BY <1>1, ClustersFacts DEF NewEntry, Slot
<1>5. /\ table[d] \in Seq(Slot) /\ i \in 1 .. Len(WithRoom(d))
      /\ table'[d] = WithEntry(d, i, s)
      /\ \A x \in DOMAIN table' \ {d} :
            table'[x] = IF x \notin DOMAIN table THEN EmptySlots(DirEntries - 2) ELSE table[x]
      /\ DOMAIN table' = IF isDir THEN DOMAIN table \cup {c} ELSE DOMAIN table
  BY DEF Made, Inv, TypeOK
<1> HIDE DEF s
<1>6. /\ table'[d][i] = s
      /\ Len(table'[d]) = IF Extends(d) THEN Len(table[d]) + DirEntries ELSE Len(table[d])
  BY <1>4, <1>5, WithEntryFacts, WithRoomLength
<1>7. \A x : IsHead(fat, x) => Cardinality(Chain(fat', x)) >= Cardinality(Chain(fat, x))
  <2> TAKE x
  <2> SUFFICES ASSUME IsHead(fat, x) PROVE Cardinality(Chain(fat', x)) >= Cardinality(Chain(fat, x))
    OBVIOUS
  <2>1. x \in Clusters
    BY DEF IsHead
  <2>2. Cardinality(Chain(fat, x)) \in Nat
    BY <1>3, <2>1, ChainFinite
  <2> QED
    BY <1>2, <2>2
<1>8. LongEnough(fat', table')
  <2>1. ASSUME NEW e \in EntriesOf(table)
        PROVE  IF DirIn(table', e)
               THEN Slots(Cardinality(Chain(fat', FirstIn(table', e)))) = Len(table'[FirstIn(table', e)]) + 2
               ELSE SizeIn(table', e) <= Room(Cardinality(Chain(fat', FirstIn(table', e))))
    <3> DEFINE x == FirstIn(table, e)
               m == Cardinality(Chain(fat, x))
               l == Cardinality(Chain(fat', x))
    <3>1. /\ FirstIn(table', e) = x /\ DirIn(table', e) = DirIn(table, e)
          /\ SizeIn(table', e) = SizeIn(table, e) /\ IsHead(fat, x)
      BY <1>1, <1>3 DEF SizeIn
    <3>2. m \in Nat /\ l \in Nat /\ m <= l
      BY <1>2, <1>3, <1>7, <3>1, ChainFinite DEF IsHead
    <3>3. /\ Extends(d) /\ x = d => l = m + 1
          /\ ~(Extends(d) /\ x = d) => l = m
      BY <1>2, <3>1
    <3>4. /\ DirIn(table, e) => Slots(m) = Len(table[x]) + 2 /\ x \in DOMAIN table
          /\ ~DirIn(table, e) => SizeIn(table, e) <= Room(m)
      BY RootedFacts DEF LongEnough
    <3>5. SizeIn(table, e) \in Nat
      <4>1. table[e[1]][e[2]] \in Slot
        BY EntryParts DEF Inv, TypeOK
      <4> QED
        BY <4>1 DEF SizeIn, Slot
    <3> HIDE DEF x, m, l
    <3>6. CASE ~DirIn(table, e)
      <4>1. SizeIn(table, e) <= Room(l)
        BY <3>2, <3>4, <3>5, <3>6, RoomGrows, RoomFacts
      <4> QED
        BY <3>1, <3>6, <4>1 DEF l
    <3>7. CASE DirIn(table, e)
      <4>1. x \in DOMAIN table /\ x \in DOMAIN table' /\ table[x] \in Seq(Slot)
        BY <1>5, <3>4, <3>7 DEF Inv, TypeOK
      <4>2. Len(table'[x]) = IF Extends(d) /\ x = d THEN Len(table[x]) + DirEntries ELSE Len(table[x])
        BY <1>5, <1>6, <4>1
      <4>3. Len(table[x]) \in Nat /\ Slots(m) = Len(table[x]) + 2
        BY <3>4, <3>7, <4>1
      <4>4. CASE Extends(d) /\ x = d
        <5>1. l = m + 1 /\ Slots(m + 1) = Slots(m) + DirEntries
          BY <3>2, <3>3, <4>4, SlotsFacts
        <5>2. Slots(l) = Len(table'[x]) + 2
          BY <4>2, <4>3, <4>4, <5>1, SizesAssumption
        <5> QED
          BY <3>1, <3>7, <5>2 DEF l
      <4>5. CASE ~(Extends(d) /\ x = d)
        <5>1. Slots(l) = Len(table'[x]) + 2
          BY <3>3, <4>2, <4>3, <4>5
        <5> QED
          BY <3>1, <3>7, <5>1 DEF l
      <4> QED
        BY <4>4, <4>5
    <3> QED
      BY <3>6, <3>7
  <2>2. ~isDir => SizeIn(table', <<d, i>>) <= Room(1)
    <3>1. SizeIn(table', <<d, i>>) = 0
      BY <1>4, <1>6, Zenon DEF SizeIn
    <3> QED
      BY <3>1, RoomFacts, SizesAssumption
  <2>3. isDir => Slots(1) = Len(table'[c]) + 2
    <3>1. isDir => table'[c] = EmptySlots(DirEntries - 2)
      BY <1>1, <1>5
    <3>2. DirEntries - 2 \in Nat
      BY SizesAssumption
    <3>3. Len(EmptySlots(DirEntries - 2)) = DirEntries - 2
      BY <3>2, EmptySlotsType, Zenon
    <3>4. Slots(1) = (DirEntries - 2) + 2
      BY SlotsFacts, SizesAssumption
    <3> QED
      BY <3>1, <3>3, <3>4, Zenon
  <2> QED
    BY <1>1, <1>2, <2>1, <2>2, <2>3 DEF LongEnough
<1>9. ASSUME NEW o \in Handle, OnEntry(table, o), AtPlace(fat, o)
      PROVE  OnEntry(table', o) /\ AtPlace(fat', o)
  <2>1. IsHead(fat, o.first)
    BY <1>3, <1>9 DEF OnEntry
  <2>2. Chain(fat, o.first) \subseteq Clusters
    BY <1>3, <2>1, ChainClosed DEF IsHead
  <2>3. AtPlace(fat', o)
    BY <1>2, <1>3, <1>7, <1>9, <2>1, <2>2, PlaceKept
  <2>4. OnEntry(table', o)
    BY <1>1, <1>9 DEF OnEntry
  <2> QED
    BY <2>3, <2>4
<1>10. ASSUME ~isDir
       PROVE  LET o == AtStart(d, i, c, 0) IN OnEntry(table', o) /\ AtPlace(fat', o)
  <2> DEFINE o == AtStart(d, i, c, 0)
  <2>1. o.dir = d /\ o.slot = i /\ o.first = c
    BY DEF AtStart
  <2>2. AtPlace(fat', o)
    BY <1>1, <1>2, RoomFacts, StartPlace, SizesAssumption
  <2> HIDE DEF o
  <2>3. OnEntry(table', o)
    BY <1>1, <1>10, <2>1 DEF OnEntry
  <2> QED
    BY <2>2, <2>3 DEF o
<1> QED
  BY <1>8, <1>9, <1>10
\* delete and rmdir.
LEMMA GonePlaced ==
    ASSUME Inv, Rooted, LongEnough(fat, table),
           NEW d \in DOMAIN table, NEW i \in 1 .. Len(table[d]), Gone(d, i)
    PROVE  /\ LongEnough(fat', table')
           /\ \A o \in Handle :
                 OnEntry(table, o) /\ AtPlace(fat, o) /\ <<o.dir, o.slot>> # <<d, i>> =>
                 OnEntry(table', o) /\ AtPlace(fat', o)
<1>1. /\ <<d, i>> \in EntriesOf(table)
      /\ EntriesOf(table') = EntriesOf(table) \ {<<d, i>>}
      /\ \A e \in EntriesOf(table') :
            /\ table'[e[1]][e[2]] = table[e[1]][e[2]]
            /\ FirstIn(table', e) = FirstIn(table, e) /\ DirIn(table', e) = DirIn(table, e)
  BY GoneEntries
<1>2. /\ fat' \in [Clusters -> Cells]
      /\ \A e \in EntriesOf(table) : e # <<d, i>> =>
            /\ \A b \in Chain(fat, FirstIn(table, e)) : fat'[b] = fat[b]
            /\ Chain(fat', FirstIn(table, e)) = Chain(fat, FirstIn(table, e))
  BY GoneChains
<1>3. /\ fat \in [Clusters -> Cells]
      /\ \A e \in EntriesOf(table) : IsHead(fat, FirstIn(table, e))
      /\ \A e, g \in EntriesOf(table) : FirstIn(table, e) = FirstIn(table, g) => e = g
  BY HeadsOfEntries
<1>4. /\ DOMAIN table' = IF table[d][i].dir THEN DOMAIN table \ {table[d][i].first} ELSE DOMAIN table
      /\ \A x \in DOMAIN table' : Len(table'[x]) = Len(table[x])
      /\ FirstIn(table, <<d, i>>) = table[d][i].first
  <2>1. /\ table'[d] = Removed(d, i) /\ \A x \in DOMAIN table' \ {d} : table'[x] = table[x]
        /\ table[d] \in Seq(Slot)
    BY DEF Gone, Inv, TypeOK
  <2>2. Len(Removed(d, i)) = Len(table[d])
    BY <2>1, RemovedFacts
  <2> QED
    BY <2>1, <2>2, GoneEntries DEF Gone
<1>5. LongEnough(fat', table')
  <2> SUFFICES ASSUME NEW e \in EntriesOf(table')
               PROVE  IF DirIn(table', e)
                      THEN Slots(Cardinality(Chain(fat', FirstIn(table', e)))) = Len(table'[FirstIn(table', e)]) + 2
                      ELSE SizeIn(table', e) <= Room(Cardinality(Chain(fat', FirstIn(table', e))))
    BY DEF LongEnough
  <2> DEFINE x == FirstIn(table, e)
  <2>1. /\ e \in EntriesOf(table) /\ e # <<d, i>>
        /\ FirstIn(table', e) = x /\ DirIn(table', e) = DirIn(table, e)
        /\ SizeIn(table', e) = SizeIn(table, e)
        /\ Chain(fat', x) = Chain(fat, x)
    BY <1>1, <1>2 DEF SizeIn
  <2>2. DirIn(table, e) => Len(table'[x]) = Len(table[x])
    <3>1. DirIn(table, e) => x \in DOMAIN table
      BY <2>1, RootedFacts
    <3>2. x # FirstIn(table, <<d, i>>)
      BY <1>1, <1>3, <2>1
    <3> QED
      BY <1>4, <3>1, <3>2
  <2>3. IF DirIn(table, e) THEN Slots(Cardinality(Chain(fat, x))) = Len(table[x]) + 2
                           ELSE SizeIn(table, e) <= Room(Cardinality(Chain(fat, x)))
    BY <2>1 DEF LongEnough
  <2> HIDE DEF x
  <2> QED
    BY <2>1, <2>2, <2>3
<1>6. ASSUME NEW o \in Handle, OnEntry(table, o), AtPlace(fat, o), <<o.dir, o.slot>> # <<d, i>>
      PROVE  OnEntry(table', o) /\ AtPlace(fat', o)
  <2> DEFINE e == <<o.dir, o.slot>>
  <2>1. e \in EntriesOf(table) /\ e # <<d, i>> /\ FirstIn(table, e) = o.first /\ ~DirIn(table, e)
    BY <1>6 DEF OnEntry
  <2> HIDE DEF e
  <2>2. /\ o.first \in Clusters /\ Chain(fat', o.first) = Chain(fat, o.first)
        /\ \A b \in Chain(fat, o.first) : fat'[b] = fat[b]
        /\ Cardinality(Chain(fat, o.first)) \in Nat
    BY <1>2, <1>3, <2>1, ChainFinite DEF IsHead
  <2>3. AtPlace(fat', o)
    BY <1>2, <1>3, <1>6, <2>2, PlaceKept
  <2>4. e \in EntriesOf(table') /\ FirstIn(table', e) = o.first /\ ~DirIn(table', e)
    BY <1>1, <2>1
  <2> QED
    BY <2>3, <2>4 DEF OnEntry, e
<1> QED
  BY <1>5, <1>6

SameSizes ==
    \A x \in DOMAIN table : \A j \in 1 .. Len(table[x]) : table'[x][j].size = table[x][j].size

\* rename, and the calls that leave the volume as it is.
LEMMA SamePlaced ==
    ASSUME Inv, Rooted, LongEnough(fat, table), Kept, SameSizes, fat' = fat
    PROVE  /\ LongEnough(fat', table')
           /\ \A o : OnEntry(table, o) => OnEntry(table', o)
<1>1. /\ EntriesOf(table') = EntriesOf(table)
      /\ \A e \in EntriesOf(table) :
            FirstIn(table', e) = FirstIn(table, e) /\ DirIn(table', e) = DirIn(table, e)
  BY KeptEntries
<1>2. \A e \in EntriesOf(table) : SizeIn(table', e) = SizeIn(table, e)
  BY EntryParts DEF SameSizes, SizeIn
<1>3. \A x \in DOMAIN table : Len(table'[x]) = Len(table[x])
  BY DEF Kept, SameSlots
<1>4. LongEnough(fat', table')
  BY <1>1, <1>2, <1>3, RootedFacts DEF LongEnough
<1> QED
  BY <1>1, <1>4 DEF OnEntry
LEMMA RenameSizes ==
    ASSUME Inv, NEW d \in DOMAIN table, NEW n \in Names, NEW m \in Names, Rename(d, n, m)
    PROVE  SameSizes /\ fat' = fat
<1>1. PICK i \in 1 .. Len(table[d]) :
         /\ \/ table' = [table EXCEPT ![d][i].name = m]
            \/ table' = table
         /\ fat' = fat
  BY DEF Rename
<1>2. CASE table' = table
  BY <1>1, <1>2 DEF SameSizes
<1>3. CASE table' = [table EXCEPT ![d][i].name = m]
  <2> DEFINE s == [table[d][i] EXCEPT !.name = m]
  <2>1. \A x \in DOMAIN table : table[x] \in Seq(Slot)
    BY DEF Inv, TypeOK
  <2>2. table[d][i] \in Slot
    BY <2>1
  <2>3. s.size = table[d][i].size
    BY <2>2 DEF Slot
  <2>4. table' = [table EXCEPT ![d] = [@ EXCEPT ![i] = s]]
    BY <1>3
  <2> HIDE DEF s
  <2>5. SameSizes
    BY <2>1, <2>3, <2>4 DEF SameSizes
  <2> QED
    BY <1>1, <2>5
<1> QED
  BY <1>1, <1>2, <1>3

\* The cluster and the offset one chunk of fat16_write goes to.
LEMMA WriteTarget ==
    ASSUME Inv, Rooted, NEW h \in Handles, Usable(h), OnEntry(table, file[h]), AtPlace(fat, file[h]),
           NEW bs \in Chunks, Write(h, bs)
    PROVE  \E c \in Clusters, p \in Nat, k \in Nat :
              /\ Put(h, c, p, bs)
              /\ fat' \in [Clusters -> Cells]
              /\ \A b \in Clusters : fat[b] \in Clusters => fat'[b] = fat[b]
              /\ \A e \in EntriesOf(table) : FirstIn(table, e) # file[h].first =>
                    Chain(fat', FirstIn(table, e)) = Chain(fat, FirstIn(table, e))
              /\ Cardinality(Chain(fat', file[h].first)) >= Cardinality(Chain(fat, file[h].first))
              /\ Cardinality(Chain(fat', file[h].first)) # Cardinality(Chain(fat, file[h].first)) =>
                    Cardinality(Chain(fat', file[h].first)) = k + 1 /\ p = 0
              /\ Reaches(fat', file[h].first, k, c) /\ file[h].pos = Room(k) + p
              /\ k + 1 <= Cardinality(Chain(fat', file[h].first))
<1> DEFINE o == file[h]
           a == o.first
<1>1. o \in Handle
  BY DEF Usable, Inv, TypeOK
<1>2. /\ fat \in [Clusters -> Cells] /\ LinksSound(fat) /\ IsHead(fat, a)
      /\ \A e \in EntriesOf(table) : IsHead(fat, FirstIn(table, e))
  BY HeadsOfEntries DEF OnEntry
<1>3. /\ a \in Clusters /\ o.cpos \in Nat /\ o.pos \in Nat /\ o.cpos <= ClusterSize
      /\ Cardinality(Chain(fat, a)) \in Nat
  BY <1>1, <1>2, ChainFinite DEF AtPlace, Handle
<1>4. PICK k \in Nat : o.pos = Room(k) + o.cpos /\ Reaches(fat, a, k, o.cur)
  BY DEF AtPlace
<1>5. o.cur \in Chain(fat, a) /\ o.cur \in Clusters /\ k + 1 <= Cardinality(Chain(fat, a))
  BY <1>2, <1>3, <1>4, StepsCount, ChainClosed DEF IsHead
<1>6. CASE Put(h, o.cur, o.cpos, bs) /\ fat' = fat
  BY <1>2, <1>3, <1>4, <1>5, <1>6
<1>7. ASSUME o.cpos >= ClusterSize
      PROVE  k + 1 \in Nat /\ o.pos = Room(k + 1) + 0
  <2>1. o.cpos = ClusterSize
    BY <1>3, <1>7, SizesAssumption
  <2>2. Room(k + 1) = Room(k) + ClusterSize /\ Room(k) \in Nat /\ Room(k + 1) \in Nat
    BY RoomFacts
  <2> QED
    BY <1>4, <2>1, <2>2
<1>8. CASE o.cpos >= ClusterSize /\ fat[o.cur] \in Clusters /\ Put(h, fat[o.cur], 0, bs) /\ fat' = fat
  <2> DEFINE c == fat[o.cur]
             l == k + 1
  <2>1. Reaches(fat, a, l, c)
    BY <1>2, <1>3, <1>4, <1>8, StepsMore
  <2>2. l \in Nat /\ o.pos = Room(l) + 0
    BY <1>7, <1>8
  <2>3. c \in Clusters /\ 0 \in Nat /\ Put(h, c, 0, bs) /\ fat' = fat
    BY <1>8
  <2> HIDE DEF l, c
  <2>4. l + 1 <= Cardinality(Chain(fat, a))
    BY <1>2, <1>3, <2>1, <2>2, StepsCount DEF IsHead
  <2> QED
    BY <1>2, <1>3, <2>1, <2>2, <2>3, <2>4
<1>9. ASSUME o.cpos >= ClusterSize, IsEof(fat[o.cur]), NEW c \in FreeClusters(fat),
             fat' = Linked(fat, o.cur, c), Put(h, c, 0, bs)
      PROVE  \E x \in Clusters, p \in Nat, l \in Nat :
              /\ Put(h, x, p, bs)
              /\ fat' \in [Clusters -> Cells]
              /\ \A b \in Clusters : fat[b] \in Clusters => fat'[b] = fat[b]
              /\ \A e \in EntriesOf(table) : FirstIn(table, e) # a =>
                    Chain(fat', FirstIn(table, e)) = Chain(fat, FirstIn(table, e))
              /\ Cardinality(Chain(fat', a)) >= Cardinality(Chain(fat, a))
              /\ Cardinality(Chain(fat', a)) # Cardinality(Chain(fat, a)) =>
                    Cardinality(Chain(fat', a)) = l + 1 /\ p = 0
              /\ Reaches(fat', a, l, x) /\ o.pos = Room(l) + p
              /\ l + 1 <= Cardinality(Chain(fat', a))
  <2> DEFINE l == k + 1
  <2>1. c \in Clusters /\ fat[c] = FAT16_FREE
    BY ClustersFacts DEF FreeClusters
  <2>2. /\ fat' \in [Clusters -> Cells]
        /\ \A b \in Clusters : fat[b] \in Clusters => fat'[b] = fat[b]
        /\ Cardinality(Chain(fat', a)) = Cardinality(Chain(fat, a)) + 1
        /\ \A x : IsHead(fat, x) /\ x # a => Chain(fat', x) = Chain(fat, x)
    BY <1>2, <1>5, <1>9, <2>1, LinkedChains
  <2>3. fat'[o.cur] = c
    BY <1>2, <1>5, <1>9, <2>1, LinkedMark
  <2>4. Chain(fat, a) \subseteq Clusters
    BY <1>2, <1>3, ChainClosed
  <2>5. Reaches(fat', a, k, o.cur)
    BY <1>2, <1>3, <1>4, <2>2, <2>4, StepsKept
  <2>6. Reaches(fat', a, l, c)
    BY <1>3, <2>1, <2>2, <2>3, <2>5, StepsMore
  <2>7. l \in Nat /\ o.pos = Room(l) + 0
    BY <1>7, <1>9
  <2>8. /\ l + 1 <= Cardinality(Chain(fat', a)) /\ Cardinality(Chain(fat', a)) >= Cardinality(Chain(fat, a))
        /\ Cardinality(Chain(fat', a)) = l + 1
    <3>1. fat[o.cur] \notin Clusters
      BY <1>9, SizesAssumption DEF IsEof, Clusters, FAT16_EOF_MIN
    <3>2. Cardinality(Chain(fat, a)) <= k + 1
      BY <1>2, <1>3, <1>4, <3>1, StepsEnd
    <3> QED
      BY <1>3, <1>5, <2>2, <3>2
  <2>9. \A e \in EntriesOf(table) : FirstIn(table, e) # a =>
           Chain(fat', FirstIn(table, e)) = Chain(fat, FirstIn(table, e))
    BY <1>2, <2>2
  <2> HIDE DEF l, a, o
  <2>10. 0 \in Nat
    OBVIOUS
  <2> QED
    BY <1>9, <2>1, <2>2, <2>6, <2>7, <2>8, <2>9, <2>10
<1> QED
  BY <1>6, <1>8, <1>9 DEF Write
\* What one chunk does to the handle and to the slots.
LEMMA PutEffect ==
    ASSUME Inv, NEW h \in Handles, Usable(h), OnEntry(table, file[h]),
           NEW c \in Clusters, NEW p \in Nat, NEW bs \in Chunks, Put(h, c, p, bs)
    PROVE  LET o == file[h]
               q == o.pos + Len(bs)
           IN  /\ Len(bs) \in 1 .. ClusterSize /\ p + Len(bs) <= ClusterSize
               /\ file' = [file EXCEPT ![h] = file'[h]]
               /\ file'[h] = [o EXCEPT !.cur = c, !.pos = q, !.cpos = p + Len(bs), !.size = Larger(q, o.size)]
               /\ SameSlots /\ SameNames
               /\ \A e \in EntriesOf(table) :
                     SizeIn(table', e) =
                        IF e = <<o.dir, o.slot>> /\ q > o.size THEN q ELSE SizeIn(table, e)
               /\ UNCHANGED stray
<1> DEFINE o == file[h]
           q == o.pos + Len(bs)
           d == o.dir
           i == o.slot
<1>1. Len(bs) \in 1 .. ClusterSize
  BY SizesAssumption DEF Chunks
<1>2. /\ file' = [file EXCEPT ![h] =
                    [o EXCEPT !.cur = c, !.pos = q, !.cpos = p + Len(bs), !.size = Larger(q, o.size)]]
      /\ p + Len(bs) <= ClusterSize /\ UNCHANGED stray
      /\ table' = IF q > o.size THEN Resized(d, i, q) ELSE table
  BY DEF Put
<1>3. file \in [Handles -> Handle \cup {Closed, Orphan}]
  BY DEF Inv, TypeOK
<1>4. /\ d \in DOMAIN table /\ i \in 1 .. Len(table[d])
  BY EntriesDef DEF OnEntry
<1>5. \A e \in EntriesOf(table) : e = <<e[1], e[2]>> /\ e[1] \in DOMAIN table /\ e[2] \in 1 .. Len(table[e[1]])
  BY EntryParts
<1> HIDE DEF o, q, d, i
<1>6. CASE ~(q > o.size)
  <2>1. table' = table
    BY <1>2, <1>6
  <2>2. SameSlots /\ SameNames /\ \A e \in EntriesOf(table) : SizeIn(table', e) = SizeIn(table, e)
    BY <2>1 DEF SameSlots, SameNames
  <2>3. file' = [file EXCEPT ![h] = file'[h]]
    BY <1>2, <1>3
  <2>4. file'[h] = [o EXCEPT !.cur = c, !.pos = q, !.cpos = p + Len(bs), !.size = Larger(q, o.size)]
    BY <1>2, <1>3
  <2> QED
    BY <1>1, <1>2, <1>6, <2>2, <2>3, <2>4 DEF o, q
<1>7. CASE q > o.size
  <2> DEFINE s == [table[d][i] EXCEPT !.size = q]
  <2>1. \A x \in DOMAIN table : table[x] \in Seq(Slot)
    BY DEF Inv, TypeOK
  <2>2. table[d][i] \in Slot
    BY <1>4, <2>1
  <2>3. /\ s.size = q /\ s.name = table[d][i].name /\ s.first = table[d][i].first
        /\ s.dir = table[d][i].dir /\ (Vacant(s) <=> Vacant(table[d][i]))
    BY <2>2 DEF Slot, Vacant
  <2>4. table' = [table EXCEPT ![d] = [@ EXCEPT ![i] = s]]
    BY <1>2, <1>7 DEF Resized
  <2> HIDE DEF s
  <2>5. /\ DOMAIN table' = DOMAIN table /\ table'[d] = [table[d] EXCEPT ![i] = s]
        /\ \A x \in DOMAIN table \ {d} : table'[x] = table[x]
    BY <1>4, <2>4
  <2>6. /\ Len(table'[d]) = Len(table[d]) /\ table'[d][i] = s
        /\ \A j \in 1 .. Len(table[d]) : j # i => table'[d][j] = table[d][j]
    BY <1>4, <2>1, <2>5
  <2>7. SameSlots /\ SameNames
    BY <2>3, <2>5, <2>6 DEF SameSlots, SameNames
  <2>8. ASSUME NEW e \in EntriesOf(table)
        PROVE  SizeIn(table', e) = IF e = <<d, i>> /\ q > o.size THEN q ELSE SizeIn(table, e)
    <3>1. CASE e = <<d, i>>
      <4>1. e[1] = d /\ e[2] = i
        BY <3>1
      <4> QED
        BY <1>7, <2>3, <2>6, <3>1, <4>1 DEF SizeIn
    <3>2. CASE e # <<d, i>>
      <4>1. e[1] # d \/ e[2] # i
        BY <1>5, <3>2, Zenon
      <4>2. table'[e[1]][e[2]] = table[e[1]][e[2]]
        BY <1>5, <2>5, <2>6, <4>1
      <4> QED
        BY <3>2, <4>2 DEF SizeIn
    <3> QED
      BY <3>1, <3>2
  <2>9. /\ file' = [file EXCEPT ![h] = file'[h]]
        /\ file'[h] = [o EXCEPT !.cur = c, !.pos = q, !.cpos = p + Len(bs), !.size = Larger(q, o.size)]
    BY <1>2, <1>3
  <2> QED
    BY <1>1, <1>2, <2>7, <2>8, <2>9 DEF o, q, d, i
<1> QED
  BY <1>6, <1>7

\* One chunk of fat16_write.
LEMMA WritePlaced ==
    ASSUME Inv, Rooted, LongEnough(fat, table), HandlesPlaced,
           NEW h \in Handles, NEW bs \in Chunks, Write(h, bs)
    PROVE  LongEnough(fat', table') /\ HandlesPlaced' /\ UNCHANGED stray
<1> DEFINE o == file[h]
           a == o.first
           q == o.pos + Len(bs)
           m == Cardinality(Chain(fat, a))
           n == Cardinality(Chain(fat', a))
<1>1. Usable(h) /\ o \in Handle /\ OnEntry(table, o) /\ AtPlace(fat, o)
  BY DEF Write, Usable, Inv, TypeOK, HandlesPlaced
<1>2. PICK c \in Clusters, p \in Nat, k \in Nat :
         /\ Put(h, c, p, bs)
         /\ fat' \in [Clusters -> Cells]
         /\ \A b \in Clusters : fat[b] \in Clusters => fat'[b] = fat[b]
         /\ \A e \in EntriesOf(table) : FirstIn(table, e) # a =>
               Chain(fat', FirstIn(table, e)) = Chain(fat, FirstIn(table, e))
         /\ n >= m
         /\ n # m => n = k + 1 /\ p = 0
         /\ Reaches(fat', a, k, c) /\ o.pos = Room(k) + p
         /\ k + 1 <= n
  BY <1>1, WriteTarget
<1>3. /\ Len(bs) \in 1 .. ClusterSize /\ p + Len(bs) <= ClusterSize
      /\ file' = [file EXCEPT ![h] = file'[h]]
      /\ file'[h] = [o EXCEPT !.cur = c, !.pos = q, !.cpos = p + Len(bs), !.size = Larger(q, o.size)]
      /\ SameSlots /\ SameNames
      /\ \A e \in EntriesOf(table) :
            SizeIn(table', e) =
               IF e = <<o.dir, o.slot>> /\ q > o.size THEN q ELSE SizeIn(table, e)
      /\ UNCHANGED stray
  BY <1>1, <1>2, PutEffect
<1>4. /\ EntriesOf(table') = EntriesOf(table)
      /\ \A e \in EntriesOf(table) :
            FirstIn(table', e) = FirstIn(table, e) /\ DirIn(table', e) = DirIn(table, e)
  BY <1>3, WriteEffect, KeptEntries
<1>5. /\ fat \in [Clusters -> Cells]
      /\ \A e \in EntriesOf(table) : IsHead(fat, FirstIn(table, e))
      /\ \A e, g \in EntriesOf(table) : FirstIn(table, e) = FirstIn(table, g) => e = g
  BY HeadsOfEntries
<1>6. a \in Clusters /\ m \in Nat /\ n \in Nat /\ o.pos \in Nat /\ o.size \in Nat /\ o.size <= Room(m)
  BY <1>1, <1>2, <1>5, ChainFinite DEF AtPlace, Handle
<1>7. /\ q \in Nat /\ q <= Room(n) /\ Room(m) <= Room(n) /\ Room(m) \in Nat /\ Room(n) \in Nat
  <2> DEFINE len == Len(bs)
             pos == o.pos
  <2>0. /\ q = pos + len /\ pos = Room(k) + p /\ p + len <= ClusterSize
        /\ len \in Nat /\ pos \in Nat /\ Room(k) \in Nat
    BY <1>2, <1>3, <1>6, RoomFacts, SizesAssumption
  <2> HIDE DEF q, len, pos, m, n
  <2>1. q <= Room(k) + ClusterSize /\ q \in Nat
    BY <2>0, SizesAssumption
  <2>2. Room(k) + ClusterSize <= Room(n) /\ Room(n) \in Nat
    BY <1>2, <1>6, RoomFacts, RoomGrows
  <2>4. Room(k) + ClusterSize \in Nat
    BY <2>0, SizesAssumption
  <2>3. Room(m) <= Room(n) /\ Room(m) \in Nat /\ Room(n) \in Nat
    BY <1>2, <1>6, RoomFacts, RoomGrows
  <2>5. q <= Room(n)
    BY <2>1, <2>2, <2>4
  <2> QED
    BY <2>1, <2>3, <2>5
<1>8. AtPlace(fat', file'[h]) /\ OnEntry(table', file'[h])
  <2> DEFINE r == file'[h]
             len == Len(bs)
  <2>1. /\ r.dir = o.dir /\ r.slot = o.slot /\ r.first = a /\ r.cur = c
        /\ r.pos = q /\ r.cpos = p + len /\ r.size = Larger(q, o.size)
    BY <1>1, <1>3 DEF Handle
  <2>2. q <= Larger(q, o.size) /\ Larger(q, o.size) <= Room(n) /\ p + len <= ClusterSize
    BY SMTT(30), <1>3, <1>6, <1>7 DEF Larger
  <2>3. q = Room(k) + (p + len)
    BY <1>2, <1>3, <1>6, RoomFacts
  <2> HIDE DEF r, q, a, n, len
  <2>4. AtPlace(fat', r)
    BY <1>2, <1>6, <2>1, <2>2, <2>3 DEF AtPlace, n
  <2>5. OnEntry(table', r)
    BY <1>1, <1>4, <2>1 DEF OnEntry, a
  <2> QED
    BY <2>4, <2>5 DEF r
<1>9. LongEnough(fat', table')
  <2> SUFFICES ASSUME NEW e \in EntriesOf(table)
               PROVE  IF DirIn(table', e)
                      THEN Slots(Cardinality(Chain(fat', FirstIn(table', e)))) = Len(table'[FirstIn(table', e)]) + 2
                      ELSE SizeIn(table', e) <= Room(Cardinality(Chain(fat', FirstIn(table', e))))
    BY <1>4 DEF LongEnough
  <2> DEFINE x == FirstIn(table, e)
  <2>1. /\ FirstIn(table', e) = x /\ DirIn(table', e) = DirIn(table, e)
        /\ SizeIn(table', e) = IF e = <<o.dir, o.slot>> /\ q > o.size THEN q ELSE SizeIn(table, e)
    BY <1>3, <1>4
  <2>2. DirIn(table, e) => Len(table'[x]) = Len(table[x])
    BY <1>3, RootedFacts DEF SameSlots
  <2>3. IF DirIn(table, e) THEN Slots(Cardinality(Chain(fat, x))) = Len(table[x]) + 2
                           ELSE SizeIn(table, e) <= Room(Cardinality(Chain(fat, x)))
    BY DEF LongEnough
  <2>4. x # a => Chain(fat', x) = Chain(fat, x) /\ e # <<o.dir, o.slot>>
    BY <1>1, <1>2 DEF OnEntry
  <2>5. x = a => e = <<o.dir, o.slot>> /\ ~DirIn(table, e)
    BY <1>1, <1>5 DEF OnEntry
  <2>6. SizeIn(table, e) \in Nat
    <3>1. table[e[1]][e[2]] \in Slot
      BY EntryParts DEF Inv, TypeOK
    <3> QED
      BY <3>1 DEF SizeIn, Slot
  <2> HIDE DEF x, a, q, m, n, o
  <2>7. CASE x # a
    BY <2>1, <2>2, <2>3, <2>4, <2>7
  <2>8. CASE x = a
    <3>1. SizeIn(table, e) <= Room(m)
      BY <2>3, <2>5, <2>8 DEF m
    <3>2. SizeIn(table', e) <= Room(n)
      BY <1>7, <2>1, <2>6, <3>1
    <3> QED
      BY <2>1, <2>5, <2>8, <3>2 DEF n
  <2> QED
    BY <2>7, <2>8
<1>10. ASSUME NEW g \in Handles, g # h, file'[g] \notin {Closed, Orphan}
       PROVE  OnEntry(table', file'[g]) /\ AtPlace(fat', file'[g])
  <2>1. file'[g] = file[g] /\ file[g] \in Handle
    BY <1>3, <1>10 DEF Inv, TypeOK
  <2> DEFINE r == file[g]
  <2>2. OnEntry(table, r) /\ AtPlace(fat, r)
    BY <1>10, <2>1 DEF HandlesPlaced, Usable
  <2>3. /\ r.first \in Clusters /\ Chain(fat, r.first) \subseteq Clusters
        /\ Cardinality(Chain(fat', r.first)) >= Cardinality(Chain(fat, r.first))
    <3>1. PICK e \in EntriesOf(table) : FirstIn(table, e) = r.first
      BY <2>2 DEF OnEntry
    <3>2. r.first \in Clusters
      BY <2>2 DEF AtPlace
    <3>3. Cardinality(Chain(fat, r.first)) \in Nat /\ Chain(fat, r.first) \subseteq Clusters
      BY <1>5, <3>2, ChainFinite, ChainClosed
    <3> QED
      BY <1>2, <3>1, <3>2, <3>3
  <2> HIDE DEF r
  <2>4. AtPlace(fat', r)
    BY <1>2, <1>5, <2>1, <2>2, <2>3, PlaceKept DEF r
  <2>5. OnEntry(table', r)
    BY <1>4, <2>2 DEF OnEntry
  <2> QED
    BY <2>1, <2>4, <2>5 DEF r
<1>11. HandlesPlaced'
  BY <1>8, <1>10 DEF HandlesPlaced, Usable
<1> QED
  BY <1>3, <1>9, <1>11
\* A handle that moves within its file, as fat16_read and fat16_seek move it.
LEMMA MovedPlace ==
    ASSUME NEW o \in Handle, OnEntry(table, o), AtPlace(fat, o),
           NEW c, NEW l \in Nat, NEW p \in Nat, NEW pos,
           Reaches(fat, o.first, l, c), pos = Room(l) + p, p <= ClusterSize, pos <= o.size,
           NEW r, r.dir = o.dir, r.slot = o.slot, r.first = o.first, r.size = o.size,
           r.cur = c, r.cpos = p, r.pos = pos
    PROVE  OnEntry(table, r) /\ AtPlace(fat, r)
<1>1. OnEntry(table, r)
  BY DEF OnEntry
<1>2. AtPlace(fat, r)
  BY DEF AtPlace
<1> QED
  BY <1>1, <1>2

\* Before the end of the file there is another cluster behind a full one.
LEMMA NextCluster ==
    ASSUME fat \in [Clusters -> Cells], LinksSound(fat), NEW o \in Handle,
           IsHead(fat, o.first), AtPlace(fat, o),
           o.cpos >= ClusterSize, o.pos < o.size
    PROVE  /\ o.cur \in Clusters /\ fat[o.cur] \in Clusters
           /\ \E l \in Nat : o.pos = Room(l) + 0 /\ Reaches(fat, o.first, l, fat[o.cur])
<1> DEFINE m == Cardinality(Chain(fat, o.first))
<1>1. o.first \in Clusters /\ m \in Nat /\ o.cpos \in Nat /\ o.pos \in Nat /\ o.size \in Nat
  BY ChainFinite DEF AtPlace, Handle
<1>2. o.cpos = ClusterSize /\ o.size <= Room(m)
  BY <1>1, SizesAssumption DEF AtPlace
<1>3. PICK k \in Nat : o.pos = Room(k) + o.cpos /\ Reaches(fat, o.first, k, o.cur)
  BY DEF AtPlace
<1>4. o.cur \in Chain(fat, o.first) /\ Chain(fat, o.first) \subseteq Clusters
  BY <1>1, <1>3, StepsCount, ChainClosed DEF IsHead
<1>5. k + 1 \in Nat /\ o.pos = Room(k + 1) + 0 /\ Room(k + 1) \in Nat /\ Room(m) \in Nat
  BY <1>1, <1>2, <1>3, RoomFacts
<1> HIDE DEF m
<1>6. k + 1 < m
  <2>1. Room(k + 1) < Room(m)
    BY <1>1, <1>2, <1>5
  <2> QED
    BY <1>1, <1>5, <2>1, RoomGrows
<1>7. fat[o.cur] \in Clusters
  <2>1. ASSUME fat[o.cur] \notin Clusters PROVE m <= k + 1
    BY <1>1, <1>3, <2>1, StepsEnd DEF m
  <2> QED
    BY <1>1, <1>6, <2>1
<1>8. Reaches(fat, o.first, k + 1, fat[o.cur])
  BY <1>1, <1>3, <1>7, StepsMore
<1> QED
  BY <1>4, <1>5, <1>7, <1>8

\* One chunk of fat16_read.
LEMMA ReadPlaced ==
    ASSUME Inv, Rooted, HandlesPlaced,
           NEW h \in Handles, NEW n \in 1 .. ClusterSize, Read(h, n)
    PROVE  /\ UNCHANGED <<fat, table, stray>>
           /\ \A g \in Handles \ {h} : file'[g] = file[g]
           /\ OnEntry(table, file'[h]) /\ AtPlace(fat, file'[h])
<1> DEFINE o    == file[h]
           next == o.cpos >= ClusterSize
           c    == IF next /\ o.cur \in Clusters THEN fat[o.cur] ELSE o.cur
           p    == IF next THEN 0 ELSE o.cpos
           k    == Smaller(ClusterSize - p, Smaller((o.size - o.pos) % WordSize, n))
<1>1. Usable(h) /\ o \in Handle /\ OnEntry(table, o) /\ AtPlace(fat, o)
  BY DEF Read, Usable, Inv, TypeOK, HandlesPlaced
<1>2. fat \in [Clusters -> Cells] /\ LinksSound(fat) /\ IsHead(fat, o.first)
  BY <1>1, HeadsOfEntries DEF OnEntry
<1>3. UNCHANGED <<fat, table>>
  BY DEF Read
<1>4. CASE o.pos >= o.size
  <2>1. UNCHANGED <<file, stray>>
    BY <1>4 DEF Read
  <2> QED
    BY <1>1, <1>3, <2>1
<1>5. CASE ~(o.pos >= o.size)
  <2>1. o.pos \in Nat /\ o.size \in Nat /\ o.cpos \in Nat /\ o.pos < o.size
    BY <1>1, <1>5 DEF Handle
  <2>2. /\ c \in Clusters /\ p \in Nat /\ p <= ClusterSize
        /\ \E l \in Nat : o.pos = Room(l) + p /\ Reaches(fat, o.first, l, c)
    <3>1. CASE next
      BY <1>1, <1>2, <2>1, <3>1, NextCluster, SizesAssumption
    <3>2. CASE ~next
      <4>1. PICK l \in Nat : o.pos = Room(l) + o.cpos /\ Reaches(fat, o.first, l, o.cur)
        BY <1>1 DEF AtPlace
      <4>2. o.first \in Clusters
        BY <1>2 DEF IsHead
      <4>3. o.cur \in Clusters
        BY <1>2, <4>1, <4>2, StepsCount, ChainClosed DEF IsHead
      <4>4. o.cpos <= ClusterSize
        BY <1>1 DEF AtPlace
      <4> QED
        BY <2>1, <3>2, <4>1, <4>3, <4>4
    <3> QED
      BY <3>1, <3>2
  <2>3. /\ file' = [file EXCEPT ![h].cur = c, ![h].cpos = p + k, ![h].pos = o.pos + k]
        /\ UNCHANGED stray
    <3>1. ~IsEof(c)
      BY <2>2, ClustersFacts
    <3> QED
      BY <1>5, <2>2, <3>1 DEF Read
  <2>4. k \in Nat /\ k <= ClusterSize - p /\ k <= o.size - o.pos
    <3> DEFINE rest == (o.size - o.pos) % WordSize
    <3>1. rest \in Nat /\ rest <= o.size - o.pos
      BY <2>1, SizesAssumption
    <3> HIDE DEF rest, p
    <3>2. k \in Nat /\ k <= ClusterSize - p /\ k <= rest
      BY <2>2, <3>1, SizesAssumption DEF Smaller, rest
    <3> HIDE DEF k
    <3> QED
      BY <2>1, <3>1, <3>2
  <2>5. PICK l \in Nat : o.pos = Room(l) + p /\ Reaches(fat, o.first, l, c)
    BY <2>2
  <2>6. /\ file'[h] = [o EXCEPT !.cur = c, !.cpos = p + k, !.pos = o.pos + k]
        /\ \A g \in Handles \ {h} : file'[g] = file[g]
    BY <2>3 DEF Inv, TypeOK
  <2> HIDE DEF c, p, k
  <2> DEFINE cpos == p + k
             pos  == o.pos + k
  <2>7. cpos \in Nat /\ cpos <= ClusterSize /\ pos <= o.size /\ pos = Room(l) + cpos
    <3>1. Room(l) \in Nat
      BY RoomFacts
    <3> QED
      BY <2>1, <2>2, <2>4, <2>5, <3>1, SizesAssumption
  <2> DEFINE r == file'[h]
  <2>8. /\ r.dir = o.dir /\ r.slot = o.slot /\ r.first = o.first /\ r.size = o.size
        /\ r.cur = c /\ r.cpos = cpos /\ r.pos = pos
    BY <1>1, <2>6 DEF Handle
  <2> HIDE DEF o, cpos, pos
  <2>9. OnEntry(table, file'[h]) /\ AtPlace(fat, file'[h])
    BY <1>1, <2>5, <2>7, <2>8, MovedPlace
  <2> QED
    BY <1>3, <2>3, <2>6, <2>9
<1> QED
  BY <1>4, <1>5

\* fat16_seek, but not to the end of a file of whole clusters.
LEMMA SeekPlaced ==
    ASSUME Inv, Rooted, HandlesPlaced,
           NEW h \in Handles, NEW pos \in Int, Seek(h, pos), ~AtBoundary(file[h], pos)
    PROVE  /\ UNCHANGED <<fat, table, stray>>
           /\ \A g \in Handles \ {h} : file'[g] = file[g]
           /\ OnEntry(table, file'[h]) /\ AtPlace(fat, file'[h])
<1> DEFINE o == file[h]
           k == pos \div ClusterSize
           p == pos % ClusterSize
           m == Cardinality(Chain(fat, o.first))
<1>1. Usable(h) /\ o \in Handle /\ OnEntry(table, o) /\ AtPlace(fat, o)
  BY DEF Seek, Usable, Inv, TypeOK, HandlesPlaced
<1>2. fat \in [Clusters -> Cells] /\ LinksSound(fat) /\ IsHead(fat, o.first)
  BY <1>1, HeadsOfEntries DEF OnEntry
<1>3. UNCHANGED <<fat, table, stray>>
  BY DEF Seek
<1>4. CASE pos \notin 0 .. o.size
  <2>1. UNCHANGED file
    BY <1>4 DEF Seek
  <2> QED
    BY <1>1, <1>3, <2>1
<1>5. CASE pos \in 0 .. o.size
  <2>1. PICK w \in [0 .. k -> Cells] :
           /\ Walk(o.first, k, w)
           /\ file' = [file EXCEPT ![h].cur = w[k], ![h].pos = pos, ![h].cpos = p]
    BY <1>5, Zenon DEF Seek
  <2>2. o.first \in Clusters /\ m \in Nat /\ m >= 1 /\ o.size \in Nat /\ o.size <= Room(m)
    BY <1>1, <1>2, ChainFinite DEF AtPlace, Handle
  <2>3. pos \in Nat /\ pos <= o.size
    BY <1>5, <2>2
  <2>4. k \in Nat /\ p \in 0 .. ClusterSize - 1 /\ pos = Room(k) + p
    BY <2>3, RoomOf
  <2>5. pos = o.size => pos = 0 \/ p # 0
    BY <2>3 DEF AtBoundary
  <2> HIDE DEF k, p, m
  <2>6. k < m
    <3>1. Room(k) \in Nat /\ Room(m) \in Nat /\ Room(1) = ClusterSize /\ Room(1) <= Room(m)
      BY <2>2, <2>4, RoomFacts, RoomGrows
    <3> DEFINE size == o.size
    <3>2. size \in Nat /\ size <= Room(m) /\ pos <= size /\ (pos = size => pos = 0 \/ p # 0)
      BY <2>2, <2>3, <2>5
    <3> HIDE DEF size
    <3>3. Room(k) < Room(m)
      BY <2>3, <2>4, <3>1, <3>2, SizesAssumption
    <3> QED
      BY <2>2, <2>4, <3>3, RoomGrows
  <2>7. Steps(fat, o.first, k, w)
    BY <1>2, <2>1, <2>2, <2>4, <2>6, WalkSteps DEF m
  <2>8. Reaches(fat, o.first, k, w[k])
    BY <2>7, Zenon DEF Reaches
  <2>9. /\ file'[h] = [o EXCEPT !.cur = w[k], !.pos = pos, !.cpos = p]
        /\ \A g \in Handles \ {h} : file'[g] = file[g]
    BY <2>1 DEF Inv, TypeOK
  <2> DEFINE r == file'[h]
             c == w[k]
  <2>10. /\ r.dir = o.dir /\ r.slot = o.slot /\ r.first = o.first /\ r.size = o.size
         /\ r.cur = c /\ r.cpos = p /\ r.pos = pos
    BY <1>1, <2>9 DEF Handle
  <2>11. p \in Nat /\ p <= ClusterSize
    BY <2>4, SizesAssumption
  <2> HIDE DEF o
  <2>12. OnEntry(table, file'[h]) /\ AtPlace(fat, file'[h])
    BY <1>1, <2>3, <2>4, <2>8, <2>10, <2>11, MovedPlace
  <2> QED
    BY <1>3, <2>9, <2>12
<1> QED
  BY <1>4, <1>5
----------------------------------------------------------------------------
(* Every call keeps the invariant *)

LEMMA UsableHandles ==
    ASSUME Inv, HandlesPlaced
    PROVE  \A g \in Handles : file[g] \notin {Closed, Orphan} =>
              file[g] \in Handle /\ OnEntry(table, file[g]) /\ AtPlace(fat, file[g])
BY DEF Inv, TypeOK, HandlesPlaced, Usable

\* The calls that leave the volume as it is and change the handle h alone.
LEMMA HandleMoved ==
    ASSUME Inv, LongEnough(fat, table), HandlesPlaced, UNCHANGED <<fat, table>>,
           NEW h \in Handles, \A g \in Handles \ {h} : file'[g] = file[g],
           file'[h] \notin {Closed, Orphan} =>
              OnEntry(table, file'[h]) /\ AtPlace(fat, file'[h])
    PROVE  LongEnough(fat', table') /\ HandlesPlaced'
<1>1. \A g \in Handles : file'[g] \notin {Closed, Orphan} =>
         OnEntry(table', file'[g]) /\ AtPlace(fat', file'[g])
  BY UsableHandles
<1> QED
  BY <1>1 DEF HandlesPlaced, Usable

LEMMA DirectoryPlaced ==
    ASSUME PlaceInv, NEW d \in DOMAIN table, NEW n \in Names,
           \/ \E h \in Handles : Create(h, d, n) \/ Open(h, d, n)
           \/ Mkdir(d, n) \/ MakeRefused(d, n) \/ NameMissing(d, n)
           \/ Delete(d, n) \/ Rmdir(d, n)
           \/ \E m \in Names : Rename(d, n, m)
    PROVE  LongEnough(fat', table') /\ HandlesPlaced' /\ UNCHANGED stray
<1>1. Inv /\ Rooted /\ LongEnough(fat, table) /\ HandlesPlaced
  BY DEF PlaceInv, VolumeInv
<1>2. \A g \in Handles : file[g] \notin {Closed, Orphan} =>
         file[g] \in Handle /\ OnEntry(table, file[g]) /\ AtPlace(fat, file[g])
  BY <1>1, UsableHandles
<1>3. SUFFICES /\ LongEnough(fat', table') /\ UNCHANGED stray
               /\ \A g \in Handles : file'[g] \notin {Closed, Orphan} =>
                     OnEntry(table', file'[g]) /\ AtPlace(fat', file'[g])
  BY DEF HandlesPlaced, Usable
<1>4. ASSUME NEW h \in Handles, Create(h, d, n)
      PROVE  /\ LongEnough(fat', table') /\ UNCHANGED stray
             /\ \A g \in Handles : file'[g] \notin {Closed, Orphan} =>
                   OnEntry(table', file'[g]) /\ AtPlace(fat', file'[g])
  <2>0. \E c, i : Made(d, i, c, n, FALSE) /\ file' = [file EXCEPT ![h] = AtStart(d, i, c, 0)]
    <3>1. Inv /\ Rooted
      BY <1>1
    <3>2. \A g \in Handles : Create(g, d, n) =>
             \E c, i : Made(d, i, c, n, FALSE) /\ file' = [file EXCEPT ![g] = AtStart(d, i, c, 0)]
      BY <3>1, DirectoryEffects, Zenon
    <3> QED
      BY <1>4, <3>2, Zenon
  <2>1. PICK c, i : Made(d, i, c, n, FALSE) /\ file' = [file EXCEPT ![h] = AtStart(d, i, c, 0)]
    BY <2>0, Zenon
  <2> DEFINE o == AtStart(d, i, c, 0)
  <2>2. /\ LongEnough(fat', table')
        /\ \A r \in Handle : OnEntry(table, r) /\ AtPlace(fat, r) =>
              OnEntry(table', r) /\ AtPlace(fat', r)
        /\ OnEntry(table', o) /\ AtPlace(fat', o)
    BY <1>1, <2>1, MadePlaced
  <2> HIDE DEF o
  <2>3. /\ file'[h] = o
        /\ \A g \in Handles \ {h} : file'[g] = file[g]
    BY <1>1, <2>1 DEF Inv, TypeOK, o
  <2> QED
    BY <1>2, <1>4, <2>2, <2>3 DEF Create
<1>5. ASSUME NEW h \in Handles, Open(h, d, n)
      PROVE  LongEnough(fat', table') /\ HandlesPlaced' /\ UNCHANGED stray
  <2>1. PICK i \in 1 .. Len(table[d]) :
           /\ Found(table[d], n, i) /\ ~table[d][i].dir
           /\ file' = [file EXCEPT ![h] = AtStart(d, i, table[d][i].first, table[d][i].size)]
    BY <1>5 DEF Open
  <2> DEFINE e == <<d, i>>
             c == table[d][i].first
             size == table[d][i].size
             o == AtStart(d, i, c, size)
  <2>2. e \in EntriesOf(table) /\ FirstIn(table, e) = c /\ DirIn(table, e) = FALSE /\ SizeIn(table, e) = size
    <3>1. ~Vacant(table[d][i])
      BY <2>1, MarksAssumption DEF Found, Vacant
    <3>2. table[d][i] \in Slot
      BY <1>1 DEF Inv, TypeOK
    <3> QED
      BY <2>1, <3>1, <3>2, EntriesDef DEF FirstIn, DirIn, SizeIn, Slot
  <2>3. table[d][i] \in Slot
    BY <1>1 DEF Inv, TypeOK
  <2>4. size \in Nat /\ c \in Clusters
    BY <1>1, <2>2, <2>3, RootedFacts DEF Slot
  <2>5. o.dir = d /\ o.slot = i /\ o.first = c
    BY DEF AtStart
  <2> HIDE DEF e, c, size
  <2>6. size <= Room(Cardinality(Chain(fat, c)))
    BY <1>1, <2>2 DEF LongEnough
  <2>7. AtPlace(fat, o)
    BY <1>1, <2>4, <2>6, StartPlace DEF Inv, TypeOK
  <2> HIDE DEF o
  <2>8. OnEntry(table, o)
    BY <2>2, <2>5 DEF OnEntry, e
  <2>9. file'[h] = o /\ \A g \in Handles \ {h} : file'[g] = file[g]
    BY <1>1, <2>1 DEF Inv, TypeOK, o, c, size
  <2>10. UNCHANGED <<fat, table, stray>>
    BY <1>5 DEF Open
  <2> QED
    BY <1>1, <2>7, <2>8, <2>9, <2>10, HandleMoved
<1>6. CASE Mkdir(d, n)
  <2>1. PICK c, i : Made(d, i, c, n, TRUE) /\ file' = file
    BY <1>1, <1>6, DirectoryEffects, Zenon
  <2>2. /\ LongEnough(fat', table')
        /\ \A r \in Handle : OnEntry(table, r) /\ AtPlace(fat, r) =>
              OnEntry(table', r) /\ AtPlace(fat', r)
    BY <1>1, <2>1, MadePlaced
  <2> QED
    BY <1>2, <1>6, <2>1, <2>2 DEF Mkdir
<1>7. CASE Delete(d, n)
  <2>1. PICK i \in 1 .. Len(table[d]) :
           /\ Gone(d, i)
           /\ file' = [h \in Handles |-> IF OnSlot(h, d, i) THEN Orphan ELSE file[h]]
    BY <1>1, <1>7, DirectoryEffects
  <2>2. /\ LongEnough(fat', table')
        /\ \A o \in Handle :
              OnEntry(table, o) /\ AtPlace(fat, o) /\ <<o.dir, o.slot>> # <<d, i>> =>
              OnEntry(table', o) /\ AtPlace(fat', o)
    BY <1>1, <2>1, GonePlaced
  <2>3. ASSUME NEW g \in Handles, file'[g] \notin {Closed, Orphan}
        PROVE  OnEntry(table', file'[g]) /\ AtPlace(fat', file'[g])
    <3>1. ~OnSlot(g, d, i) /\ file'[g] = file[g]
      BY <2>1, <2>3
    <3>2. <<file[g].dir, file[g].slot>> # <<d, i>>
      BY <2>3, <3>1 DEF OnSlot, Usable
    <3> QED
      BY <1>2, <2>2, <2>3, <3>1, <3>2
  <2> QED
    BY <1>7, <2>2, <2>3 DEF Delete
<1>8. CASE Rmdir(d, n)
  <2>1. UNCHANGED stray
    BY <1>8 DEF Rmdir
  <2>2. CASE UNCHANGED <<fat, table, file>>
    BY <1>1, <1>2, <2>1, <2>2
  <2>3. ASSUME NEW i \in 1 .. Len(table[d]), Gone(d, i), table[d][i].dir, file' = file
        PROVE  /\ LongEnough(fat', table')
               /\ \A g \in Handles : file'[g] \notin {Closed, Orphan} =>
                     OnEntry(table', file'[g]) /\ AtPlace(fat', file'[g])
    <3>1. /\ LongEnough(fat', table')
          /\ \A o \in Handle :
                OnEntry(table, o) /\ AtPlace(fat, o) /\ <<o.dir, o.slot>> # <<d, i>> =>
                OnEntry(table', o) /\ AtPlace(fat', o)
      BY <1>1, <2>3, GonePlaced
    <3>2. DirIn(table, <<d, i>>)
      BY <2>3 DEF DirIn
    <3>3. \A o : OnEntry(table, o) => <<o.dir, o.slot>> # <<d, i>>
      BY <3>2 DEF OnEntry
    <3> QED
      BY <1>2, <2>3, <3>1, <3>3
  <2> QED
    BY <1>1, <1>8, <2>1, <2>2, <2>3, DirectoryEffects
<1>9. ASSUME NEW m \in Names, Rename(d, n, m)
      PROVE  /\ LongEnough(fat', table') /\ UNCHANGED stray
             /\ \A g \in Handles : file'[g] \notin {Closed, Orphan} =>
                   OnEntry(table', file'[g]) /\ AtPlace(fat', file'[g])
  <2>1. Kept /\ SameSizes /\ fat' = fat /\ file' = file
    BY <1>1, <1>9, DirectoryEffects, RenameSizes
  <2>2. LongEnough(fat', table') /\ \A o : OnEntry(table, o) => OnEntry(table', o)
    BY <1>1, <2>1, SamePlaced
  <2> QED
    BY <1>2, <1>9, <2>1, <2>2 DEF Rename
<1>10. CASE MakeRefused(d, n) \/ NameMissing(d, n)
  <2>1. UNCHANGED <<fat, table, file, stray>>
    BY <1>10 DEF MakeRefused, NameMissing
  <2> QED
    BY <1>1, <1>2, <2>1
<1>11. CASE \E h \in Handles : Open(h, d, n)
  BY <1>5, <1>11 DEF HandlesPlaced, Usable
<1> QED
  BY <1>4, <1>6, <1>7, <1>8, <1>9, <1>10, <1>11

LEMMA PlaceNext ==
    ASSUME "seek boundary" \notin Risky, PlaceInv, [Next]_vars
    PROVE  LongEnough(fat', table') /\ HandlesPlaced' /\ UNCHANGED stray
<1>1. Inv /\ Rooted /\ LongEnough(fat, table) /\ HandlesPlaced
  BY DEF PlaceInv, VolumeInv
<1>2. CASE DirectoryCall
  BY <1>2, DirectoryPlaced DEF DirectoryCall
<1>3. ASSUME NEW h \in Handles, Close(h)
      PROVE  LongEnough(fat', table') /\ HandlesPlaced' /\ UNCHANGED stray
  <2>1. /\ UNCHANGED <<fat, table, stray>> /\ file'[h] = Closed
        /\ \A g \in Handles \ {h} : file'[g] = file[g]
    BY <1>1, <1>3 DEF Close, Inv, TypeOK
  <2> QED
    BY <1>1, <2>1, HandleMoved
<1>4. ASSUME NEW h \in Handles, NEW bs \in Chunks, Write(h, bs)
      PROVE  LongEnough(fat', table') /\ HandlesPlaced' /\ UNCHANGED stray
  BY <1>1, <1>4, WritePlaced
<1>5. ASSUME NEW h \in Handles,
             \/ WriteRefused(h)
             \/ \E n \in 1 .. ClusterSize : Read(h, n)
             \/ \E pos \in SeekTargets(file[h]) : Usable(h) /\ Seek(h, pos)
      PROVE  LongEnough(fat', table') /\ HandlesPlaced' /\ UNCHANGED stray
  <2>1. SUFFICES /\ UNCHANGED <<fat, table, stray>>
                 /\ \A g \in Handles \ {h} : file'[g] = file[g]
                 /\ file'[h] \notin {Closed, Orphan} =>
                       OnEntry(table, file'[h]) /\ AtPlace(fat, file'[h])
    BY <1>1, HandleMoved
  <2>2. CASE WriteRefused(h)
    BY <1>1, <2>2, UsableHandles DEF WriteRefused
  <2>3. ASSUME NEW n \in 1 .. ClusterSize, Read(h, n)
        PROVE  /\ UNCHANGED <<fat, table, stray>>
               /\ \A g \in Handles \ {h} : file'[g] = file[g]
               /\ OnEntry(table, file'[h]) /\ AtPlace(fat, file'[h])
    BY <1>1, <2>3, ReadPlaced
  <2>4. ASSUME NEW pos \in SeekTargets(file[h]), Usable(h), Seek(h, pos)
        PROVE  /\ UNCHANGED <<fat, table, stray>>
               /\ \A g \in Handles \ {h} : file'[g] = file[g]
               /\ OnEntry(table, file'[h]) /\ AtPlace(fat, file'[h])
    <3>1. pos \in Int
      BY <1>1, <2>4, TargetsFacts
    <3>2. ~AtBoundary(file[h], pos)
      BY <2>4 DEF Seek
    <3> QED
      BY <1>1, <2>4, <3>1, <3>2, SeekPlaced
  <2> QED
    BY <1>5, <2>2, <2>3, <2>4
<1>6. CASE HandleCall
  BY <1>3, <1>4, <1>5, <1>6 DEF HandleCall
<1>7. CASE UNCHANGED vars
  <2>1. UNCHANGED <<fat, table, file, stray>>
    BY <1>7 DEF vars
  <2>2. HandlesPlaced'
    BY <1>1, <2>1 DEF HandlesPlaced, Usable
  <2> QED
    BY <1>1, <2>1, <2>2
<1> QED
  BY <1>2, <1>6, <1>7 DEF Next

LEMMA PlaceInit == Init => LongEnough(fat, table) /\ HandlesPlaced /\ ~stray
<1> SUFFICES ASSUME Init PROVE LongEnough(fat, table) /\ HandlesPlaced /\ ~stray
  OBVIOUS
<1>1. table[0] \in Seq(Slot) /\ \A i \in 1 .. Len(table[0]) : Vacant(table[0][i])
  BY EmptySlotsType, SizesAssumption DEF Init
<1>2. EntriesOf(table) = {} /\ DOMAIN table = {0}
  BY <1>1, EntriesDef DEF Init
<1> QED
  BY <1>2 DEF LongEnough, HandlesPlaced, Usable, Init

LEMMA PlaceInvariant ==
    ASSUME "seek boundary" \notin Risky
    PROVE  Spec => [](PlaceInv /\ ~stray)
<1>1. Init => LongEnough(fat, table) /\ HandlesPlaced /\ ~stray
  BY PlaceInit
<1>2. PlaceInv /\ ~stray /\ VolumeInv' /\ [Next]_vars => (PlaceInv /\ ~stray)'
  BY PlaceNext DEF PlaceInv
<1>3. Init /\ VolumeInv => PlaceInv /\ ~stray
  BY <1>1 DEF PlaceInv
<1> QED
  BY <1>2, <1>3, VolumeInvariant, PTL DEF Spec

\* What the invariant says of a handle is what HandlesSound does.
LEMMA PlaceIsSound == PlaceInv => HandlesSound
<1> SUFFICES ASSUME PlaceInv, NEW h \in Handles, Usable(h)
             PROVE  HandleOnItsEntry(file[h]) /\ CursorSound(file[h])
  BY DEF HandlesSound
<1> DEFINE o == file[h]
<1>1. Inv /\ o \in Handle /\ OnEntry(table, o) /\ AtPlace(fat, o)
  BY UsableHandles DEF PlaceInv, VolumeInv, Usable
<1>2. HandleOnItsEntry(o)
  <2> DEFINE e == <<o.dir, o.slot>>
  <2>1. e \in EntriesOf(table) /\ e[1] = o.dir /\ e[2] = o.slot
    BY <1>1 DEF OnEntry
  <2> HIDE DEF e
  <2>2. /\ o.dir \in DOMAIN table /\ o.slot \in 1 .. Len(table[o.dir])
        /\ ~Vacant(table[o.dir][o.slot])
    BY <2>1, EntryParts
  <2> QED
    BY <1>1, <2>2 DEF OnEntry, DirIn, FirstIn, HandleOnItsEntry
<1>3. CursorSound(o)
  <2>1. PICK k \in Nat : o.pos = Room(k) + o.cpos /\ Reaches(fat, o.first, k, o.cur)
    BY <1>1 DEF AtPlace
  <2>2. /\ fat \in [Clusters -> Cells] /\ LinksSound(fat) /\ IsHead(fat, o.first)
        /\ o.first \in Clusters /\ o.pos \in Nat /\ o.cpos \in Nat
    BY <1>1, HeadsOfEntries DEF OnEntry, AtPlace, Handle
  <2>3. o.cur \in Clusters
    BY <2>1, <2>2, StepsCount, ChainClosed DEF IsHead
  <2>4. (o.pos - o.cpos) \div ClusterSize = k
    <3> DEFINE pos  == o.pos
               cpos == o.cpos
    <3>0. pos \in Nat /\ cpos \in Nat /\ Room(k) \in Nat /\ pos = Room(k) + cpos
      BY <2>1, <2>2, RoomFacts
    <3> HIDE DEF pos, cpos
    <3>1. pos - cpos = Room(k)
      BY <3>0
    <3> USE DEF pos, cpos
    <3> QED
      BY <3>1, RoomDiv
  <2>5. \E w \in [0 .. k -> Cells] : Walk(o.first, k, w) /\ w[k] = o.cur
    <3> HIDE DEF o
    <3> QED
      BY <2>1, <2>2, StepsWalk
  <2>6. o.pos = k * ClusterSize + o.cpos
    BY <2>1 DEF Room
  <2>7. o.pos <= o.size /\ o.cpos <= ClusterSize
    BY <1>1 DEF AtPlace
  <2> HIDE DEF o
  <2> QED
    BY <2>3, <2>4, <2>5, <2>6, <2>7, Zenon DEF CursorSound
<1> QED
  BY <1>2, <1>3

\* Files open more than once included: a handle in use stays on its own file's
\* entry and in the cluster its position lies in, whatever the other calls make
\* of the volume.
THEOREM HandlesKeepPlace ==
    ASSUME "seek boundary" \notin Risky
    PROVE  Spec => []HandlesSound
<1>1. PlaceInv => HandlesSound
  BY PlaceIsSound
<1> QED
  BY <1>1, PlaceInvariant, PTL

\* The clusters of a file hold its bytes and those of a directory its slots,
\* after any writes, extensions and refusals.
THEOREM ChainsHoldTheirBytes ==
    ASSUME "seek boundary" \notin Risky
    PROVE  Spec => []ChainsLongEnough
<1>1. LongEnough(fat, table) => ChainsLongEnough
  BY DEF LongEnough, ChainsLongEnough, Entries, DirIn, FirstIn, SizeIn, Room, Slots
<1> QED
  BY <1>1, PlaceInvariant, PTL DEF PlaceInv

\* No call addresses a sector outside the volume's clusters.
THEOREM SectorsOfTheVolume ==
    ASSUME "seek boundary" \notin Risky
    PROVE  Spec => [](stray = FALSE)
<1>1. Inv /\ ~stray => stray = FALSE
  BY DEF Inv, TypeOK
<1> QED
  BY <1>1, PlaceInvariant, Invariance, PTL
----------------------------------------------------------------------------
(* Chains no longer than their bytes *)

\* A file's last cluster is its only one or holds a byte of it.
Tight(f, t) ==
    \A e \in EntriesOf(t) : ~DirIn(t, e) =>
        \/ Cardinality(Chain(f, FirstIn(t, e))) = 1
        \/ Room(Cardinality(Chain(f, FirstIn(t, e)))) < SizeIn(t, e) + ClusterSize

\* A handle knows the size its entry has, and is the only one there.
Known(t, o)   == o.size = SizeIn(t, <<o.dir, o.slot>>)
Together(o, r) == o.dir = r.dir /\ o.slot = r.slot
SoleHandles ==
    /\ \A h \in Handles : Usable(h) => Known(table, file[h])
    /\ \A g, h \in Handles : Usable(g) /\ Usable(h) /\ Together(file[g], file[h]) => g = h

ExactInv == PlaceInv /\ Tight(fat, table) /\ SoleHandles

\* The clusters that n bytes take, when they fill all but the last one.
LEMMA ClusterfulOf ==
    ASSUME NEW n \in Nat, n >= 1, NEW size \in Nat, size <= Room(n),
           n = 1 \/ Room(n) < size + ClusterSize
    PROVE  Clusterful(size) = n
<1> DEFINE x == size + ClusterSize - 1
           q == x \div ClusterSize
           p == x % ClusterSize
<1>1. x \in Nat
  BY SizesAssumption
<1>2. q \in Nat /\ p \in 0 .. ClusterSize - 1 /\ x = Room(q) + p
  BY <1>1, RoomOf
<1> HIDE DEF q, p
<1>3. /\ Room(n) \in Nat /\ Room(q) \in Nat /\ n + 1 \in Nat /\ q + 1 \in Nat
      /\ Room(n + 1) = Room(n) + ClusterSize /\ Room(q + 1) = Room(q) + ClusterSize
  BY <1>2, RoomFacts
<1>4. Room(q) < Room(n + 1)
  BY <1>2, <1>3, SizesAssumption
<1>5. q < n + 1
  BY <1>2, <1>3, <1>4, RoomGrows
<1>6. Clusterful(size) = Larger(1, q)
  BY DEF Clusterful, q
<1>7. CASE n = 1
  BY <1>2, <1>5, <1>6, <1>7 DEF Larger
<1>8. CASE Room(n) < size + ClusterSize
  <2>1. Room(n) < Room(q + 1)
    BY <1>2, <1>3, <1>8, SizesAssumption
  <2>2. n < q + 1
    BY <1>3, <2>1, RoomGrows
  <2>3. n = q
    BY <1>2, <1>5, <2>2
  <2> QED
    BY <1>6, <2>3 DEF Larger
<1> QED
  BY <1>7, <1>8

LEMMA SizesType ==
    ASSUME Inv
    PROVE  \A e \in EntriesOf(table) : SizeIn(table, e) \in Nat
<1> TAKE e \in EntriesOf(table)
<1>1. table[e[1]][e[2]] \in Slot
  BY EntryParts DEF Inv, TypeOK
<1> QED
  BY <1>1 DEF SizeIn, Slot

\* create and mkdir.
LEMMA MadeTight ==
    ASSUME Inv, Rooted, Tight(fat, table),
           NEW d \in DOMAIN table, NEW n \in Names, NEW isDir \in BOOLEAN,
           NEW c, NEW i, Made(d, i, c, n, isDir)
    PROVE  /\ Tight(fat', table')
           /\ <<d, i>> \notin EntriesOf(table) /\ SizeIn(table', <<d, i>>) = 0
           /\ \A e \in EntriesOf(table) : SizeIn(table', e) = SizeIn(table, e)
<1> DEFINE s == NewEntry(n, isDir, c)
<1>1. /\ c \in Clusters /\ <<d, i>> \notin EntriesOf(table)
      /\ EntriesOf(table') = EntriesOf(table) \cup {<<d, i>>}
      /\ FirstIn(table', <<d, i>>) = c
      /\ \A e \in EntriesOf(table) :
            /\ table'[e[1]][e[2]] = table[e[1]][e[2]]
            /\ FirstIn(table', e) = FirstIn(table, e) /\ DirIn(table', e) = DirIn(table, e)
  BY MadeEntries
<1>2. /\ Cardinality(Chain(fat', c)) = 1
      /\ \A x : IsHead(fat, x) /\ ~(x = d /\ Extends(d)) => Chain(fat', x) = Chain(fat, x)
  BY MadeChains
<1>3. \A e \in EntriesOf(table) : SizeIn(table', e) = SizeIn(table, e)
  BY <1>1 DEF SizeIn
<1>4. SizeIn(table', <<d, i>>) = 0
  <2>1. s \in Slot /\ s.size = 0
    BY <1>1, ClustersFacts DEF NewEntry, Slot
  <2>2. table[d] \in Seq(Slot) /\ i \in 1 .. Len(WithRoom(d)) /\ table'[d] = WithEntry(d, i, s)
    BY DEF Made, Inv, TypeOK
  <2> HIDE DEF s
  <2>3. table'[d][i] = s
    BY <2>1, <2>2, WithEntryFacts
  <2> QED
    BY <2>1, <2>3, Zenon DEF SizeIn
<1>5. ASSUME NEW e \in EntriesOf(table), ~DirIn(table, e)
      PROVE  Chain(fat', FirstIn(table, e)) = Chain(fat, FirstIn(table, e))
  <2>1. ~(FirstIn(table, e) = d /\ Extends(d))
    <3>1. Extends(d) => \E g \in EntriesOf(table) : DirIn(table, g) /\ FirstIn(table, g) = d
      BY DEF Extends, Rooted
    <3> QED
      BY <1>5, <3>1, HeadsOfEntries
  <2> QED
    BY <1>2, <2>1, HeadsOfEntries
<1>6. Tight(fat', table')
  <2> SUFFICES ASSUME NEW e \in EntriesOf(table'), ~DirIn(table', e)
               PROVE  \/ Cardinality(Chain(fat', FirstIn(table', e))) = 1
                      \/ Room(Cardinality(Chain(fat', FirstIn(table', e)))) < SizeIn(table', e) + ClusterSize
    BY DEF Tight
  <2>1. CASE e = <<d, i>>
    BY <1>1, <1>2, <2>1
  <2>2. CASE e \in EntriesOf(table)
    BY <1>1, <1>3, <1>5, <2>2 DEF Tight
  <2> QED
    BY <1>1, <2>1, <2>2
<1> QED
  BY <1>1, <1>3, <1>4, <1>6

\* delete and rmdir.
LEMMA GoneTight ==
    ASSUME Inv, Rooted, Tight(fat, table),
           NEW d \in DOMAIN table, NEW i \in 1 .. Len(table[d]), Gone(d, i)
    PROVE  /\ Tight(fat', table')
           /\ EntriesOf(table') \subseteq EntriesOf(table)
           /\ \A e \in EntriesOf(table') : SizeIn(table', e) = SizeIn(table, e)
<1>1. /\ EntriesOf(table') = EntriesOf(table) \ {<<d, i>>}
      /\ \A e \in EntriesOf(table') :
            /\ table'[e[1]][e[2]] = table[e[1]][e[2]]
            /\ FirstIn(table', e) = FirstIn(table, e) /\ DirIn(table', e) = DirIn(table, e)
  BY GoneEntries
<1>2. \A e \in EntriesOf(table) : e # <<d, i>> =>
         Chain(fat', FirstIn(table, e)) = Chain(fat, FirstIn(table, e))
  BY GoneChains
<1>3. \A e \in EntriesOf(table') : SizeIn(table', e) = SizeIn(table, e)
  BY <1>1 DEF SizeIn
<1>4. Tight(fat', table')
  BY <1>1, <1>2, <1>3 DEF Tight
<1> QED
  BY <1>1, <1>3, <1>4

\* rename, and the calls that leave the volume as it is.
LEMMA SameTight ==
    ASSUME Inv, Tight(fat, table), Kept, SameSizes, fat' = fat
    PROVE  /\ Tight(fat', table')
           /\ EntriesOf(table') = EntriesOf(table)
           /\ \A e \in EntriesOf(table) : SizeIn(table', e) = SizeIn(table, e)
<1>1. /\ EntriesOf(table') = EntriesOf(table)
      /\ \A e \in EntriesOf(table) :
            FirstIn(table', e) = FirstIn(table, e) /\ DirIn(table', e) = DirIn(table, e)
  BY KeptEntries
<1>2. \A e \in EntriesOf(table) : SizeIn(table', e) = SizeIn(table, e)
  BY EntryParts DEF SameSizes, SizeIn
<1>3. Tight(fat', table')
  BY <1>1, <1>2 DEF Tight
<1> QED
  BY <1>1, <1>2, <1>3
\* One chunk of fat16_write: a cluster is linked for a byte that goes into it.
LEMMA WriteTight ==
    ASSUME Inv, Rooted, Tight(fat, table), HandlesPlaced,
           NEW h \in Handles, Known(table, file[h]), NEW bs \in Chunks, Write(h, bs)
    PROVE  /\ Tight(fat', table')
           /\ Together(file'[h], file[h]) /\ Known(table', file'[h])
           /\ \A g \in Handles \ {h} : file'[g] = file[g]
           /\ \A e \in EntriesOf(table) : e # <<file[h].dir, file[h].slot>> =>
                 SizeIn(table', e) = SizeIn(table, e)
<1> DEFINE o == file[h]
           a == o.first
           q == o.pos + Len(bs)
           m == Cardinality(Chain(fat, a))
           n == Cardinality(Chain(fat', a))
           here == <<o.dir, o.slot>>
<1>1. Usable(h) /\ o \in Handle /\ OnEntry(table, o) /\ AtPlace(fat, o)
  BY DEF Write, Usable, Inv, TypeOK, HandlesPlaced
<1>2. PICK c \in Clusters, p \in Nat, k \in Nat :
         /\ Put(h, c, p, bs)
         /\ fat' \in [Clusters -> Cells]
         /\ \A e \in EntriesOf(table) : FirstIn(table, e) # a =>
               Chain(fat', FirstIn(table, e)) = Chain(fat, FirstIn(table, e))
         /\ n # m => n = k + 1 /\ p = 0
         /\ o.pos = Room(k) + p
  BY <1>1, WriteTarget
<1>3. /\ Len(bs) \in 1 .. ClusterSize /\ p + Len(bs) <= ClusterSize
      /\ file' = [file EXCEPT ![h] = file'[h]]
      /\ file'[h] = [o EXCEPT !.cur = c, !.pos = q, !.cpos = p + Len(bs), !.size = Larger(q, o.size)]
      /\ SameSlots /\ SameNames
      /\ \A e \in EntriesOf(table) :
            SizeIn(table', e) =
               IF e = <<o.dir, o.slot>> /\ q > o.size THEN q ELSE SizeIn(table, e)
      /\ UNCHANGED stray
  BY <1>1, <1>2, PutEffect
<1>4. /\ EntriesOf(table') = EntriesOf(table)
      /\ \A e \in EntriesOf(table) :
            FirstIn(table', e) = FirstIn(table, e) /\ DirIn(table', e) = DirIn(table, e)
  BY <1>3, WriteEffect, KeptEntries
<1>5. /\ here \in EntriesOf(table) /\ FirstIn(table, here) = a /\ ~DirIn(table, here)
      /\ SizeIn(table, here) = o.size
      /\ \A e \in EntriesOf(table) : FirstIn(table, e) = a => e = here
  BY <1>1, HeadsOfEntries DEF OnEntry, Known
<1>6. q \in Nat /\ o.size \in Nat /\ m \in Nat /\ n \in Nat /\ Room(k) \in Nat
  <2>1. o.pos \in Nat /\ o.size \in Nat /\ Len(bs) \in Nat
    BY <1>1, <1>3 DEF Handle
  <2>2. a \in Clusters /\ fat \in [Clusters -> Cells]
    BY <1>1, HeadsOfEntries DEF AtPlace
  <2>3. m \in Nat /\ n \in Nat
    BY <1>2, <2>2, ChainFinite
  <2> DEFINE pos == o.pos
             len == Len(bs)
  <2>4. pos \in Nat /\ len \in Nat
    BY <2>1
  <2> HIDE DEF pos, len
  <2>5. pos + len \in Nat
    BY <2>4
  <2> QED
    BY <2>1, <2>3, <2>5, RoomFacts DEF pos, len
<1>7. SizeIn(table', here) = Larger(q, o.size)
  BY <1>3, <1>5 DEF Larger
<1>8. file'[h].dir = o.dir /\ file'[h].slot = o.slot /\ file'[h].size = Larger(q, o.size)
  BY <1>1, <1>3 DEF Handle
<1>9. Together(file'[h], o) /\ Known(table', file'[h])
  BY <1>7, <1>8 DEF Together, Known
<1>10. n = 1 \/ Room(n) < SizeIn(table', here) + ClusterSize
  <2> DEFINE size == o.size
             new == SizeIn(table', here)
  <2>1. new = Larger(q, size) /\ q \in Nat /\ size \in Nat
    BY <1>6, <1>7
  <2>2. m = 1 \/ Room(m) < size + ClusterSize
    BY <1>5 DEF Tight
  <2>3. q >= Room(k) + 1
    BY <1>2, <1>3, <1>6
  <2> HIDE DEF size, new, q, n, m, here, a
  <2>0. m \in Nat /\ n \in Nat /\ Room(m) \in Nat /\ Room(n) \in Nat /\ Room(k) \in Nat
    BY <1>6, RoomFacts
  <2>4. new \in Nat /\ new >= size /\ new >= q
    BY <2>1 DEF Larger
  <2>5. n = m => n = 1 \/ Room(n) < new + ClusterSize
    BY <2>0, <2>1, <2>2, <2>4, SizesAssumption
  <2>6. ASSUME n # m PROVE Room(n) < new + ClusterSize
    <3>1. Room(n) = Room(k) + ClusterSize
      BY <1>2, <2>6, RoomFacts DEF n, m
    <3> QED
      BY <2>0, <2>1, <2>3, <2>4, <3>1, SizesAssumption
  <2> QED
    BY <2>5, <2>6, Zenon DEF new
<1>11. \A e \in EntriesOf(table) : e # here =>
          SizeIn(table', e) = SizeIn(table, e) /\ Chain(fat', FirstIn(table, e)) = Chain(fat, FirstIn(table, e))
  BY <1>2, <1>3, <1>5
<1>12. Tight(fat', table')
  <2> HIDE DEF here, a
  <2>1. \A e \in EntriesOf(table) : e # here /\ ~DirIn(table, e) =>
           \/ Cardinality(Chain(fat', FirstIn(table, e))) = 1
           \/ Room(Cardinality(Chain(fat', FirstIn(table, e)))) < SizeIn(table', e) + ClusterSize
    BY <1>11 DEF Tight
  <2> QED
    BY <1>4, <1>5, <1>10, <2>1 DEF Tight
<1>13. \A g \in Handles \ {h} : file'[g] = file[g]
  BY <1>3 DEF Inv, TypeOK
<1> QED
  BY <1>9, <1>11, <1>12, <1>13

\* Handles stay known and alone when all but one are closed, orphaned or left
\* alone with their entries' sizes, and that one is known and alone.
LEMMA SoleKept ==
    ASSUME SoleHandles, NEW H \in SUBSET Handles, \A f, g \in H : f = g,
           \A g \in Handles \ H :
              \/ ~Usable(g)'
              \/ /\ file'[g] = file[g]
                 /\ SizeIn(table', <<file[g].dir, file[g].slot>>) = SizeIn(table, <<file[g].dir, file[g].slot>>),
           \A h \in H : Usable(h)' =>
              /\ Known(table', file'[h])
              /\ \A g \in Handles : g # h /\ Usable(g) => ~Together(file[g], file'[h])
    PROVE  SoleHandles'
<1>1. \A g \in Handles \ H : Usable(g)' => Usable(g) /\ file'[g] = file[g] /\ Known(table', file'[g])
  BY DEF SoleHandles, Known, Usable
<1>2. \A g \in Handles : Usable(g)' => Known(table', file'[g])
  BY <1>1
<1>3. ASSUME NEW f \in Handles, NEW g \in Handles, Usable(f)', Usable(g)', Together(file'[f], file'[g])
      PROVE  f = g
  <2>1. CASE f \notin H /\ g \notin H
    BY <1>1, <1>3, <2>1 DEF SoleHandles
  <2>2. CASE f \in H /\ g \notin H
    BY <1>1, <1>3, <2>2 DEF Together
  <2>3. CASE f \notin H /\ g \in H
    BY <1>1, <1>3, <2>3
  <2> QED
    BY <2>1, <2>2, <2>3
<1> QED
  BY <1>2, <1>3 DEF SoleHandles

\* A call that opens no handle and leaves the sizes of the entries that stay.
LEMMA SoleSame ==
    ASSUME SoleHandles, HandlesPlaced',
           \A e \in EntriesOf(table') : SizeIn(table', e) = SizeIn(table, e),
           \A g \in Handles : ~Usable(g)' \/ file'[g] = file[g]
    PROVE  SoleHandles'
<1>1. \A g \in Handles : Usable(g)' => <<file'[g].dir, file'[g].slot>> \in EntriesOf(table')
  BY DEF HandlesPlaced, OnEntry
<1>2. \A g \in Handles \ {} :
         \/ ~Usable(g)'
         \/ /\ file'[g] = file[g]
            /\ SizeIn(table', <<file[g].dir, file[g].slot>>) = SizeIn(table, <<file[g].dir, file[g].slot>>)
  BY <1>1
<1>3. {} \in SUBSET Handles
  OBVIOUS
<1> QED
  BY <1>2, <1>3, SoleKept, Zenon
LEMMA CreateExact ==
    ASSUME Inv, Rooted, HandlesPlaced, Tight(fat, table), SoleHandles,
           NEW d \in DOMAIN table, NEW n \in Names, NEW h \in Handles, Create(h, d, n)
    PROVE  Tight(fat', table') /\ SoleHandles'
<1>1. PICK c, i : Made(d, i, c, n, FALSE) /\ file' = [file EXCEPT ![h] = AtStart(d, i, c, 0)]
  <2>1. \A g \in Handles : Create(g, d, n) =>
           \E c, i : Made(d, i, c, n, FALSE) /\ file' = [file EXCEPT ![g] = AtStart(d, i, c, 0)]
    BY DirectoryEffects, Zenon
  <2>2. \E c, i : Made(d, i, c, n, FALSE) /\ file' = [file EXCEPT ![h] = AtStart(d, i, c, 0)]
    BY <2>1, Zenon
  <2> QED
    BY <2>2, Zenon
<1>2. /\ Tight(fat', table') /\ <<d, i>> \notin EntriesOf(table) /\ SizeIn(table', <<d, i>>) = 0
      /\ \A e \in EntriesOf(table) : SizeIn(table', e) = SizeIn(table, e)
  BY <1>1, MadeTight
<1>3. /\ file'[h].dir = d /\ file'[h].slot = i /\ file'[h].size = 0
      /\ \A g \in Handles \ {h} : file'[g] = file[g]
  BY <1>1 DEF Inv, TypeOK, AtStart
<1>4. \A g \in Handles : Usable(g) => <<file[g].dir, file[g].slot>> \in EntriesOf(table)
  BY DEF HandlesPlaced, OnEntry
<1>5. Known(table', file'[h]) /\ \A g \in Handles : Usable(g) => ~Together(file[g], file'[h])
  BY <1>2, <1>3, <1>4 DEF Known, Together
<1>6. \A g \in Handles \ {h} :
         \/ ~Usable(g)'
         \/ /\ file'[g] = file[g]
            /\ SizeIn(table', <<file[g].dir, file[g].slot>>) = SizeIn(table, <<file[g].dir, file[g].slot>>)
  BY <1>2, <1>3, <1>4 DEF Usable
<1>7. {h} \in SUBSET Handles /\ \A f, g \in {h} : f = g
  OBVIOUS
<1>8. SoleHandles'
  BY <1>5, <1>6, <1>7, SoleKept
<1> QED
  BY <1>2, <1>8

\* A file opened where no handle is.
LEMMA OpenExact ==
    ASSUME Inv, HandlesPlaced, Tight(fat, table), SoleHandles, UNCHANGED <<fat, table>>,
           NEW d \in DOMAIN table, NEW i \in 1 .. Len(table[d]), NEW h \in Handles,
           \A g \in Handles : ~OnSlot(g, d, i),
           file' = [file EXCEPT ![h] = AtStart(d, i, table[d][i].first, table[d][i].size)]
    PROVE  Tight(fat', table') /\ SoleHandles'
<1> DEFINE size == table[d][i].size
<1>1. SizeIn(table', <<d, i>>) = size
  BY DEF SizeIn
<1> HIDE DEF size
<1>2. /\ file'[h].dir = d /\ file'[h].slot = i /\ file'[h].size = size
      /\ \A g \in Handles \ {h} : file'[g] = file[g]
  BY DEF Inv, TypeOK, AtStart, size
<1>3. Known(table', file'[h]) /\ \A g \in Handles : Usable(g) => ~Together(file[g], file'[h])
  BY <1>1, <1>2 DEF Known, Together, OnSlot
<1>4. {h} \in SUBSET Handles /\ \A f, g \in {h} : f = g
  OBVIOUS
<1>5. SoleHandles'
  BY <1>2, <1>3, <1>4, SoleKept
<1> QED
  BY <1>5

LEMMA DirectoryExact ==
    ASSUME Inv, Rooted, HandlesPlaced, Tight(fat, table), SoleHandles, HandlesPlaced',
           NEW d \in DOMAIN table, NEW n \in Names,
           \/ Mkdir(d, n) \/ MakeRefused(d, n) \/ NameMissing(d, n)
           \/ Delete(d, n) \/ Rmdir(d, n)
           \/ \E m \in Names : Rename(d, n, m)
    PROVE  Tight(fat', table') /\ SoleHandles'
<1>1. CASE UNCHANGED <<fat, table, file>>
  BY <1>1, SoleSame
<1>2. CASE Mkdir(d, n)
  <2>1. PICK c, i : Made(d, i, c, n, TRUE) /\ file' = file
    BY <1>2, DirectoryEffects, Zenon
  <2>2. /\ Tight(fat', table')
        /\ \A e \in EntriesOf(table) : SizeIn(table', e) = SizeIn(table, e)
    BY <2>1, MadeTight
  <2>3. \A g \in Handles : Usable(g) => <<file[g].dir, file[g].slot>> \in EntriesOf(table)
    BY DEF HandlesPlaced, OnEntry
  <2>4. \A g \in Handles \ {} :
           \/ ~Usable(g)'
           \/ /\ file'[g] = file[g]
              /\ SizeIn(table', <<file[g].dir, file[g].slot>>) = SizeIn(table, <<file[g].dir, file[g].slot>>)
    BY <2>1, <2>2, <2>3 DEF Usable
  <2>5. {} \in SUBSET Handles
    OBVIOUS
  <2>6. SoleHandles'
    BY <2>4, <2>5, SoleKept, Zenon
  <2> QED
    BY <2>2, <2>6
<1>3. ASSUME NEW i \in 1 .. Len(table[d]), Gone(d, i),
             \A g \in Handles : ~Usable(g)' \/ file'[g] = file[g]
      PROVE  Tight(fat', table') /\ SoleHandles'
  BY <1>3, GoneTight, SoleSame
<1>4. CASE Delete(d, n)
  <2>1. PICK i \in 1 .. Len(table[d]) :
           /\ Gone(d, i)
           /\ file' = [h \in Handles |-> IF OnSlot(h, d, i) THEN Orphan ELSE file[h]]
    BY <1>4, DirectoryEffects
  <2>2. \A g \in Handles : ~Usable(g)' \/ file'[g] = file[g]
    BY <2>1 DEF Usable
  <2> QED
    BY <1>3, <2>1, <2>2
<1>5. CASE Rmdir(d, n)
  BY <1>1, <1>3, <1>5, DirectoryEffects
<1>6. ASSUME NEW m \in Names, Rename(d, n, m)
      PROVE  Tight(fat', table') /\ SoleHandles'
  <2>1. Kept /\ SameSizes /\ fat' = fat /\ file' = file
    BY <1>6, DirectoryEffects, RenameSizes
  <2> QED
    BY <2>1, SameTight, SoleSame
<1>7. CASE MakeRefused(d, n) \/ NameMissing(d, n)
  BY <1>1, <1>7 DEF MakeRefused, NameMissing
<1> QED
  BY <1>2, <1>4, <1>5, <1>6, <1>7
\* fat16_write, then the calls that move a handle within its file.
LEMMA WriteExact ==
    ASSUME Inv, Rooted, HandlesPlaced, Tight(fat, table), SoleHandles,
           NEW h \in Handles, NEW bs \in Chunks, Write(h, bs)
    PROVE  Tight(fat', table') /\ SoleHandles'
<1>1. Usable(h)
  BY DEF Write
<1>2. /\ Tight(fat', table')
      /\ Together(file'[h], file[h]) /\ Known(table', file'[h])
      /\ \A g \in Handles \ {h} : file'[g] = file[g]
      /\ \A e \in EntriesOf(table) : e # <<file[h].dir, file[h].slot>> =>
            SizeIn(table', e) = SizeIn(table, e)
  BY <1>1, WriteTight DEF SoleHandles
<1>3. \A g \in Handles : g # h /\ Usable(g) => ~Together(file[g], file[h])
  BY <1>1 DEF SoleHandles
<1>4. \A g \in Handles : Usable(g) => <<file[g].dir, file[g].slot>> \in EntriesOf(table)
  BY DEF HandlesPlaced, OnEntry
<1>5. \A g \in Handles \ {h} :
         \/ ~Usable(g)'
         \/ /\ file'[g] = file[g]
            /\ SizeIn(table', <<file[g].dir, file[g].slot>>) = SizeIn(table, <<file[g].dir, file[g].slot>>)
  BY <1>2, <1>3, <1>4 DEF Usable, Together
<1>6. \A g \in Handles : g # h /\ Usable(g) => ~Together(file[g], file'[h])
  BY <1>2, <1>3 DEF Together
<1>7. {h} \in SUBSET Handles /\ \A f, g \in {h} : f = g
  OBVIOUS
<1> QED
  BY <1>2, <1>5, <1>6, <1>7, SoleKept

LEMMA CursorOnly ==
    ASSUME Inv, NEW h \in Handles, Usable(h),
           \/ file' = file
           \/ \E c, p : file' = [file EXCEPT ![h].cur = c, ![h].cpos = p]
           \/ \E c, p, q : file' = [file EXCEPT ![h].cur = c, ![h].cpos = p, ![h].pos = q]
           \/ \E c, p, q : file' = [file EXCEPT ![h].cur = c, ![h].pos = q, ![h].cpos = p]
    PROVE  /\ Together(file'[h], file[h]) /\ file'[h].size = file[h].size
           /\ \A g \in Handles \ {h} : file'[g] = file[g]
<1>1. file \in [Handles -> Handle \cup {Closed, Orphan}] /\ file[h] \in Handle
  BY DEF Usable, Inv, TypeOK
<1>2. CASE file' = file
  BY <1>2 DEF Together
<1>3. ASSUME NEW c, NEW p, file' = [file EXCEPT ![h].cur = c, ![h].cpos = p]
      PROVE  /\ Together(file'[h], file[h]) /\ file'[h].size = file[h].size
             /\ \A g \in Handles \ {h} : file'[g] = file[g]
  BY <1>1, <1>3 DEF Handle, Together
<1>4. ASSUME NEW c, NEW p, NEW q, file' = [file EXCEPT ![h].cur = c, ![h].cpos = p, ![h].pos = q]
      PROVE  /\ Together(file'[h], file[h]) /\ file'[h].size = file[h].size
             /\ \A g \in Handles \ {h} : file'[g] = file[g]
  BY <1>1, <1>4 DEF Handle, Together
<1>5. ASSUME NEW c, NEW p, NEW q, file' = [file EXCEPT ![h].cur = c, ![h].pos = q, ![h].cpos = p]
      PROVE  /\ Together(file'[h], file[h]) /\ file'[h].size = file[h].size
             /\ \A g \in Handles \ {h} : file'[g] = file[g]
  BY <1>1, <1>5 DEF Handle, Together
<1> QED
  BY <1>2, <1>3, <1>4, <1>5

LEMMA MoveExact ==
    ASSUME Inv, Tight(fat, table), SoleHandles, UNCHANGED <<fat, table>>,
           NEW h \in Handles, Usable(h),
           Together(file'[h], file[h]), file'[h].size = file[h].size,
           \A g \in Handles \ {h} : file'[g] = file[g]
    PROVE  Tight(fat', table') /\ SoleHandles'
<1>1. Known(table', file'[h])
  BY DEF SoleHandles, Known, Together
<1>2. \A g \in Handles : g # h /\ Usable(g) => ~Together(file[g], file'[h])
  BY DEF SoleHandles, Together
<1>3. {h} \in SUBSET Handles /\ \A f, g \in {h} : f = g
  OBVIOUS
<1>4. SoleHandles'
  BY <1>1, <1>2, <1>3, SoleKept
<1> QED
  BY <1>4

LEMMA HandleExact ==
    ASSUME Inv, Rooted, HandlesPlaced, Tight(fat, table), SoleHandles, HandlesPlaced',
           HandleCall
    PROVE  Tight(fat', table') /\ SoleHandles'
<1>1. CASE UNCHANGED <<fat, table, file>>
  BY <1>1, SoleSame
<1>2. ASSUME NEW h \in Handles, Close(h)
      PROVE  Tight(fat', table') /\ SoleHandles'
  <2>1. UNCHANGED <<fat, table>> /\ \A g \in Handles : ~Usable(g)' \/ file'[g] = file[g]
    BY <1>2 DEF Close, Inv, TypeOK, Usable
  <2> QED
    BY <2>1, SoleSame
<1>3. ASSUME NEW h \in Handles, NEW n \in 1 .. ClusterSize, Read(h, n)
      PROVE  Tight(fat', table') /\ SoleHandles'
  <2>1. Usable(h) /\ UNCHANGED <<fat, table>>
    BY <1>3 DEF Read
  <2>2. \/ file' = file
        \/ \E c, p : file' = [file EXCEPT ![h].cur = c, ![h].cpos = p]
        \/ \E c, p, q : file' = [file EXCEPT ![h].cur = c, ![h].cpos = p, ![h].pos = q]
    BY <1>3, Zenon DEF Read
  <2>3. /\ Together(file'[h], file[h]) /\ file'[h].size = file[h].size
        /\ \A g \in Handles \ {h} : file'[g] = file[g]
    BY <2>1, <2>2, CursorOnly
  <2> QED
    BY <2>1, <2>3, MoveExact
<1>4. ASSUME NEW h \in Handles, NEW pos, Usable(h), Seek(h, pos)
      PROVE  Tight(fat', table') /\ SoleHandles'
  <2>1. UNCHANGED <<fat, table>>
    BY <1>4 DEF Seek
  <2>2. \/ file' = file
        \/ \E c, p, q : file' = [file EXCEPT ![h].cur = c, ![h].pos = q, ![h].cpos = p]
    BY <1>4, Zenon DEF Seek
  <2>3. /\ Together(file'[h], file[h]) /\ file'[h].size = file[h].size
        /\ \A g \in Handles \ {h} : file'[g] = file[g]
    BY <1>4, <2>2, CursorOnly
  <2> QED
    BY <1>4, <2>1, <2>3, MoveExact
<1>5. ASSUME NEW h \in Handles, WriteRefused(h)
      PROVE  Tight(fat', table') /\ SoleHandles'
  BY <1>1, <1>5 DEF WriteRefused
<1> QED
  BY <1>2, <1>3, <1>4, <1>5, WriteExact DEF HandleCall

LEMMA OpenAlone ==
    ASSUME "shared file" \notin Risky, NEW h \in Handles, NEW d, NEW n, Open(h, d, n)
    PROVE  /\ UNCHANGED <<fat, table>>
           /\ \E i \in 1 .. Len(table[d]) :
                 /\ \A g \in Handles : ~OnSlot(g, d, i)
                 /\ file' = [file EXCEPT ![h] = AtStart(d, i, table[d][i].first, table[d][i].size)]
BY DEF Open

LEMMA ExactNext ==
    ASSUME "shared file" \notin Risky, ExactInv, HandlesPlaced', [Next]_vars
    PROVE  Tight(fat', table') /\ SoleHandles'
<1>1. Inv /\ Rooted /\ HandlesPlaced /\ Tight(fat, table) /\ SoleHandles
  BY DEF ExactInv, PlaceInv, VolumeInv
<1>2. ASSUME NEW d \in DOMAIN table, NEW n \in Names, NEW h \in Handles, Open(h, d, n)
      PROVE  Tight(fat', table') /\ SoleHandles'
  BY <1>1, <1>2, OpenAlone, OpenExact
<1>3. ASSUME NEW d \in DOMAIN table, NEW n \in Names, NEW h \in Handles, Create(h, d, n)
      PROVE  Tight(fat', table') /\ SoleHandles'
  BY <1>1, <1>3, CreateExact
<1>4. CASE DirectoryCall
  BY <1>1, <1>2, <1>3, <1>4, DirectoryExact DEF DirectoryCall
<1>5. CASE HandleCall
  BY <1>1, <1>5, HandleExact
<1>6. CASE UNCHANGED vars
  <2>1. UNCHANGED <<fat, table, file>>
    BY <1>6 DEF vars
  <2> QED
    BY <1>1, <2>1, SoleSame
<1> QED
  BY <1>4, <1>5, <1>6 DEF Next

\* What the invariant says of a file's chain is what ChainsExact does.
LEMMA TightIsExact == PlaceInv /\ Tight(fat, table) => ChainsExact
<1> SUFFICES ASSUME PlaceInv, Tight(fat, table),
                    NEW e \in EntriesOf(table), ~DirIn(table, e)
             PROVE  Cardinality(Chain(fat, FirstIn(table, e))) = Clusterful(SizeIn(table, e))
  BY DEF ChainsExact, Entries, DirIn, FirstIn, SizeIn
<1> DEFINE n == Cardinality(Chain(fat, FirstIn(table, e)))
           size == SizeIn(table, e)
<1>1. Inv /\ LongEnough(fat, table)
  BY DEF PlaceInv, VolumeInv
<1>2. n \in Nat /\ n >= 1
  BY <1>1, HeadsOfEntries, ChainFinite DEF IsHead
<1>3. size \in Nat
  BY <1>1, SizesType
<1>4. size <= Room(n) /\ (n = 1 \/ Room(n) < size + ClusterSize)
  BY <1>1 DEF LongEnough, Tight
<1> HIDE DEF n, size
<1>5. Clusterful(size) = n
  BY <1>2, <1>3, <1>4, ClusterfulOf
<1> QED
  BY <1>5 DEF n, size

LEMMA ExactInvariant ==
    ASSUME Risky = {}
    PROVE  Spec => []ExactInv
<1>1. "seek boundary" \notin Risky /\ "shared file" \notin Risky
  OBVIOUS
<1>2. Init => Tight(fat, table) /\ SoleHandles
  <2> SUFFICES ASSUME Init PROVE Tight(fat, table) /\ SoleHandles
    OBVIOUS
  <2>1. table[0] \in Seq(Slot) /\ \A i \in 1 .. Len(table[0]) : Vacant(table[0][i])
    BY EmptySlotsType, SizesAssumption DEF Init
  <2>2. EntriesOf(table) = {} /\ DOMAIN table = {0}
    BY <2>1, EntriesDef DEF Init
  <2> QED
    BY <2>2 DEF Tight, SoleHandles, Usable, Init
<1>3. ExactInv /\ PlaceInv' /\ [Next]_vars => ExactInv'
  <2>1. PlaceInv' => HandlesPlaced'
    BY DEF PlaceInv
  <2> QED
    BY <1>1, <2>1, ExactNext DEF ExactInv
<1>4. Spec => []PlaceInv
  BY <1>1, PlaceInvariant, PTL
<1>5. Init /\ PlaceInv => ExactInv
  BY <1>2 DEF ExactInv
<1> QED
  BY <1>3, <1>4, <1>5, PTL DEF Spec

\* Where no file is open twice and no handle is moved to the end of a file of
\* whole clusters, a file has the clusters its bytes take and no more: no write
\* that is refused, cut short or begun at a cluster boundary leaves one unused.
THEOREM ChainsAsLongAsBytes ==
    ASSUME Risky = {}
    PROVE  Spec => []ChainsExact
<1>1. ExactInv => ChainsExact
  BY TightIsExact DEF ExactInv
<1> QED
  BY <1>1, ExactInvariant, PTL
----------------------------------------------------------------------------
(* The k-th cluster of a chain *)

LEMMA NthIs ==
    ASSUME NEW f \in [Clusters -> Cells], NEW c \in Clusters, NEW k \in Nat,
           NEW x, Reaches(f, c, k, x)
    PROVE  Nth(f, c, k) = x
<1> DEFINE F(w) == [i \in 0 .. k |->
                      IF i = 0 THEN c ELSE IF w[i - 1] \in Clusters THEN f[w[i - 1]] ELSE w[i - 1]]
           v == CHOOSE w : w = F(w)
<1>1. PICK u : Steps(f, c, k, u) /\ u[k] = x
  BY DEF Reaches
<1>2. u = F(u)
  <2>1. \A i \in 1 .. k : i - 1 \in 0 .. k
    OBVIOUS
  <2>2. DOMAIN u = 0 .. k /\ u = [i \in 0 .. k |-> u[i]]
    BY <1>1 DEF Steps
  <2>3. \A i \in 0 .. k : u[i] = F(u)[i]
    BY <1>1, <2>1 DEF Steps
  <2> QED
    BY <2>2, <2>3
<1>3. v = F(v)
  BY <1>2, Zenon
<1>4. Nth(f, c, k) = v[k]
  BY DEF Nth
<1> HIDE DEF v
<1> DEFINE T == {i \in 0 .. k : v[i] # u[i]}
<1>5. T = {}
  <2> SUFFICES ASSUME T # {} PROVE FALSE
    OBVIOUS
  <2>0. T \in SUBSET Nat
    OBVIOUS
  <2>1. PICK i \in T : \A j \in T : i <= j
    BY <2>0, Least, Zenon
  <2>2. v[0] = c /\ u[0] = c
    BY <1>1, <1>3 DEF Steps
  <2>3. i \in 1 .. k /\ i - 1 \in 0 .. k /\ v[i - 1] = u[i - 1]
    BY <2>1, <2>2
  <2>4. v[i] = IF v[i - 1] \in Clusters THEN f[v[i - 1]] ELSE v[i - 1]
    BY <1>3, <2>3
  <2>5. u[i - 1] \in Clusters /\ u[i] = f[u[i - 1]]
    BY <1>1, <2>3 DEF Steps
  <2> QED
    BY <2>1, <2>3, <2>4, <2>5
<1>6. v[k] = u[k]
  BY <1>5
<1> QED
  BY <1>1, <1>4, <1>6

\* As many clusters as a chain has, so many links there are to follow.
LEMMA StepsExist ==
    ASSUME NEW f \in [Clusters -> Cells], NEW c \in Clusters, NEW k \in Nat,
           k < Cardinality(Chain(f, c))
    PROVE  \E x : Reaches(f, c, k, x)
<1> DEFINE T == {i \in 0 .. k : ~ \E x : Reaches(f, c, i, x)}
<1>1. ASSUME T # {} PROVE FALSE
  <2>0. T \in SUBSET Nat
    OBVIOUS
  <2>1. PICK i \in T : \A j \in T : i <= j
    BY <1>1, <2>0, Least, Zenon
  <2>2. Reaches(f, c, 0, c)
    BY StepsNone
  <2>3. i \in 1 .. k /\ i - 1 \in 0 .. k /\ i - 1 \notin T
    BY <2>1, <2>2
  <2> DEFINE n == i - 1
  <2>4. n \in Nat /\ n + 1 = i /\ n + 1 <= k
    BY <2>3
  <2>5. PICK x : Reaches(f, c, n, x)
    BY <2>3
  <2> HIDE DEF n
  <2>6. f[x] \notin Clusters
    BY <2>1, <2>4, <2>5, StepsMore
  <2>7. Cardinality(Chain(f, c)) <= n + 1
    BY <2>4, <2>5, <2>6, StepsEnd
  <2> QED
    BY <2>4, <2>7, ChainFinite
<1> QED
  BY <1>1
----------------------------------------------------------------------------
(* Functions from paths *)

\* m is the function that has v[e] at the path p[e] of each entry e of E.
Maps(m, E, p, v) ==
    /\ m = [q \in {p[e] : e \in E} |-> m[q]]
    /\ \A e \in E : m[p[e]] = v[e]

LEMMA MapsEqual ==
    ASSUME NEW m, NEW n, NEW D, m = [q \in D |-> m[q]], n = [q \in D |-> n[q]],
           \A q \in D : m[q] = n[q]
    PROVE  m = n
OBVIOUS

LEMMA MapsDomain ==
    ASSUME NEW m, NEW E, NEW p, NEW v, Maps(m, E, p, v)
    PROVE  DOMAIN m = {p[e] : e \in E}
BY DEF Maps

\* The map over the same entries, paths and values is the same map.
LEMMA MapsSame ==
    ASSUME NEW m, NEW n, NEW E, NEW p, NEW v, NEW r, NEW w,
           Maps(m, E, p, v), Maps(n, E, r, w),
           \A e \in E : r[e] = p[e] /\ w[e] = v[e]
    PROVE  n = m
<1> DEFINE D == {p[e] : e \in E}
<1>1. {r[e] : e \in E} = D
  OBVIOUS
<1>2. m = [q \in D |-> m[q]] /\ n = [q \in D |-> n[q]]
  BY <1>1 DEF Maps
<1>3. \A q \in D : m[q] = n[q]
  BY DEF Maps
<1> HIDE DEF D
<1> QED
  BY <1>2, <1>3, MapsEqual

\* One entry more.
LEMMA MapsMore ==
    ASSUME NEW m, NEW n, NEW E, NEW p, NEW v, NEW r, NEW w, NEW x,
           Maps(m, E, p, v), Maps(n, E \cup {x}, r, w),
           \A e \in E : r[e] = p[e] /\ w[e] = v[e]
    PROVE  n = Store!With(m, r[x], w[x])
<1> DEFINE D == DOMAIN m \cup {r[x]}
           g == [q \in D |-> IF q = r[x] THEN w[x] ELSE m[q]]
<1>0. m = [q \in {p[e] : e \in E} |-> m[q]]
  BY Zenon DEF Maps
<1>1. DOMAIN m = {p[e] : e \in E}
  BY <1>0
<1>2. {r[e] : e \in E \cup {x}} = D
  BY <1>1
<1>3. n = [q \in D |-> n[q]]
  BY <1>2 DEF Maps
<1>4. \A q \in D : n[q] = g[q]
  BY <1>1 DEF Maps
<1>5. g = [q \in D |-> g[q]]
  OBVIOUS
<1> HIDE DEF D, g
<1>6. n = g
  BY <1>3, <1>4, <1>5, MapsEqual
<1> QED
  BY <1>6 DEF g, D, Store!With

\* One entry less.
OneLess(E, F, x, p, v, r, w) ==
    /\ x \in E /\ F = E \ {x}
    /\ \A e \in F : r[e] = p[e] /\ w[e] = v[e] /\ p[e] # p[x]

LEMMA MapsLess ==
    ASSUME NEW m, NEW n, NEW E, NEW F, NEW p, NEW v, NEW r, NEW w, NEW x,
           Maps(m, E, p, v), Maps(n, F, r, w), OneLess(E, F, x, p, v, r, w)
    PROVE  n = Store!Without(m, p[x])
<1> DEFINE D == DOMAIN m \ {p[x]}
           g == [q \in D |-> m[q]]
<1>0. m = [q \in {p[e] : e \in E} |-> m[q]]
  BY Zenon DEF Maps
<1>1. DOMAIN m = {p[e] : e \in E}
  BY <1>0
<1>2. {r[e] : e \in F} = D
  BY <1>1 DEF OneLess
<1>3. n = [q \in D |-> n[q]]
  BY <1>2 DEF Maps
<1>4. \A q \in D : n[q] = g[q]
  BY <1>1 DEF Maps, OneLess
<1>5. g = [q \in D |-> g[q]]
  OBVIOUS
<1> HIDE DEF D, g
<1>6. n = g
  BY <1>3, <1>4, <1>5, MapsEqual
<1> QED
  BY <1>6 DEF g, D, Store!Without

\* One entry at another path, or with another value at its own.
LEMMA MapsMoved ==
    ASSUME NEW m, NEW n, NEW E, NEW p, NEW v, NEW r, NEW w, NEW x \in E,
           Maps(m, E, p, v), Maps(n, E, r, w), w[x] = v[x],
           \A e \in E \ {x} : r[e] = p[e] /\ w[e] = v[e] /\ p[e] # p[x]
    PROVE  n = Store!Moved(m, p[x], r[x])
<1> DEFINE D == (DOMAIN m \ {p[x]}) \cup {r[x]}
           g == [q \in D |-> IF q = r[x] THEN m[p[x]] ELSE [y \in DOMAIN m \ {p[x]} |-> m[y]][q]]
<1>0. m = [q \in {p[e] : e \in E} |-> m[q]]
  BY Zenon DEF Maps
<1>1. DOMAIN m = {p[e] : e \in E}
  BY <1>0
<1>2. {r[e] : e \in E} = D
  BY <1>1
<1>3. n = [q \in D |-> n[q]]
  BY <1>2 DEF Maps
<1>4. \A q \in D : n[q] = g[q]
  BY <1>1 DEF Maps
<1>5. g = [q \in D |-> g[q]]
  OBVIOUS
<1> HIDE DEF D, g
<1>6. n = g
  BY <1>3, <1>4, <1>5, MapsEqual
<1> QED
  BY <1>6 DEF g, D, Store!Moved, Store!With, Store!Without

\* One value another, at its path.
OneChanged(E, x, p, v, r, w) ==
    /\ x \in E /\ r[x] = p[x]
    /\ \A e \in E \ {x} : r[e] = p[e] /\ w[e] = v[e] /\ p[e] # p[x]

LEMMA MapsChanged ==
    ASSUME NEW m, NEW n, NEW E, NEW p, NEW v, NEW r, NEW w, NEW x,
           Maps(m, E, p, v), Maps(n, E, r, w), OneChanged(E, x, p, v, r, w)
    PROVE  n = [m EXCEPT ![p[x]] = w[x]]
<1> DEFINE D == DOMAIN m
           g == [m EXCEPT ![p[x]] = w[x]]
<1>0. m = [q \in {p[e] : e \in E} |-> m[q]]
  BY Zenon DEF Maps
<1>1. DOMAIN m = {p[e] : e \in E}
  BY <1>0
<1>2. {r[e] : e \in E} = D
  BY <1>1 DEF OneChanged
<1>3. n = [q \in D |-> n[q]]
  BY <1>2 DEF Maps
<1>4. \A q \in D : n[q] = g[q]
  BY <1>1 DEF Maps, OneChanged
<1>5. g = [q \in D |-> g[q]]
  OBVIOUS
<1> HIDE DEF D, g
<1>6. n = g
  BY <1>3, <1>4, <1>5, MapsEqual
<1> QED
  BY <1>6 DEF g, D
----------------------------------------------------------------------------
(* The file store of a volume *)

PathIn(t, e) == <<e[1], t[e[1]][e[2]].name>>
FilesIn(t)   == {e \in EntriesOf(t) : ~DirIn(t, e)}
DirsIn(t)    == {e \in EntriesOf(t) : DirIn(t, e)}

ByteOf(f, dt, c, x) ==
    LET b == Nth(f, c, (x - 1) \div ClusterSize)
    IN  IF b \in Clusters THEN dt[b][(x - 1) % ClusterSize] ELSE Closed
TextOf(f, t, dt, e) == [x \in 1 .. SizeIn(t, e) |-> ByteOf(f, dt, FirstIn(t, e), x)]

PathsOf(t)        == [e \in EntriesOf(t) |-> PathIn(t, e)]
TextsOf(f, t, dt) == [e \in EntriesOf(t) |-> TextOf(f, t, dt, e)]
FirstsOf(t)       == [e \in EntriesOf(t) |-> FirstIn(t, e)]

\* No two entries have one path.
Unique(t) == \A e, g \in EntriesOf(t) : PathIn(t, e) = PathIn(t, g) => e = g

LEMMA OrderedUnique == TypeOK /\ AllOrdered => Unique(table)
<1> SUFFICES ASSUME TypeOK, AllOrdered, NEW e \in EntriesOf(table), NEW g \in EntriesOf(table),
                    PathIn(table, e) = PathIn(table, g)
             PROVE  e = g
  BY DEF Unique
<1>1. /\ e = <<e[1], e[2]>> /\ e[1] \in DOMAIN table /\ e[2] \in 1 .. Len(table[e[1]])
      /\ ~Vacant(table[e[1]][e[2]])
      /\ g = <<g[1], g[2]>> /\ g[2] \in 1 .. Len(table[g[1]]) /\ ~Vacant(table[g[1]][g[2]])
  BY EntryParts
<1>2. e[1] = g[1] /\ table[e[1]][e[2]].name = table[e[1]][g[2]].name
  BY DEF PathIn
<1>3. e[2] \in Nat /\ g[2] \in Nat
  BY <1>1
<1>4. ~(e[2] < g[2]) /\ ~(g[2] < e[2])
  BY <1>1, <1>2, <1>3 DEF AllOrdered, Ordered
<1>5. e[2] = g[2]
  BY <1>3, <1>4
<1> QED
  BY <1>1, <1>2, <1>5, Zenon

LEMMA ContentMaps ==
    Unique(table) => Maps(StoreContent, FilesIn(table), PathsOf(table), TextsOf(fat, table, data))
<1> SUFFICES ASSUME Unique(table)
             PROVE  Maps(StoreContent, FilesIn(table), PathsOf(table), TextsOf(fat, table, data))
  OBVIOUS
<1> DEFINE E == FilesIn(table)
           p == PathsOf(table)
<1>1. FileEntries = E /\ E \subseteq EntriesOf(table)
  BY DEF FileEntries, FilesIn, Entries, DirIn
<1>2. \A e \in E : Path(e) = p[e] /\ p[e] = PathIn(table, e)
  BY <1>1 DEF Path, PathsOf, PathIn
<1>3. \A e \in E : Contents(e) = TextsOf(fat, table, data)[e]
  BY <1>1 DEF Contents, TextsOf, TextOf, ByteOf, SizeIn, First
<1>4. \A e \in E : At(Path(e), E) = e
  <2> TAKE e \in E
  <2>1. \A g \in E : Path(g) = Path(e) => g = e
    BY <1>1, <1>2 DEF Unique
  <2> QED
    BY <2>1 DEF At
<1>5. {Path(e) : e \in FileEntries} = {p[e] : e \in E}
  BY <1>1, <1>2
<1>6. StoreContent = [q \in {p[e] : e \in E} |-> Contents(At(q, E))]
  BY <1>1, <1>5 DEF StoreContent
<1> HIDE DEF p, E
<1>7. StoreContent = [q \in {p[e] : e \in E} |-> StoreContent[q]]
  BY <1>6
<1>8. \A e \in E : StoreContent[p[e]] = TextsOf(fat, table, data)[e]
  BY <1>2, <1>3, <1>4, <1>6
<1> QED
  BY <1>7, <1>8, Zenon DEF Maps, p, E

LEMMA SubMaps ==
    Unique(table) => Maps(StoreSub, DirsIn(table), PathsOf(table), FirstsOf(table))
<1> SUFFICES ASSUME Unique(table)
             PROVE  Maps(StoreSub, DirsIn(table), PathsOf(table), FirstsOf(table))
  OBVIOUS
<1> DEFINE E == DirsIn(table)
           p == PathsOf(table)
<1>1. DirEntriesOf = E /\ E \subseteq EntriesOf(table)
  BY DEF DirEntriesOf, FileEntries, DirsIn, Entries, DirIn
<1>2. \A e \in E : Path(e) = p[e] /\ p[e] = PathIn(table, e)
  BY <1>1 DEF Path, PathsOf, PathIn
<1>3. \A e \in E : First(e) = FirstsOf(table)[e]
  BY <1>1 DEF First, FirstsOf
<1>4. \A e \in E : At(Path(e), E) = e
  <2> TAKE e \in E
  <2>1. \A g \in E : Path(g) = Path(e) => g = e
    BY <1>1, <1>2 DEF Unique
  <2> QED
    BY <2>1 DEF At
<1>5. {Path(e) : e \in DirEntriesOf} = {p[e] : e \in E}
  BY <1>1, <1>2
<1>6. StoreSub = [q \in {p[e] : e \in E} |-> First(At(q, E))]
  BY <1>1, <1>5 DEF StoreSub
<1> HIDE DEF p, E
<1>7. StoreSub = [q \in {p[e] : e \in E} |-> StoreSub[q]]
  BY <1>6
<1>8. \A e \in E : StoreSub[p[e]] = FirstsOf(table)[e]
  BY <1>2, <1>3, <1>4, <1>6
<1> QED
  BY <1>7, <1>8, Zenon DEF Maps, p, E

LEMMA ContentMapsNext ==
    Unique(table') => Maps(StoreContent', FilesIn(table'), PathsOf(table'), TextsOf(fat', table', data'))
<1>1. (Unique(table) => Maps(StoreContent, FilesIn(table), PathsOf(table), TextsOf(fat, table, data)))'
  BY ContentMaps, PTL
<1> QED
  BY <1>1

LEMMA SubMapsNext ==
    Unique(table') => Maps(StoreSub', DirsIn(table'), PathsOf(table'), FirstsOf(table'))
<1>1. (Unique(table) => Maps(StoreSub, DirsIn(table), PathsOf(table), FirstsOf(table)))'
  BY SubMaps, PTL
<1> QED
  BY <1>1
----------------------------------------------------------------------------
(* The bytes of a file *)

LEMMA DivMod ==
    ASSUME NEW k \in Nat, NEW p \in 0 .. ClusterSize - 1
    PROVE  (Room(k) + p) \div ClusterSize = k /\ (Room(k) + p) % ClusterSize = p
<1> DEFINE x == Room(k) + p
           q == x \div ClusterSize
           r == x % ClusterSize
<1>1. x \in Nat /\ Room(k) \in Nat
  BY RoomFacts, SizesAssumption
<1>2. q \in Nat /\ r \in 0 .. ClusterSize - 1 /\ x = Room(q) + r
  BY <1>1, RoomOf
<1> HIDE DEF q, r
<1>3. Room(q) \in Nat
  BY <1>2, RoomFacts
<1>4. ~(q < k) /\ ~(k < q)
  BY <1>1, <1>2, <1>3, RoomGrows, SizesAssumption
<1>5. q = k
  BY <1>2, <1>4
<1>6. r = p
  BY <1>1, <1>2, <1>5, SizesAssumption
<1> QED
  BY <1>5, <1>6 DEF q, r

LEMMA ReachesCluster ==
    ASSUME NEW f, NEW c, NEW k \in Nat, NEW y, Reaches(f, c, k, y)
    PROVE  y \in Clusters
BY DEF Reaches, Steps

LEMMA ByteIs ==
    ASSUME NEW f \in [Clusters -> Cells], NEW dt, NEW c \in Clusters, NEW k \in Nat,
           NEW p \in 0 .. ClusterSize - 1, NEW y, Reaches(f, c, k, y)
    PROVE  ByteOf(f, dt, c, Room(k) + p + 1) = dt[y][p]
<1>1. Room(k) + p \in Nat /\ Room(k) \in Nat
  BY RoomFacts, SizesAssumption
<1>2. (Room(k) + p + 1) - 1 = Room(k) + p
  BY <1>1, SizesAssumption
<1>3. Nth(f, c, k) = y /\ y \in Clusters
  BY NthIs, ReachesCluster
<1> QED
  BY <1>2, <1>3, DivMod DEF ByteOf

\* Every byte a chain has room for is in one of its clusters.
LEMMA ByteWhere ==
    ASSUME NEW f \in [Clusters -> Cells], NEW c \in Clusters,
           NEW x \in Nat, x >= 1, x <= Room(Cardinality(Chain(f, c)))
    PROVE  \E k \in Nat, p \in 0 .. ClusterSize - 1, y \in Chain(f, c) :
              /\ x = Room(k) + p + 1 /\ k < Cardinality(Chain(f, c))
              /\ Reaches(f, c, k, y)
<1> DEFINE m == Cardinality(Chain(f, c))
           k == (x - 1) \div ClusterSize
           p == (x - 1) % ClusterSize
<1>1. x - 1 \in Nat /\ m \in Nat
  BY ChainFinite
<1>2. k \in Nat /\ p \in 0 .. ClusterSize - 1 /\ x - 1 = Room(k) + p
  BY <1>1, RoomOf
<1> HIDE DEF k, p
<1>3. Room(k) < Room(m)
  <2>1. Room(k) \in Nat /\ Room(m) \in Nat
    BY <1>1, <1>2, RoomFacts
  <2> HIDE DEF m
  <2>2. x <= Room(m)
    BY DEF m
  <2> QED
    BY <1>2, <2>1, <2>2, SizesAssumption
<1>4. k < m
  BY <1>1, <1>2, <1>3, RoomGrows
<1>5. PICK y : Reaches(f, c, k, y)
  BY <1>2, <1>4, StepsExist
<1>6. y \in Chain(f, c)
  <2>1. PICK w : Steps(f, c, k, w) /\ w[k] = y
    BY <1>5 DEF Reaches
  <2>2. k \in 0 .. k
    BY <1>2
  <2> QED
    BY <1>2, <2>1, <2>2, StepsInChain
<1>7. x = Room(k) + p + 1
  BY <1>2, RoomFacts, SizesAssumption
<1> QED
  BY <1>2, <1>4, <1>5, <1>6, <1>7

\* Bytes stay where the links and the data of their chain do.
LEMMA ByteKept ==
    ASSUME NEW f \in [Clusters -> Cells], NEW g \in [Clusters -> Cells], NEW dt, NEW du,
           NEW c \in Clusters,
           \A b \in Chain(f, c) : f[b] \in Clusters => g[b] = f[b],
           \A b \in Chain(f, c) : du[b] = dt[b],
           NEW x \in Nat, x >= 1, x <= Room(Cardinality(Chain(f, c)))
    PROVE  ByteOf(g, du, c, x) = ByteOf(f, dt, c, x)
<1>1. PICK k \in Nat, p \in 0 .. ClusterSize - 1, y \in Chain(f, c) :
         x = Room(k) + p + 1 /\ Reaches(f, c, k, y)
  BY ByteWhere
<1>2. Reaches(g, c, k, y)
  BY <1>1, StepsKept
<1>3. ByteOf(f, dt, c, x) = dt[y][p] /\ ByteOf(g, du, c, x) = du[y][p]
  BY <1>1, <1>2, ByteIs
<1> QED
  BY <1>3

LEMMA TextKept ==
    ASSUME NEW f \in [Clusters -> Cells], NEW g \in [Clusters -> Cells], NEW dt, NEW du,
           NEW t, NEW u, NEW e,
           FirstIn(t, e) \in Clusters, FirstIn(u, e) = FirstIn(t, e),
           SizeIn(t, e) \in Nat, SizeIn(u, e) = SizeIn(t, e),
           SizeIn(t, e) <= Room(Cardinality(Chain(f, FirstIn(t, e)))),
           \A b \in Chain(f, FirstIn(t, e)) : f[b] \in Clusters => g[b] = f[b],
           \A b \in Chain(f, FirstIn(t, e)) : du[b] = dt[b]
    PROVE  TextOf(g, u, du, e) = TextOf(f, t, dt, e)
<1> DEFINE c == FirstIn(t, e)
           n == SizeIn(t, e)
<1>1. \A x \in 1 .. n : ByteOf(g, du, c, x) = ByteOf(f, dt, c, x)
  <2> TAKE x \in 1 .. n
  <2>1. Room(Cardinality(Chain(f, c))) \in Nat
    BY ChainFinite, RoomFacts
  <2>2. x \in Nat /\ x >= 1 /\ x <= Room(Cardinality(Chain(f, c)))
    BY <2>1
  <2> QED
    BY <2>2, ByteKept
<1> QED
  BY <1>1 DEF TextOf
----------------------------------------------------------------------------
(* The invariant *)

Small(t) == \A e \in EntriesOf(t) : SizeIn(t, e) <= MaxSize

StoreInv == ExactInv /\ AllOrdered /\ Small(table)

LEMMA StoreFacts ==
    ASSUME StoreInv
    PROVE  /\ Inv /\ Rooted /\ LongEnough(fat, table) /\ HandlesPlaced /\ AllOrdered
           /\ Unique(table) /\ fat \in [Clusters -> Cells]
           /\ \A e \in EntriesOf(table) :
                 /\ IsHead(fat, FirstIn(table, e)) /\ FirstIn(table, e) \in Clusters
                 /\ SizeIn(table, e) \in Nat /\ SizeIn(table, e) <= MaxSize
                 /\ ~DirIn(table, e) => SizeIn(table, e) <= Room(Cardinality(Chain(fat, FirstIn(table, e))))
           /\ \A h \in Handles : Usable(h) =>
                 /\ file[h] \in Handle /\ OnEntry(table, file[h]) /\ AtPlace(fat, file[h])
                 /\ Known(table, file[h])
<1>1. /\ Inv /\ Rooted /\ LongEnough(fat, table) /\ HandlesPlaced /\ AllOrdered
      /\ Small(table) /\ SoleHandles /\ TypeOK
  BY DEF StoreInv, ExactInv, PlaceInv, VolumeInv, Inv
<1>2. Unique(table)
  BY <1>1, OrderedUnique
<1>3. \A h \in Handles : Usable(h) =>
         /\ file[h] \in Handle /\ OnEntry(table, file[h]) /\ AtPlace(fat, file[h])
         /\ Known(table, file[h])
  BY <1>1, UsableHandles DEF SoleHandles, Usable
<1>4. \A e \in EntriesOf(table) :
         /\ IsHead(fat, FirstIn(table, e)) /\ FirstIn(table, e) \in Clusters
         /\ SizeIn(table, e) \in Nat /\ SizeIn(table, e) <= MaxSize
         /\ ~DirIn(table, e) => SizeIn(table, e) <= Room(Cardinality(Chain(fat, FirstIn(table, e))))
  BY <1>1, HeadsOfEntries, SizesType DEF Small, IsHead, LongEnough
<1> QED
  BY <1>1, <1>2, <1>3, <1>4, HeadsOfEntries

\* What the file store calls taken, files, directories and the tree.
LEMMA StoreSets ==
    ASSUME StoreInv
    PROVE  /\ DOMAIN StoreContent = {PathIn(table, e) : e \in FilesIn(table)}
           /\ DOMAIN StoreSub = {PathIn(table, e) : e \in DirsIn(table)}
           /\ Store!Tree = DOMAIN table
           /\ \A q : q \in Store!Taken <=> \E e \in EntriesOf(table) : PathIn(table, e) = q
<1>1. /\ Maps(StoreContent, FilesIn(table), PathsOf(table), TextsOf(fat, table, data))
      /\ Maps(StoreSub, DirsIn(table), PathsOf(table), FirstsOf(table))
  BY StoreFacts, ContentMaps, SubMaps
<1>2. /\ \A e \in FilesIn(table) : e \in EntriesOf(table) /\ PathsOf(table)[e] = PathIn(table, e)
      /\ \A e \in DirsIn(table) : e \in EntriesOf(table) /\ PathsOf(table)[e] = PathIn(table, e)
                                  /\ FirstsOf(table)[e] = FirstIn(table, e)
  BY DEF FilesIn, DirsIn, PathsOf, FirstsOf
<1>3. DOMAIN StoreContent = {PathIn(table, e) : e \in FilesIn(table)}
  <2>0. StoreContent = [q \in {PathsOf(table)[e] : e \in FilesIn(table)} |-> StoreContent[q]]
    BY <1>1, Zenon DEF Maps
  <2>1. DOMAIN StoreContent = {PathsOf(table)[e] : e \in FilesIn(table)}
    BY <2>0
  <2> QED
    BY <1>2, <2>1
<1>4. DOMAIN StoreSub = {PathIn(table, e) : e \in DirsIn(table)}
  <2>0. StoreSub = [q \in {PathsOf(table)[e] : e \in DirsIn(table)} |-> StoreSub[q]]
    BY <1>1, Zenon DEF Maps
  <2>1. DOMAIN StoreSub = {PathsOf(table)[e] : e \in DirsIn(table)}
    BY <2>0
  <2> QED
    BY <1>2, <2>1
<1>5. \A e \in DirsIn(table) : StoreSub[PathIn(table, e)] = FirstIn(table, e)
  BY <1>1, <1>2 DEF Maps
<1>6. {StoreSub[q] : q \in DOMAIN StoreSub} = {FirstIn(table, e) : e \in DirsIn(table)}
  BY <1>4, <1>5
<1>7. {0} \cup {FirstIn(table, e) : e \in DirsIn(table)} = DOMAIN table
  <2>1. \A x : x \in DOMAIN table \ {0} <=> \E e \in DirsIn(table) : FirstIn(table, e) = x
    BY StoreFacts DEF Rooted, DirsIn
  <2>2. 0 \in DOMAIN table
    BY StoreFacts DEF Inv, TypeOK
  <2> QED
    BY <2>1, <2>2
<1>8. Store!Tree = DOMAIN table
  BY <1>6, <1>7 DEF Store!Tree, Store!Subdirs
<1>9. \A q : q \in Store!Taken <=> \E e \in EntriesOf(table) : PathIn(table, e) = q
  <2>1. \A q : q \in Store!Taken <=> q \in DOMAIN StoreContent \/ q \in DOMAIN StoreSub
    BY DEF Store!Taken, Store!Files, Store!Subdirs
  <2>2. \A e : e \in EntriesOf(table) <=> e \in FilesIn(table) \/ e \in DirsIn(table)
    BY DEF FilesIn, DirsIn
  <2> QED
    BY <1>3, <1>4, <2>1, <2>2
<1> QED
  BY <1>3, <1>4, <1>8, <1>9

\* A name the driver finds, or does not, the store has, or has not.
LEMMA NameTaken ==
    ASSUME StoreInv, NEW d \in DOMAIN table, NEW n \in Names
    PROVE  /\ <<d, n>> \in Store!Paths
           /\ Missing(table[d], n) <=> <<d, n>> \notin Store!Taken
           /\ \A i : Found(table[d], n, i) =>
                 /\ i \in 1 .. Len(table[d])
                 /\ <<d, i>> \in EntriesOf(table) /\ PathIn(table, <<d, i>>) = <<d, n>>
                 /\ FirstIn(table, <<d, i>>) = table[d][i].first
                 /\ DirIn(table, <<d, i>>) = table[d][i].dir
<1>1. <<d, n>> \in Store!Paths
  BY StoreSets DEF Store!Paths
<1>2. /\ AllOrdered /\ \A x \in DOMAIN table : table[x] \in Seq(Slot)
  BY StoreFacts DEF Inv, TypeOK
<1>3. ASSUME NEW i, Found(table[d], n, i)
      PROVE  /\ i \in 1 .. Len(table[d])
             /\ <<d, i>> \in EntriesOf(table) /\ PathIn(table, <<d, i>>) = <<d, n>>
             /\ FirstIn(table, <<d, i>>) = table[d][i].first
             /\ DirIn(table, <<d, i>>) = table[d][i].dir
  <2>1. i \in 1 .. Len(table[d]) /\ table[d][i].name = n /\ ~Vacant(table[d][i])
    BY <1>3, MarksAssumption DEF Found, Vacant
  <2> QED
    BY <2>1, EntriesDef DEF PathIn, FirstIn, DirIn
<1>4. ASSUME Missing(table[d], n), NEW e \in EntriesOf(table), PathIn(table, e) = <<d, n>>
      PROVE  FALSE
  <2>1. e[1] = d /\ e[2] \in 1 .. Len(table[d]) /\ table[d][e[2]].name = n
    BY <1>4, EntryParts DEF PathIn
  <2> QED
    BY <1>2, <1>4, <2>1, MissingOrdered DEF AllOrdered
<1>5. Missing(table[d], n) <=> <<d, n>> \notin Store!Taken
  BY <1>3, <1>4, StoreSets DEF Missing
<1> QED
  BY <1>1, <1>3, <1>5
----------------------------------------------------------------------------
(* What a call does to the store *)

\* A file whose chain, bytes and size are left alone reads as before.
LEMMA TextsSame ==
    ASSUME StoreInv, fat' \in [Clusters -> Cells], NEW e \in FilesIn(table),
           FirstIn(table', e) = FirstIn(table, e), SizeIn(table', e) = SizeIn(table, e),
           \A b \in Chain(fat, FirstIn(table, e)) : fat[b] \in Clusters => fat'[b] = fat[b],
           \A b \in Chain(fat, FirstIn(table, e)) : data'[b] = data[b]
    PROVE  TextOf(fat', table', data', e) = TextOf(fat, table, data, e)
<1>1. e \in EntriesOf(table) /\ ~DirIn(table, e)
  BY DEF FilesIn
<1>2. /\ fat \in [Clusters -> Cells] /\ FirstIn(table, e) \in Clusters /\ SizeIn(table, e) \in Nat
      /\ SizeIn(table, e) <= Room(Cardinality(Chain(fat, FirstIn(table, e))))
  BY <1>1, StoreFacts
<1> QED
  BY <1>2, TextKept

\* A new entry x at path q, which changes nothing about those there are.
EntryMade(x, q, isDir, c, p, r, v, w) ==
    /\ isDir => FilesIn(table') = FilesIn(table) /\ DirsIn(table') = DirsIn(table) \cup {x}
    /\ ~isDir => FilesIn(table') = FilesIn(table) \cup {x} /\ DirsIn(table') = DirsIn(table)
    /\ \A e \in EntriesOf(table) : r[e] = p[e] /\ PathIn(table', e) = PathIn(table, e)
    /\ \A e \in FilesIn(table) : r[e] = p[e] /\ w[e] = v[e]
    /\ \A e \in DirsIn(table) : r[e] = p[e] /\ FirstsOf(table')[e] = FirstsOf(table)[e]
    /\ r[x] = q /\ w[x] = << >> /\ FirstsOf(table')[x] = c /\ c \notin DOMAIN table

LEMMA MadePaths ==
    ASSUME StoreInv, UNCHANGED data,
           NEW d \in DOMAIN table, NEW n \in Names, NEW isDir \in BOOLEAN,
           NEW c, NEW i, Made(d, i, c, n, isDir)
    PROVE  EntryMade(<<d, i>>, <<d, n>>, isDir, c, PathsOf(table), PathsOf(table'),
                     TextsOf(fat, table, data), TextsOf(fat', table', data'))
<1> DEFINE x == <<d, i>>
           q == <<d, n>>
           s == << >>
<1>0. Inv /\ Rooted /\ Tight(fat, table)
  BY DEF StoreInv, ExactInv, PlaceInv, VolumeInv
<1>1. /\ x \notin EntriesOf(table) /\ EntriesOf(table') = EntriesOf(table) \cup {x}
      /\ DirIn(table', x) = isDir /\ FirstIn(table', x) = c /\ c \in Clusters /\ c \notin DOMAIN table
      /\ \A e \in EntriesOf(table) :
            /\ table'[e[1]][e[2]] = table[e[1]][e[2]]
            /\ FirstIn(table', e) = FirstIn(table, e) /\ DirIn(table', e) = DirIn(table, e)
  BY <1>0, MadeEntries
<1>2. /\ fat' \in [Clusters -> Cells]
      /\ \A b \in Clusters : fat[b] \in Clusters => fat'[b] = fat[b]
  BY <1>0, MadeChains
<1>3. SizeIn(table', x) = 0 /\ \A e \in EntriesOf(table) : SizeIn(table', e) = SizeIn(table, e)
  BY <1>0, MadeTight
<1>4. PathIn(table', x) = q
  <2>1. table[d] \in Seq(Slot) /\ table'[d] = WithEntry(d, i, NewEntry(n, isDir, c))
        /\ i \in 1 .. Len(WithRoom(d)) /\ NewEntry(n, isDir, c) \in Slot
    BY <1>0, <1>1, ClustersFacts DEF Inv, TypeOK, Made, NewEntry, Slot
  <2>2. WithEntry(d, i, NewEntry(n, isDir, c))[i] = NewEntry(n, isDir, c)
    BY <2>1, WithEntryFacts, Zenon
  <2> QED
    BY <2>1, <2>2 DEF PathIn, NewEntry
<1>5. \A e \in EntriesOf(table) : PathIn(table', e) = PathIn(table, e)
  BY <1>1 DEF PathIn
<1>6. /\ isDir => FilesIn(table') = FilesIn(table) /\ DirsIn(table') = DirsIn(table) \cup {x}
      /\ ~isDir => FilesIn(table') = FilesIn(table) \cup {x} /\ DirsIn(table') = DirsIn(table)
  BY <1>1 DEF FilesIn, DirsIn
<1>7. \A e \in FilesIn(table) : TextOf(fat', table', data', e) = TextOf(fat, table, data, e)
  <2> TAKE e \in FilesIn(table)
  <2>1. e \in EntriesOf(table)
    BY DEF FilesIn
  <2>2. Chain(fat, FirstIn(table, e)) \subseteq Clusters
    BY <2>1, StoreFacts, ChainClosed
  <2> QED
    BY <1>1, <1>2, <1>3, <2>1, <2>2, TextsSame
<1>8. TextOf(fat', table', data', x) = s
  BY <1>3 DEF TextOf
<1>9. FilesIn(table) \subseteq EntriesOf(table) /\ DirsIn(table) \subseteq EntriesOf(table)
  BY DEF FilesIn, DirsIn
<1>10. EntriesOf(table) \subseteq EntriesOf(table') /\ x \in EntriesOf(table')
  BY <1>1
<1> HIDE DEF x, q, s
<1>11. /\ \A e \in EntriesOf(table) : PathsOf(table')[e] = PathsOf(table)[e]
       /\ \A e \in FilesIn(table) : TextsOf(fat', table', data')[e] = TextsOf(fat, table, data)[e]
       /\ \A e \in DirsIn(table) : FirstsOf(table')[e] = FirstsOf(table)[e]
       /\ PathsOf(table')[x] = q /\ TextsOf(fat', table', data')[x] = s
       /\ FirstsOf(table')[x] = c
  BY <1>1, <1>4, <1>5, <1>7, <1>8, <1>9, <1>10 DEF PathsOf, TextsOf, FirstsOf
<1> QED
  BY <1>1, <1>5, <1>6, <1>9, <1>11 DEF EntryMade, x, q, s

LEMMA MadeFile ==
    ASSUME StoreInv, Unique(table'), UNCHANGED data,
           NEW d \in DOMAIN table, NEW n \in Names, NEW c, NEW i, Made(d, i, c, n, FALSE)
    PROVE  /\ StoreContent' = Store!With(StoreContent, <<d, n>>, << >>)
           /\ StoreSub' = StoreSub
<1> DEFINE x == <<d, i>>
           p == PathsOf(table)
           r == PathsOf(table')
           v == TextsOf(fat, table, data)
           w == TextsOf(fat', table', data')
<1>1. /\ FilesIn(table') = FilesIn(table) \cup {x} /\ DirsIn(table') = DirsIn(table)
      /\ \A e \in FilesIn(table) : r[e] = p[e] /\ w[e] = v[e]
      /\ \A e \in DirsIn(table) : r[e] = p[e] /\ FirstsOf(table')[e] = FirstsOf(table)[e]
      /\ r[x] = <<d, n>> /\ w[x] = << >>
  <2>1. EntryMade(x, <<d, n>>, FALSE, c, p, r, v, w)
    BY MadePaths
  <2> HIDE DEF x, p, r, v, w
  <2> QED
    BY <2>1 DEF EntryMade
<1>2. /\ Maps(StoreContent, FilesIn(table), p, v) /\ Maps(StoreContent', FilesIn(table) \cup {x}, r, w)
      /\ Maps(StoreSub, DirsIn(table), p, FirstsOf(table))
      /\ Maps(StoreSub', DirsIn(table), r, FirstsOf(table'))
  BY <1>1, StoreFacts, ContentMaps, SubMaps, ContentMapsNext, SubMapsNext
<1> HIDE DEF x, v, w, p, r
<1>3. StoreContent' = Store!With(StoreContent, r[x], w[x])
  BY <1>1, <1>2, MapsMore
<1>4. StoreSub' = StoreSub
  BY <1>1, <1>2, MapsSame
<1> QED
  BY <1>1, <1>3, <1>4

LEMMA MadeDirectory ==
    ASSUME StoreInv, Unique(table'), UNCHANGED data,
           NEW d \in DOMAIN table, NEW n \in Names, NEW c, NEW i, Made(d, i, c, n, TRUE)
    PROVE  /\ StoreSub' = Store!With(StoreSub, <<d, n>>, c)
           /\ StoreContent' = StoreContent
<1> DEFINE x == <<d, i>>
           p == PathsOf(table)
           r == PathsOf(table')
           v == TextsOf(fat, table, data)
           w == TextsOf(fat', table', data')
<1>1. /\ FilesIn(table') = FilesIn(table) /\ DirsIn(table') = DirsIn(table) \cup {x}
      /\ \A e \in FilesIn(table) : r[e] = p[e] /\ w[e] = v[e]
      /\ \A e \in DirsIn(table) : r[e] = p[e] /\ FirstsOf(table')[e] = FirstsOf(table)[e]
      /\ r[x] = <<d, n>> /\ FirstsOf(table')[x] = c
  <2>1. EntryMade(x, <<d, n>>, TRUE, c, p, r, v, w)
    BY MadePaths
  <2> HIDE DEF x, p, r, v, w
  <2> QED
    BY <2>1 DEF EntryMade
<1>2. /\ Maps(StoreContent, FilesIn(table), p, v) /\ Maps(StoreContent', FilesIn(table), r, w)
      /\ Maps(StoreSub, DirsIn(table), p, FirstsOf(table))
      /\ Maps(StoreSub', DirsIn(table) \cup {x}, r, FirstsOf(table'))
  BY <1>1, StoreFacts, ContentMaps, SubMaps, ContentMapsNext, SubMapsNext
<1> HIDE DEF x, v, w, p, r
<1>3. StoreSub' = Store!With(StoreSub, r[x], FirstsOf(table')[x])
  <2>1. \A e \in DirsIn(table) : r[e] = p[e] /\ FirstsOf(table')[e] = FirstsOf(table)[e]
    BY <1>1
  <2>2. Maps(StoreSub, DirsIn(table), p, FirstsOf(table)) /\ Maps(StoreSub', DirsIn(table) \cup {x}, r, FirstsOf(table'))
    BY <1>2
  <2> QED
    BY <2>1, <2>2, MapsMore
<1>4. StoreContent' = StoreContent
  BY <1>1, <1>2, MapsSame
<1> QED
  BY <1>1, <1>3, <1>4
\* The entry x at path q gone, and nothing else.
EntryTaken(x, isDir, p, r, v, w) ==
    /\ isDir => FilesIn(table') = FilesIn(table) /\ DirsIn(table') = DirsIn(table) \ {x} /\ x \in DirsIn(table)
    /\ ~isDir => FilesIn(table') = FilesIn(table) \ {x} /\ DirsIn(table') = DirsIn(table) /\ x \in FilesIn(table)
    /\ \A e \in EntriesOf(table) \ {x} : r[e] = p[e] /\ p[e] # p[x] /\ PathIn(table', e) = PathIn(table, e)
    /\ \A e \in FilesIn(table) \ {x} : r[e] = p[e] /\ w[e] = v[e] /\ p[e] # p[x]
    /\ \A e \in DirsIn(table) \ {x} :
          r[e] = p[e] /\ FirstsOf(table')[e] = FirstsOf(table)[e] /\ p[e] # p[x]
    /\ p[x] = PathIn(table, x)

LEMMA GonePaths ==
    ASSUME StoreInv, UNCHANGED data,
           NEW d \in DOMAIN table, NEW i \in 1 .. Len(table[d]), Gone(d, i)
    PROVE  EntryTaken(<<d, i>>, table[d][i].dir, PathsOf(table), PathsOf(table'),
                      TextsOf(fat, table, data), TextsOf(fat', table', data'))
<1> DEFINE x == <<d, i>>
<1>0. Inv /\ Rooted /\ Tight(fat, table) /\ Unique(table)
  BY StoreFacts DEF StoreInv, ExactInv
<1>1. /\ x \in EntriesOf(table) /\ EntriesOf(table') = EntriesOf(table) \ {x}
      /\ DirIn(table, x) = table[d][i].dir
      /\ \A e \in EntriesOf(table') :
            /\ table'[e[1]][e[2]] = table[e[1]][e[2]]
            /\ FirstIn(table', e) = FirstIn(table, e) /\ DirIn(table', e) = DirIn(table, e)
  BY <1>0, GoneEntries
<1>2. /\ fat' \in [Clusters -> Cells]
      /\ \A e \in EntriesOf(table) : e # x =>
            \A b \in Chain(fat, FirstIn(table, e)) : fat'[b] = fat[b]
  BY <1>0, GoneChains
<1>3. \A e \in EntriesOf(table') : SizeIn(table', e) = SizeIn(table, e)
  BY <1>0, GoneTight
<1>4. \A e \in EntriesOf(table') : PathIn(table', e) = PathIn(table, e)
  BY <1>1 DEF PathIn
<1> HIDE DEF x
<1>5. \A e \in EntriesOf(table) : e # x => PathIn(table, e) # PathIn(table, x)
  BY <1>0, <1>1 DEF Unique
<1>6. /\ table[d][i].dir => FilesIn(table') = FilesIn(table) /\ DirsIn(table') = DirsIn(table) \ {x} /\ x \in DirsIn(table)
      /\ ~table[d][i].dir => FilesIn(table') = FilesIn(table) \ {x} /\ DirsIn(table') = DirsIn(table) /\ x \in FilesIn(table)
  BY <1>1 DEF FilesIn, DirsIn
<1>7. \A e \in FilesIn(table) \ {x} : TextOf(fat', table', data', e) = TextOf(fat, table, data, e)
  <2> TAKE e \in FilesIn(table) \ {x}
  <2>1. e \in EntriesOf(table) /\ e \in FilesIn(table) /\ e \in EntriesOf(table') /\ e # x
    BY <1>1 DEF FilesIn
  <2> QED
    BY <1>1, <1>2, <1>3, <2>1, TextsSame
<1>8. FilesIn(table) \subseteq EntriesOf(table) /\ DirsIn(table) \subseteq EntriesOf(table)
  BY DEF FilesIn, DirsIn
<1>9. /\ \A e \in EntriesOf(table) \ {x} : PathsOf(table')[e] = PathsOf(table)[e]
      /\ \A e \in EntriesOf(table) \ {x} : PathsOf(table)[e] # PathsOf(table)[x]
      /\ \A e \in FilesIn(table) \ {x} : TextsOf(fat', table', data')[e] = TextsOf(fat, table, data)[e]
      /\ \A e \in DirsIn(table) \ {x} : FirstsOf(table')[e] = FirstsOf(table)[e]
      /\ PathsOf(table)[x] = PathIn(table, x)
  BY <1>1, <1>4, <1>5, <1>7, <1>8 DEF PathsOf, TextsOf, FirstsOf
<1> QED
  BY <1>1, <1>4, <1>6, <1>8, <1>9 DEF EntryTaken, x

LEMMA GoneFile ==
    ASSUME StoreInv, Unique(table'), UNCHANGED data,
           NEW d \in DOMAIN table, NEW i \in 1 .. Len(table[d]), Gone(d, i), ~table[d][i].dir
    PROVE  /\ StoreContent' = Store!Without(StoreContent, PathIn(table, <<d, i>>))
           /\ StoreSub' = StoreSub
<1> DEFINE x == <<d, i>>
           p == PathsOf(table)
           r == PathsOf(table')
           v == TextsOf(fat, table, data)
           w == TextsOf(fat', table', data')
<1>1. /\ FilesIn(table') = FilesIn(table) \ {x} /\ DirsIn(table') = DirsIn(table) /\ x \in FilesIn(table)
      /\ \A e \in FilesIn(table) \ {x} : r[e] = p[e] /\ w[e] = v[e] /\ p[e] # p[x]
      /\ \A e \in DirsIn(table) : r[e] = p[e] /\ FirstsOf(table')[e] = FirstsOf(table)[e]
      /\ p[x] = PathIn(table, x)
  <2>1. EntryTaken(x, table[d][i].dir, p, r, v, w)
    BY GonePaths
  <2> HIDE DEF x, p, r, v, w
  <2>2. \A e \in DirsIn(table) : e \notin FilesIn(table)
    BY DEF DirsIn, FilesIn
  <2> QED
    BY <2>1, <2>2 DEF EntryTaken
<1>2. /\ Maps(StoreContent, FilesIn(table), p, v) /\ Maps(StoreContent', FilesIn(table'), r, w)
      /\ Maps(StoreSub, DirsIn(table), p, FirstsOf(table))
      /\ Maps(StoreSub', DirsIn(table), r, FirstsOf(table'))
  BY <1>1, StoreFacts, ContentMaps, SubMaps, ContentMapsNext, SubMapsNext
<1> HIDE DEF x, v, w, p, r
<1>3. StoreContent' = Store!Without(StoreContent, p[x])
  <2>1. OneLess(FilesIn(table), FilesIn(table'), x, p, v, r, w)
    BY <1>1 DEF OneLess
  <2>2. Maps(StoreContent, FilesIn(table), p, v) /\ Maps(StoreContent', FilesIn(table'), r, w)
    BY <1>2
  <2> QED
    BY <2>1, <2>2, MapsLess
<1>4. StoreSub' = StoreSub
  BY <1>1, <1>2, MapsSame
<1> QED
  BY <1>1, <1>3, <1>4 DEF x

LEMMA GoneDirectory ==
    ASSUME StoreInv, Unique(table'), UNCHANGED data,
           NEW d \in DOMAIN table, NEW i \in 1 .. Len(table[d]), Gone(d, i), table[d][i].dir
    PROVE  /\ StoreSub' = Store!Without(StoreSub, PathIn(table, <<d, i>>))
           /\ StoreContent' = StoreContent
<1> DEFINE x == <<d, i>>
           p == PathsOf(table)
           r == PathsOf(table')
           v == TextsOf(fat, table, data)
           w == TextsOf(fat', table', data')
<1>1. /\ FilesIn(table') = FilesIn(table) /\ DirsIn(table') = DirsIn(table) \ {x} /\ x \in DirsIn(table)
      /\ \A e \in FilesIn(table) : r[e] = p[e] /\ w[e] = v[e]
      /\ \A e \in DirsIn(table) \ {x} : r[e] = p[e] /\ FirstsOf(table')[e] = FirstsOf(table)[e] /\ p[e] # p[x]
      /\ p[x] = PathIn(table, x)
  <2>1. EntryTaken(x, table[d][i].dir, p, r, v, w)
    BY GonePaths
  <2> HIDE DEF x, p, r, v, w
  <2>2. \A e \in FilesIn(table) : e \notin DirsIn(table)
    BY DEF DirsIn, FilesIn
  <2> QED
    BY <2>1, <2>2 DEF EntryTaken
<1>2. /\ Maps(StoreContent, FilesIn(table), p, v) /\ Maps(StoreContent', FilesIn(table), r, w)
      /\ Maps(StoreSub, DirsIn(table), p, FirstsOf(table))
      /\ Maps(StoreSub', DirsIn(table'), r, FirstsOf(table'))
  BY <1>1, StoreFacts, ContentMaps, SubMaps, ContentMapsNext, SubMapsNext
<1> HIDE DEF x, v, w, p, r
<1>3. StoreSub' = Store!Without(StoreSub, p[x])
  <2>1. OneLess(DirsIn(table), DirsIn(table'), x, p, FirstsOf(table), r, FirstsOf(table'))
    BY <1>1 DEF OneLess
  <2>2. Maps(StoreSub, DirsIn(table), p, FirstsOf(table)) /\ Maps(StoreSub', DirsIn(table'), r, FirstsOf(table'))
    BY <1>2
  <2> QED
    BY <2>1, <2>2, MapsLess
<1>4. StoreContent' = StoreContent
  BY <1>1, <1>2, MapsSame
<1> QED
  BY <1>1, <1>3, <1>4 DEF x
\* The entry x at path q, and nothing else moved.
EntryRenamed(x, q, p, r, v, w) ==
    /\ FilesIn(table') = FilesIn(table) /\ DirsIn(table') = DirsIn(table)
    /\ x \in EntriesOf(table)
    /\ \A e \in EntriesOf(table) \ {x} : r[e] = p[e] /\ p[e] # p[x] /\ PathIn(table', e) = PathIn(table, e)
    /\ \A e \in FilesIn(table) : (e # x => r[e] = p[e] /\ p[e] # p[x]) /\ w[e] = v[e]
    /\ \A e \in DirsIn(table) :
          (e # x => r[e] = p[e] /\ p[e] # p[x]) /\ FirstsOf(table')[e] = FirstsOf(table)[e]
    /\ p[x] = PathIn(table, x) /\ r[x] = q

LEMMA RenamedPaths ==
    ASSUME StoreInv, UNCHANGED <<fat, data>>, Kept, SameSizes,
           NEW d \in DOMAIN table, NEW i \in 1 .. Len(table[d]), NEW m \in Names, Renamed(d, i, m)
    PROVE  EntryRenamed(<<d, i>>, <<d, m>>, PathsOf(table), PathsOf(table'),
                        TextsOf(fat, table, data), TextsOf(fat', table', data'))
<1> DEFINE x == <<d, i>>
           q == <<d, m>>
<1>0. Inv /\ Rooted /\ Tight(fat, table) /\ Unique(table) /\ fat \in [Clusters -> Cells]
      /\ table \in [DOMAIN table -> Seq(Slot)]
  BY StoreFacts DEF StoreInv, ExactInv, Inv, TypeOK
<1>1. /\ x \in EntriesOf(table) /\ EntriesOf(table') = EntriesOf(table)
      /\ \A e \in EntriesOf(table) :
            FirstIn(table', e) = FirstIn(table, e) /\ DirIn(table', e) = DirIn(table, e)
  <2>1. x \in EntriesOf(table)
    BY EntriesDef DEF Renamed
  <2> QED
    BY <2>1, KeptEntries
<1>3. \A e \in EntriesOf(table) : SizeIn(table', e) = SizeIn(table, e)
  BY <1>0, SameTight
<1>4. /\ PathIn(table', x) = q
      /\ \A e \in EntriesOf(table) : e # x => PathIn(table', e) = PathIn(table, e)
  <2>1. table' = [table EXCEPT ![d] = [table[d] EXCEPT ![i] = [table[d][i] EXCEPT !.name = m]]]
    BY DEF Renamed
  <2>2. table[d] \in Seq(Slot) /\ table[d][i] \in Slot
    BY <1>0
  <2>3. table'[d] = [table[d] EXCEPT ![i] = [table[d][i] EXCEPT !.name = m]]
        /\ \A y \in DOMAIN table \ {d} : table'[y] = table[y]
    BY <2>1, <1>0
  <2>4. table'[d][i] = [table[d][i] EXCEPT !.name = m]
        /\ \A j \in 1 .. Len(table[d]) : j # i => table'[d][j] = table[d][j]
    BY <2>2, <2>3
  <2>5. table'[d][i].name = m
    BY <2>2, <2>4 DEF Slot
  <2>6. ASSUME NEW e \in EntriesOf(table), e # x
        PROVE  table'[e[1]][e[2]] = table[e[1]][e[2]]
    <3>1. e[1] \in DOMAIN table /\ e[2] \in 1 .. Len(table[e[1]]) /\ e = <<e[1], e[2]>>
      BY EntryParts
    <3>2. e[1] # d \/ e[2] # i
      BY <2>6, <3>1
    <3> QED
      BY <2>3, <2>4, <3>1, <3>2
  <2> QED
    BY <2>5, <2>6 DEF PathIn
<1> HIDE DEF x, q
<1>5. \A e \in EntriesOf(table) : e # x => PathIn(table, e) # PathIn(table, x)
  BY <1>0, <1>1 DEF Unique
<1>6. FilesIn(table') = FilesIn(table) /\ DirsIn(table') = DirsIn(table)
  BY <1>1 DEF FilesIn, DirsIn
<1>7. \A e \in FilesIn(table) : TextOf(fat', table', data', e) = TextOf(fat, table, data, e)
  <2> TAKE e \in FilesIn(table)
  <2>1. e \in EntriesOf(table) /\ fat' = fat /\ data' = data
    BY DEF FilesIn
  <2> QED
    BY <1>0, <1>1, <1>3, <2>1, TextsSame
<1>8. FilesIn(table) \subseteq EntriesOf(table) /\ DirsIn(table) \subseteq EntriesOf(table)
  BY DEF FilesIn, DirsIn
<1>9. /\ \A e \in EntriesOf(table) \ {x} : PathsOf(table')[e] = PathsOf(table)[e]
      /\ \A e \in EntriesOf(table) \ {x} : PathsOf(table)[e] # PathsOf(table)[x]
      /\ \A e \in FilesIn(table) : TextsOf(fat', table', data')[e] = TextsOf(fat, table, data)[e]
      /\ \A e \in DirsIn(table) : FirstsOf(table')[e] = FirstsOf(table)[e]
      /\ PathsOf(table)[x] = PathIn(table, x) /\ PathsOf(table')[x] = q
  BY <1>1, <1>4, <1>5, <1>7, <1>8 DEF PathsOf, TextsOf, FirstsOf
<1> QED
  BY <1>1, <1>4, <1>6, <1>8, <1>9 DEF EntryRenamed, x, q

LEMMA RenamedStore ==
    ASSUME StoreInv, Unique(table'), UNCHANGED <<fat, data>>, Kept, SameSizes,
           NEW d \in DOMAIN table, NEW i \in 1 .. Len(table[d]), NEW m \in Names, Renamed(d, i, m)
    PROVE  /\ StoreContent' = IF table[d][i].dir THEN StoreContent
                              ELSE Store!Moved(StoreContent, PathIn(table, <<d, i>>), <<d, m>>)
           /\ StoreSub' = IF table[d][i].dir
                          THEN Store!Moved(StoreSub, PathIn(table, <<d, i>>), <<d, m>>)
                          ELSE StoreSub
           /\ \A e \in EntriesOf(table) : e # <<d, i>> => PathIn(table', e) = PathIn(table, e)
           /\ PathIn(table', <<d, i>>) = <<d, m>>
<1> DEFINE x == <<d, i>>
           p == PathsOf(table)
           r == PathsOf(table')
           v == TextsOf(fat, table, data)
           w == TextsOf(fat', table', data')
<1>0. EntryRenamed(x, <<d, m>>, p, r, v, w)
  BY RenamedPaths
<1>1. x \in EntriesOf(table) /\ x \in EntriesOf(table') /\ DirIn(table, x) = table[d][i].dir
  BY EntriesDef, KeptEntries DEF Renamed, DirIn
<1>2. PathIn(table', x) = r[x]
  BY <1>1 DEF PathsOf
<1> HIDE DEF x, p, r, v, w
<1>3. /\ Maps(StoreContent, FilesIn(table), p, v) /\ Maps(StoreContent', FilesIn(table), r, w)
      /\ Maps(StoreSub, DirsIn(table), p, FirstsOf(table))
      /\ Maps(StoreSub', DirsIn(table), r, FirstsOf(table'))
  BY <1>0, StoreFacts, ContentMaps, SubMaps, ContentMapsNext, SubMapsNext DEF EntryRenamed, p, r, v, w
<1>4. \A e \in EntriesOf(table) : e # x => PathIn(table', e) = PathIn(table, e)
  BY <1>0 DEF EntryRenamed
<1>5. /\ p[x] = PathIn(table, x) /\ r[x] = <<d, m>>
      /\ \A e \in FilesIn(table) : (e # x => r[e] = p[e] /\ p[e] # p[x]) /\ w[e] = v[e]
      /\ \A e \in DirsIn(table) :
            (e # x => r[e] = p[e] /\ p[e] # p[x]) /\ FirstsOf(table')[e] = FirstsOf(table)[e]
  BY <1>0 DEF EntryRenamed
<1>6. CASE table[d][i].dir
  <2>1. x \in DirsIn(table) /\ x \notin FilesIn(table)
    BY <1>1, <1>6 DEF FilesIn, DirsIn
  <2>2. /\ \A e \in FilesIn(table) : r[e] = p[e] /\ w[e] = v[e]
        /\ \A e \in DirsIn(table) \ {x} :
              r[e] = p[e] /\ FirstsOf(table')[e] = FirstsOf(table)[e] /\ p[e] # p[x]
        /\ FirstsOf(table')[x] = FirstsOf(table)[x]
    BY <1>5, <2>1
  <2>3. StoreContent' = StoreContent
    BY <1>3, <2>2, MapsSame
  <2>4. StoreSub' = Store!Moved(StoreSub, p[x], r[x])
    <3>1. Maps(StoreSub, DirsIn(table), p, FirstsOf(table)) /\ Maps(StoreSub', DirsIn(table), r, FirstsOf(table'))
      BY <1>3
    <3> QED
      BY <2>1, <2>2, <3>1, MapsMoved
  <2> QED
    BY <1>2, <1>4, <1>5, <1>6, <2>3, <2>4 DEF x
<1>7. CASE ~table[d][i].dir
  <2>1. x \in FilesIn(table) /\ x \notin DirsIn(table)
    BY <1>1, <1>7 DEF FilesIn, DirsIn
  <2>2. /\ \A e \in DirsIn(table) : r[e] = p[e] /\ FirstsOf(table')[e] = FirstsOf(table)[e]
        /\ \A e \in FilesIn(table) \ {x} : r[e] = p[e] /\ w[e] = v[e] /\ p[e] # p[x]
        /\ w[x] = v[x]
    BY <1>5, <2>1
  <2>3. StoreSub' = StoreSub
    BY <1>3, <2>2, MapsSame
  <2>4. StoreContent' = Store!Moved(StoreContent, p[x], r[x])
    <3>1. Maps(StoreContent, FilesIn(table), p, v) /\ Maps(StoreContent', FilesIn(table), r, w)
      BY <1>3
    <3> QED
      BY <2>1, <2>2, <3>1, MapsMoved
  <2> QED
    BY <1>2, <1>4, <1>5, <1>7, <2>3, <2>4 DEF x
<1> QED
  BY <1>6, <1>7

\* A call that leaves the volume alone leaves the store alone.
LEMMA SameStore ==
    ASSUME StoreInv, UNCHANGED <<fat, table, data>>
    PROVE  UNCHANGED <<StoreContent, StoreSub>>
<1>1. Unique(table) /\ Unique(table')
  BY StoreFacts
<1>2. /\ Maps(StoreContent, FilesIn(table), PathsOf(table), TextsOf(fat, table, data))
      /\ Maps(StoreSub, DirsIn(table), PathsOf(table), FirstsOf(table))
  BY <1>1, ContentMaps, SubMaps
<1>3. /\ Maps(StoreContent', FilesIn(table), PathsOf(table), TextsOf(fat, table, data))
      /\ Maps(StoreSub', DirsIn(table), PathsOf(table), FirstsOf(table))
  BY <1>1, ContentMapsNext, SubMapsNext
<1> QED
  BY <1>2, <1>3, MapsSame
----------------------------------------------------------------------------
(* Handles *)

Place(o) == <<o.dir, o.slot>>

LEMMA CursorIs ==
    ASSUME StoreInv
    PROVE  /\ StoreCursor = [h \in Handles |-> StoreCursor[h]]
           /\ \A h \in Handles :
                 /\ Usable(h) =>
                       /\ StoreCursor[h] = [path |-> PathIn(table, Place(file[h])), pos |-> file[h].pos]
                       /\ Place(file[h]) \in FilesIn(table)
                       /\ Store!Live(h)
                 /\ ~Usable(h) =>
                       StoreCursor[h] = file[h] /\ StoreCursor[h] \in {Closed, Orphan} /\ ~Store!Live(h)
<1>1. StoreCursor = [h \in Handles |-> StoreCursor[h]]
  BY DEF StoreCursor
<1>2. ASSUME NEW h \in Handles, Usable(h)
      PROVE  /\ StoreCursor[h] = [path |-> PathIn(table, Place(file[h])), pos |-> file[h].pos]
             /\ Place(file[h]) \in FilesIn(table)
             /\ Store!Live(h)
  <2> DEFINE e == Place(file[h])
  <2>1. StoreCursor[h] = [path |-> PathIn(table, e), pos |-> file[h].pos]
    BY <1>2 DEF StoreCursor, PathIn, Place
  <2>2. file[h] \in Handle /\ OnEntry(table, file[h])
    BY <1>2, StoreFacts
  <2>3. e \in EntriesOf(table) /\ e \in FilesIn(table)
    BY <2>2 DEF OnEntry, Place, FilesIn
  <2>4. PathIn(table, e) \in ({0} \cup Clusters) \X Names
    <3>1. e[1] \in DOMAIN table /\ e[2] \in 1 .. Len(table[e[1]]) /\ ~Vacant(table[e[1]][e[2]])
      BY <2>3, EntryParts
    <3>2. DOMAIN table \subseteq {0} \cup Clusters /\ table \in [DOMAIN table -> Seq(Slot)]
      BY StoreFacts DEF Inv, TypeOK
    <3>3. table[e[1]][e[2]] \in Slot
      BY <3>1, <3>2
    <3>4. table[e[1]][e[2]].name \in Names
      BY <3>1, <3>3 DEF Vacant, Slot
    <3> QED
      BY <3>1, <3>2, <3>4 DEF PathIn
  <2>5. StoreCursor[h] \in Cursors
    BY <2>1, <2>2, <2>4 DEF Cursors, Handle
  <2> QED
    BY <2>1, <2>3, <2>5, HandleMarksAssumption DEF Store!Live
<1>3. ASSUME NEW h \in Handles, ~Usable(h)
      PROVE  StoreCursor[h] = file[h] /\ StoreCursor[h] \in {Closed, Orphan} /\ ~Store!Live(h)
  BY <1>3 DEF StoreCursor, Usable, Store!Live
<1> QED
  BY <1>1, <1>2, <1>3

\* The handles on an entry are those whose position is in the file of its path.
LEMMA OnIs ==
    ASSUME StoreInv, NEW h \in Handles, NEW e \in EntriesOf(table)
    PROVE  Store!On(h, PathIn(table, e)) <=> Usable(h) /\ Place(file[h]) = e
<1>1. CASE Usable(h)
  <2>1. /\ Place(file[h]) \in EntriesOf(table) /\ Store!Live(h)
        /\ StoreCursor[h].path = PathIn(table, Place(file[h]))
    BY <1>1, CursorIs DEF FilesIn
  <2> QED
    BY <1>1, <2>1, StoreFacts DEF Store!On, Unique
<1>2. CASE ~Usable(h)
  BY <1>2, CursorIs DEF Store!On
<1> QED
  BY <1>1, <1>2

LEMMA CursorNext ==
    ASSUME NEW m, m = [h \in Handles |-> m[h]],
           \A h \in Handles :
              m[h] = IF Usable(h)' THEN [path |-> PathIn(table', Place(file'[h])), pos |-> file'[h].pos]
                                   ELSE file'[h]
    PROVE  StoreCursor' = m
<1>1. StoreCursor' = [h \in Handles |-> StoreCursor'[h]]
  BY DEF StoreCursor
<1>2. \A h \in Handles : StoreCursor'[h] = m[h]
  BY DEF StoreCursor, PathIn, Place
<1> QED
  BY <1>1, <1>2, MapsEqual

\* Handles that are left alone on entries that keep their paths.
LEMMA CursorSame ==
    ASSUME StoreInv, UNCHANGED file,
           \A e \in FilesIn(table) : PathIn(table', e) = PathIn(table, e)
    PROVE  StoreCursor' = StoreCursor
<1>1. \A h \in Handles : Usable(h)' <=> Usable(h)
  BY DEF Usable
<1>2. \A h \in Handles :
         StoreCursor[h] = IF Usable(h)' THEN [path |-> PathIn(table', Place(file'[h])), pos |-> file'[h].pos]
                                        ELSE file'[h]
  BY <1>1, CursorIs
<1>3. StoreCursor = [h \in Handles |-> StoreCursor[h]]
  BY CursorIs
<1> QED
  BY <1>2, <1>3, CursorNext

\* A handle that was not in use put at the start of a file.
Begun(h, d, i, c, k, q) ==
    /\ file[h] = Closed /\ file' = [file EXCEPT ![h] = AtStart(d, i, c, k)]
    /\ d \in {0} \cup Clusters /\ i \in Nat \ {0} /\ c \in Cells /\ k \in Nat
    /\ \A e \in FilesIn(table) : PathIn(table', e) = PathIn(table, e)
    /\ PathIn(table', <<d, i>>) = q

LEMMA CursorAtStart ==
    ASSUME StoreInv, NEW h \in Handles, NEW d, NEW i, NEW c, NEW k, NEW q, Begun(h, d, i, c, k, q)
    PROVE  /\ StoreCursor[h] = Closed
           /\ StoreCursor' = [StoreCursor EXCEPT ![h] = [path |-> q, pos |-> 0]]
<1>0. file \in [Handles -> Handle \cup {Closed, Orphan}]
  BY StoreFacts DEF Inv, TypeOK
<1>1. StoreCursor[h] = Closed
  BY CursorIs DEF Usable, Begun
<1>2. AtStart(d, i, c, k) \in Handle
  BY ClustersFacts DEF AtStart, Handle, Begun
<1>3. /\ file'[h] = AtStart(d, i, c, k) /\ Usable(h)'
      /\ \A g \in Handles \ {h} : file'[g] = file[g] /\ (Usable(g)' <=> Usable(g))
  BY <1>0, <1>2, HandleMarksAssumption DEF Usable, Begun
<1>4. Place(file'[h]) = <<d, i>> /\ file'[h].pos = 0
  BY <1>3 DEF AtStart, Place
<1> DEFINE m == [StoreCursor EXCEPT ![h] = [path |-> q, pos |-> 0]]
<1>5. StoreCursor = [g \in Handles |-> StoreCursor[g]]
  BY CursorIs
<1>6. m = [g \in Handles |-> m[g]] /\ m[h] = [path |-> q, pos |-> 0]
      /\ \A g \in Handles \ {h} : m[g] = StoreCursor[g]
  BY <1>5
<1>7. \A g \in Handles \ {h} :
         StoreCursor[g] = IF Usable(g)' THEN [path |-> PathIn(table', Place(file'[g])), pos |-> file'[g].pos]
                                        ELSE file'[g]
  BY <1>3, CursorIs DEF Begun
<1> HIDE DEF m
<1>8. \A g \in Handles :
         m[g] = IF Usable(g)' THEN [path |-> PathIn(table', Place(file'[g])), pos |-> file'[g].pos]
                              ELSE file'[g]
  BY <1>3, <1>4, <1>6, <1>7 DEF Begun
<1>9. StoreCursor' = m
  BY <1>6, <1>8, CursorNext
<1> QED
  BY <1>1, <1>9 DEF m
----------------------------------------------------------------------------
(* Directory calls *)

LEMMA TableFacts ==
    ASSUME StoreInv
    PROVE  /\ DOMAIN table \subseteq {0} \cup Clusters
           /\ \A d \in DOMAIN table : table[d] \in Seq(Slot)
           /\ file \in [Handles -> Handle \cup {Closed, Orphan}]
BY StoreFacts DEF Inv, TypeOK

LEMMA CreateStore ==
    ASSUME StoreInv, Unique(table'),
           NEW d \in DOMAIN table, NEW n \in Names, NEW h \in Handles, Create(h, d, n)
    PROVE  Store!Create(h, <<d, n>>)
<1>0. Inv /\ Rooted
  BY StoreFacts
<1>1. PICK c, i : Made(d, i, c, n, FALSE) /\ file' = [file EXCEPT ![h] = AtStart(d, i, c, 0)]
  <2>1. \A g \in Handles : Create(g, d, n) =>
           \E c, i : Made(d, i, c, n, FALSE) /\ file' = [file EXCEPT ![g] = AtStart(d, i, c, 0)]
    BY <1>0, DirectoryEffects, Zenon
  <2>2. \E c, i : Made(d, i, c, n, FALSE) /\ file' = [file EXCEPT ![h] = AtStart(d, i, c, 0)]
    BY <2>1, Zenon
  <2> QED
    BY <2>2, Zenon
<1>2. file[h] = Closed /\ Missing(table[d], n) /\ UNCHANGED data /\ Store!Says("ok")
  BY DEF Create, Store!Says, Say
<1>3. StoreContent' = Store!With(StoreContent, <<d, n>>, << >>) /\ StoreSub' = StoreSub
  BY <1>1, <1>2, MadeFile
<1>4. /\ \A e \in FilesIn(table) : PathIn(table', e) = PathIn(table, e)
      /\ PathIn(table', <<d, i>>) = <<d, n>>
  <2>1. EntryMade(<<d, i>>, <<d, n>>, FALSE, c, PathsOf(table), PathsOf(table'),
                  TextsOf(fat, table, data), TextsOf(fat', table', data'))
    BY <1>1, <1>2, MadePaths
  <2> DEFINE x == <<d, i>>
  <2>0. EntriesOf(table') = EntriesOf(table) \cup {<<d, i>>}
    BY <1>0, <1>1, MadeEntries
  <2>2. x \in EntriesOf(table')
    BY <2>0
  <2> HIDE DEF x
  <2>3. PathsOf(table')[x] = PathIn(table', x)
    BY <2>2 DEF PathsOf
  <2> QED
    BY <2>1, <2>3 DEF EntryMade, FilesIn, x
<1>5. d \in {0} \cup Clusters /\ i \in Nat \ {0} /\ c \in Cells
  <2>1. c \in Clusters
    BY <1>0, <1>1, MadeEntries
  <2>2. i \in 1 .. Len(WithRoom(d))
    BY <1>1 DEF Made
  <2>3. Len(WithRoom(d)) \in Nat
    BY TableFacts, WithRoomFacts
  <2>4. i \in Nat \ {0}
    BY <2>2, <2>3
  <2>5. d \in {0} \cup Clusters
    BY TableFacts
  <2> QED
    BY <2>1, <2>4, <2>5, ClustersFacts
<1>6. /\ StoreCursor[h] = Closed
      /\ StoreCursor' = [StoreCursor EXCEPT ![h] = [path |-> <<d, n>>, pos |-> 0]]
  <2>1. Begun(h, d, i, c, 0, <<d, n>>)
    BY <1>1, <1>2, <1>4, <1>5 DEF Begun
  <2> QED
    BY <2>1, CursorAtStart
<1>7. <<d, n>> \notin Store!Taken
  BY <1>2, NameTaken
<1> QED
  BY <1>2, <1>3, <1>6, <1>7 DEF Store!Create

LEMMA MkdirStore ==
    ASSUME StoreInv, Unique(table'),
           NEW d \in DOMAIN table, NEW n \in Names, Mkdir(d, n)
    PROVE  \E c \in {0} \cup Clusters : Store!Mkdir(<<d, n>>, c)
<1>0. Inv /\ Rooted
  BY StoreFacts
<1>1. PICK c, i : Made(d, i, c, n, TRUE) /\ file' = file
  <2>1. \E c, i : Made(d, i, c, n, TRUE) /\ file' = file
    BY <1>0, DirectoryEffects, Zenon
  <2> QED
    BY <2>1, Zenon
<1>2. Missing(table[d], n) /\ UNCHANGED data /\ Store!Says("ok")
  BY DEF Mkdir, Store!Says, Say
<1>3. StoreSub' = Store!With(StoreSub, <<d, n>>, c) /\ StoreContent' = StoreContent
  BY <1>1, <1>2, MadeDirectory
<1>4. /\ \A e \in FilesIn(table) : PathIn(table', e) = PathIn(table, e)
      /\ c \notin DOMAIN table
  <2>1. EntryMade(<<d, i>>, <<d, n>>, TRUE, c, PathsOf(table), PathsOf(table'),
                  TextsOf(fat, table, data), TextsOf(fat', table', data'))
    BY <1>1, <1>2, MadePaths
  <2> QED
    BY <2>1 DEF EntryMade, FilesIn
<1>5. c \in Clusters
  BY <1>0, <1>1, MadeEntries
<1>6. StoreCursor' = StoreCursor
  BY <1>1, <1>4, CursorSame
<1>7. <<d, n>> \notin Store!Taken /\ c \notin Store!Tree
  BY <1>2, <1>4, NameTaken, StoreSets
<1> QED
  BY <1>2, <1>3, <1>5, <1>6, <1>7 DEF Store!Mkdir

\* A call that leaves volume and handles alone leaves all of the store alone.
LEMMA AllSame ==
    ASSUME StoreInv, UNCHANGED <<fat, table, data, file>>
    PROVE  UNCHANGED <<StoreContent, StoreSub, StoreCursor>>
<1>1. UNCHANGED file /\ \A e \in FilesIn(table) : PathIn(table', e) = PathIn(table, e)
  OBVIOUS
<1> QED
  BY <1>1, SameStore, CursorSame

LEMMA MakeRefusedStore ==
    ASSUME StoreInv, NEW d \in DOMAIN table, NEW n \in Names, MakeRefused(d, n)
    PROVE  Store!MakeRefused(<<d, n>>)
<1>1. UNCHANGED <<StoreContent, StoreSub, StoreCursor>>
  BY AllSame DEF MakeRefused
<1>2. \/ ~Missing(table[d], n) /\ Store!Says("exists")
      \/ /\ Missing(table[d], n) /\ Store!Says("no space")
         /\ VolumeFull(fat) \/ \E c \in FreeClusters(fat) : NoSlot(Terminated(fat, c), d)
  BY DEF MakeRefused, Store!Says, Say
<1>3. VolumeFull(fat) => Cardinality(FreeClusters(fat)) = 0
  BY FS_EmptySet DEF VolumeFull
<1>4. ASSUME NEW c \in FreeClusters(fat), NoSlot(Terminated(fat, c), d)
      PROVE  Full(table[d]) /\ (d = 0 \/ Cardinality(FreeClusters(fat)) = 1)
  <2>1. CASE d = 0
    BY <1>4, <2>1 DEF NoSlot
  <2>2. CASE d # 0
    <3>1. Full(table[d]) /\ FreeClusters(Terminated(fat, c)) = {}
      BY <1>4, <2>2 DEF NoSlot, VolumeFull
    <3>2. fat \in [Clusters -> Cells]
      BY StoreFacts
    <3>3. FreeClusters(fat) = {c}
      BY <3>1, <3>2 DEF FreeClusters, Terminated, Clusters
    <3> QED
      BY <3>1, <3>3, FS_Singleton
  <2> QED
    BY <2>1, <2>2
<1>5. <<d, n>>[1] = d /\ (Full(table[d]) => d \in {x \in DOMAIN table : Full(table[x])})
  OBVIOUS
<1> QED
  BY <1>1, <1>2, <1>3, <1>4, <1>5, NameTaken DEF Store!MakeRefused

LEMMA NameMissingStore ==
    ASSUME StoreInv, NEW d \in DOMAIN table, NEW n \in Names, NameMissing(d, n)
    PROVE  Store!NameMissing(<<d, n>>)
<1>1. UNCHANGED <<StoreContent, StoreSub, StoreCursor>>
  BY AllSame DEF NameMissing
<1> QED
  BY <1>1, NameTaken DEF NameMissing, Store!NameMissing, Store!Says, Say

LEMMA OpenStore ==
    ASSUME StoreInv, NEW d \in DOMAIN table, NEW n \in Names, NEW h \in Handles, Open(h, d, n)
    PROVE  Store!Open(h, <<d, n>>)
<1>1. PICK i \in 1 .. Len(table[d]) :
         /\ Found(table[d], n, i) /\ ~table[d][i].dir
         /\ file' = [file EXCEPT ![h] = AtStart(d, i, table[d][i].first, table[d][i].size)]
  BY DEF Open
<1>2. file[h] = Closed /\ UNCHANGED <<fat, table, data>> /\ Store!Says("ok")
  BY DEF Open, Store!Says, Say
<1>3. /\ <<d, i>> \in FilesIn(table) /\ PathIn(table, <<d, i>>) = <<d, n>>
  BY <1>1, NameTaken DEF FilesIn
<1>4. <<d, n>> \in Store!Files
  BY <1>3, StoreSets DEF Store!Files
<1>5. d \in {0} \cup Clusters /\ i \in Nat \ {0} /\ table[d][i].first \in Cells /\ table[d][i].size \in Nat
  <2>1. d \in {0} \cup Clusters /\ table[d] \in Seq(Slot)
    BY TableFacts
  <2>2. table[d][i] \in Slot /\ i \in Nat \ {0}
    BY <2>1
  <2> QED
    BY <2>1, <2>2 DEF Slot
<1>6. PathIn(table', <<d, i>>) = <<d, n>> /\ \A e \in FilesIn(table) : PathIn(table', e) = PathIn(table, e)
  BY <1>2, <1>3
<1>7. /\ StoreCursor[h] = Closed
      /\ StoreCursor' = [StoreCursor EXCEPT ![h] = [path |-> <<d, n>>, pos |-> 0]]
  <2>1. Begun(h, d, i, table[d][i].first, table[d][i].size, <<d, n>>)
    BY <1>1, <1>2, <1>5, <1>6 DEF Begun
  <2> QED
    BY <2>1, CursorAtStart
<1> QED
  BY <1>2, <1>4, <1>7, SameStore DEF Store!Open
LEMMA DeleteStore ==
    ASSUME StoreInv, Unique(table'),
           NEW d \in DOMAIN table, NEW n \in Names, Delete(d, n)
    PROVE  Store!Delete(<<d, n>>)
<1>0. Inv /\ Rooted
  BY StoreFacts
<1>1. PICK i \in 1 .. Len(table[d]) :
         /\ Found(table[d], n, i) /\ ~table[d][i].dir
         /\ table' = [table EXCEPT ![d] = Removed(d, i)]
         /\ fat' = ChainFreed(fat, table[d][i].first)
         /\ file' = [h \in Handles |-> IF OnSlot(h, d, i) THEN Orphan ELSE file[h]]
  BY DEF Delete
<1>2. UNCHANGED data /\ Store!Says("ok")
  BY DEF Delete, Store!Says, Say
<1>3. Gone(d, i)
  BY <1>1, MarksAssumption, TableFacts DEF Gone, Found, Vacant
<1> DEFINE x == <<d, i>>
<1>4. x \in EntriesOf(table) /\ x \in FilesIn(table) /\ PathIn(table, x) = <<d, n>>
  BY <1>1, NameTaken DEF FilesIn
<1>5. StoreContent' = Store!Without(StoreContent, PathIn(table, x)) /\ StoreSub' = StoreSub
  BY <1>1, <1>2, <1>3, GoneFile
<1>6. \A e \in EntriesOf(table) \ {x} : PathIn(table', e) = PathIn(table, e)
  <2>1. EntryTaken(x, table[d][i].dir, PathsOf(table), PathsOf(table'),
                   TextsOf(fat, table, data), TextsOf(fat', table', data'))
    BY <1>2, <1>3, GonePaths
  <2> HIDE DEF x
  <2> QED
    BY <2>1 DEF EntryTaken
<1>7. \A h \in Handles : OnSlot(h, d, i) <=> Store!On(h, PathIn(table, x))
  <2> TAKE h \in Handles
  <2>1. Store!On(h, PathIn(table, x)) <=> Usable(h) /\ Place(file[h]) = x
    BY <1>4, OnIs
  <2> QED
    BY <2>1 DEF OnSlot, Place
<1> HIDE DEF x
<1> DEFINE m == [h \in Handles |-> IF Store!On(h, PathIn(table, x)) THEN Orphan ELSE StoreCursor[h]]
<1>8. StoreCursor' = m
  <2>1. \A h \in Handles :
           m[h] = IF Usable(h)' THEN [path |-> PathIn(table', Place(file'[h])), pos |-> file'[h].pos]
                                ELSE file'[h]
    <3> TAKE h \in Handles
    <3>1. CASE OnSlot(h, d, i)
      BY <1>1, <1>7, <3>1 DEF Usable
    <3>2. CASE ~OnSlot(h, d, i)
      <4>1. file'[h] = file[h] /\ (Usable(h)' <=> Usable(h)) /\ m[h] = StoreCursor[h]
        BY <1>1, <1>7, <3>2 DEF Usable
      <4>2. ASSUME Usable(h) PROVE Place(file[h]) \in EntriesOf(table) \ {x}
        BY <3>2, <4>2, CursorIs DEF OnSlot, Place, FilesIn, x
      <4> QED
        BY <1>6, <4>1, <4>2, CursorIs
    <3> QED
      BY <3>1, <3>2
  <2>2. m = [h \in Handles |-> m[h]]
    OBVIOUS
  <2> HIDE DEF m
  <2> QED
    BY <2>1, <2>2, CursorNext
<1>9. <<d, n>> \in Store!Files
  BY <1>4, StoreSets DEF Store!Files
<1> QED
  BY <1>2, <1>4, <1>5, <1>8, <1>9 DEF Store!Delete

\* What the store has in a directory the driver finds empty, or not.
LEMMA EmptyStore ==
    ASSUME StoreInv, NEW e \in DirsIn(table)
    PROVE  /\ PathIn(table, e) \in DOMAIN StoreSub
           /\ StoreSub[PathIn(table, e)] = FirstIn(table, e)
           /\ EmptyDirectory(table[FirstIn(table, e)]) <=>
                 \A n \in Names : <<FirstIn(table, e), n>> \notin Store!Taken
<1> DEFINE f == FirstIn(table, e)
<1>1. PathIn(table, e) \in DOMAIN StoreSub
  BY StoreSets
<1>2. StoreSub[PathIn(table, e)] = f
  <2>1. Maps(StoreSub, DirsIn(table), PathsOf(table), FirstsOf(table))
    BY StoreFacts, SubMaps
  <2>2. e \in EntriesOf(table)
    BY DEF DirsIn
  <2> QED
    BY <2>1, <2>2 DEF Maps, PathsOf, FirstsOf
<1>3. f \in DOMAIN table
  BY StoreFacts DEF Rooted, DirsIn
<1> HIDE DEF f
<1>4. ASSUME EmptyDirectory(table[f]), NEW n \in Names, NEW g \in EntriesOf(table), PathIn(table, g) = <<f, n>>
      PROVE  FALSE
  <2>1. g[1] = f /\ g[2] \in 1 .. Len(table[f]) /\ ~Vacant(table[f][g[2]])
    BY <1>4, EntryParts DEF PathIn
  <2> QED
    BY <1>4, <2>1 DEF EmptyDirectory
<1>5. ASSUME ~EmptyDirectory(table[f])
      PROVE  \E n \in Names : \E g \in EntriesOf(table) : PathIn(table, g) = <<f, n>>
  <2>1. PICK j \in 1 .. Len(table[f]) : ~Vacant(table[f][j])
    BY <1>5 DEF EmptyDirectory
  <2>2. table[f][j] \in Slot
    BY <1>3, <2>1, TableFacts
  <2>3. table[f][j].name \in Names
    BY <2>1, <2>2 DEF Vacant, Slot
  <2>4. <<f, j>> \in EntriesOf(table) /\ PathIn(table, <<f, j>>) = <<f, table[f][j].name>>
    BY <1>3, <2>1, EntriesDef DEF PathIn
  <2> QED
    BY <2>3, <2>4
<1> QED
  BY <1>1, <1>2, <1>4, <1>5, StoreSets DEF f

LEMMA RmdirStore ==
    ASSUME StoreInv, Unique(table'),
           NEW d \in DOMAIN table, NEW n \in Names, Rmdir(d, n)
    PROVE  Store!Rmdir(<<d, n>>) \/ Store!RmdirDenied(<<d, n>>)
<1>0. Inv /\ Rooted
  BY StoreFacts
<1>1. PICK i \in 1 .. Len(table[d]) :
         /\ Found(table[d], n, i)
         /\ LET first == table[d][i].first
            IN  IF table[d][i].dir /\ EmptyDirectory(table[first])
                THEN /\ fat' = ChainFreed(fat, first)
                     /\ table' = [x \in DOMAIN table \ {first} |->
                                    IF x = d THEN Removed(d, i) ELSE table[x]]
                     /\ reply' = Say("ok")
                     /\ UNCHANGED <<data, file, stray>>
                ELSE /\ reply' = Say("denied")
                     /\ UNCHANGED <<fat, table, data, file, stray>>
  BY Zenon DEF Rmdir
<1> DEFINE x == <<d, i>>
<1>2. /\ x \in EntriesOf(table) /\ PathIn(table, x) = <<d, n>>
      /\ DirIn(table, x) = table[d][i].dir /\ FirstIn(table, x) = table[d][i].first
  BY <1>1, NameTaken
<1> HIDE DEF x
<1>3. CASE table[d][i].dir /\ EmptyDirectory(table[table[d][i].first])
  <2>1. /\ fat' = ChainFreed(fat, table[d][i].first)
        /\ table' = [y \in DOMAIN table \ {table[d][i].first} |->
                       IF y = d THEN Removed(d, i) ELSE table[y]]
        /\ Store!Says("ok") /\ UNCHANGED <<data, file>>
    BY <1>1, <1>3 DEF Store!Says, Say
  <2>2. x \in DirsIn(table)
    BY <1>2, <1>3 DEF DirsIn
  <2>3. /\ <<d, n>> \in Store!Subdirs
        /\ \A m \in Names : <<StoreSub[<<d, n>>], m>> \notin Store!Taken
    BY <1>2, <1>3, <2>2, EmptyStore DEF Store!Subdirs
  <2>4. Gone(d, i)
    <3>1. ~Vacant(table[d][i])
      BY <1>1, MarksAssumption DEF Found, Vacant
    <3>2. d # table[d][i].first
      <4>1. i \in 1 .. Len(table[d])
        OBVIOUS
      <4> QED
        BY <1>3, <3>1, <4>1 DEF EmptyDirectory
    <3> QED
      BY <1>3, <2>1, <3>1, <3>2 DEF Gone
  <2>5. StoreSub' = Store!Without(StoreSub, PathIn(table, x)) /\ StoreContent' = StoreContent
    BY <1>3, <2>1, <2>4, GoneDirectory DEF x
  <2>6. \A e \in FilesIn(table) : PathIn(table', e) = PathIn(table, e)
    <3>1. EntryTaken(x, table[d][i].dir, PathsOf(table), PathsOf(table'),
                     TextsOf(fat, table, data), TextsOf(fat', table', data'))
      BY <2>1, <2>4, GonePaths DEF x
    <3>2. \A e \in FilesIn(table) : e \in EntriesOf(table) \ {x}
      BY <2>2 DEF FilesIn, DirsIn
    <3> QED
      BY <3>1, <3>2 DEF EntryTaken
  <2>7. StoreCursor' = StoreCursor
    BY <2>1, <2>6, CursorSame
  <2> QED
    BY <1>2, <2>1, <2>3, <2>5, <2>7 DEF Store!Rmdir
<1>4. CASE ~(table[d][i].dir /\ EmptyDirectory(table[table[d][i].first]))
  <2>1. Store!Says("denied") /\ UNCHANGED <<fat, table, data, file>>
    BY <1>1, <1>4 DEF Store!Says, Say
  <2>2. UNCHANGED <<StoreContent, StoreSub, StoreCursor>>
    BY <2>1, AllSame
  <2>3. CASE ~table[d][i].dir
    <3>1. x \in FilesIn(table)
      BY <1>2, <2>3 DEF FilesIn
    <3>2. <<d, n>> \in Store!Files
      BY <1>2, <3>1, StoreSets DEF Store!Files
    <3> QED
      BY <2>1, <2>2, <3>2 DEF Store!RmdirDenied
  <2>4. CASE table[d][i].dir
    <3>1. x \in DirsIn(table) /\ ~EmptyDirectory(table[FirstIn(table, x)])
      BY <1>2, <1>4, <2>4 DEF DirsIn
    <3>2. <<d, n>> \in Store!Subdirs /\ \E m \in Names : <<StoreSub[<<d, n>>], m>> \in Store!Taken
      BY <1>2, <3>1, EmptyStore DEF Store!Subdirs
    <3> QED
      BY <2>1, <2>2, <3>2 DEF Store!RmdirDenied
  <2> QED
    BY <2>3, <2>4
<1> QED
  BY <1>3, <1>4
LEMMA RenameStore ==
    ASSUME StoreInv, Unique(table'),
           NEW d \in DOMAIN table, NEW n \in Names, NEW m \in Names, Rename(d, n, m)
    PROVE  Store!Rename(<<d, n>>, m)
<1>0. Inv /\ Rooted
  BY StoreFacts
<1>1. PICK i \in 1 .. Len(table[d]) :
         /\ Found(table[d], n, i)
         /\ IF Missing(table[d], m)
            THEN table' = [table EXCEPT ![d][i].name = m] /\ reply' = Say("ok")
            ELSE reply' = Say("exists") /\ UNCHANGED table
         /\ UNCHANGED <<fat, data, file, stray>>
  BY DEF Rename
<1> DEFINE x == <<d, i>>
           q == <<d, n>>
           r == <<d, m>>
<1>2. /\ x \in EntriesOf(table) /\ PathIn(table, x) = q
      /\ DirIn(table, x) = table[d][i].dir /\ q \in Store!Taken
      /\ Missing(table[d], m) <=> r \notin Store!Taken
  BY <1>1, NameTaken, StoreSets
<1>3. q[1] = d
  OBVIOUS
<1> HIDE DEF x, q, r
<1>4. CASE ~Missing(table[d], m)
  <2>1. UNCHANGED <<StoreContent, StoreSub, StoreCursor>>
    BY <1>1, <1>4, AllSame
  <2>2. Store!Says("exists")
    BY <1>1, <1>4 DEF Store!Says, Say
  <2> QED
    BY <1>2, <1>3, <1>4, <2>1, <2>2 DEF Store!Rename, r, q
<1>5. CASE Missing(table[d], m)
  <2>1. /\ table' = [table EXCEPT ![d][i].name = m] /\ UNCHANGED <<fat, data, file>>
        /\ Store!Says("ok")
    BY <1>1, <1>5 DEF Store!Says, Say
  <2>2. Kept /\ SameSizes
    <3>1. Kept
      BY <1>0, DirectoryEffects, Zenon
    <3>2. SameSizes
      BY <1>0, RenameSizes
    <3> QED
      BY <3>1, <3>2
  <2>3. Renamed(d, i, m)
    BY <1>1, <1>5, <2>1, MarksAssumption DEF Renamed, Found, Vacant
  <2>4. /\ StoreContent' = IF table[d][i].dir THEN StoreContent ELSE Store!Moved(StoreContent, q, r)
        /\ StoreSub' = IF table[d][i].dir THEN Store!Moved(StoreSub, q, r) ELSE StoreSub
        /\ \A e \in EntriesOf(table) : e # x => PathIn(table', e) = PathIn(table, e)
        /\ PathIn(table', x) = r
    BY <1>2, <2>1, <2>2, <2>3, RenamedStore DEF x, r
  <2>5. (q \in Store!Subdirs <=> table[d][i].dir) /\ (q \in Store!Files <=> ~table[d][i].dir)
    <3>1. \A e \in EntriesOf(table) : PathIn(table, e) = q => e = x
      BY <1>2, StoreFacts DEF Unique
    <3>2. q \in Store!Subdirs <=> \E e \in DirsIn(table) : PathIn(table, e) = q
      BY StoreSets DEF Store!Subdirs
    <3>3. q \in Store!Files <=> \E e \in FilesIn(table) : PathIn(table, e) = q
      BY StoreSets DEF Store!Files
    <3> QED
      BY <1>2, <3>1, <3>2, <3>3 DEF FilesIn, DirsIn
  <2> DEFINE k == [h \in Handles |-> IF Store!On(h, q) THEN [StoreCursor[h] EXCEPT !.path = r]
                                                       ELSE StoreCursor[h]]
  <2>6. StoreCursor' = k
    <3>1. \A h \in Handles :
             k[h] = IF Usable(h)' THEN [path |-> PathIn(table', Place(file'[h])), pos |-> file'[h].pos]
                                  ELSE file'[h]
      <4> TAKE h \in Handles
      <4>1. file'[h] = file[h] /\ (Usable(h)' <=> Usable(h))
        BY <2>1 DEF Usable
      <4>2. Store!On(h, q) <=> Usable(h) /\ Place(file[h]) = x
        BY <1>2, OnIs
      <4>3. CASE Usable(h) /\ Place(file[h]) = x
        BY <2>4, <4>1, <4>2, <4>3, CursorIs
      <4>4. CASE Usable(h) /\ Place(file[h]) # x
        <5>1. PathIn(table', Place(file[h])) = PathIn(table, Place(file[h]))
          BY <2>4, <4>4, CursorIs DEF FilesIn
        <5> QED
          BY <4>1, <4>2, <4>4, <5>1, CursorIs
      <4>5. CASE ~Usable(h)
        BY <4>1, <4>2, <4>5, CursorIs
      <4> QED
        BY <4>3, <4>4, <4>5
    <3>2. k = [h \in Handles |-> k[h]]
      OBVIOUS
    <3> HIDE DEF k
    <3> QED
      BY <3>1, <3>2, CursorNext
  <2>7. /\ StoreSub' = IF q \in Store!Subdirs THEN Store!Moved(StoreSub, q, r) ELSE StoreSub
        /\ StoreContent' = IF q \in Store!Files THEN Store!Moved(StoreContent, q, r) ELSE StoreContent
    BY <2>4, <2>5
  <2>8. r \notin Store!Taken /\ r = <<q[1], m>>
    BY <1>2, <1>3, <1>5 DEF r
  <2> HIDE DEF k
  <2>9. Store!Rename(q, m)
    BY <1>2, <2>1, <2>6, <2>7, <2>8 DEF Store!Rename, k
  <2> QED
    BY <2>9 DEF q
<1> QED
  BY <1>4, <1>5

LEMMA CloseStore ==
    ASSUME StoreInv, NEW h \in Handles, Close(h)
    PROVE  Store!Close(h)
<1>1. /\ file[h] # Closed /\ file' = [file EXCEPT ![h] = Closed]
      /\ UNCHANGED <<fat, table, data>> /\ Store!Says("ok")
  BY DEF Close, Store!Says, Say
<1>2. StoreCursor[h] # Closed
  BY <1>1, CursorIs DEF Usable, Store!Live
<1> DEFINE m == [StoreCursor EXCEPT ![h] = Closed]
<1>3. m = [g \in Handles |-> m[g]] /\ m[h] = Closed /\ \A g \in Handles \ {h} : m[g] = StoreCursor[g]
  BY CursorIs
<1>4. ~Usable(h)' /\ file'[h] = Closed
      /\ \A g \in Handles \ {h} : file'[g] = file[g] /\ (Usable(g)' <=> Usable(g))
  BY <1>1, TableFacts DEF Usable
<1> HIDE DEF m
<1>5. \A g \in Handles :
         m[g] = IF Usable(g)' THEN [path |-> PathIn(table', Place(file'[g])), pos |-> file'[g].pos]
                              ELSE file'[g]
  BY <1>1, <1>3, <1>4, CursorIs
<1>6. StoreCursor' = m
  BY <1>3, <1>5, CursorNext
<1> QED
  BY <1>1, <1>2, <1>6, SameStore DEF Store!Close, m
----------------------------------------------------------------------------
(* Calls on a handle *)

\* The file a handle stands in, as the store has it.
LEMMA FileText ==
    ASSUME StoreInv, NEW h \in Handles, Usable(h)
    PROVE  LET o == file[h]
               s == StoreContent[StoreCursor[h].path]
           IN  /\ o \in Handle /\ OnEntry(table, o) /\ AtPlace(fat, o)
               /\ Place(o) \in FilesIn(table) /\ FirstIn(table, Place(o)) = o.first
               /\ SizeIn(table, Place(o)) = o.size /\ o.size <= MaxSize
               /\ StoreCursor[h] = [path |-> PathIn(table, Place(o)), pos |-> o.pos]
               /\ PathIn(table, Place(o)) \in DOMAIN StoreContent
               /\ s = TextOf(fat, table, data, Place(o))
               /\ s = [x \in 1 .. o.size |-> ByteOf(fat, data, o.first, x)] /\ Len(s) = o.size
<1> DEFINE o == file[h]
           e == Place(o)
           s == StoreContent[StoreCursor[h].path]
<1>1. o \in Handle /\ OnEntry(table, o) /\ AtPlace(fat, o) /\ o.size = SizeIn(table, e)
  BY StoreFacts DEF Known, Place
<1>2. /\ StoreCursor[h] = [path |-> PathIn(table, e), pos |-> o.pos]
      /\ e \in FilesIn(table) /\ e \in EntriesOf(table)
  BY CursorIs DEF FilesIn
<1>3. FirstIn(table, e) = o.first
  BY <1>1 DEF OnEntry, Place
<1>4. o.size <= MaxSize
  BY <1>1, <1>2, StoreFacts
<1>5. PathIn(table, e) \in DOMAIN StoreContent
  BY <1>2, StoreSets
<1> HIDE DEF e, o
<1>6. s = TextOf(fat, table, data, e)
  <2>1. Maps(StoreContent, FilesIn(table), PathsOf(table), TextsOf(fat, table, data))
    BY StoreFacts, ContentMaps
  <2>2. StoreContent[PathsOf(table)[e]] = TextsOf(fat, table, data)[e]
    BY <1>2, <2>1 DEF Maps
  <2>3. PathsOf(table)[e] = PathIn(table, e) /\ TextsOf(fat, table, data)[e] = TextOf(fat, table, data, e)
    BY <1>2 DEF PathsOf, TextsOf
  <2>4. StoreCursor[h].path = PathIn(table, e)
    BY <1>2
  <2> QED
    BY <2>2, <2>3, <2>4
<1>7. s = [x \in 1 .. o.size |-> ByteOf(fat, data, o.first, x)]
  BY <1>1, <1>3, <1>6 DEF TextOf
<1>8. o.size \in Nat
  BY <1>1 DEF Handle
<1> HIDE DEF s
<1>9. Len(s) = o.size
  BY <1>7, <1>8
<1> QED
  BY <1>1, <1>2, <1>3, <1>4, <1>5, <1>6, <1>7, <1>9 DEF s, e, o

\* A handle moved within its file.
MovedTo(h, pos) ==
    /\ Usable(h) /\ file'[h] \in Handle /\ file'[h].pos = pos
    /\ Place(file'[h]) = Place(file[h])
    /\ \A g \in Handles \ {h} : file'[g] = file[g]
    /\ \A e \in FilesIn(table) : PathIn(table', e) = PathIn(table, e)

LEMMA CursorMoved ==
    ASSUME StoreInv, NEW h \in Handles, NEW pos, MovedTo(h, pos)
    PROVE  StoreCursor' = [StoreCursor EXCEPT ![h] = [StoreCursor[h] EXCEPT !.pos = pos]]
<1>1. /\ Usable(h)' /\ Usable(h)
      /\ \A g \in Handles \ {h} : file'[g] = file[g] /\ (Usable(g)' <=> Usable(g))
  BY HandleMarksAssumption DEF MovedTo, Usable
<1> DEFINE m == [StoreCursor EXCEPT ![h] = [StoreCursor[h] EXCEPT !.pos = pos]]
<1>2. /\ m = [g \in Handles |-> m[g]] /\ m[h] = [StoreCursor[h] EXCEPT !.pos = pos]
      /\ \A g \in Handles \ {h} : m[g] = StoreCursor[g]
  BY CursorIs
<1> HIDE DEF m
<1>3. m[h] = [path |-> PathIn(table', Place(file'[h])), pos |-> file'[h].pos]
  <2>1. StoreCursor[h] = [path |-> PathIn(table, Place(file[h])), pos |-> file[h].pos]
        /\ Place(file[h]) \in FilesIn(table)
    BY <1>1, CursorIs
  <2>2. [StoreCursor[h] EXCEPT !.pos = pos] = [path |-> PathIn(table, Place(file[h])), pos |-> pos]
    BY <2>1
  <2> QED
    BY <1>2, <2>1, <2>2 DEF MovedTo
<1>4. \A g \in Handles \ {h} :
         StoreCursor[g] = IF Usable(g)' THEN [path |-> PathIn(table', Place(file'[g])), pos |-> file'[g].pos]
                                        ELSE file'[g]
  BY <1>1, CursorIs DEF MovedTo
<1>5. \A g \in Handles :
         m[g] = IF Usable(g)' THEN [path |-> PathIn(table', Place(file'[g])), pos |-> file'[g].pos]
                              ELSE file'[g]
  BY <1>1, <1>2, <1>3, <1>4
<1>6. StoreCursor' = m
  BY <1>2, <1>5, CursorNext
<1> QED
  BY <1>6 DEF m

\* A write is refused at the end of a file only.
LEMMA WriteRefusedStore ==
    ASSUME StoreInv, NEW h \in Handles, WriteRefused(h)
    PROVE  Store!WriteRefused(h)
<1> DEFINE o == file[h]
<1>1. /\ Usable(h) /\ o.cpos >= ClusterSize /\ o.cur \in Clusters /\ IsEof(fat[o.cur])
      /\ Store!Says("no space") /\ UNCHANGED <<fat, table, data, file>>
      /\ FreeClusters(fat) = {}
  BY DEF WriteRefused, VolumeFull, Store!Says, Say
<1>2. UNCHANGED <<StoreContent, StoreSub, StoreCursor>>
  BY <1>1, AllSame
<1>3. /\ o \in Handle /\ AtPlace(fat, o) /\ Len(StoreContent[StoreCursor[h].path]) = o.size
      /\ StoreCursor[h].pos = o.pos
  <2>1. o \in Handle /\ AtPlace(fat, o)
    BY <1>1, StoreFacts
  <2>2. Len(StoreContent[StoreCursor[h].path]) = o.size
    BY <1>1, FileText
  <2>3. StoreCursor[h].pos = o.pos
    <3>1. StoreCursor[h] = [path |-> PathIn(table, Place(file[h])), pos |-> file[h].pos]
      BY <1>1, CursorIs
    <3> QED
      BY <3>1
  <2> QED
    BY <2>1, <2>2, <2>3
<1> HIDE DEF o
<1>4. PICK k \in Nat : o.pos = Room(k) + o.cpos /\ Reaches(fat, o.first, k, o.cur)
  BY <1>3 DEF AtPlace
<1>5. fat \in [Clusters -> Cells] /\ o.first \in Clusters
  BY <1>3, StoreFacts DEF AtPlace
<1>6. fat[o.cur] \notin Clusters
  BY <1>1, <1>5, ClustersFacts
<1>7. Cardinality(Chain(fat, o.first)) <= k + 1 /\ Cardinality(Chain(fat, o.first)) \in Nat
  BY <1>4, <1>5, <1>6, StepsEnd, ChainFinite
<1>8. Room(Cardinality(Chain(fat, o.first))) <= Room(k + 1)
  BY <1>7, RoomGrows
<1>9. o.pos = o.size
  <2>1. o.size <= Room(Cardinality(Chain(fat, o.first))) /\ o.pos <= o.size /\ o.cpos <= ClusterSize
    BY <1>3 DEF AtPlace
  <2>2. Room(k) \in Nat /\ Room(k + 1) = Room(k) + ClusterSize /\ Room(Cardinality(Chain(fat, o.first))) \in Nat
    BY <1>7, RoomFacts
  <2>3. o.pos \in Nat /\ o.size \in Nat /\ o.cpos \in Nat /\ ClusterSize \in Nat
    BY <1>3, SizesAssumption DEF Handle
  <2> DEFINE a == Room(Cardinality(Chain(fat, o.first)))
             b == Room(k)
             b2 == Room(k + 1)
  <2>4. o.size <= a /\ a <= b2 /\ b2 = b + ClusterSize /\ o.pos = b + o.cpos /\ a \in Nat /\ b \in Nat
    BY <1>4, <1>8, <2>1, <2>2
  <2>5. o.cpos >= ClusterSize
    BY <1>1 DEF o
  <2> HIDE DEF a, b, b2
  <2> QED
    BY <2>1, <2>3, <2>4, <2>5
<1>10. Cardinality(FreeClusters(fat)) = 0
  BY <1>1, FS_EmptySet
<1> QED
  BY <1>1, <1>2, <1>3, <1>9, <1>10, CursorIs DEF Store!WriteRefused
\* A chunk of a read that is not at the end of the file: the cluster c it is
\* in, the offset p there, and its length k.
ReadChunk(h, n, c, p, l, k) ==
    LET o == file[h]
    IN  /\ c \in Clusters /\ p \in 0 .. ClusterSize - 1 /\ l \in Nat
        /\ o.pos = Room(l) + p /\ Reaches(fat, o.first, l, c)
        /\ k \in 1 .. n /\ p + k <= ClusterSize /\ o.pos + k <= o.size
        /\ file' = [file EXCEPT ![h].cur = c, ![h].cpos = p + k, ![h].pos = o.pos + k]
        /\ reply' = [status |-> "ok", bytes |-> [x \in 1 .. k |-> data[c][p + x - 1]]]

LEMMA ReadIs ==
    ASSUME MaxSize < WordSize, StoreInv,
           NEW h \in Handles, NEW n \in 1 .. ClusterSize, Read(h, n), file[h].pos < file[h].size
    PROVE  \E c, p, l, k : ReadChunk(h, n, c, p, l, k)
<1> DEFINE o == file[h]
           next == o.cpos >= ClusterSize
           c == IF next /\ o.cur \in Clusters THEN fat[o.cur] ELSE o.cur
           p == IF next THEN 0 ELSE o.cpos
           k == Smaller(ClusterSize - p, Smaller((o.size - o.pos) % WordSize, n))
<1>1. Usable(h)
  BY DEF Read
<1>2. o \in Handle /\ OnEntry(table, o) /\ AtPlace(fat, o) /\ Known(table, o) /\ o.size <= MaxSize
  <2>1. o \in Handle /\ OnEntry(table, o) /\ AtPlace(fat, o) /\ Known(table, o)
    BY <1>1, StoreFacts
  <2>2. o.size <= MaxSize
    BY <1>1, FileText
  <2> QED
    BY <2>1, <2>2
<1>3. IF next /\ IsEof(c)
      THEN TRUE
      ELSE /\ file' = [file EXCEPT ![h].cur = c, ![h].cpos = p + k, ![h].pos = o.pos + k]
           /\ c \in Clusters =>
                 reply' = [status |-> "ok", bytes |-> [x \in 1 .. k |-> data[c][p + x - 1]]]
  <2>1. ~(o.pos >= o.size)
    BY <1>2 DEF Handle
  <2> QED
    BY <2>1 DEF Read
<1>4. fat \in [Clusters -> Cells] /\ LinksSound(fat) /\ IsHead(fat, o.first)
  <2>1. IsHead(fat, FirstIn(table, Place(o)))
    BY <1>2, StoreFacts DEF OnEntry, Place
  <2> QED
    BY <1>2, <2>1, StoreFacts, HeadsOfEntries DEF OnEntry, Place
<1>5. \E l \in Nat : c \in Clusters /\ p \in 0 .. ClusterSize - 1 /\ o.pos = Room(l) + p /\ Reaches(fat, o.first, l, c)
  <2>1. CASE next
    <3>1. /\ o.cur \in Clusters /\ fat[o.cur] \in Clusters
          /\ \E l \in Nat : o.pos = Room(l) + 0 /\ Reaches(fat, o.first, l, fat[o.cur])
      <4> HIDE DEF c, p, k
      <4>1. o.cpos >= ClusterSize /\ o.pos < o.size
        BY <2>1
      <4> HIDE DEF o
      <4> QED
        BY <1>2, <1>4, <4>1, NextCluster
    <3>2. c = fat[o.cur] /\ p = 0
      BY <2>1, <3>1
    <3>3. p \in 0 .. ClusterSize - 1
      BY <3>2, SizesAssumption
    <3> HIDE DEF c, p, k, o
    <3> QED
      BY <3>1, <3>2, <3>3
  <2>2. CASE ~next
    <3>1. c = o.cur /\ p = o.cpos
      BY <2>2
    <3>2. p \in 0 .. ClusterSize - 1
      BY <1>2, <2>2, SizesAssumption DEF Handle
    <3>3. PICK l \in Nat : o.pos = Room(l) + o.cpos /\ Reaches(fat, o.first, l, o.cur)
      BY <1>2 DEF AtPlace
    <3>4. o.cur \in Clusters
      BY <3>3, ReachesCluster
    <3> HIDE DEF c, p, k, o
    <3> QED
      BY <3>1, <3>2, <3>3, <3>4
  <2> QED
    BY <2>1, <2>2
<1>6. PICK l \in Nat : c \in Clusters /\ p \in 0 .. ClusterSize - 1 /\ o.pos = Room(l) + p /\ Reaches(fat, o.first, l, c)
  BY <1>5
<1>7. k \in 1 .. n /\ p + k <= ClusterSize /\ o.pos + k <= o.size
  <2> DEFINE r == o.size - o.pos
             a == r % WordSize
  <2>1. r \in Nat /\ r >= 1 /\ r < WordSize /\ WordSize \in Nat \ {0}
    BY <1>2, SizesAssumption DEF Handle
  <2>2. a = r
    <3> HIDE DEF r
    <3> QED
      BY <2>1
  <2>3. p \in 0 .. ClusterSize - 1 /\ ClusterSize \in Nat /\ n \in 1 .. ClusterSize /\ o.pos + r = o.size
    BY <1>2, <1>6, SizesAssumption DEF Handle
  <2>4. k = Smaller(ClusterSize - p, Smaller(a, n))
    OBVIOUS
  <2>5. o.pos \in Nat /\ o.size \in Nat
    BY <1>2 DEF Handle
  <2> HIDE DEF a, r, p, k, o
  <2> QED
    BY <2>1, <2>2, <2>3, <2>4, <2>5 DEF Smaller
<1>8. ~IsEof(c)
  <2>1. c \in Clusters
    BY <1>6
  <2> HIDE DEF c
  <2> QED
    BY <2>1, ClustersFacts
<1> HIDE DEF c, p, k
<1>9. ReadChunk(h, n, c, p, l, k)
  BY <1>3, <1>6, <1>7, <1>8 DEF ReadChunk
<1> QED
  BY <1>9
\* What a chunk of a read returns is what the file has at the handle's position.
LEMMA ReadBytes ==
    ASSUME StoreInv, NEW h \in Handles, Usable(h), NEW n \in 1 .. ClusterSize,
           NEW c, NEW p, NEW l, NEW k, ReadChunk(h, n, c, p, l, k)
    PROVE  LET s == StoreContent[StoreCursor[h].path]
           IN  SubSeq(s, file[h].pos + 1, file[h].pos + k) = [x \in 1 .. k |-> data[c][p + x - 1]]
<1> DEFINE o == file[h]
           s == StoreContent[StoreCursor[h].path]
           a == o.pos
<1>1. s = [x \in 1 .. o.size |-> ByteOf(fat, data, o.first, x)]
  BY FileText
<1>2. o \in Handle /\ AtPlace(fat, o) /\ fat \in [Clusters -> Cells] /\ o.first \in Clusters
  BY StoreFacts DEF AtPlace
<1>3. /\ p \in 0 .. ClusterSize - 1 /\ l \in Nat /\ a = Room(l) + p /\ Reaches(fat, o.first, l, c)
      /\ k \in 1 .. n /\ p + k <= ClusterSize /\ a + k <= o.size
  BY DEF ReadChunk
<1>4. a \in Nat /\ o.size \in Nat /\ k \in Nat /\ p \in Nat /\ Room(l) \in Nat /\ ClusterSize \in Nat
  BY <1>2, <1>3, RoomFacts, SizesAssumption DEF Handle
<1> HIDE DEF a
<1>5. \A x \in 1 .. k : s[a + x] = data[c][p + x - 1]
  <2> TAKE x \in 1 .. k
  <2> DEFINE y == p + x - 1
  <2>1. y \in 0 .. ClusterSize - 1 /\ a + x = Room(l) + y + 1
    BY <1>3, <1>4
  <2>2. a + x \in 1 .. o.size
    BY <1>3, <1>4
  <2>3. s[a + x] = ByteOf(fat, data, o.first, a + x)
    BY <1>1, <2>2
  <2> HIDE DEF y
  <2>4. ByteOf(fat, data, o.first, Room(l) + y + 1) = data[c][y]
    BY <1>2, <1>3, <2>1, ByteIs
  <2> QED
    BY <2>1, <2>3, <2>4 DEF y
<1> HIDE DEF s, o
<1>6. SubSeq(s, a + 1, a + k) = [x \in 1 .. k |-> s[a + x]]
  <2> DEFINE m == a + 1
             j == a + k
             S == {s[x] : x \in m .. j}
             t == SubSeq(s, m, j)
  <2>1. m \in Int /\ j \in Int /\ m <= j /\ j - m + 1 = k /\ \A x \in 1 .. k : m + x - 1 = a + x
    BY <1>3, <1>4
  <2>2. \A x \in m .. j : s[x] \in S
    OBVIOUS
  <2> HIDE DEF m, j, S
  <2>3. /\ SubSeq(s, m, j) \in Seq(S) /\ Len(SubSeq(s, m, j)) = j - m + 1
        /\ \A x \in 1 .. j - m + 1 : SubSeq(s, m, j)[x] = s[m + x - 1]
    BY <2>1, <2>2, SubSeqProperties
  <2>4. t \in Seq(S) /\ Len(t) = k /\ \A x \in 1 .. k : t[x] = s[a + x]
    BY <2>1, <2>3
  <2> HIDE DEF t
  <2>5. t = [x \in 1 .. k |-> s[a + x]]
    BY <1>4, <2>4
  <2> QED
    BY <2>5 DEF t, m, j
<1> QED
  BY <1>5, <1>6 DEF a, s, o

\* Only the position in its file changes of a handle that is moved.
LEMMA MovedHandle ==
    ASSUME StoreInv, NEW h \in Handles, Usable(h), UNCHANGED table,
           NEW c \in Cells, NEW p \in Nat, NEW pos \in Nat, NEW o, o = file[h],
           file'[h] = [o EXCEPT !.cur = c, !.cpos = p, !.pos = pos],
           \A g \in Handles \ {h} : file'[g] = file[g]
    PROVE  MovedTo(h, pos)
<1>1. o \in Handle
  BY StoreFacts
<1>2. file'[h] \in Handle /\ file'[h].pos = pos /\ Place(file'[h]) = Place(file[h])
  BY <1>1 DEF Handle, Place
<1> QED
  BY <1>2 DEF MovedTo

LEMMA ReadStore ==
    ASSUME MaxSize < WordSize, StoreInv,
           NEW h \in Handles, NEW n \in 1 .. ClusterSize, Read(h, n)
    PROVE  Store!Read(h, n)
<1> DEFINE o == file[h]
           s == StoreContent[StoreCursor[h].path]
<1>1. Usable(h) /\ UNCHANGED <<fat, table, data>>
  BY DEF Read
<1>2. Store!Live(h) /\ StoreCursor[h] = [path |-> PathIn(table, Place(o)), pos |-> o.pos]
  BY <1>1, CursorIs
<1>3. o \in Handle /\ o.pos <= o.size
  BY <1>1, StoreFacts DEF AtPlace
<1>4. Len(s) = o.size
  BY <1>1, FileText
<1>5. UNCHANGED <<StoreContent, StoreSub>>
  BY <1>1, SameStore
<1>6. o.pos \in Nat /\ o.size \in Nat /\ StoreCursor[h].pos = o.pos
  BY <1>2, <1>3 DEF Handle
<1>7. CASE o.pos >= o.size
  <2>1. reply' = Say("ok") /\ UNCHANGED file
    BY <1>7 DEF Read
  <2>2. UNCHANGED StoreCursor
    BY <1>1, <2>1, AllSame
  <2>3. StoreCursor[h].pos = Len(s)
    BY <1>3, <1>4, <1>6, <1>7
  <2> QED
    BY <1>2, <1>5, <2>1, <2>2, <2>3 DEF Store!Read, Store!Says, Say
<1>8. CASE o.pos < o.size
  <2>1. PICK c, p, l, k : ReadChunk(h, n, c, p, l, k)
    BY <1>8, ReadIs
  <2>2. /\ file' = [file EXCEPT ![h].cur = c, ![h].cpos = p + k, ![h].pos = o.pos + k]
        /\ c \in Clusters /\ p \in 0 .. ClusterSize - 1 /\ k \in 1 .. n /\ o.pos + k <= o.size
        /\ reply' = [status |-> "ok", bytes |-> [x \in 1 .. k |-> data[c][p + x - 1]]]
    BY <2>1 DEF ReadChunk
  <2>3. c \in Cells /\ p + k \in Nat /\ o.pos + k \in Nat /\ k \in 1 .. n
    <3> HIDE DEF o
    <3> QED
      BY SMTT(30), <1>6, <2>2, ClustersFacts, SizesAssumption
  <2>4. /\ file'[h] = [o EXCEPT !.cur = c, !.cpos = p + k, !.pos = o.pos + k]
        /\ \A g \in Handles \ {h} : file'[g] = file[g]
    BY <2>2, TableFacts
  <2>5. MovedTo(h, o.pos + k)
    <3> DEFINE a == p + k
               b == o.pos + k
    <3>1. /\ file'[h] = [o EXCEPT !.cur = c, !.cpos = a, !.pos = b]
          /\ \A g \in Handles \ {h} : file'[g] = file[g]
          /\ a \in Nat /\ b \in Nat /\ c \in Cells
      BY <2>3, <2>4
    <3> HIDE DEF a, b
    <3>2. MovedTo(h, b)
      BY <1>1, <3>1, MovedHandle
    <3> QED
      BY <3>2 DEF b
  <2>6. StoreCursor' = [StoreCursor EXCEPT ![h] = [StoreCursor[h] EXCEPT !.pos = o.pos + k]]
    BY <2>5, CursorMoved
  <2>7. SubSeq(s, o.pos + 1, o.pos + k) = [x \in 1 .. k |-> data[c][p + x - 1]]
    BY <1>1, <2>1, ReadBytes
  <2>8. reply' = [status |-> "ok", bytes |-> SubSeq(s, o.pos + 1, o.pos + k)]
    BY <2>2, <2>7
  <2> HIDE DEF s, o
  <2>9. StoreCursor[h].pos # Len(s) /\ StoreCursor[h].pos + k <= Len(s)
    BY <1>4, <1>6, <1>8, <2>2
  <2> QED
    BY <1>2, <1>5, <1>6, <2>3, <2>6, <2>8, <2>9 DEF Store!Read, s
<1> QED
  BY <1>6, <1>7, <1>8
LEMMA SeekStore ==
    ASSUME StoreInv, NEW h \in Handles, NEW pos \in Int, Seek(h, pos)
    PROVE  \E p \in 0 .. MaxSize + 1 : Store!Seek(h, p)
<1> DEFINE o == file[h]
<1>1. Usable(h) /\ UNCHANGED <<fat, table, data>>
  BY DEF Seek
<1>2. /\ Store!Live(h) /\ o \in Handle /\ o.size <= MaxSize
      /\ Len(StoreContent[StoreCursor[h].path]) = o.size
  <2>1. Store!Live(h)
    BY <1>1, CursorIs
  <2>2. o \in Handle
    BY <1>1, StoreFacts
  <2>3. o.size <= MaxSize
    BY <1>1, FileText
  <2>4. Len(StoreContent[StoreCursor[h].path]) = o.size
    BY <1>1, FileText
  <2> QED
    BY <2>1, <2>2, <2>3, <2>4
<1>3. UNCHANGED <<StoreContent, StoreSub>>
  BY <1>1, SameStore
<1>4. o.size \in Nat
  BY <1>2 DEF Handle
<1>5. CASE pos \notin 0 .. o.size
  <2>1. Store!Says("invalid") /\ UNCHANGED file
    BY <1>5 DEF Seek, Store!Says, Say
  <2>2. UNCHANGED StoreCursor
    BY <1>1, <2>1, AllSame
  <2>3. MaxSize + 1 \in 0 .. MaxSize + 1 /\ MaxSize + 1 > o.size
    <3> HIDE DEF o
    <3> QED
      BY <1>2, <1>4, SizesAssumption
  <2>4. Store!Seek(h, MaxSize + 1)
    BY <1>2, <1>3, <2>1, <2>2, <2>3 DEF Store!Seek
  <2> QED
    BY <2>3, <2>4
<1>6. CASE pos \in 0 .. o.size
  <2> DEFINE k == pos \div ClusterSize
             q == pos % ClusterSize
  <2>1. /\ \E w \in [0 .. k -> Cells] :
              /\ Walk(o.first, k, w)
              /\ file' = [file EXCEPT ![h].cur = w[k], ![h].pos = pos, ![h].cpos = q]
        /\ Store!Says("ok")
    BY <1>6 DEF Seek, Store!Says, Say
  <2>2. pos \in Nat
    BY <1>4, <1>6
  <2>3. k \in Nat /\ q \in Nat
    <3>1. q \in 0 .. ClusterSize - 1 /\ k \in Nat
      BY <2>2, RoomOf
    <3> HIDE DEF q, k
    <3> QED
      BY <3>1, SizesAssumption
  <2> HIDE DEF k, q
  <2>4. PICK w \in [0 .. k -> Cells] :
           file' = [file EXCEPT ![h].cur = w[k], ![h].pos = pos, ![h].cpos = q]
    BY <2>1
  <2> DEFINE c == w[k]
  <2>5. c \in Cells
    BY <2>3
  <2>6. /\ file'[h] = [o EXCEPT !.cur = c, !.cpos = q, !.pos = pos]
        /\ \A g \in Handles \ {h} : file'[g] = file[g]
    BY <1>2, <2>4, TableFacts DEF Handle
  <2> HIDE DEF c
  <2>7. MovedTo(h, pos)
    BY <1>1, <2>2, <2>3, <2>5, <2>6, MovedHandle
  <2>8. StoreCursor' = [StoreCursor EXCEPT ![h] = [StoreCursor[h] EXCEPT !.pos = pos]]
    BY <2>7, CursorMoved
  <2>9. pos \in 0 .. MaxSize + 1 /\ ~(pos > o.size)
    <3> HIDE DEF o
    <3> QED
      BY <1>2, <1>4, <1>6, SizesAssumption
  <2>10. Store!Seek(h, pos)
    BY <1>2, <1>3, <2>1, <2>8, <2>9 DEF Store!Seek
  <2> QED
    BY <2>9, <2>10
<1> QED
  BY <1>5, <1>6

\* A cluster is at one place in a chain.
LEMMA ReachesOnce ==
    ASSUME NEW f \in [Clusters -> Cells], NEW c \in Clusters, LinksSound(f),
           \A b \in Clusters : f[b] # c,
           NEW k \in Nat, NEW l \in Nat, l < k, NEW x,
           Reaches(f, c, k, x), Reaches(f, c, l, x)
    PROVE  FALSE
<1>1. PICK w : Steps(f, c, k, w) /\ w[k] = x
  BY DEF Reaches
<1> DEFINE u == [i \in 0 .. l |-> w[i]]
<1>2. \A i \in 0 .. l : i \in 0 .. k
  OBVIOUS
<1>3. \A i \in 1 .. l : i \in 1 .. k /\ i - 1 \in 0 .. l /\ i \in 0 .. l
  OBVIOUS
<1>4. Steps(f, c, l, u)
  BY <1>1, <1>2, <1>3 DEF Steps
<1>5. u[l] = w[l]
  OBVIOUS
<1> HIDE DEF u
<1>6. Reaches(f, c, l, w[l])
  BY <1>4, <1>5 DEF Reaches
<1>7. w[l] = x
  BY <1>6, NthIs
<1>8. l \in 0 .. k /\ k \in 0 .. k
  OBVIOUS
<1>9. l = k
  BY <1>1, <1>7, <1>8, StepsInjective
<1> QED
  BY <1>9
\* A chunk of a write: the cluster c it goes to, the k-th of the file's chain
\* once the write is done, and the offset p there.
WriteChunk(h, bs, c, p, k) ==
    LET o == file[h]
    IN  /\ c \in Clusters /\ p \in Nat /\ k \in Nat /\ o.pos = Room(k) + p
        /\ Len(bs) \in 1 .. ClusterSize /\ p + Len(bs) <= ClusterSize
        /\ o.pos + Len(bs) <= MaxSize
        /\ fat' \in [Clusters -> Cells] /\ Reaches(fat', o.first, k, c)
        /\ \A b \in Clusters : fat[b] \in Clusters => fat'[b] = fat[b]
        /\ data' = [data EXCEPT ![c] = Patched(data[c], p, bs)]

\* The byte at place x of the file, where the write puts it or where it was.
LEMMA ByteWritten ==
    ASSUME StoreInv, NEW h \in Handles, Usable(h), NEW bs, NEW c, NEW p, NEW k,
           WriteChunk(h, bs, c, p, k),
           LinksSound(fat'), \A b \in Clusters : fat'[b] # file[h].first,
           NEW x \in Nat, x >= 1
    PROVE  LET o == file[h]
           IN  /\ x \in o.pos + 1 .. o.pos + Len(bs) =>
                     ByteOf(fat', data', o.first, x) = bs[x - o.pos]
               /\ x \notin o.pos + 1 .. o.pos + Len(bs) /\ x <= o.size =>
                     ByteOf(fat', data', o.first, x) = ByteOf(fat, data, o.first, x)
<1> DEFINE o == file[h]
           a == o.pos
           n == Len(bs)
<1>1. o \in Handle /\ AtPlace(fat, o) /\ fat \in [Clusters -> Cells] /\ o.first \in Clusters
  BY StoreFacts DEF AtPlace
<1>2. /\ c \in Clusters /\ p \in Nat /\ k \in Nat /\ a = Room(k) + p
      /\ n \in 1 .. ClusterSize /\ p + n <= ClusterSize
      /\ fat' \in [Clusters -> Cells] /\ Reaches(fat', o.first, k, c)
      /\ \A b \in Clusters : fat[b] \in Clusters => fat'[b] = fat[b]
      /\ data' = [data EXCEPT ![c] = Patched(data[c], p, bs)]
  BY DEF WriteChunk
<1>3. a \in Nat /\ o.size \in Nat /\ n \in Nat /\ Room(k) \in Nat /\ ClusterSize \in Nat /\ n >= 1
  <2>1. a \in Nat /\ o.size \in Nat
    BY <1>1 DEF Handle
  <2>2. ClusterSize \in Nat /\ Room(k) \in Nat
    BY <1>2, RoomFacts, SizesAssumption
  <2> HIDE DEF n
  <2> QED
    BY <1>2, <2>1, <2>2
<1>4. data \in [Clusters -> [0 .. ClusterSize - 1 -> Bytes]]
  BY StoreFacts DEF Inv, TypeOK
<1> HIDE DEF n
<1>0. ASSUME NEW l \in Nat, NEW j \in 0 .. ClusterSize - 1, NEW y, Reaches(fat', o.first, l, y)
      PROVE  ByteOf(fat', data', o.first, Room(l) + j + 1) = data'[y][j]
  <2> DEFINE g == fat'
             du == data'
             d == o.first
  <2>1. g \in [Clusters -> Cells] /\ d \in Clusters /\ Reaches(g, d, l, y)
    BY <1>0, <1>1, <1>2
  <2> HIDE DEF g, du, d
  <2>2. ByteOf(g, du, d, Room(l) + j + 1) = du[y][j]
    BY <2>1, ByteIs
  <2> QED
    BY <2>2 DEF g, du, d
<1>5. /\ \A b \in Clusters \ {c} : data'[b] = data[b]
      /\ \A j \in 0 .. ClusterSize - 1 :
            data'[c][j] = IF j \in p .. p + n - 1 THEN bs[j - p + 1] ELSE data[c][j]
  BY <1>2, <1>4 DEF Patched, n
<1>6. ASSUME x \in a + 1 .. a + n
      PROVE  ByteOf(fat', data', o.first, x) = bs[x - a]
  <2> DEFINE j == x - a - 1 + p
  <2> HIDE DEF a
  <2>1. /\ j \in 0 .. ClusterSize - 1 /\ j \in p .. p + n - 1 /\ j - p + 1 = x - a
        /\ x = Room(k) + j + 1
    BY <1>2, <1>3, <1>6
  <2> HIDE DEF j, o
  <2>2. ByteOf(fat', data', o.first, Room(k) + j + 1) = data'[c][j]
    <3>1. k \in Nat /\ Reaches(fat', o.first, k, c) /\ j \in 0 .. ClusterSize - 1
      BY <1>2, <2>1
    <3> QED
      BY <1>0, <3>1
  <2> QED
    BY <1>5, <2>1, <2>2
<1>7. ASSUME x \notin a + 1 .. a + n, x <= o.size
      PROVE  ByteOf(fat', data', o.first, x) = ByteOf(fat, data, o.first, x)
  <2>1. x <= Room(Cardinality(Chain(fat, o.first)))
    <3>1. o.size <= Room(Cardinality(Chain(fat, o.first)))
      BY <1>1 DEF AtPlace
    <3>2. Room(Cardinality(Chain(fat, o.first))) \in Nat
      BY <1>1, ChainFinite, RoomFacts
    <3> DEFINE m == Room(Cardinality(Chain(fat, o.first)))
    <3> HIDE DEF m, o
    <3> QED
      BY <1>3, <1>7, <3>1, <3>2 DEF m
  <2>2. PICK l \in Nat, j \in 0 .. ClusterSize - 1, y \in Chain(fat, o.first) :
           x = Room(l) + j + 1 /\ Reaches(fat, o.first, l, y)
    <3> HIDE DEF o
    <3> QED
      BY <1>1, <2>1, ByteWhere
  <2>3. Chain(fat, o.first) \subseteq Clusters
    BY <1>1, ChainClosed
  <2>4. Reaches(fat', o.first, l, y)
    <3>1. \A b \in Chain(fat, o.first) : fat[b] \in Clusters => fat'[b] = fat[b]
      BY <1>2, <2>3
    <3> HIDE DEF o
    <3> QED
      BY <1>1, <1>2, <2>2, <3>1, StepsKept
  <2>5. ByteOf(fat, data, o.first, x) = data[y][j] /\ ByteOf(fat', data', o.first, x) = data'[y][j]
    <3> HIDE DEF o
    <3>1. ByteOf(fat, data, o.first, Room(l) + j + 1) = data[y][j]
      BY <1>1, <2>2, ByteIs
    <3>2. ByteOf(fat', data', o.first, Room(l) + j + 1) = data'[y][j]
      BY <1>0, <2>2, <2>4
    <3> QED
      BY <2>2, <3>1, <3>2
  <2>6. CASE y # c
    BY <1>5, <2>2, <2>3, <2>5, <2>6
  <2>7. CASE y = c
    <3>1. l = k
      <4>1. \A b \in Clusters : fat'[b] # o.first
        OBVIOUS
      <4> HIDE DEF o
      <4>2. ~(l < k) /\ ~(k < l)
        BY <1>1, <1>2, <2>2, <2>4, <2>7, <4>1, ReachesOnce
      <4> QED
        BY <1>2, <2>2, <4>2
    <3>2. j \notin p .. p + n - 1
      <4> HIDE DEF a, o
      <4> QED
        BY <1>2, <1>3, <1>7, <2>2, <3>1
    <3> QED
      BY <1>5, <2>2, <2>5, <2>7, <3>2
  <2> QED
    BY <2>6, <2>7
<1> QED
  BY <1>6, <1>7 DEF n
\* What is known of the chains before a call is known of them after it.
HeadsOf(f, t) ==
    /\ f \in [Clusters -> Cells] /\ LinksSound(f)
    /\ \A e \in EntriesOf(t) : IsHead(f, FirstIn(t, e))

LEMMA HeadsHere == Inv => HeadsOf(fat, table)
BY HeadsOfEntries DEF HeadsOf

LEMMA HeadsNext == Inv' => HeadsOf(fat', table')
<1>1. (Inv => HeadsOf(fat, table))'
  BY HeadsHere, PTL
<1> QED
  BY <1>1

\* What a chunk of a write leaves: sizes and bytes of the other files, and all
\* names, as they were.
WriteDone(h, bs, c) ==
    LET o == file[h]
        q == o.pos + Len(bs)
    IN  /\ EntriesOf(table') = EntriesOf(table)
        /\ \A e \in EntriesOf(table) :
              /\ FirstIn(table', e) = FirstIn(table, e) /\ DirIn(table', e) = DirIn(table, e)
              /\ PathIn(table', e) = PathIn(table, e)
              /\ SizeIn(table', e) = IF e = Place(o) /\ q > o.size THEN q ELSE SizeIn(table, e)
              /\ e # Place(o) => c \notin Chain(fat, FirstIn(table, e))
        /\ LinksSound(fat') /\ \A b \in Clusters : fat'[b] # o.first
        /\ MovedTo(h, q) /\ reply' = Say("ok")

LEMMA WriteIs ==
    ASSUME StoreInv, NEW h \in Handles, NEW bs \in Chunks, Write(h, bs)
    PROVE  \E c, p, k : WriteChunk(h, bs, c, p, k) /\ WriteDone(h, bs, c)
<1> DEFINE o == file[h]
           q == o.pos + Len(bs)
           a == o.first
<1>1. Usable(h) /\ o \in Handle /\ OnEntry(table, o) /\ AtPlace(fat, o)
      /\ Inv /\ Rooted /\ Place(o) \in EntriesOf(table) /\ FirstIn(table, Place(o)) = a
  <2>1. Usable(h)
    BY DEF Write
  <2> QED
    BY <2>1, StoreFacts DEF OnEntry, Place
<1>2. PICK c \in Clusters, p \in Nat, k \in Nat :
         /\ Put(h, c, p, bs)
         /\ fat' \in [Clusters -> Cells]
         /\ \A b \in Clusters : fat[b] \in Clusters => fat'[b] = fat[b]
         /\ \A e \in EntriesOf(table) : FirstIn(table, e) # a =>
               Chain(fat', FirstIn(table, e)) = Chain(fat, FirstIn(table, e))
         /\ Reaches(fat', a, k, c) /\ o.pos = Room(k) + p
  BY <1>1, WriteTarget
<1>3. /\ Len(bs) \in 1 .. ClusterSize /\ p + Len(bs) <= ClusterSize
      /\ file' = [file EXCEPT ![h] = file'[h]]
      /\ file'[h] = [o EXCEPT !.cur = c, !.pos = q, !.cpos = p + Len(bs), !.size = Larger(q, o.size)]
      /\ SameSlots /\ SameNames
      /\ \A e \in EntriesOf(table) :
            SizeIn(table', e) = IF e = <<o.dir, o.slot>> /\ q > o.size THEN q ELSE SizeIn(table, e)
      /\ UNCHANGED stray
  <2>1. Inv /\ Usable(h) /\ OnEntry(table, file[h])
    BY <1>1
  <2>2. Put(h, c, p, bs)
    BY <1>2
  <2> QED
    BY <2>1, <2>2, PutEffect
<1>4. /\ q <= MaxSize /\ reply' = Say("ok")
      /\ data' = [data EXCEPT ![c] = Patched(data[c], p, bs)]
  BY <1>2 DEF Put
<1>5. WriteChunk(h, bs, c, p, k)
  BY <1>2, <1>3, <1>4 DEF WriteChunk
<1>6. /\ EntriesOf(table') = EntriesOf(table)
      /\ \A e \in EntriesOf(table) :
            FirstIn(table', e) = FirstIn(table, e) /\ DirIn(table', e) = DirIn(table, e)
  <2>1. Kept
    BY <1>1, WriteEffect
  <2> QED
    BY <1>1, <2>1, KeptEntries
<1>7. \A e \in EntriesOf(table) : PathIn(table', e) = PathIn(table, e)
  BY <1>3, EntryParts DEF SameNames, PathIn
<1>8. /\ LinksSound(fat') /\ \A e \in EntriesOf(table) : IsHead(fat', FirstIn(table, e))
  <2>1. Inv'
    BY <1>1, WriteInv
  <2> QED
    BY <1>6, <2>1, HeadsNext DEF HeadsOf
<1>9. IsHead(fat', a)
  BY <1>1, <1>8
<1>10. ASSUME NEW e \in EntriesOf(table), e # Place(o)
       PROVE  c \notin Chain(fat, FirstIn(table, e))
  <2> DEFINE b == FirstIn(table, e)
  <2>1. b # a
    BY <1>1, <1>10, HeadsOfEntries
  <2>2. Chain(fat', b) = Chain(fat, b)
    BY <1>2, <2>1
  <2>3. IsHead(fat', b)
    BY <1>8
  <2> DEFINE g == fat'
  <2>4. g \in [Clusters -> Cells] /\ LinksSound(g) /\ IsHead(g, a) /\ IsHead(g, b) /\ Reaches(g, a, k, c)
    BY <1>2, <1>8, <1>9, <2>3
  <2> HIDE DEF a, b, g, o
  <2>5. c \in Chain(g, a)
    BY <2>4, StepsCount DEF IsHead
  <2>6. Chain(g, a) \cap Chain(g, b) = {}
    BY <2>1, <2>4, ChainsDisjoint DEF IsHead
  <2> QED
    BY <2>2, <2>5, <2>6 DEF b, g
<1>11. MovedTo(h, q)
  <2>1. q \in Nat /\ p + Len(bs) \in Nat /\ Larger(q, o.size) \in Nat /\ c \in Cells
    <3>1. o.pos \in Nat /\ o.size \in Nat /\ Len(bs) \in Nat
      BY SMTT(30), <1>1, <1>3, SizesAssumption DEF Handle
    <3> HIDE DEF o
    <3> QED
      BY <1>2, <3>1, ClustersFacts DEF Larger
  <2>2. file'[h] \in Handle /\ file'[h].pos = q /\ Place(file'[h]) = Place(o)
    BY <1>1, <1>3, <2>1 DEF Handle, Place
  <2>3. \A g \in Handles \ {h} : file'[g] = file[g]
    BY <1>3, TableFacts
  <2> QED
    BY <1>1, <1>7, <2>2, <2>3 DEF MovedTo, FilesIn
<1>12. WriteDone(h, bs, c)
  BY <1>3, <1>4, <1>6, <1>7, <1>8, <1>9, <1>10, <1>11 DEF WriteDone, IsHead, Place
<1> QED
  BY <1>5, <1>12
LEMMA TextWritten ==
    ASSUME StoreInv, NEW h \in Handles, Usable(h), NEW bs, NEW c, NEW p, NEW k,
           WriteChunk(h, bs, c, p, k), WriteDone(h, bs, c)
    PROVE  TextOf(fat', table', data', Place(file[h])) =
              Store!Overwritten(StoreContent[StoreCursor[h].path], file[h].pos, bs)
<1> DEFINE o == file[h]
           e == Place(o)
           a == o.pos
           l == Len(bs)
           z == o.size
           s == StoreContent[StoreCursor[h].path]
           n == IF a + l > z THEN a + l ELSE z
           d == o.first
<1>1. /\ o \in Handle /\ e \in EntriesOf(table) /\ FirstIn(table, e) = d
      /\ SizeIn(table, e) = z
      /\ s = [x \in 1 .. z |-> ByteOf(fat, data, d, x)] /\ Len(s) = z
  BY FileText DEF FilesIn
<1>2. a \in Nat /\ z \in Nat /\ a <= z
  BY <1>1, FileText DEF Handle, AtPlace
<1>3. l \in 1 .. ClusterSize
  BY DEF WriteChunk
<1>4. l \in Nat /\ n \in Nat
  <2> HIDE DEF a, l, z
  <2> QED
    BY <1>2, <1>3, SizesAssumption
<1>5. /\ FirstIn(table', e) = d /\ SizeIn(table', e) = n
      /\ LinksSound(fat') /\ \A b \in Clusters : fat'[b] # d
  BY <1>1 DEF WriteDone
<1>6. ASSUME NEW x \in 1 .. n
      PROVE  ByteOf(fat', data', d, x) = IF x \in a + 1 .. a + l THEN bs[x - a] ELSE s[x]
  <2>1. x \in Nat /\ x >= 1
    OBVIOUS
  <2>2. /\ x \in a + 1 .. a + l => ByteOf(fat', data', d, x) = bs[x - a]
        /\ x \notin a + 1 .. a + l /\ x <= z => ByteOf(fat', data', d, x) = ByteOf(fat, data, d, x)
    BY <1>5, <2>1, ByteWritten
  <2>3. CASE x \notin a + 1 .. a + l
    <3> HIDE DEF a, l, z, d, s
    <3>1. x <= z
      <4>1. x <= n
        BY <1>4, <1>6, <2>1
      <4>2. ~(x >= a + 1 /\ x <= a + l)
        BY <1>2, <1>4, <2>1, <2>3
      <4>3. CASE a + l > z
        BY <1>2, <1>4, <2>1, <4>1, <4>2, <4>3
      <4>4. CASE ~(a + l > z)
        BY <4>1, <4>4
      <4> QED
        BY <4>3, <4>4
    <3>2. x \in 1 .. z
      BY <1>2, <2>1, <3>1
    <3> QED
      BY <1>1, <2>2, <2>3, <3>1, <3>2
  <2> QED
    BY <2>2, <2>3
<1>7. TextOf(fat', table', data', e) = [x \in 1 .. n |-> ByteOf(fat', data', d, x)]
  BY <1>5 DEF TextOf
<1> DEFINE m == Store!Overwritten(s, a, bs)
<1>8. m = [x \in 1 .. n |-> IF x \in a + 1 .. a + l THEN bs[x - a] ELSE s[x]]
  BY <1>1 DEF Store!Overwritten
<1> HIDE DEF n, a, l, s, d, z, e, m
<1>9. TextOf(fat', table', data', e) = m
  BY <1>6, <1>7, <1>8
<1> QED
  BY <1>9 DEF m, e, s, a

LEMMA OthersWritten ==
    ASSUME StoreInv, NEW h \in Handles, Usable(h), NEW bs, NEW c, NEW p, NEW k,
           WriteChunk(h, bs, c, p, k), WriteDone(h, bs, c)
    PROVE  /\ FilesIn(table') = FilesIn(table) /\ DirsIn(table') = DirsIn(table)
           /\ OneChanged(FilesIn(table), Place(file[h]), PathsOf(table), TextsOf(fat, table, data),
                         PathsOf(table'), TextsOf(fat', table', data'))
           /\ \A e \in DirsIn(table) :
                 /\ PathsOf(table')[e] = PathsOf(table)[e]
                 /\ FirstsOf(table')[e] = FirstsOf(table)[e]
<1> DEFINE x == Place(file[h])
<1>1. x \in FilesIn(table)
  BY FileText
<1>2. /\ EntriesOf(table') = EntriesOf(table)
      /\ \A e \in EntriesOf(table) :
            /\ FirstIn(table', e) = FirstIn(table, e) /\ DirIn(table', e) = DirIn(table, e)
            /\ PathIn(table', e) = PathIn(table, e)
            /\ e # x => SizeIn(table', e) = SizeIn(table, e) /\ c \notin Chain(fat, FirstIn(table, e))
  BY DEF WriteDone
<1>3. /\ fat' \in [Clusters -> Cells] /\ c \in Clusters
      /\ \A b \in Clusters : fat[b] \in Clusters => fat'[b] = fat[b]
      /\ data' = [data EXCEPT ![c] = Patched(data[c], p, bs)]
  BY DEF WriteChunk
<1>4. data \in [Clusters -> [0 .. ClusterSize - 1 -> Bytes]] /\ Unique(table)
  BY StoreFacts DEF Inv, TypeOK
<1>5. FilesIn(table') = FilesIn(table) /\ DirsIn(table') = DirsIn(table)
  BY <1>2 DEF FilesIn, DirsIn
<1> HIDE DEF x
<1>6. ASSUME NEW e \in FilesIn(table), e # x
      PROVE  TextOf(fat', table', data', e) = TextOf(fat, table, data, e)
  <2>1. e \in EntriesOf(table)
    BY DEF FilesIn
  <2>2. Chain(fat, FirstIn(table, e)) \subseteq Clusters
    BY <2>1, StoreFacts, ChainClosed
  <2>3. \A b \in Chain(fat, FirstIn(table, e)) : data'[b] = data[b]
    BY <1>2, <1>3, <1>4, <1>6, <2>1, <2>2
  <2>4. \A b \in Chain(fat, FirstIn(table, e)) : fat[b] \in Clusters => fat'[b] = fat[b]
    BY <1>3, <2>2
  <2>5. FirstIn(table', e) = FirstIn(table, e) /\ SizeIn(table', e) = SizeIn(table, e)
    BY <1>2, <1>6, <2>1
  <2> QED
    BY <1>3, <2>3, <2>4, <2>5, TextsSame
<1>7. FilesIn(table) \subseteq EntriesOf(table) /\ DirsIn(table) \subseteq EntriesOf(table)
  BY DEF FilesIn, DirsIn
<1>8. \A e \in EntriesOf(table) : PathsOf(table')[e] = PathsOf(table)[e] /\ PathsOf(table)[e] = PathIn(table, e)
  BY <1>2 DEF PathsOf
<1>9. \A e \in FilesIn(table) : e # x => TextsOf(fat', table', data')[e] = TextsOf(fat, table, data)[e]
  BY <1>2, <1>6, <1>7 DEF TextsOf
<1>10. \A e \in DirsIn(table) : FirstsOf(table')[e] = FirstsOf(table)[e]
  BY <1>2, <1>7 DEF FirstsOf
<1>11. \A e \in FilesIn(table) : e # x => PathsOf(table)[e] # PathsOf(table)[x]
  BY <1>1, <1>4, <1>7, <1>8 DEF Unique
<1>12. OneChanged(FilesIn(table), x, PathsOf(table), TextsOf(fat, table, data),
                  PathsOf(table'), TextsOf(fat', table', data'))
  BY <1>1, <1>7, <1>8, <1>9, <1>11 DEF OneChanged
<1> QED
  BY <1>5, <1>7, <1>8, <1>10, <1>12 DEF x

LEMMA WriteStore ==
    ASSUME StoreInv, Unique(table'), NEW h \in Handles, NEW bs \in Chunks, Write(h, bs)
    PROVE  Store!Write(h, bs)
<1> DEFINE x == Place(file[h])
           p == PathsOf(table)
           r == PathsOf(table')
           v == TextsOf(fat, table, data)
           w == TextsOf(fat', table', data')
           q == PathIn(table, x)
           a == file[h].pos
<1>1. PICK c, y, k : WriteChunk(h, bs, c, y, k) /\ WriteDone(h, bs, c)
  BY WriteIs
<1>2. Usable(h)
  BY DEF Write
<1>3. /\ StoreCursor[h] = [path |-> q, pos |-> a] /\ x \in FilesIn(table) /\ Store!Live(h)
  BY <1>2, CursorIs
<1>4. /\ FilesIn(table') = FilesIn(table) /\ DirsIn(table') = DirsIn(table)
      /\ OneChanged(FilesIn(table), x, p, v, r, w)
      /\ \A e \in DirsIn(table) : r[e] = p[e] /\ FirstsOf(table')[e] = FirstsOf(table)[e]
  BY <1>1, <1>2, OthersWritten
<1>5. /\ Maps(StoreContent, FilesIn(table), p, v) /\ Maps(StoreContent', FilesIn(table), r, w)
      /\ Maps(StoreSub, DirsIn(table), p, FirstsOf(table))
      /\ Maps(StoreSub', DirsIn(table), r, FirstsOf(table'))
  BY <1>4, StoreFacts, ContentMaps, SubMaps, ContentMapsNext, SubMapsNext
<1>6. p[x] = q
  BY <1>3 DEF PathsOf, FilesIn
<1>7. w[x] = Store!Overwritten(StoreContent[StoreCursor[h].path], a, bs)
  <2>1. x \in EntriesOf(table')
    BY <1>3, <1>4 DEF FilesIn
  <2>2. w[x] = TextOf(fat', table', data', x)
    BY <2>1 DEF TextsOf
  <2> QED
    BY <1>1, <1>2, <2>2, TextWritten
<1>8. MovedTo(h, a + Len(bs)) /\ Store!Says("ok")
  BY <1>1 DEF WriteDone, Store!Says, Say
<1> DEFINE b == a + Len(bs)
<1>9. StoreCursor' = [StoreCursor EXCEPT ![h] = [StoreCursor[h] EXCEPT !.pos = b]]
  BY <1>8, CursorMoved
<1> HIDE DEF x, p, r, v, w
<1>10. StoreContent' = [StoreContent EXCEPT ![p[x]] = w[x]]
  BY <1>4, <1>5, MapsChanged
<1>11. StoreSub' = StoreSub
  BY <1>4, <1>5, MapsSame
<1> HIDE DEF q, a
<1>12. StoreCursor[h].path = q /\ StoreCursor[h].pos = a
  BY <1>3
<1>13. StoreContent' = [StoreContent EXCEPT ![StoreCursor[h].path] =
                           Store!Overwritten(StoreContent[StoreCursor[h].path], StoreCursor[h].pos, bs)]
  BY <1>6, <1>7, <1>10, <1>12
<1>14. StoreCursor' = [StoreCursor EXCEPT ![h] = [StoreCursor[h] EXCEPT !.pos = StoreCursor[h].pos + Len(bs)]]
  BY <1>9, <1>12
<1> QED
  BY <1>3, <1>8, <1>11, <1>13, <1>14 DEF Store!Write
----------------------------------------------------------------------------
(* Files stay within the bound *)

LEMMA SmallMade ==
    ASSUME StoreInv, NEW d \in DOMAIN table, NEW n \in Names, NEW isDir \in BOOLEAN,
           NEW c, NEW i, Made(d, i, c, n, isDir)
    PROVE  Small(table')
<1>0. Inv /\ Rooted /\ Tight(fat, table) /\ Small(table)
  BY DEF StoreInv, ExactInv, PlaceInv, VolumeInv
<1>1. /\ <<d, i>> \notin EntriesOf(table)
      /\ EntriesOf(table') = EntriesOf(table) \cup {<<d, i>>}
      /\ DirIn(table', <<d, i>>) = isDir /\ FirstIn(table', <<d, i>>) = c
      /\ c \in Clusters /\ c \notin DOMAIN table
      /\ \A e \in EntriesOf(table) :
            /\ table'[e[1]][e[2]] = table[e[1]][e[2]]
            /\ FirstIn(table', e) = FirstIn(table, e) /\ DirIn(table', e) = DirIn(table, e)
  BY <1>0, MadeEntries
<1>2. SizeIn(table', <<d, i>>) = 0 /\ \A e \in EntriesOf(table) : SizeIn(table', e) = SizeIn(table, e)
  BY <1>0, MadeTight
<1> DEFINE x == <<d, i>>
<1>3. SizeIn(table', x) <= MaxSize
  <2>1. 0 <= MaxSize
    BY SizesAssumption
  <2> QED
    BY <1>2, <2>1
<1> HIDE DEF x
<1>4. \A e \in EntriesOf(table) : SizeIn(table', e) <= MaxSize
  BY <1>0, <1>2 DEF Small
<1>5. EntriesOf(table') = EntriesOf(table) \cup {x}
  BY <1>1 DEF x
<1> QED
  BY <1>3, <1>4, <1>5 DEF Small

LEMMA SmallGone ==
    ASSUME StoreInv, NEW d \in DOMAIN table, NEW i \in 1 .. Len(table[d]), Gone(d, i)
    PROVE  Small(table')
<1>0. Inv /\ Rooted /\ Tight(fat, table) /\ Small(table)
  BY DEF StoreInv, ExactInv, PlaceInv, VolumeInv
<1>1. /\ EntriesOf(table') \subseteq EntriesOf(table)
      /\ \A e \in EntriesOf(table') : SizeIn(table', e) = SizeIn(table, e)
  BY <1>0, GoneTight
<1> QED
  BY <1>0, <1>1 DEF Small

LEMMA SmallDirectory ==
    ASSUME StoreInv, NEW d \in DOMAIN table, NEW n \in Names,
           \/ \E h \in Handles : Create(h, d, n)
           \/ Mkdir(d, n) \/ Delete(d, n) \/ Rmdir(d, n)
           \/ \E m \in Names : Rename(d, n, m)
    PROVE  Small(table')
<1>0. Inv /\ Rooted /\ Tight(fat, table) /\ Small(table)
  BY DEF StoreInv, ExactInv, PlaceInv, VolumeInv
<1>1. /\ \A h \in Handles : Create(h, d, n) => \E c, i : Made(d, i, c, n, FALSE)
      /\ Mkdir(d, n) => \E c, i : Made(d, i, c, n, TRUE)
      /\ Delete(d, n) => \E i \in 1 .. Len(table[d]) : Gone(d, i)
      /\ Rmdir(d, n) => UNCHANGED table \/ \E i \in 1 .. Len(table[d]) : Gone(d, i)
      /\ \A m \in Names : Rename(d, n, m) => Kept
  <2>1. /\ \A h \in Handles : Create(h, d, n) =>
              \E c, i : Made(d, i, c, n, FALSE) /\ file' = [file EXCEPT ![h] = AtStart(d, i, c, 0)]
        /\ Mkdir(d, n) => \E c, i : Made(d, i, c, n, TRUE) /\ file' = file
        /\ Delete(d, n) => \E i \in 1 .. Len(table[d]) :
              /\ Gone(d, i) /\ ~table[d][i].dir
              /\ file' = [h \in Handles |-> IF OnSlot(h, d, i) THEN Orphan ELSE file[h]]
        /\ Rmdir(d, n) => \/ UNCHANGED <<fat, table, file>>
                          \/ \E i \in 1 .. Len(table[d]) :
                                Gone(d, i) /\ table[d][i].dir /\ file' = file
        /\ \A m \in Names : Rename(d, n, m) => Kept /\ file' = file
    BY <1>0, DirectoryEffects, Zenon
  <2>2. Rmdir(d, n) => UNCHANGED table \/ \E i \in 1 .. Len(table[d]) : Gone(d, i)
    BY <2>1
  <2> QED
    BY <2>1, <2>2, Zenon
<1>2. ASSUME NEW h \in Handles, Create(h, d, n) PROVE Small(table')
  <2>1. PICK c, i : Made(d, i, c, n, FALSE)
    BY <1>1, <1>2
  <2> QED
    BY <2>1, SmallMade
<1>3. CASE Mkdir(d, n)
  <2>1. PICK c, i : Made(d, i, c, n, TRUE)
    BY <1>1, <1>3
  <2> QED
    BY <2>1, SmallMade
<1>4. CASE Delete(d, n)
  BY <1>1, <1>4, SmallGone
<1>5. CASE Rmdir(d, n)
  <2>1. CASE UNCHANGED table
    BY <1>0, <2>1
  <2>2. CASE \E i \in 1 .. Len(table[d]) : Gone(d, i)
    BY <2>2, SmallGone
  <2> QED
    BY <1>1, <1>5, <2>1, <2>2
<1>6. ASSUME NEW m \in Names, Rename(d, n, m) PROVE Small(table')
  <2>1. Kept /\ SameSizes /\ fat' = fat
    BY <1>0, <1>1, <1>6, RenameSizes
  <2>2. EntriesOf(table') = EntriesOf(table) /\ \A e \in EntriesOf(table) : SizeIn(table', e) = SizeIn(table, e)
    BY <1>0, <2>1, SameTight
  <2> QED
    BY <1>0, <2>2 DEF Small
<1> QED
  BY <1>2, <1>3, <1>4, <1>5, <1>6

LEMMA SmallWrite ==
    ASSUME StoreInv, NEW h \in Handles, NEW bs \in Chunks, Write(h, bs)
    PROVE  Small(table')
<1>0. Small(table)
  BY DEF StoreInv
<1>1. PICK c, p, k : WriteChunk(h, bs, c, p, k) /\ WriteDone(h, bs, c)
  BY WriteIs
<1> DEFINE q == file[h].pos + Len(bs)
<1>2. q <= MaxSize
  BY <1>1 DEF WriteChunk
<1>3. /\ EntriesOf(table') = EntriesOf(table)
      /\ \A e \in EntriesOf(table) : SizeIn(table', e) \in {q, SizeIn(table, e)}
  BY <1>1 DEF WriteDone
<1> HIDE DEF q
<1> QED
  BY <1>0, <1>2, <1>3 DEF Small

LEMMA SmallNext ==
    ASSUME StoreInv, [Next]_vars
    PROVE  Small(table')
<1>0. Small(table)
  BY DEF StoreInv
<1>1. ASSUME NEW d \in DOMAIN table, NEW n \in Names,
             \/ \E h \in Handles : Create(h, d, n) \/ Open(h, d, n)
             \/ Mkdir(d, n)
             \/ MakeRefused(d, n)
             \/ NameMissing(d, n)
             \/ Delete(d, n)
             \/ Rmdir(d, n)
             \/ \E m \in Names : Rename(d, n, m)
      PROVE  Small(table')
  <2>1. CASE MakeRefused(d, n) \/ NameMissing(d, n) \/ \E h \in Handles : Open(h, d, n)
    <3>1. UNCHANGED table
      BY <2>1 DEF MakeRefused, NameMissing, Open
    <3> QED
      BY <1>0, <3>1
  <2> QED
    BY <1>1, <2>1, SmallDirectory
<1>2. CASE DirectoryCall
  BY <1>1, <1>2 DEF DirectoryCall
<1>3. ASSUME NEW h \in Handles,
             \/ Close(h) \/ WriteRefused(h)
             \/ \E n \in 1 .. ClusterSize : Read(h, n)
             \/ \E pos \in SeekTargets(file[h]) : Seek(h, pos)
      PROVE  Small(table')
  <2>1. UNCHANGED table
    BY <1>3 DEF Close, WriteRefused, Read, Seek
  <2> QED
    BY <1>0, <2>1
<1>4. CASE HandleCall
  BY <1>3, <1>4, SmallWrite DEF HandleCall
<1>5. CASE UNCHANGED vars
  BY <1>0, <1>5 DEF vars
<1> QED
  BY <1>2, <1>4, <1>5 DEF Next
----------------------------------------------------------------------------
(* Fat16 implements FileStore *)

LEMMA StoreStart == Init => Store!Init /\ Small(table)
<1> SUFFICES ASSUME Init PROVE Store!Init /\ Small(table)
  OBVIOUS
<1>1. table[0] \in Seq(Slot) /\ \A i \in 1 .. Len(table[0]) : Vacant(table[0][i])
  BY EmptySlotsType, SizesAssumption DEF Init
<1>2. EntriesOf(table) = {}
  BY <1>1, EntriesDef DEF Init
<1>3. FileEntries = {} /\ DirEntriesOf = {}
  BY <1>2 DEF FileEntries, DirEntriesOf, Entries
<1>4. StoreContent = [q \in {} |-> << >>]
  BY <1>3 DEF StoreContent
<1>5. StoreSub = [q \in {} |-> 0]
  BY <1>3 DEF StoreSub
<1>6. StoreCursor = [h \in Handles |-> Closed]
  BY DEF StoreCursor, Usable, Init
<1>7. reply = [status |-> "ok", bytes |-> << >>]
  BY DEF Init, Say
<1> QED
  BY <1>2, <1>4, <1>5, <1>6, <1>7 DEF Store!Init, Small

LEMMA StoreInvariant ==
    ASSUME Risky = {}
    PROVE  Spec => []StoreInv
<1>1. Init => Small(table)
  BY StoreStart
<1>2. StoreInv /\ [Next]_vars => Small(table)'
  BY SmallNext
<1>3. Init /\ ExactInv /\ AllOrdered => StoreInv
  BY <1>1 DEF StoreInv
<1>4. StoreInv /\ [Next]_vars /\ ExactInv' /\ AllOrdered' => StoreInv'
  BY <1>2 DEF StoreInv
<1>5. Spec => []ExactInv
  BY ExactInvariant
<1> QED
  BY <1>3, <1>4, <1>5, OrderedInvariant, PTL DEF Spec

LEMMA UniqueNext == StoreInv' => Unique(table')
<1>1. StoreInv => Unique(table)
  BY StoreFacts
<1>2. (StoreInv => Unique(table))'
  BY <1>1, PTL
<1> QED
  BY <1>2

LEMMA DirectoryStore ==
    ASSUME StoreInv, Unique(table'), DirectoryCall
    PROVE  Store!Next
<1>1. PICK d \in DOMAIN table, n \in Names :
         \/ \E h \in Handles : Create(h, d, n) \/ Open(h, d, n)
         \/ Mkdir(d, n)
         \/ MakeRefused(d, n)
         \/ NameMissing(d, n)
         \/ Delete(d, n)
         \/ Rmdir(d, n)
         \/ \E m \in Names : Rename(d, n, m)
  BY DEF DirectoryCall
<1> DEFINE q == <<d, n>>
<1>2. q \in Store!Paths
  BY NameTaken
<1>3. /\ \A h \in Handles : (Create(h, d, n) => Store!Create(h, q)) /\ (Open(h, d, n) => Store!Open(h, q))
      /\ Mkdir(d, n) => \E c \in {0} \cup Clusters : Store!Mkdir(q, c)
      /\ MakeRefused(d, n) => Store!MakeRefused(q)
      /\ NameMissing(d, n) => Store!NameMissing(q)
      /\ Delete(d, n) => Store!Delete(q)
      /\ Rmdir(d, n) => Store!Rmdir(q) \/ Store!RmdirDenied(q)
      /\ \A m \in Names : Rename(d, n, m) => Store!Rename(q, m)
  BY CreateStore, OpenStore, MkdirStore, MakeRefusedStore, NameMissingStore, DeleteStore,
     RmdirStore, RenameStore
<1> HIDE DEF q
<1> QED
  BY <1>1, <1>2, <1>3 DEF Store!Next

LEMMA HandleStore ==
    ASSUME MaxSize < WordSize, StoreInv, Unique(table'), HandleCall
    PROVE  Store!Next
<1>1. PICK h \in Handles :
         \/ Close(h)
         \/ \E bs \in Chunks : Write(h, bs)
         \/ WriteRefused(h)
         \/ \E n \in 1 .. ClusterSize : Read(h, n)
         \/ Usable(h) /\ \E pos \in SeekTargets(file[h]) : Seek(h, pos)
  BY DEF HandleCall
<1>2. CASE Close(h)
  BY <1>2, CloseStore DEF Store!Next
<1>3. CASE WriteRefused(h)
  BY <1>3, WriteRefusedStore DEF Store!Next
<1>4. CASE \E bs \in Chunks : Write(h, bs)
  <2>1. PICK bs \in Chunks : Write(h, bs)
    BY <1>4
  <2>2. PICK k \in 1 .. ClusterSize : bs \in [1 .. k -> Bytes]
    BY DEF Chunks
  <2>3. Store!Write(h, bs)
    BY <2>1, WriteStore
  <2> QED
    BY <2>2, <2>3 DEF Store!Next
<1>5. CASE \E n \in 1 .. ClusterSize : Read(h, n)
  <2>1. PICK n \in 1 .. ClusterSize : Read(h, n)
    BY <1>5
  <2>2. Store!Read(h, n)
    BY <2>1, ReadStore
  <2> QED
    BY <2>2 DEF Store!Next
<1>6. CASE Usable(h) /\ \E pos \in SeekTargets(file[h]) : Seek(h, pos)
  <2>1. file[h] \in Handle
    BY <1>6, StoreFacts
  <2>2. PICK whence \in Whences, offset \in -1 .. MaxSize : Seek(h, SeekTarget(file[h], whence, offset))
    BY <1>6 DEF SeekTargets
  <2>3. file[h].pos \in Nat /\ file[h].size \in Nat /\ offset \in Int
    BY <2>1, SizesAssumption DEF Handle
  <2>4. SeekTarget(file[h], whence, offset) \in Int
    BY <2>3 DEF SeekTarget, Whences
  <2>5. \E p \in 0 .. MaxSize + 1 : Store!Seek(h, p)
    BY <2>2, <2>4, SeekStore
  <2> QED
    BY <2>5 DEF Store!Next
<1> QED
  BY <1>1, <1>2, <1>3, <1>4, <1>5, <1>6

LEMMA StoreStep ==
    ASSUME MaxSize < WordSize
    PROVE  StoreInv /\ StoreInv' /\ [Next]_vars => [Store!Next]_(Store!vars)
<1> SUFFICES ASSUME StoreInv, StoreInv', [Next]_vars
             PROVE  [Store!Next]_(Store!vars)
  OBVIOUS
<1>1. Unique(table')
  BY UniqueNext
<1>2. CASE DirectoryCall
  BY <1>1, <1>2, DirectoryStore
<1>3. CASE HandleCall
  BY <1>1, <1>3, HandleStore
<1>4. CASE UNCHANGED vars
  <2>1. UNCHANGED <<fat, table, data, file>> /\ UNCHANGED reply
    BY <1>4 DEF vars
  <2> QED
    BY <2>1, AllSame DEF Store!vars
<1> QED
  BY <1>2, <1>3, <1>4 DEF Next

\* Where a file has one handle at a time, which is not moved to the end of a
\* file of whole clusters, and files are shorter than a uint16_t counts, every
\* call of the driver does what the file store's call does: what is read back
\* is what was written, whatever clusters, slots and names were used before,
\* and a call that fails changes nothing.
THEOREM DriverIsAFileStore ==
    ASSUME Risky = {}, MaxSize < WordSize
    PROVE  Spec => ImplementsFileStore
<1>1. Init => Store!Init
  BY StoreStart
<1>2. StoreInv /\ StoreInv' /\ [Next]_vars => [Store!Next]_(Store!vars)
  BY StoreStep
<1>3. Spec => []StoreInv
  BY StoreInvariant
<1> QED
  BY <1>1, <1>2, <1>3, PTL DEF Spec, Store!Spec, ImplementsFileStore
=============================================================================
