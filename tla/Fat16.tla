------------------------------- MODULE Fat16 -------------------------------
(***************************************************************************)
(* The FAT16 driver of HarvaC (src/src/drivers/fat16.c): cluster           *)
(* allocation, directories, and the open-file handles that cache a         *)
(* position in a cluster chain.                                            *)
(*                                                                         *)
(* The kernel is not re-entrant and its two interrupt handlers never call  *)
(* the driver, so a call runs to its end before another begins and is one  *)
(* action here.  fat16_read and fat16_write loop over the file's clusters  *)
(* keeping all their state in the handle; a call is modelled as the        *)
(* consecutive iterations of that loop, one action ("chunk") each.         *)
(*                                                                         *)
(* A directory is the sequence of its 32-byte slots: its k-th cluster      *)
(* holds the k-th block of DirEntries slots.  The "." and ".." entries,    *)
(* which nothing in the driver looks up, are two slots less in the first   *)
(* block.                                                                  *)
(***************************************************************************)
EXTENDS Integers, FiniteSets, Sequences

CONSTANTS
    TotalClusters,  \* fs->total_clusters, the number of data clusters
    ClusterSize,    \* bytes in a cluster (512 on every HarvaC volume)
    RootEntries,    \* slots of the root directory, which cannot grow
    DirEntries,     \* slots of one directory cluster (16)
    WordSize,       \* 2^16: the values of a uint16_t
    Names,          \* 8.3 names callers use
    End,            \* name[0] = 0x00: no entry here nor behind it
    Deleted,        \* name[0] = 0xE5
    Handles,        \* the fat16_file_t structures callers own
    Closed,         \* a structure that is not in use
    Orphan,         \* one whose file was deleted while it was in use
    Bytes,          \* values of a byte of file data
    MaxSize,        \* bound: no file grows past this many bytes
    Risky           \* what this instance's callers do that the driver
                    \* neither refuses nor supports, see RiskyUses

\* "shared file":   a file is opened again while a handle on it is in use.
\* "seek boundary": a handle is moved to the end of a file whose size is a
\*                  positive multiple of the cluster size.
RiskyUses == {"shared file", "seek boundary"}

FAT16_FREE    == 0
FAT16_EOF_MIN == 65528
IsEof(v)      == v >= FAT16_EOF_MIN

\* The clusters that have a sector in the data area.
Clusters == 2 .. TotalClusters + 1

\* What the driver ever writes into a FAT entry.
Cells == {FAT16_FREE, FAT16_EOF_MIN} \cup Clusters

ASSUME SizesAssumption ==
    /\ TotalClusters \in Nat /\ TotalClusters + 1 < FAT16_EOF_MIN - 1
    /\ ClusterSize \in Nat \ {0}
    /\ RootEntries \in Nat
    /\ DirEntries \in Nat /\ DirEntries >= 2
    /\ WordSize \in Nat \ {0}
    /\ MaxSize \in Nat
    /\ Risky \subseteq RiskyUses

ASSUME MarksAssumption == End # Deleted /\ End \notin Names /\ Deleted \notin Names

VARIABLES
    fat,     \* the first copy of the FAT, the only one the driver uses
    table,   \* table[d]: slots of directory d, d = 0 the root, else the first
             \* cluster of a directory the name tree leads to
    data,    \* data[c]: the bytes of cluster c, when c belongs to a file
    file,    \* file[h]: the handle h, or Closed, or Orphan
    reply,   \* what the last call returned
    stray    \* TRUE once a data sector outside the volume's clusters was
             \* addressed (observation only)

vars == <<fat, table, data, file, reply, stray>>

Slot == [name : Names \cup {End, Deleted}, dir : BOOLEAN,
         first : Cells, size : Nat]

Handle == [dir : {0} \cup Clusters, slot : Nat \ {0},
           first : Cells, cur : Cells, pos : Nat, cpos : Nat, size : Nat]

Statuses == {"ok", "exists", "no space", "not found", "denied", "invalid"}
Reply    == [status : Statuses, bytes : Seq(Bytes)]
Say(s)   == [status |-> s, bytes |-> << >>]

TypeOK ==
    /\ fat \in [Clusters -> Cells]
    /\ DOMAIN table \subseteq {0} \cup Clusters
    /\ 0 \in DOMAIN table
    /\ table \in [DOMAIN table -> Seq(Slot)]
    /\ data \in [Clusters -> [0 .. ClusterSize - 1 -> Bytes]]
    /\ file \in [Handles -> Handle \cup {Closed, Orphan}]
    /\ reply \in Reply
    /\ stray \in BOOLEAN

EmptySlot == [name |-> End, dir |-> FALSE, first |-> FAT16_FREE, size |-> 0]
EmptySlots(n)  == [i \in 1 .. n |-> EmptySlot]

\* A freshly formatted volume.
Init ==
    /\ fat = [c \in Clusters |-> FAT16_FREE]
    /\ table = [d \in {0} |-> EmptySlots(RootEntries)]
    /\ data \in {[c \in Clusters |-> [i \in 0 .. ClusterSize - 1 |-> b]] : b \in Bytes}
    /\ file = [h \in Handles |-> Closed]
    /\ reply = Say("ok")
    /\ stray = FALSE

----------------------------------------------------------------------------
(* The FAT *)

\* fat16_find_free_cluster scans 2 .. total_clusters - 1 and takes the first.
FreeClusters(f)   == {c \in 2 .. TotalClusters - 1 : f[c] = FAT16_FREE}
FirstFree(f, c)   == c \in FreeClusters(f) /\ \A e \in FreeClusters(f) : c <= e
VolumeFull(f)     == FreeClusters(f) = {}

\* MUTANT of Terminated: the mark is one below those a walk stops at.
TerminatedLow(f, c) == [f EXCEPT ![c] = FAT16_EOF_MIN - 1]

Terminated(f, c)  == [f EXCEPT ![c] = FAT16_EOF_MIN]

\* MUTANT of Linked: the new cluster is not marked as the end of the chain.
LinkedOnly(f, c, new) == [f EXCEPT ![c] = new]

Linked(f, c, new) == Terminated([f EXCEPT ![c] = new], new)

\* The clusters a walk along the FAT from c meets: the least set that holds c
\* and what its members link to.
FollowsFat(f, T) == \A x \in T : f[x] \in Clusters => f[x] \in T
Chain(f, c) ==
    LET linked == {c} \cup {x \in Clusters : \E b \in Clusters : f[b] = x}
        closed == {T \in SUBSET linked : c \in T /\ FollowsFat(f, T)}
    IN  {x \in linked : \A T \in closed : x \in T}

\* MUTANT of ChainFreed: only the first cluster is given back.
HeadFreed(f, c) == [f EXCEPT ![c] = FAT16_FREE]

ChainFreed(f, c) ==
    LET chain == Chain(f, c)
    IN  [x \in Clusters |-> IF x \in chain THEN FAT16_FREE ELSE f[x]]

----------------------------------------------------------------------------
(* Directories *)

Vacant(s) == s.name \in {End, Deleted}

\* fat16_find_in_dir: slot i of t is the one a search for n stops at.
Found(t, n, i) ==
    /\ i \in 1 .. Len(t)
    /\ t[i].name = n
    /\ \A j \in 1 .. i - 1 : t[j].name \notin {n, End}
Missing(t, n) == \A i \in 1 .. Len(t) : ~Found(t, n, i)

FirstVacant(t, i) ==
    /\ i \in 1 .. Len(t)
    /\ Vacant(t[i])
    /\ \A j \in 1 .. i - 1 : ~Vacant(t[j])
Full(t) == \A i \in 1 .. Len(t) : ~Vacant(t[i])

\* fat16_dir_free_slot: a full subdirectory is extended by one cluster, linked
\* behind its last one; the root cannot grow.
Extends(d)       == Full(table[d]) /\ d # 0
WithRoom(d)      == IF Extends(d) THEN table[d] \o EmptySlots(DirEntries)
                                  ELSE table[d]
NoSlot(f, d)     == Full(table[d]) /\ (d = 0 \/ VolumeFull(f))

\* MUTANT of FatWithRoom: the cluster is used but never linked to the directory.
UnlinkedRoom(f, d) == fat' = f

FatWithRoom(f, d) ==
    IF Extends(d)
    THEN \E last \in Chain(f, d), new \in FreeClusters(f) :
            IsEof(f[last]) /\ FirstFree(f, new) /\ fat' = Linked(f, last, new)
    ELSE fat' = f

\* create and mkdir: cluster c is taken first, then slot i of d for the entry.
Placed(d, c, i) ==
    /\ FirstFree(fat, c)
    /\ FirstVacant(WithRoom(d), i)
    /\ FatWithRoom(Terminated(fat, c), d)

\* MUTANT of NewEntry: mkdir's entry has create's attributes.
NewArchive(n, isDir, c) == [name |-> n, dir |-> FALSE, first |-> c, size |-> 0]

NewEntry(n, isDir, c) == [name |-> n, dir |-> isDir, first |-> c, size |-> 0]
WithEntry(d, i, s)    == [WithRoom(d) EXCEPT ![i] = s]

\* MUTANT of AtStart: the handle does not keep its entry's place in the directory.
AtFirstSlot(d, i, first, size) ==
    [dir |-> d, slot |-> 1, first |-> first, cur |-> first, pos |-> 0,
     cpos |-> 0, size |-> size]

\* A handle on slot i of directory d, at the start of the file.
AtStart(d, i, first, size) ==
    [dir |-> d, slot |-> i, first |-> first, cur |-> first, pos |-> 0,
     cpos |-> 0, size |-> size]

Usable(h)       == file[h] \notin {Closed, Orphan}
OnSlot(h, d, i) == Usable(h) /\ file[h].dir = d /\ file[h].slot = i

----------------------------------------------------------------------------
(* Directory calls *)

Create(h, d, n) ==
    /\ file[h] = Closed /\ Missing(table[d], n)
    /\ \E c \in FreeClusters(fat), i \in 1 .. Len(WithRoom(d)) :
         /\ Placed(d, c, i)
         /\ table' = [table EXCEPT ![d] = WithEntry(d, i, NewEntry(n, FALSE, c))]
         /\ file' = [file EXCEPT ![h] = AtStart(d, i, c, 0)]
    /\ reply' = Say("ok")
    /\ UNCHANGED <<data, stray>>

Mkdir(d, n) ==
    /\ Missing(table[d], n)
    /\ \E c \in FreeClusters(fat), i \in 1 .. Len(WithRoom(d)) :
         /\ Placed(d, c, i)
         /\ table' = [x \in DOMAIN table \cup {c} |->
                        IF x = d THEN WithEntry(d, i, NewEntry(n, TRUE, c))
                        ELSE IF x = c THEN EmptySlots(DirEntries - 2)
                        ELSE table[x]]
    /\ reply' = Say("ok")
    /\ UNCHANGED <<data, file, stray>>

\* create and mkdir give back what they took: nothing changes on the volume.
MakeRefused(d, n) ==
    /\ \/ ~Missing(table[d], n) /\ reply' = Say("exists")
       \/ /\ Missing(table[d], n)
          /\ \/ VolumeFull(fat)
             \/ \E c \in FreeClusters(fat) :
                  FirstFree(fat, c) /\ NoSlot(Terminated(fat, c), d)
          /\ reply' = Say("no space")
    /\ UNCHANGED <<fat, table, data, file, stray>>

\* Callers open files, never directories: nothing in the driver checks it.
Open(h, d, n) ==
    /\ file[h] = Closed
    /\ \E i \in 1 .. Len(table[d]) :
         /\ Found(table[d], n, i) /\ ~table[d][i].dir
         /\ "shared file" \in Risky \/ \A g \in Handles : ~OnSlot(g, d, i)
         /\ file' = [file EXCEPT ![h] =
                       AtStart(d, i, table[d][i].first, table[d][i].size)]
    /\ reply' = Say("ok")
    /\ UNCHANGED <<fat, table, data, stray>>

Close(h) ==
    /\ file[h] # Closed
    /\ file' = [file EXCEPT ![h] = Closed]
    /\ reply' = Say("ok")
    /\ UNCHANGED <<fat, table, data, stray>>

\* open, delete, rmdir and rename of a name that is not there.
NameMissing(d, n) ==
    /\ Missing(table[d], n)
    /\ reply' = Say("not found")
    /\ UNCHANGED <<fat, table, data, file, stray>>

\* MUTANT of Removed: the slot is marked as the end of the directory.
RemovedAsEnd(d, i) == [table[d] EXCEPT ![i] = EmptySlot]

\* Only name[0] changes on the disk, but nothing reads the rest of a deleted
\* slot again.
Removed(d, i) == [table[d] EXCEPT ![i] = [EmptySlot EXCEPT !.name = Deleted]]

\* Callers delete files only, and stop using the handles on a deleted file:
\* nothing in the driver checks either.
Delete(d, n) ==
    /\ \E i \in 1 .. Len(table[d]) :
         /\ Found(table[d], n, i) /\ ~table[d][i].dir
         /\ table' = [table EXCEPT ![d] = Removed(d, i)]
         /\ fat' = ChainFreed(fat, table[d][i].first)
         /\ file' = [h \in Handles |->
                       IF OnSlot(h, d, i) THEN Orphan ELSE file[h]]
    /\ reply' = Say("ok")
    /\ UNCHANGED <<data, stray>>

EmptyDirectory(t) == \A i \in 1 .. Len(t) : Vacant(t[i])

Rmdir(d, n) ==
    \E i \in 1 .. Len(table[d]) :
      /\ Found(table[d], n, i)
      /\ LET first == table[d][i].first
         IN  IF table[d][i].dir /\ EmptyDirectory(table[first])
             THEN /\ fat' = ChainFreed(fat, first)
                  /\ table' = [x \in DOMAIN table \ {first} |->
                                 IF x = d THEN Removed(d, i) ELSE table[x]]
                  /\ reply' = Say("ok")
                  /\ UNCHANGED <<data, file, stray>>
             ELSE /\ reply' = Say("denied")
                  /\ UNCHANGED <<fat, table, data, file, stray>>

Rename(d, old, new) ==
    \E i \in 1 .. Len(table[d]) :
      /\ Found(table[d], old, i)
      /\ IF Missing(table[d], new)
         THEN /\ table' = [table EXCEPT ![d][i].name = new]
              /\ reply' = Say("ok")
         ELSE reply' = Say("exists") /\ UNCHANGED table
      /\ UNCHANGED <<fat, data, file, stray>>

----------------------------------------------------------------------------
(* Calls on a handle *)

\* MUTANT of Patched: the offset in the sector is dropped.
PatchedAtZero(bytes, p, bs) ==
    [x \in DOMAIN bytes |-> IF x < Len(bs) THEN bs[x + 1] ELSE bytes[x]]

Patched(bytes, p, bs) ==
    [x \in DOMAIN bytes |->
       IF x \in p .. p + Len(bs) - 1 THEN bs[x - p + 1] ELSE bytes[x]]

Larger(a, b) == IF a > b THEN a ELSE b

\* MUTANT of Resized: the new size stays in the handle.
SizeKept(d, i, n) == table

\* fat16_update_fsize
Resized(d, i, n) == [table EXCEPT ![d][i].size = n]

\* bs goes to offset p of cluster c: the sector, the handle and, when the file
\* grows, the size in its directory entry.
Put(h, c, p, bs) ==
    LET f   == file[h]
        pos == f.pos + Len(bs)
    IN  /\ pos <= MaxSize /\ p + Len(bs) <= ClusterSize
        /\ IF c \in Clusters
           THEN data' = [data EXCEPT ![c] = Patched(@, p, bs)] /\ UNCHANGED stray
           ELSE stray' = TRUE /\ UNCHANGED data
        /\ file' = [file EXCEPT ![h] =
                      [f EXCEPT !.cur = c, !.pos = pos, !.cpos = p + Len(bs),
                                !.size = Larger(pos, f.size)]]
        /\ table' = IF pos > f.size THEN Resized(f.dir, f.slot, pos) ELSE table
        /\ reply' = Say("ok")

\* One chunk of a write: in the current cluster, in the next one of the chain,
\* or in a new one linked behind the last.
Write(h, bs) ==
    /\ Usable(h)
    /\ LET cur == file[h].cur
           new == file[h].cpos >= ClusterSize
       IN  \/ ~new /\ Put(h, cur, file[h].cpos, bs) /\ UNCHANGED fat
           \/ /\ new /\ cur \in Clusters /\ fat[cur] \in Clusters
              /\ Put(h, fat[cur], 0, bs) /\ UNCHANGED fat
           \/ /\ new /\ cur \in Clusters /\ IsEof(fat[cur])
              /\ \E c \in FreeClusters(fat) :
                   /\ FirstFree(fat, c)
                   /\ fat' = Linked(fat, cur, c)
                   /\ Put(h, c, 0, bs)

\* The last cluster is full and there is no free one: 0 bytes are written.
WriteRefused(h) ==
    /\ Usable(h)
    /\ file[h].cpos >= ClusterSize /\ file[h].cur \in Clusters
    /\ IsEof(fat[file[h].cur]) /\ VolumeFull(fat)
    /\ reply' = Say("no space")
    /\ UNCHANGED <<fat, table, data, file, stray>>

Smaller(a, b) == IF a < b THEN a ELSE b

\* One chunk of a read of n bytes: at most to the end of the cluster, to the
\* end of the file (the distance is kept in a uint16_t) and n.
Read(h, n) ==
    /\ Usable(h)
    /\ LET f    == file[h]
           next == f.cpos >= ClusterSize
           c    == IF next /\ f.cur \in Clusters THEN fat[f.cur] ELSE f.cur
           p    == IF next THEN 0 ELSE f.cpos
           k    == Smaller(ClusterSize - p, Smaller((f.size - f.pos) % WordSize, n))
       IN  IF f.pos >= f.size
           THEN reply' = Say("ok") /\ UNCHANGED <<file, stray>>
           ELSE IF next /\ IsEof(c)
           THEN /\ file' = [file EXCEPT ![h].cur = c, ![h].cpos = ClusterSize]
                /\ reply' = Say("ok")
                /\ UNCHANGED stray
           ELSE /\ file' = [file EXCEPT ![h].cur = c, ![h].cpos = p + k,
                              ![h].pos = f.pos + k]
                /\ IF c \in Clusters
                   THEN /\ reply' = [status |-> "ok",
                                     bytes |-> [x \in 1 .. k |-> data[c][p + x - 1]]]
                        /\ UNCHANGED stray
                   ELSE /\ \E bs \in [1 .. k -> Bytes] :
                             reply' = [status |-> "ok", bytes |-> bs]
                        /\ stray' = TRUE
    /\ UNCHANGED <<fat, table, data>>

\* The clusters met by walking k links from first, stopping at an end mark.
Walk(first, k, w) ==
    /\ w[0] = first
    /\ \A i \in 1 .. k : w[i] = IF w[i - 1] \in Clusters THEN fat[w[i - 1]] ELSE w[i - 1]

AtBoundary(f, pos) == pos = f.size /\ pos > 0 /\ pos % ClusterSize = 0

\* SYSCALL_SEEK's position, for an offset from the start, from where the handle
\* is, or back from the end of the file.  Offsets and positions are unsigned
\* 32-bit numbers: a negative one here stands for the large one it wraps to.
Whences == {"set", "cur", "end"}
SeekTarget(f, whence, offset) ==
    CASE whence = "set" -> offset
      [] whence = "cur" -> f.pos + offset
      [] whence = "end" -> IF offset \in 0 .. f.size THEN f.size - offset ELSE 0
SeekTargets(f) ==
    {SeekTarget(f, whence, offset) : whence \in Whences, offset \in -1 .. MaxSize}

Seek(h, pos) ==
    /\ Usable(h)
    /\ "seek boundary" \in Risky \/ ~AtBoundary(file[h], pos)
    /\ LET f == file[h]
           k == pos \div ClusterSize
       IN  IF pos \notin 0 .. f.size
           THEN reply' = Say("invalid") /\ UNCHANGED file
           ELSE /\ \E w \in [0 .. k -> Cells] :
                     /\ Walk(f.first, k, w)
                     /\ file' = [file EXCEPT ![h].cur = w[k], ![h].pos = pos,
                                   ![h].cpos = pos % ClusterSize]
                /\ reply' = Say("ok")
    /\ UNCHANGED <<fat, table, data, stray>>

----------------------------------------------------------------------------

Chunks == UNION {[1 .. k -> Bytes] : k \in 1 .. ClusterSize}

DirectoryCall ==
    \E d \in DOMAIN table, n \in Names :
      \/ \E h \in Handles : Create(h, d, n) \/ Open(h, d, n)
      \/ Mkdir(d, n)
      \/ MakeRefused(d, n)
      \/ NameMissing(d, n)
      \/ Delete(d, n)
      \/ Rmdir(d, n)
      \/ \E m \in Names : Rename(d, n, m)

HandleCall ==
    \E h \in Handles :
      \/ Close(h)
      \/ \E bs \in Chunks : Write(h, bs)
      \/ WriteRefused(h)
      \/ \E n \in 1 .. ClusterSize : Read(h, n)
      \/ Usable(h) /\ \E pos \in SeekTargets(file[h]) : Seek(h, pos)

Next == DirectoryCall \/ HandleCall

Spec == Init /\ [][Next]_vars

----------------------------------------------------------------------------
(* Properties *)

\* The live entries of the directories t, by directory and slot.
EntriesOf(t)  == {e \in UNION {{d} \X (1 .. Len(t[d])) : d \in DOMAIN t} :
                    ~Vacant(t[e[1]][e[2]])}
FirstIn(t, e) == t[e[1]][e[2]].first

Entries  == EntriesOf(table)
First(e) == FirstIn(table, e)

LinksSound(f) ==
    \A b \in Clusters : f[b] \in Clusters =>
        /\ f[f[b]] # FAT16_FREE
        /\ \A c \in Clusters : f[c] = f[b] => c = b
HeadsSound(f, t) ==
    \A e \in EntriesOf(t) :
        /\ FirstIn(t, e) \in Clusters
        /\ f[FirstIn(t, e)] # FAT16_FREE
        /\ \A c \in Clusters : f[c] # FirstIn(t, e)
HeadsDistinct(t) ==
    \A e, g \in EntriesOf(t) : FirstIn(t, e) = FirstIn(t, g) => e = g

\* Whatever the order of the calls, clusters are never cross-linked: a FAT link
\* leads to an allocated cluster and no two lead to the same one, an entry's
\* first cluster is allocated, no link leads to it, and no other entry has it.
ChainsSound == LinksSound(fat) /\ HeadsSound(fat, table) /\ HeadsDistinct(table)

\* SYSCALL_STATFS counts the free marks of the whole volume.
FreeCount(f) == Cardinality({c \in Clusters : f[c] = FAT16_FREE})
Statfs       == [total |-> TotalClusters, free |-> FreeCount(fat)]

\* Every allocated cluster is in the chain of some entry: the paths that give
\* a cluster back when a later step fails, and delete and rmdir, lose none.
\* What STATFS tells to be in use is what files and directories occupy.
Occupied == UNION {Chain(fat, First(e)) : e \in Entries}
NothingLeaked ==
    /\ \A c \in Clusters : fat[c] # FAT16_FREE => c \in Occupied
    /\ Statfs.total - Statfs.free = Cardinality(Occupied)

\* A search finds every entry of a directory: no entry is behind an end mark
\* or behind another entry of its name, however slots were reused.
EntriesFound ==
    \A e \in Entries : Found(table[e[1]], table[e[1]][e[2]].name, e[2])

\* A file's chain holds its bytes and a directory's chain its slots.
ChainsLongEnough ==
    \A e \in Entries :
        LET s == table[e[1]][e[2]]
            n == Cardinality(Chain(fat, s.first))
        IN  IF s.dir THEN n * DirEntries = Len(table[s.first]) + 2
                     ELSE n * ClusterSize >= s.size

\* Nor is a chain longer than that: no write that a caller sees refused, cut
\* short or begun at a cluster boundary leaves a cluster it does not use.
Clusterful(n) == Larger(1, (n + ClusterSize - 1) \div ClusterSize)
ChainsExact ==
    \A e \in Entries :
        LET s == table[e[1]][e[2]]
        IN  ~s.dir => Cardinality(Chain(fat, s.first)) = Clusterful(s.size)

\* The entries marked as directories are those of the directories in use.
DirectoriesSound ==
    {First(e) : e \in {g \in Entries : table[g[1]][g[2]].dir}} = DOMAIN table \ {0}

\* An iteration of the read loop that is not at the end of the file moves on.
ReadsAdvance ==
    [][\A h \in Handles, n \in 1 .. ClusterSize :
         Read(h, n) /\ file[h].pos < file[h].size => file'[h].pos > file[h].pos]_vars

\* A handle in use writes its size into the entry of its own file, and its
\* cluster is the one its position lies in (or ends).
HandleOnItsEntry(f) ==
    /\ f.dir \in DOMAIN table /\ f.slot \in 1 .. Len(table[f.dir])
    /\ LET s == table[f.dir][f.slot]
       IN  ~Vacant(s) /\ ~s.dir /\ s.first = f.first
CursorSound(f) ==
    LET k == (f.pos - f.cpos) \div ClusterSize
    IN  /\ f.pos <= f.size /\ f.cpos <= ClusterSize
        /\ f.pos = k * ClusterSize + f.cpos
        /\ f.cur \in Clusters
        /\ \E w \in [0 .. k -> Cells] : Walk(f.first, k, w) /\ w[k] = f.cur
HandlesSound ==
    \A h \in Handles : Usable(h) => HandleOnItsEntry(file[h]) /\ CursorSound(file[h])
=============================================================================
