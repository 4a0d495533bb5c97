----------------------------- MODULE Fat16Store -----------------------------
(***************************************************************************)
(* Fat16 implements FileStore, as long as callers keep to one handle for a *)
(* file and do not move it to a cluster boundary at the end of the file.   *)
(***************************************************************************)
EXTENDS Fat16, TLC

\* The marks of a handle that is not in use are neither handles nor positions.
Cursors == [path : ({0} \cup Clusters) \X Names, pos : Nat]
ASSUME HandleMarksAssumption ==
    /\ Closed \notin Handle /\ Closed \notin Cursors
    /\ Orphan \notin Handle /\ Orphan \notin Cursors

FileEntries == {e \in Entries : ~table[e[1]][e[2]].dir}
DirEntriesOf == Entries \ FileEntries
Path(e) == <<e[1], table[e[1]][e[2]].name>>

\* The k-th cluster of the chain of f from c, counting from 0.
Nth(f, c, k) ==
    LET w[i \in 0 .. k] ==
          IF i = 0 THEN c ELSE IF w[i - 1] \in Clusters THEN f[w[i - 1]] ELSE w[i - 1]
    IN  w[k]

\* The bytes of the file of entry e, read off its chain; a byte the chain does
\* not reach is no byte at all.
Contents(e) ==
    [x \in 1 .. table[e[1]][e[2]].size |->
       LET c == Nth(fat, First(e), (x - 1) \div ClusterSize)
       IN  IF c \in Clusters THEN data[c][(x - 1) % ClusterSize] ELSE Closed]

At(q, E) == CHOOSE e \in E : Path(e) = q

StoreContent ==
    [q \in {Path(e) : e \in FileEntries} |-> Contents(At(q, FileEntries))]
StoreSub ==
    [q \in {Path(e) : e \in DirEntriesOf} |-> First(At(q, DirEntriesOf))]
StoreCursor ==
    [h \in Handles |->
       IF Usable(h)
       THEN [path |-> <<file[h].dir, table[file[h].dir][file[h].slot].name>>,
             pos |-> file[h].pos]
       ELSE file[h]]

Store == INSTANCE FileStore WITH
            Dirs <- {0} \cup Clusters, ChunkSize <- ClusterSize,
            content <- StoreContent, sub <- StoreSub, cursor <- StoreCursor,
            space <- Cardinality(FreeClusters(fat)),
            crowded <- {d \in DOMAIN table : Full(table[d])}

\* Every call of the driver does what the file store's call does: what is read
\* back is what was written, at every cluster boundary, after any reuse of
\* clusters, slots and names, a call that fails changes nothing, and it fails for lack
\* of space only when the volume or the root directory is full.
ImplementsFileStore == Store!Spec

\* reply is never read back, so states that differ in it alone are one.
VolumeAndHandles == <<fat, table, data, file, stray>>

Symmetry == Permutations(Names) \cup Permutations(Bytes)
=============================================================================
