-------------------------------- MODULE Vfs --------------------------------
(***************************************************************************)
(* Paths, the current directory, the mount table and directory listings:   *)
(* vfs.c, mount.c, the path calls of syscalls.c, and opendir and readdir   *)
(* of fat16.c.                                                             *)
(*                                                                         *)
(* A directory is the sequence of its slots up to the one that says no     *)
(* more follow; a block of DirEntries slots is a cluster, and the root is  *)
(* one sector.  Which clusters are taken is told in Fat16: here a volume   *)
(* may be full at any time, and files are names.  One call ends before     *)
(* another begins.                                                         *)
(***************************************************************************)
EXTENDS Paths

CONSTANTS
    Volumes,
    RootVolume,
    Mountable,      \* bound: the volumes users mount
    CdPaths,        \* what users change to, [abs, parts]
    UserPaths,      \* what users give the other calls
    DirPaths,       \* bound: what they make directories of
    Points,         \* mount points
    Together,       \* bound: whether volumes are mounted during a listing
    MaxMounts,
    Dirs,           \* bound: Dirs[v] are the directories volume v may have
    RootSlots,
    DirEntries,
    Gone,           \* name of a deleted slot
    Risky           \* what the kernel neither refuses nor supports:
                    \* "busy directory": the current directory, a listed one,
                    \*     or one above is removed, or the current renamed
                    \* "busy mount":   a volume is unmounted under the current
                    \*     directory, or mounted over it
                    \* "mount spelling": the system changes to a directory that
                    \*     is below another mount point when in upper case
                    \* "mounted listing": OPENDIR in a mounted volume
                    \* "root listing": a READDIR of the root after another call
                    \* "block end":    READDIR finds a block's last slot deleted

ASSUME SizesAssumption ==
    /\ RootVolume \in Volumes /\ Mountable \subseteq Volumes
    /\ MaxMounts \in Nat \ {0} /\ RootSlots \in Nat \ {0} /\ DirEntries \in Nat
    /\ DirEntries > 2
    /\ \A v \in Volumes : Dirs[v] \subseteq Nat \ {0} /\ IsFiniteSet(Dirs[v])
    /\ Gone \notin Names

ASSUME GivenAssumption ==
    /\ CdPaths \cup UserPaths \cup DirPaths \subseteq [abs : BOOLEAN, parts : Seq(Spellings \cup {".."})]
    /\ Points \subseteq Seq(Spellings)

VARIABLES
    vol,        \* vol[v][d]: the slots of directory d of volume v, 0 the root
    mounts,     \* mount_table
    cwd,
    stream,     \* a program's fat16_dir_t, or its listing's past:
                \* [dir, at, gave, owed], see Opendir
    held,       \* sec_buf holds the root volume's root directory
    call,       \* the last call and its absolute paths
    reply

vars == <<vol, mounts, cwd, stream, held, call, reply>>

-----------------------------------------------------------------------------
(* Directories                                                             *)

Live(s)    == {i \in DOMAIN s : s[i].name # Gone}
Slots(v, d) == vol[v][d]
Of(s, n)   == {i \in DOMAIN s : s[i].name = n}
NamesIn(s) == {s[i].name : i \in Live(s)}

\* MUTANT of Vacant: the slot before the end mark.
VacantLast(s)  == IF Of(s, Gone) = {} THEN Max({1, Len(s)}) ELSE Min(Of(s, Gone))

Vacant(s)      == IF Of(s, Gone) = {} THEN Len(s) + 1 ELSE Min(Of(s, Gone))
Put(s, i, e)   == [k \in 1 .. Max({Len(s), i}) |-> IF k = i THEN e ELSE s[k]]
Hole           == [name |-> Gone, kind |-> "gone", first |-> 0]

-----------------------------------------------------------------------------
(* mount_resolve and vfs_resolve_dir                                       *)

Used == {i \in DOMAIN mounts : mounts[i].used}

\* MUTANT of Mounted: the first entry of the table that fits.
MountedFirst(p) ==
    CHOOSE i \in Used : IsPrefix(mounts[i].point, p)
                        /\ \A j \in Used : IsPrefix(mounts[j].point, p) => i <= j

Mounted(p) ==
    CHOOSE i \in Used : mounts[i].point = Nearest({mounts[j].point : j \in Used}, p)

\* Component by component from the root of the volume: [status, dir, read],
\* read holding the last directory searched.
StepFrom(v, w, s) ==
    IF w.status # "ok" THEN w
    ELSE LET found == {Slots(v, w.dir)[i] : i \in Of(Slots(v, w.dir), Upper[s])}
         IN  IF found = {} THEN [w EXCEPT !.status = "not found", !.read = {w.dir}]
             ELSE IF \E e \in found : e.kind = "file"
             THEN [w EXCEPT !.status = "denied", !.read = {w.dir}]
             ELSE [status |-> "ok", dir |-> (CHOOSE e \in found : TRUE).first, read |-> {w.dir}]

Walk(v, q) ==
    LET to[k \in 0 .. Len(q)] ==
          IF k = 0 THEN [status |-> "ok", dir |-> 0, read |-> {}] ELSE StepFrom(v, to[k - 1], q[k])
    IN  to[Len(q)]

ResolveDir(p) ==
    LET i == Mounted(p)
        v == mounts[i].vol
        w == Walk(v, Below(mounts[i].point, p))
    IN  [mnt |-> i, vol |-> v, status |-> w.status, dir |-> w.dir, read |-> w.read]

\* sec_buf, holding the root or not, after a search of directory d and after
\* the walk w.
Searched(v, d)  == held' = (v = RootVolume /\ d = 0)
Walked(h, w)    == IF w.read = {} THEN h ELSE w.vol = RootVolume /\ w.read = {0}
AfterWalk(w)    == held' = Walked(held, w)
AfterWalks(w,x) == held' = Walked(Walked(held, w), x)

\* resolve_user_path: the directory an absolute path's last name is looked up in.
Parent(p) == ResolveDir(Front(p))
NameOf(p) == Upper[Last(p)]
Resolves(p) == p # << >> /\ Parent(p).status = "ok"

-----------------------------------------------------------------------------
(* What a change of a directory means for a listing under way              *)

Listing == stream.open

\* The listing owes no name that has gone.
Seen(v, d, s) ==
    stream' = IF Listing /\ v = RootVolume /\ d = stream.dir
              THEN [stream EXCEPT !.owed = @ \cap NamesIn(s), !.gave = @ \cap NamesIn(s)]
              ELSE stream

\* Directories at and below d.
Subtree(v, d) ==
    LET sub[k \in 0 .. Cardinality(Dirs[v])] ==
          IF k = 0 THEN {d}
          ELSE sub[k - 1] \cup
               {e.first : e \in {x \in UNION {ToSet(Slots(v, y)) : y \in sub[k - 1]} :
                                   x.kind = "dir"}}
    IN  sub[Cardinality(Dirs[v])]

\* The entry e of volume v leads to the current directory, or to a listed one.
LeadsTo(v, e, u, d) == e.kind = "dir" /\ u = v /\ d \in Subtree(v, e.first)
Current(v, e)       == LeadsTo(v, e, ResolveDir(cwd).vol, ResolveDir(cwd).dir)
Listed(v, e)        == Listing /\ LeadsTo(v, e, RootVolume, stream.dir)

-----------------------------------------------------------------------------
(* Calls.  p and q are absolute paths.                                     *)

\* MUTANT of Chdir: a component that is a file is not looked at twice.
ChdirUnchecked(p) ==
    /\ cwd' = Packed(p)
    /\ reply' = "ok"
    /\ AfterWalk(ResolveDir(p))
    /\ UNCHANGED <<vol, mounts, stream>>

Chdir(p) ==
    /\ Mounted(p) # Mounted(Packed(p)) => "mount spelling" \in Risky
    /\ LET w == ResolveDir(p)
       IN  /\ cwd' = IF w.status = "ok" THEN Packed(p) ELSE cwd
           /\ reply' = w.status
           /\ AfterWalk(w)
    /\ UNCHANGED <<vol, mounts, stream>>

NotThere(p) ==
    /\ ~Resolves(p)
    /\ reply' = "not found"
    /\ AfterWalk(Parent(p))
    /\ UNCHANGED <<vol, mounts, cwd, stream>>

\* STAT and OPEN.
Stat(p) ==
    /\ Resolves(p)
    /\ \E w \in {Parent(p)} : LET found == Of(Slots(w.vol, w.dir), NameOf(p))
       IN  /\ reply' = IF found = {} THEN "not found"
                       ELSE Slots(w.vol, w.dir)[CHOOSE i \in found : TRUE].kind
           /\ Searched(w.vol, w.dir)
    /\ UNCHANGED <<vol, mounts, cwd, stream>>

\* fat16_set_datetime_in_dir reads the entry's sector again and writes it back
\* with the new time.
Utime(p) ==
    /\ Resolves(p)
    /\ \E w \in {Parent(p)} :
         /\ reply' = IF Of(Slots(w.vol, w.dir), NameOf(p)) = {} THEN "not found" ELSE "ok"
         /\ Searched(w.vol, w.dir)
    /\ UNCHANGED <<vol, mounts, cwd, stream>>

\* The slots of d with the entry e in its first vacant place.
Made(v, d, e) ==
    LET s == Slots(v, d)
    IN  Put(s, Vacant(s), e)

\* fat16_create_in_dir and fat16_mkdir_in_dir; only subdirectories grow.
Make(p, kind) ==
    /\ Resolves(p)
    /\ \E w \in {Parent(p)} : LET
           v == w.vol
           new == Dirs[v] \ DOMAIN vol[v]
           first == IF kind = "dir" THEN Min(new) ELSE 0
           s == Made(v, w.dir, [name |-> NameOf(p), kind |-> kind, first |-> first])
       IN  IF Of(Slots(v, w.dir), NameOf(p)) # {}
           THEN reply' = "exists" /\ Searched(v, w.dir) /\ UNCHANGED <<vol, stream>>
           ELSE \/ reply' = "no space" /\ held' = FALSE /\ UNCHANGED <<vol, stream>>
                \/ /\ kind = "dir" => new # {}
                   /\ w.dir = 0 => Len(s) <= RootSlots
                   /\ reply' = "ok"
                   /\ Searched(v, w.dir)
                   /\ vol' = [vol EXCEPT ![v] =
                        [x \in DOMAIN @ \cup (IF kind = "dir" THEN {first} ELSE {}) |->
                           IF x = w.dir THEN s ELSE IF x \in DOMAIN @ THEN @[x] ELSE << >>]]
                   /\ Seen(v, w.dir, s)
    /\ UNCHANGED <<mounts, cwd>>

\* DELETE does not ask what it deletes: with a directory, what is below is lost.
Unlink(p, delete) ==
    /\ Resolves(p)
    /\ \E w \in {Parent(p)} : LET
           v == w.vol
           s == Slots(v, w.dir)
           found == Of(s, NameOf(p))
           i == CHOOSE k \in found : TRUE
           lost == IF s[i].kind = "dir" THEN Subtree(v, s[i].first) ELSE {}
       IN  IF found = {}
           THEN reply' = "not found" /\ Searched(v, w.dir) /\ UNCHANGED <<vol, stream>>
           ELSE IF ~delete /\ s[i].kind = "file"
           THEN reply' = "denied" /\ Searched(v, w.dir) /\ UNCHANGED <<vol, stream>>
           ELSE IF ~delete /\ NamesIn(Slots(v, s[i].first)) # {}
           THEN reply' = "denied" /\ held' = FALSE /\ UNCHANGED <<vol, stream>>
           ELSE /\ Current(v, s[i]) \/ Listed(v, s[i]) => "busy directory" \in Risky
                /\ reply' = "ok"
                /\ held' = (~delete /\ v = RootVolume /\ w.dir = 0)
                /\ vol' = [vol EXCEPT ![v] = [x \in DOMAIN @ \ lost |->
                                                IF x = w.dir THEN Put(s, i, Hole) ELSE @[x]]]
                /\ Seen(v, w.dir, Put(s, i, Hole))
    /\ UNCHANGED <<mounts, cwd>>

RenameNowhere(p, q) ==
    /\ Resolves(p) /\ ~Resolves(q)
    /\ reply' = "not found"
    /\ AfterWalks(Parent(p), Parent(q))
    /\ UNCHANGED <<vol, mounts, cwd, stream>>

Rename(p, q) ==
    /\ Resolves(p) /\ Resolves(q)
    /\ \E w \in {Parent(p)} : LET
           s == Slots(w.vol, w.dir)
           found == Of(s, NameOf(p))
           i == CHOOSE k \in found : TRUE
           renamed == Put(s, i, [s[i] EXCEPT !.name = NameOf(q)])
       IN  IF <<w.mnt, w.dir>> # <<Parent(q).mnt, Parent(q).dir>>
           THEN reply' = "denied" /\ AfterWalks(w, Parent(q)) /\ UNCHANGED <<vol, stream>>
           ELSE IF found = {}
           THEN reply' = "not found" /\ Searched(w.vol, w.dir) /\ UNCHANGED <<vol, stream>>
           ELSE IF Of(s, NameOf(q)) # {}
           THEN reply' = "exists" /\ Searched(w.vol, w.dir) /\ UNCHANGED <<vol, stream>>
           ELSE /\ Current(w.vol, s[i]) => "busy directory" \in Risky
                /\ reply' = "ok"
                /\ Searched(w.vol, w.dir)
                /\ vol' = [vol EXCEPT ![w.vol][w.dir] = renamed]
                /\ Seen(w.vol, w.dir, renamed)
    /\ UNCHANGED <<mounts, cwd>>

-----------------------------------------------------------------------------
(* Mounting                                                                *)

At(m) == {i \in Used : mounts[i].point = m}

Mount(m, v) ==
    /\ Listing => Together
    /\ LET vacant == DOMAIN mounts \ Used
       IN  IF At(m) # {}
           THEN reply' = "exists" /\ UNCHANGED <<mounts, held>>
           ELSE IF vacant = {}
           THEN reply' = "no memory" /\ UNCHANGED <<mounts, held>>
           ELSE \/ reply' = "disk error" /\ held' = FALSE /\ UNCHANGED mounts
                \/ /\ IsPrefix(m, cwd) => "busy mount" \in Risky
                   /\ mounts' = [mounts EXCEPT ![Min(vacant)] =
                                   [used |-> TRUE, point |-> m, vol |-> v]]
                   /\ reply' = "ok"
                   /\ held' = FALSE
    /\ UNCHANGED <<vol, cwd, stream>>

Unmount(m) ==
    /\ IF m = << >>
       THEN reply' = "denied" /\ UNCHANGED mounts
       ELSE IF At(m) = {}
       THEN reply' = "not found" /\ UNCHANGED mounts
       ELSE /\ IsPrefix(m, cwd) => "busy mount" \in Risky
            /\ mounts' = [i \in DOMAIN mounts |->
                            IF i \in At(m) THEN [mounts[i] EXCEPT !.used = FALSE] ELSE mounts[i]]
            /\ reply' = "ok"
    /\ UNCHANGED <<vol, cwd, stream, held>>

-----------------------------------------------------------------------------
(* Listings.  A stream is [open, dir, at, gave, twice, owed, ended]: the   *)
(* slots passed; the names given so far, whether one was given again, and  *)
(* the names in the directory since OPENDIR and not given yet              *)
(* (observations); and whether READDIR said it was over.                   *)

NoListing ==
    [open |-> FALSE, dir |-> 0, at |-> 0, gave |-> {}, twice |-> FALSE, owed |-> {},
     ended |-> FALSE]

\* The listing with the name n given.
Giving(n) == [stream EXCEPT !.gave = @ \cup {n}, !.twice = @ \/ n \in stream.gave,
                            !.owed = @ \ {n}]

\* fat16_opendir, fat16_opendir_cluster: a stream at the first slot of d.
AtFirst(d) ==
    [NoListing EXCEPT !.open = TRUE, !.dir = d, !.owed = NamesIn(Slots(RootVolume, d))]

\* OPENDIR lists the directory CHDIR left the system in, in the root volume;
\* the root, when it finds none.
ListedDir == IF ResolveDir(cwd).status = "ok" THEN ResolveDir(cwd).dir ELSE 0

Opendir ==
    /\ Cardinality(Used) > 1 => Together
    /\ ResolveDir(cwd).vol # RootVolume => "mounted listing" \in Risky
    /\ ListedDir \in DOMAIN vol[RootVolume]
    /\ stream' = AtFirst(ListedDir)
    /\ AfterWalk(ResolveDir(cwd))
    /\ UNCHANGED <<vol, mounts, cwd, call, reply>>

\* The last slot of a block: the first block of a subdirectory also has "."
\* and "..".
EndsBlock(i) == stream.dir # 0 /\ (i + 2) % DirEntries = 0

\* MUTANT of Ahead: what comes behind a deleted slot is passed over.
AheadOne(s) == {i \in Live(s) : i = stream.at + 1}

\* The slots a READDIR may still give.
Ahead(s) == {i \in Live(s) : i > stream.at}

\* A run of deleted slots up to the end of a block is never left.
Lost(s) ==
    LET to == IF Ahead(s) = {} THEN Len(s) ELSE Min(Ahead(s)) - 1
    IN  \E i \in stream.at + 1 .. to : EndsBlock(i)

\* The root's sector is read for its first slot only: after that, what a
\* READDIR finds is whatever the buffer holds.
Stale == stream.dir = 0 /\ stream.at > 0 /\ ~held

Readdir ==
    /\ Listing /\ ~stream.ended
    /\ LET s == Slots(RootVolume, stream.dir)
           i == Min(Ahead(s))
           over == [stream EXCEPT !.ended = TRUE]
       IN  /\ Lost(s) => "block end" \in Risky
           /\ Stale => "root listing" \in Risky
           /\ IF Stale
              THEN \/ stream' = over
                   \/ /\ stream.at < RootSlots
                      /\ \E n \in Names : stream' = [Giving(n) EXCEPT !.at = @ + 1]
              ELSE stream' = IF Ahead(s) = {} \/ Lost(s) THEN over
                             ELSE [Giving(s[i].name) EXCEPT !.at = i]
    /\ held' = (stream.dir = 0)
    /\ UNCHANGED <<vol, mounts, cwd, call, reply>>

Closedir ==
    /\ Listing
    /\ stream' = NoListing
    /\ UNCHANGED <<vol, mounts, cwd, held, call, reply>>

-----------------------------------------------------------------------------

(* The system calls, on the absolute paths of what their caller names.     *)

SysChdir(p)    == Chdir(p) /\ call' = <<"chdir", p>>
SysStat(p)     == (NotThere(p) \/ Stat(p)) /\ call' = <<"stat", p>>
SysUtime(p)    == (NotThere(p) \/ Utime(p)) /\ call' = <<"utime", p>>
SysCreate(p)   == (NotThere(p) \/ Make(p, "file")) /\ call' = <<"create", p>>
SysMkdir(p)    == (NotThere(p) \/ Make(p, "dir")) /\ call' = <<"mkdir", p>>
SysDelete(p)   == (NotThere(p) \/ Unlink(p, TRUE)) /\ call' = <<"delete", p>>
SysRmdir(p)    == (NotThere(p) \/ Unlink(p, FALSE)) /\ call' = <<"rmdir", p>>
SysRename(p, q) ==
    (NotThere(p) \/ RenameNowhere(p, q) \/ Rename(p, q)) /\ call' = <<"rename", p, q>>
SysMount(m, v) == Mount(m, v) /\ call' = <<"mount", m, v>>
SysUnmount(m)  == Unmount(m) /\ call' = <<"unmount", m>>

-----------------------------------------------------------------------------

Init ==
    /\ vol = [v \in Volumes |-> [d \in {0} |-> << >>]]
    /\ mounts = [i \in 1 .. MaxMounts |-> [used |-> i = 1, point |-> << >>, vol |-> RootVolume]]
    /\ cwd = << >>
    /\ stream = NoListing
    /\ held = FALSE
    /\ call = <<"none">>
    /\ reply = "ok"

Next ==
    \/ \E u \in CdPaths : \E p \in {AbsPath(cwd, u)} : SysChdir(p)
    \/ \E u \in UserPaths : \E p \in {AbsPath(cwd, u)} :
         \/ SysStat(p)
         \/ SysUtime(p)
         \/ SysCreate(p)
         \/ SysDelete(p)
         \/ SysRmdir(p)
    \/ \E u \in DirPaths : \E p \in {AbsPath(cwd, u)} : SysMkdir(p)
    \/ \E u, w \in UserPaths : \E p \in {AbsPath(cwd, u)}, q \in {AbsPath(cwd, w)} :
         SysRename(p, q)
    \/ \E m \in Points : SysUnmount(m)
    \/ \E m \in Points, v \in Mountable : SysMount(m, v)
    \/ Opendir \/ Readdir \/ Closedir

Spec == Init /\ [][Next]_vars

-----------------------------------------------------------------------------
Entries(v) == UNION {{<<d, i>> : i \in Live(Slots(v, d))} : d \in DOMAIN vol[v]}
EntryAt(v, e) == Slots(v, e[1])[e[2]]

\* The directories of a volume are those its entries lead to, one entry each;
\* a name is in a directory once, and the root's sector is enough for it.
TypeOK ==
    /\ \A v \in Volumes :
         /\ Len(Slots(v, 0)) <= RootSlots
         /\ \A d \in DOMAIN vol[v] : \A n \in Names : Cardinality(Of(Slots(v, d), n)) <= 1
         /\ \A d \in DOMAIN vol[v] \ {0} :
              \E e \in Entries(v) :
                {f \in Entries(v) : EntryAt(v, f).kind = "dir" /\ EntryAt(v, f).first = d} = {e}
    /\ cwd \in Seq(Names)
    /\ stream.gave \subseteq Names
    /\ held \in BOOLEAN

\* The path calls do what they promise on plain trees: however slots and
\* clusters are reused, whatever is mounted, a path names what it named last.
TreeOf(v) ==
    LET entries == UNION {{<<d, Slots(v, d)[i]>> : i \in Live(Slots(v, d))} : d \in DOMAIN vol[v]}
        path[d \in DOMAIN vol[v]] ==
          IF d = 0 THEN << >>
          ELSE LET up == CHOOSE e \in entries : e[2].kind = "dir" /\ e[2].first = d
               IN  Append(path[up[1]], up[2].name)
        named == {<<Append(path[e[1]], e[2].name), e[2].kind>> : e \in entries}
    IN  [q \in {x[1] : x \in named} |-> (CHOOSE x \in named : x[1] = q)[2]]

Tree == INSTANCE TreeStore WITH
          UserPaths <- CdPaths \cup UserPaths,
          tree <- [v \in Volumes |-> TreeOf(v)],
          mounted <- [m \in {mounts[i].point : i \in Used} |-> mounts[CHOOSE i \in At(m) : TRUE].vol],
          here <- cwd
ImplementsTreeStore == Tree!Spec

\* A listing gives no name twice, and is not over before every entry that was
\* there from its start to its end was given, whatever is made, removed and
\* renamed in the directory meanwhile.
ListingsExact ==
    /\ ~stream.twice
    /\ stream.ended => stream.owed = {}

\* The current directory is a directory: CHDIR went there by the path as it was
\* spelled, and every later call goes by the name in upper case, on a volume
\* where directories come and go.
CwdThere == ResolveDir(cwd).status = "ok"
=============================================================================
