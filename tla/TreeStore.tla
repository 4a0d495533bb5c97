----------------------------- MODULE TreeStore -----------------------------
(***************************************************************************)
(* What the path calls of the kernel promise programs: each volume is a    *)
(* tree of names, volumes are mounted at paths, and a path means the same  *)
(* file or directory to every call.  No slots, no clusters, no walks.      *)
(***************************************************************************)
EXTENDS Paths

CONSTANTS
    Volumes,
    RootVolume,
    UserPaths,      \* what the calls are given, [abs, parts]
    Points,         \* what is mounted at
    MaxMounts

VARIABLES
    tree,       \* tree[v]: the kind of what each path of volume v names
    mounted,    \* mounted[m]: the volume at the mount point m
    here,       \* the current directory
    call,       \* the last call and its absolute paths
    reply

vars == <<tree, mounted, here, call, reply>>

Init ==
    /\ tree = [v \in Volumes |-> [p \in {} |-> "dir"]]
    /\ mounted = [m \in {<< >>} |-> RootVolume]
    /\ here = << >>
    /\ call = <<"none">>
    /\ reply = "ok"

\* The place an absolute path means: [at, vol, path].
Place(p) ==
    LET m == Nearest(DOMAIN mounted, p)
    IN  [at |-> m, vol |-> mounted[m], path |-> Packed(Below(m, p))]
Kind(v, q)  ==
    LET t == tree[v] IN IF q = << >> THEN "dir" ELSE IF q \in DOMAIN t THEN t[q] ELSE "none"
KindOf(w)   == Kind(w.vol, w.path)

\* The entry a call is about: a name in a place.
NamesEntry(p) == p # << >> /\ KindOf(Place(Front(p))) = "dir"
Entry(p) ==
    LET w == Place(Front(p)) IN [w EXCEPT !.path = Append(@, Upper[Last(p)])]

Says(s) == reply' = s
Keeps   == UNCHANGED <<tree, mounted, here>>
Plants(v, t) == tree' = [tree EXCEPT ![v] = t] /\ UNCHANGED <<mounted, here>>

Under(q, t) == {x \in DOMAIN t : IsPrefix(q, x)}

Chdir(p) ==
    IF KindOf(Place(p)) = "dir"
    THEN here' = Packed(p) /\ Says("ok") /\ UNCHANGED <<tree, mounted>>
    ELSE /\ Says(IF \E k \in 1 .. Len(Place(p).path) :
                       Kind(Place(p).vol, SubSeq(Place(p).path, 1, k)) = "file"
                 THEN "denied" ELSE "not found")
         /\ Keeps

Absent(p) == ~NamesEntry(p) /\ Says("not found") /\ Keeps

Make(p, kind) ==
    /\ NamesEntry(p)
    /\ LET e == Entry(p)
           t == tree[e.vol]
       IN  IF e.path \in DOMAIN t THEN Says("exists") /\ Keeps
           ELSE \/ Says("no space") /\ Keeps
                \/ Says("ok") /\ Plants(e.vol, [x \in DOMAIN t \cup {e.path} |->
                                                  IF x = e.path THEN kind ELSE t[x]])

\* What is below a removed directory goes with it.
Unlink(p, delete) ==
    /\ NamesEntry(p)
    /\ LET e == Entry(p)
           t == tree[e.vol]
           below == Under(e.path, t)
       IN  IF e.path \notin DOMAIN t THEN Says("not found") /\ Keeps
           ELSE IF ~delete /\ (t[e.path] = "file" \/ below # {e.path})
           THEN Says("denied") /\ Keeps
           ELSE /\ Says("ok")
                /\ Plants(e.vol, [x \in DOMAIN t \ below |-> t[x]])

\* The entries of a renamed directory go along.
Rename(p, q) ==
    /\ NamesEntry(p) /\ NamesEntry(q)
    /\ LET e == Entry(p)
           f == Entry(q)
           t == tree[e.vol]
           Moved(r, x) == r \o SubSeq(x, Len(r) + 1, Len(x))
           below == Under(e.path, t)
       IN  IF e.at # f.at \/ Front(e.path) # Front(f.path) THEN Says("denied") /\ Keeps
           ELSE IF e.path \notin DOMAIN t THEN Says("not found") /\ Keeps
           ELSE IF f.path \in DOMAIN t THEN Says("exists") /\ Keeps
           ELSE /\ Says("ok")
                /\ Plants(e.vol, [x \in (DOMAIN t \ below) \cup {Moved(f.path, y) : y \in below} |->
                                    t[IF IsPrefix(f.path, x) THEN Moved(e.path, x) ELSE x]])

Look(p) ==
    /\ NamesEntry(p)
    /\ Says(IF KindOf(Entry(p)) = "none" THEN "not found" ELSE KindOf(Entry(p)))
    /\ Keeps

\* The time of a file or directory is nothing a path call tells.
Touch(p) ==
    /\ NamesEntry(p)
    /\ Says(IF KindOf(Entry(p)) = "none" THEN "not found" ELSE "ok")
    /\ Keeps

Mount(m, v) ==
    IF m \in DOMAIN mounted THEN Says("exists") /\ Keeps
    ELSE \/ /\ Cardinality(DOMAIN mounted) < MaxMounts
            /\ mounted' = [x \in DOMAIN mounted \cup {m} |-> IF x = m THEN v ELSE mounted[x]]
            /\ Says("ok") /\ UNCHANGED <<tree, here>>
         \/ Cardinality(DOMAIN mounted) = MaxMounts /\ Says("no memory") /\ Keeps
         \/ Cardinality(DOMAIN mounted) < MaxMounts /\ Says("disk error") /\ Keeps

Unmount(m) ==
    IF m = << >> THEN Says("denied") /\ Keeps
    ELSE IF m \notin DOMAIN mounted THEN Says("not found") /\ Keeps
    ELSE /\ mounted' = [x \in DOMAIN mounted \ {m} |-> mounted[x]]
         /\ Says("ok") /\ UNCHANGED <<tree, here>>

PathCall(p) ==
    \/ call'[1] = "chdir"  /\ Chdir(p)
    \/ call'[1] = "stat"   /\ (Absent(p) \/ Look(p))
    \/ call'[1] = "utime"  /\ (Absent(p) \/ Touch(p))
    \/ call'[1] = "create" /\ (Absent(p) \/ Make(p, "file"))
    \/ call'[1] = "mkdir"  /\ (Absent(p) \/ Make(p, "dir"))
    \/ call'[1] = "delete" /\ (Absent(p) \/ Unlink(p, TRUE))
    \/ call'[1] = "rmdir"  /\ (Absent(p) \/ Unlink(p, FALSE))

Next ==
    \/ \E u \in UserPaths : \E p \in {AbsPath(here, u)} :
         call' = <<call'[1], p>> /\ PathCall(p)
    \/ /\ call'[1] = "rename"
       /\ \E u, w \in UserPaths : \E p \in {AbsPath(here, u)}, q \in {AbsPath(here, w)} :
            call' = <<"rename", p, q>> /\ (Absent(p) \/ Absent(q) \/ Rename(p, q))
    \/ \E m \in Points :
         \/ call' = <<"unmount", m>> /\ Unmount(m)
         \/ \E v \in Volumes : call' = <<"mount", m, v>> /\ Mount(m, v)

Spec == Init /\ [][Next]_vars
=============================================================================
