------------------------------ MODULE FileTools ------------------------------
(***************************************************************************)
(* Copying, moving and removing files: fileops.c and the directory streams *)
(* of dirent.c, with cp, mv and rm on top of them.                         *)
(*                                                                         *)
(* The kernel below is what TreeStore promises of it, with the contents of *)
(* files and the clusters of the volume: a file is the sequence of its     *)
(* blocks, a block and a directory take a cluster each, an empty file one. *)
(* Directories have slots enough, and no other program runs meanwhile.     *)
(* What runs is a stack of calls; the current directory is the system's.   *)
(***************************************************************************)
EXTENDS Paths

CONSTANTS
    Dir,        \* what a directory holds in place of blocks
    Capacity,   \* clusters of the volume
    PoolSize,   \* DIR_POOL_SIZE
    Risky       \* what the tools do not guard against:
                \* "full volume":     a copy that the volume has no room for
                \* "onto itself":     a copy into, onto or over its source
                \* "onto directory":  a file copied onto a directory or back, a
                \*                    directory deleted as a file
                \* "deep tree":       directories deeper than there are streams
                \* "relative target": a directory copied to a relative path
                \* "busy directory":  the current directory removed or moved

ASSUME ToolsAssumption == Capacity \in Nat /\ PoolSize \in Nat \ {0}

VARIABLES
    tree,       \* what each path holds
    lost,       \* clusters that no path leads to
    here,       \* the current directory
    pool,       \* directory streams in use
    calls,      \* the calls under way, the innermost first
    job         \* of the command under way (observation): what it does,
                \* [from, to] of all it does it to, the tree and the directory
                \* it began with, whether it is over, and whether it failed

vars == <<tree, lost, here, pool, calls, job>>

-----------------------------------------------------------------------------
(* The tree                                                                *)

Exists(p)   == p \in DOMAIN tree       \* stat; the root has no entry to find
IsDir(p)    == p = << >> \/ (Exists(p) /\ tree[p] = Dir)
IsBranch(p) == Exists(p) /\ tree[p] = Dir
Under(t, p) == {q \in DOMAIN t : IsPrefix(p, q)}
NamesIn(t, p) == {Last(q) : q \in {x \in DOMAIN t : x # << >> /\ Front(x) = p}}
At(u)       == AbsPath(here, u)

\* The path below d that p is below s.
Moved(p, s, d) == d \o SubSeq(p, Len(s) + 1, Len(p))
Below1(u, n)   == [u EXCEPT !.parts = Append(@, n)]

Size(c)        == IF c = Dir THEN 1 ELSE Max({1, Len(c)})
Clusters(t, Q) == MapThenSumSet(LAMBDA q : Size(t[q]), Q)
Free(t, l)     == Capacity - l - Clusters(t, DOMAIN t)

With(t, p, c)   == [q \in DOMAIN t \cup {p} |-> IF q = p THEN c ELSE t[q]]
Without(t, p)   == [q \in DOMAIN t \ Under(t, p) |-> t[q]]

\* unlink frees the clusters of what it is given, a directory as well; those
\* of what is below are lost.
Lost(t, p) == Clusters(t, Under(t, p) \ {p})

\* mkdir and open(O_CREAT).
CanCreate(t, l, p) ==
    /\ p # << >> /\ p \notin DOMAIN t
    /\ Front(p) = << >> \/ (Front(p) \in DOMAIN t /\ t[Front(p)] = Dir)
    /\ Free(t, l) > 0

CanRename(p, q) ==
    /\ p # << >> /\ q # << >> /\ Front(p) = Front(q)
    /\ Exists(p) /\ ~Exists(q)

Renamed(p, q) ==
    [x \in (DOMAIN tree \ Under(tree, p)) \cup {Moved(y, p, q) : y \in Under(tree, p)} |->
       tree[IF IsPrefix(q, x) THEN Moved(x, q, p) ELSE x]]

-----------------------------------------------------------------------------
(* Calls                                                                   *)

Frame(fn, src, dst) ==
    [fn |-> fn, pc |-> "start", src |-> src, dst |-> dst, saved |-> << >>,
     given |-> {}, data |-> << >>, failed |-> FALSE]

Top        == Head(calls)
In(fn, pc) == calls # << >> /\ Top.fn = fn /\ Top.pc = pc
GoesOn(f)  == calls' = <<f>> \o Tail(calls)
Does(f, g) == calls' = <<g, f>> \o Tail(calls)     \* f calls g

\* copy_tree keeps the failure of any of its entries; remove_tree and NCD's F5 and
\* F8 do not look.
Told(f, bad) ==
    CASE f.fn = "copy_tree"                   -> [f EXCEPT !.failed = @ \/ bad]
      [] f.fn \in {"remove_tree", "F5", "F8"} -> f
      [] OTHER                                -> [f EXCEPT !.failed = bad]

Return(bad) ==
    LET callers == Tail(calls)
    IN  calls' = IF callers = << >> THEN << >>
                 ELSE <<Told(Head(callers), bad)>> \o Tail(callers)

-----------------------------------------------------------------------------
(* copy_file                                                               *)

\* A source that is its own target has lost its clusters by now: no more than
\* the first is still what it was.
CopyOpen ==
    /\ In("copy_file", "start")
    /\ LET s == At(Top.src)
           d == At(Top.dst)
           cleared == Without(tree, d)
           leaked == lost + Lost(tree, d)
           data == IF s = d THEN SubSeq(tree[s], 1, 1) ELSE tree[s]
       IN  IF ~Exists(s)
           THEN Return(TRUE) /\ UNCHANGED <<tree, lost>>
           ELSE /\ lost' = leaked
                /\ IF CanCreate(cleared, leaked, d)
                   THEN /\ tree' = With(cleared, d, << >>)
                        /\ GoesOn([Top EXCEPT !.pc = "loop", !.data = data])
                   ELSE tree' = cleared /\ Return(TRUE)
    /\ UNCHANGED <<here, pool, job>>

\* MUTANT of Written: the last block of a file is not written.
WrittenShort(c, data) == IF Len(data) = 1 /\ c # << >> THEN c ELSE Append(c, Head(data))

\* What write leaves of a file c; the first block has the cluster of create.
Written(c, data) ==
    IF c = << >> \/ Free(tree, lost) > 0 THEN Append(c, Head(data)) ELSE c

CopyBlock ==
    /\ In("copy_file", "loop")
    /\ Top.data # << >>
    /\ LET d == At(Top.dst)
       IN  tree' = [tree EXCEPT ![d] = Written(@, Top.data)]
    /\ GoesOn([Top EXCEPT !.data = Tail(@)])
    /\ UNCHANGED <<lost, here, pool, job>>

CopyClose ==
    /\ In("copy_file", "loop")
    /\ Top.data = << >>
    /\ Return(FALSE)
    /\ UNCHANGED <<tree, lost, here, pool, job>>

-----------------------------------------------------------------------------
(* Entering and leaving a directory, in copy_tree and remove_tree          *)

\* chdir and opendir("."); without a stream nothing is listed.
Descends ==
    /\ here' = At(Top.src)
    /\ pool' = IF pool < PoolSize THEN pool + 1 ELSE pool
    /\ GoesOn([Top EXCEPT !.pc = IF pool < PoolSize THEN "loop" ELSE "left", !.saved = here])

\* MUTANT of NotGiven: readdir does not keep its place.
GivenAgain == NamesIn(tree, here)

\* The entries the stream has not given, in the order of the directory: any.
NotGiven == NamesIn(tree, here) \ Top.given

\* MUTANT of Closes: no closedir.
LeavesOpen(fn) ==
    /\ In(fn, "loop")
    /\ NotGiven = {}
    /\ GoesOn([Top EXCEPT !.pc = "left"])
    /\ UNCHANGED <<tree, lost, here, pool, job>>

Closes(fn) ==
    /\ In(fn, "loop")
    /\ NotGiven = {}
    /\ pool' = pool - 1
    /\ GoesOn([Top EXCEPT !.pc = "left"])
    /\ UNCHANGED <<tree, lost, here, job>>

-----------------------------------------------------------------------------
(* copy_tree                                                               *)

TreeMissing(fn) ==
    /\ In(fn, "start")
    /\ ~Exists(At(Top.src))
    /\ Return(TRUE)
    /\ UNCHANGED <<tree, lost, here, pool, job>>

CopyIsFile ==
    /\ In("copy_tree", "start")
    /\ Exists(At(Top.src)) /\ tree[At(Top.src)] # Dir
    /\ GoesOn([Top EXCEPT !.fn = "copy_file"])
    /\ UNCHANGED <<tree, lost, here, pool, job>>

CopyEnters ==
    /\ In("copy_tree", "start")
    /\ IsBranch(At(Top.src))
    /\ tree' = IF CanCreate(tree, lost, At(Top.dst)) THEN With(tree, At(Top.dst), Dir) ELSE tree
    /\ Descends
    /\ UNCHANGED <<lost, job>>

CopyNext ==
    /\ In("copy_tree", "loop")
    /\ \E n \in NotGiven :
         Does([Top EXCEPT !.given = @ \cup {n}],
              Frame("copy_tree", [abs |-> FALSE, parts |-> <<n>>], Below1(Top.dst, n)))
    /\ UNCHANGED <<tree, lost, here, pool, job>>

CopyLeaves ==
    /\ In("copy_tree", "left")
    /\ here' = Top.saved
    /\ Return(Top.failed)
    /\ UNCHANGED <<tree, lost, pool, job>>

-----------------------------------------------------------------------------
(* remove_tree                                                             *)

RemoveIsFile ==
    /\ In("remove_tree", "start")
    /\ Exists(At(Top.src)) /\ tree[At(Top.src)] # Dir
    /\ tree' = Without(tree, At(Top.src))
    /\ Return(FALSE)
    /\ UNCHANGED <<lost, here, pool, job>>

RemoveEnters ==
    /\ In("remove_tree", "start")
    /\ IsBranch(At(Top.src))
    /\ Descends
    /\ UNCHANGED <<tree, lost, job>>

RemoveNext ==
    /\ In("remove_tree", "loop")
    /\ \E n \in NotGiven :
         Does([Top EXCEPT !.given = @ \cup {n}],
              Frame("remove_tree", [abs |-> FALSE, parts |-> <<n>>], Top.dst))
    /\ UNCHANGED <<tree, lost, here, pool, job>>

\* Back, and rmdir.
RemoveLeaves ==
    /\ In("remove_tree", "left")
    /\ here' = Top.saved
    /\ LET p == AbsPath(Top.saved, Top.src)
           bare == NamesIn(tree, p) = {}
       IN  /\ tree' = IF bare THEN Without(tree, p) ELSE tree
           /\ Return(~bare)
    /\ UNCHANGED <<lost, pool, job>>

-----------------------------------------------------------------------------
(* cp, mv and rm                                                           *)

Programs == {"cp", "cp -r", "mv", "rm", "rm -r"}

Exit(bad) == Return(bad) /\ job' = [job EXCEPT !.over = TRUE, !.failed = bad]

\* cp -r into a directory.
Target(src, dst) == IF IsBranch(At(dst)) THEN Below1(dst, Last(src.parts)) ELSE dst

Refused ==
    /\ In("cp", "start")
    /\ IsBranch(At(Top.src))
    /\ Exit(TRUE)
    /\ UNCHANGED <<tree, lost, here, pool>>

Copies ==
    /\ \/ In("cp", "start") /\ ~IsBranch(At(Top.src))
       \/ In("cp -r", "start")
    /\ Does([Top EXCEPT !.pc = "done"],
            IF IsBranch(At(Top.src)) THEN Frame("copy_tree", Top.src, Target(Top.src, Top.dst))
            ELSE Frame("copy_file", Top.src, Top.dst))
    /\ UNCHANGED <<tree, lost, here, pool, job>>

Renames ==
    /\ In("mv", "start")
    /\ CanRename(At(Top.src), At(Top.dst))
    /\ tree' = Renamed(At(Top.src), At(Top.dst))
    /\ Exit(FALSE)
    /\ UNCHANGED <<lost, here, pool>>

Moves ==
    /\ In("mv", "start")
    /\ ~CanRename(At(Top.src), At(Top.dst))
    /\ Does([Top EXCEPT !.pc = "copied"], Frame("copy_tree", Top.src, Top.dst))
    /\ UNCHANGED <<tree, lost, here, pool, job>>

NotMoved ==
    /\ In("mv", "copied")
    /\ Top.failed
    /\ Exit(TRUE)
    /\ UNCHANGED <<tree, lost, here, pool>>

\* MUTANT of Deletes: the copy's result is not looked at.
DeletesAnyway ==
    /\ In("mv", "copied")
    /\ Does([Top EXCEPT !.pc = "done"], Frame("remove_tree", Top.src, Top.src))
    /\ UNCHANGED <<tree, lost, here, pool, job>>

Deletes ==
    /\ In("mv", "copied")
    /\ ~Top.failed
    /\ Does([Top EXCEPT !.pc = "done"], Frame("remove_tree", Top.src, Top.src))
    /\ UNCHANGED <<tree, lost, here, pool, job>>

Unlinks ==
    /\ In("rm", "start")
    /\ LET p == At(Top.src)
       IN  /\ tree' = Without(tree, p)
           /\ lost' = lost + Lost(tree, p)
           /\ Exit(~Exists(p))
    /\ UNCHANGED <<here, pool>>

Removes ==
    /\ In("rm -r", "start")
    /\ Does([Top EXCEPT !.pc = "done"], Frame("remove_tree", Top.src, Top.src))
    /\ UNCHANGED <<tree, lost, here, pool, job>>

Exits ==
    /\ \E prog \in Programs : In(prog, "done")
    /\ Exit(Top.failed)
    /\ UNCHANGED <<tree, lost, here, pool>>

Step ==
    \/ CopyOpen \/ CopyBlock \/ CopyClose
    \/ TreeMissing("copy_tree") \/ TreeMissing("remove_tree")
    \/ CopyIsFile \/ CopyEnters \/ CopyNext \/ Closes("copy_tree") \/ CopyLeaves
    \/ RemoveIsFile \/ RemoveEnters \/ RemoveNext \/ Closes("remove_tree") \/ RemoveLeaves
    \/ Refused \/ Copies \/ Renames \/ Moves \/ NotMoved \/ Deletes
    \/ Unlinks \/ Removes \/ Exits

-----------------------------------------------------------------------------
(* What a command is asked to do                                           *)

NoJob == [kind |-> "none", pairs |-> {}, tree |-> << >>, home |-> << >>, over |-> FALSE,
          failed |-> FALSE]

Kind(prog) == CASE prog \in {"cp", "cp -r"} -> "copy"
                [] prog = "mv"              -> "move"
                [] OTHER                    -> "remove"

Asked(kind, pairs, home) ==
    [NoJob EXCEPT !.kind = kind, !.pairs = pairs, !.tree = tree, !.home = home]

\* What a copy of s to d needs that nobody looks at.
CopyGuarded(s, d, u) ==
    /\ Clusters(tree, Under(tree, s)) > Free(tree, lost) => "full volume" \in Risky
    /\ IsPrefix(s, d) \/ IsPrefix(d, s) => "onto itself" \in Risky
    /\ \A p \in Under(tree, s) :
         /\ LET q == Moved(p, s, d)
            IN  Exists(q) /\ IsBranch(p) # IsBranch(q) => "onto directory" \in Risky
         /\ IsBranch(p) /\ Len(p) - Len(s) >= PoolSize => "deep tree" \in Risky
    /\ NamesIn(tree, s) # {} /\ ~u.abs => "relative target" \in Risky

RemoveGuarded(s, h) ==
    /\ IsPrefix(s, h) => "busy directory" \in Risky
    /\ \A p \in Under(tree, s) :
         IsBranch(p) /\ Len(p) - Len(s) >= PoolSize => "deep tree" \in Risky

\* A command c = [prog, src, dst] begun in the directory h: what it is about,
\* and what it needs.
Into(c, h)  == IF c.prog = "cp -r" /\ IsBranch(AbsPath(h, c.src)) /\ IsBranch(AbsPath(h, c.dst))
               THEN Below1(c.dst, Last(c.src.parts)) ELSE c.dst
Pairs(c, h) == {[from |-> AbsPath(h, c.src), to |-> AbsPath(h, Into(c, h))]}

Guarded(c, h) == \A x \in Pairs(c, h) :
    /\ c.prog \in {"cp", "cp -r"} \/ (c.prog = "mv" /\ ~CanRename(x.from, x.to))
         => CopyGuarded(x.from, x.to, c.dst)
    /\ c.prog \in {"rm", "rm -r", "mv"} => RemoveGuarded(x.from, h)
    /\ c.prog = "rm" /\ NamesIn(tree, x.from) # {} => "onto directory" \in Risky

-----------------------------------------------------------------------------
(* Properties                                                              *)

Same(p, q) == p \in DOMAIN job.tree /\ Exists(q) /\ tree[q] = job.tree[p]

\* A command that says it did what it was asked to has done it: all of every
\* source is at its target, and a source that was to go is gone.
DoneAsAsked ==
    job.over /\ ~job.failed => \A x \in job.pairs :
        /\ job.kind \in {"copy", "move"} =>
             \A p \in Under(job.tree, x.from) : Same(p, Moved(p, x.from, x.to))
        /\ job.kind \in {"move", "remove"} => Under(tree, x.from) = {}

\* A command touches its targets, and the sources it is to remove, nothing
\* else: whatever directory it goes through on its way.
OnlyTargets ==
    job.kind # "none" => \A p \in DOMAIN tree \cup DOMAIN job.tree :
        \/ Same(p, p)
        \/ \E x \in job.pairs :
             \/ job.kind # "copy" /\ IsPrefix(x.from, p)
             \/ job.kind # "remove" /\ IsPrefix(x.to, p)

\* What is being moved is whole in one of its two places at every step.
MoveKeeps ==
    job.kind = "move" => \A x \in job.pairs : \A p \in Under(job.tree, x.from) :
        job.tree[p] = Dir \/ Same(p, p) \/ Same(p, Moved(p, x.from, x.to))

\* The tree hangs together and fits the volume, every cluster of the volume is
\* free or in it, no stream is in use when nothing runs, and a command leaves
\* the system in the directory it was started in.
LeavesNothing ==
    /\ \A p \in DOMAIN tree : p # << >> /\ IsDir(Front(p))
    /\ lost = 0 /\ Free(tree, lost) >= 0
    /\ calls = << >> => pool = 0
    /\ job.over => here = job.home
=============================================================================
