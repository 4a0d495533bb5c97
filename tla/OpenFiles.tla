----------------------------- MODULE OpenFiles -----------------------------
(***************************************************************************)
(* The kernel's table of open files and its redirection of stdout and      *)
(* stdin (src/src/kernel/syscalls.c), as functions of the kernel's state   *)
(*                                                                         *)
(*   k == [open, redirect, stdin, content]                                 *)
(*                                                                         *)
(* A system call runs to its end before another begins, so a program that  *)
(* makes several in a row applies one function to the result of another.   *)
(* open is open_files; redirect and stdin are g_redirect and g_stdin,      *)
(* which hold the number of a slot of that table, whatever it is used for  *)
(* by then; content stands for the volume: the bytes of each file, by      *)
(* path.  A byte stands for as many as fill a cluster.                     *)
(***************************************************************************)
EXTENDS Integers, Sequences, FiniteSets, Functions

CONSTANTS
    MaxOpenFiles,  \* MAX_OPEN_FILES
    Paths,
    Bytes,
    Space,         \* clusters of the volume
    None           \* no slot (0xFFFF), no path

ASSUME TableAssumption == MaxOpenFiles \in Nat \ {0} /\ None \notin Nat /\ None \notin Paths
                          /\ Space \in Nat

Slots   == 0 .. MaxOpenFiles - 1
Handles == Slots \cup {None}

Entry  == [used : BOOLEAN, kind : {"file", "serial"}, path : Paths \cup {None}, pos : Nat]
Unused == [used |-> FALSE, kind |-> "file", path |-> None, pos |-> 0]

Started(files) ==
    [open |-> [s \in Slots |-> Unused], redirect |-> None, stdin |-> None,
     content |-> [p \in files |-> << >>]]

Exists(k, p) == p \in DOMAIN k.content
InUse(k)     == {s \in Slots : k.open[s].used}

FreeSlots(k) == {s \in Slots : ~k.open[s].used}
First(slots) == CHOOSE s \in slots : \A r \in slots : s <= r

\* A file has a cluster from its beginning, empty or not.
Clusters(c) == IF c = << >> THEN 1 ELSE Len(c)
HasRoom(k)  == FoldFunction(LAMBDA c, n : n + Clusters(c), 0, k.content) < Space

\* SYSCALL_OPEN and SYSCALL_CREATE take the first free slot.  create fails, too,
\* without a free cluster, and without room in the directory.
OpenResult(k, p) == IF Exists(k, p) /\ FreeSlots(k) # {} THEN First(FreeSlots(k)) ELSE None
CreateResult(k, p, room) ==
    IF room /\ HasRoom(k) /\ ~Exists(k, p) /\ FreeSlots(k) # {} THEN First(FreeSlots(k)) ELSE None

Opened(k, p) ==
    LET s == OpenResult(k, p)
    IN  IF s = None THEN k
        ELSE [k EXCEPT !.open[s] = [used |-> TRUE, kind |-> "file", path |-> p, pos |-> 0]]

\* create leaves the slot's kind as it is.
Created(k, p, room) ==
    LET s == CreateResult(k, p, room)
    IN  IF s = None THEN k
        ELSE [k EXCEPT !.open[s] = [@ EXCEPT !.used = TRUE, !.path = p, !.pos = 0],
                       !.content = [x \in DOMAIN @ \cup {p} |-> IF x = p THEN << >> ELSE @[x]]]

DeviceOpened(k) ==
    IF FreeSlots(k) = {} THEN k
    ELSE [k EXCEPT !.open[First(FreeSlots(k))] =
                     [used |-> TRUE, kind |-> "serial", path |-> None, pos |-> 0]]

\* Of a slot that is not used only the kind is seen again.
Closed(k, s) == [k EXCEPT !.open[s] = [@ EXCEPT !.used = FALSE, !.path = None, !.pos = 0]]

Deleted(k, p) == [k EXCEPT !.content = [x \in DOMAIN @ \ {p} |-> @[x]]]

WithStdout(k, s) == [k EXCEPT !.redirect = s]
WithStdin(k, s)  == [k EXCEPT !.stdin = s]

\* The byte at a slot's position is there, is the file's first, or gets a cluster.
Fits(k, e) == e.pos < Len(k.content[e.path]) \/ k.content[e.path] = << >> \/ HasRoom(k)

\* One byte through a slot, at its position ...
Stored(k, s, b) ==
    LET e == k.open[s]
        c == k.content[e.path]
    IN  [k EXCEPT !.open[s].pos = @ + 1,
                  !.content[e.path] = IF e.pos < Len(c) THEN [c EXCEPT ![e.pos + 1] = b]
                                                        ELSE Append(c, b)]

\* ... which fat16_write leaves out on a full volume.
Through(k, s, b) == IF Fits(k, k.open[s]) THEN Stored(k, s, b) ELSE k

Redirected(k, s) == s # None /\ k.open[s].used

\* out_byte, which looks neither at the slot's kind nor at what fat16_write says;
\* otherwise the byte goes to the console.
OutByte(k, b) == IF Redirected(k, k.redirect) THEN Through(k, k.redirect, b) ELSE k

\* SYSCALL_WRITE of one byte: a device's byte goes to the serial line; of a
\* file's, the program is told whether it was written.
Written(k, s, b) == IF k.open[s].kind = "file" THEN Through(k, s, b) ELSE k

\* SYSCALL_READ_STDIN with a redirect: at most n bytes of the slot's file.
Rest(k, s) == LET e == k.open[s] IN SubSeq(k.content[e.path], e.pos + 1, Len(k.content[e.path]))
Taken(k, s, n) ==
    SubSeq(Rest(k, s), 1, IF n < Len(Rest(k, s)) THEN n ELSE Len(Rest(k, s)))
AfterRead(k, s, n) == [k EXCEPT !.open[s].pos = @ + Len(Taken(k, s, n))]

\* syscall_finalize_redirect and syscall_finalize_stdin
Freed(k, s)  == IF s = None THEN k ELSE Closed(k, s)
Finalized(k) == WithStdin(WithStdout(Freed(Freed(k, k.redirect), k.stdin), None), None)
=============================================================================
