----------------------------- MODULE FileStore -----------------------------
(***************************************************************************)
(* What the driver of Fat16 promises its callers, with no clusters, slots  *)
(* or cached positions: a tree of directories that name byte sequences,    *)
(* and handles that stand at a position of one of them.  A file is known   *)
(* by its path <<d, n>>, the directory it is in and its name there.        *)
(***************************************************************************)
EXTENDS Integers, Sequences

CONSTANTS
    Names,
    Dirs,       \* identities of directories; 0 is the root
    Handles,
    Closed,
    Orphan,     \* a handle whose file was deleted
    Bytes,
    MaxSize,
    ChunkSize   \* bytes moved by one step of a read or a write, at most

VARIABLES
    content,    \* content[q]: the bytes of the file at path q
    sub,        \* sub[q]: the directory at path q
    cursor,     \* cursor[h]: [path, pos], or Closed or Orphan
    reply,
    space,      \* clusters that are left, and
    crowded     \* the directories with no place for a name: any step may change
                \* these two, which only limit what may be refused

vars == <<content, sub, cursor, reply>>

Files   == DOMAIN content
Subdirs == DOMAIN sub
Taken   == Files \cup Subdirs
Tree    == {0} \cup {sub[q] : q \in Subdirs}
Paths   == Tree \X Names

Says(s) == reply' = [status |-> s, bytes |-> << >>]

Init ==
    /\ content = [q \in {} |-> << >>]
    /\ sub = [q \in {} |-> 0]
    /\ cursor = [h \in Handles |-> Closed]
    /\ reply = [status |-> "ok", bytes |-> << >>]

Without(f, q)   == [x \in DOMAIN f \ {q} |-> f[x]]
With(f, q, v)   == [x \in DOMAIN f \cup {q} |-> IF x = q THEN v ELSE f[x]]
Moved(f, q, r)  == With(Without(f, q), r, f[q])

Live(h)   == cursor[h] \notin {Closed, Orphan}
On(h, q)  == Live(h) /\ cursor[h].path = q

Create(h, q) ==
    /\ Says("ok")
    /\ cursor[h] = Closed /\ q \notin Taken
    /\ cursor' = [cursor EXCEPT ![h] = [path |-> q, pos |-> 0]]
    /\ content' = With(content, q, << >>)
    /\ UNCHANGED sub

Mkdir(q, d) ==
    /\ Says("ok")
    /\ q \notin Taken /\ d \notin Tree
    /\ sub' = With(sub, q, d)
    /\ UNCHANGED <<content, cursor>>

\* A new name needs a cluster, and one more when its directory has to grow, which the
\* root cannot.
MakeRefused(q) ==
    /\ \/ q \in Taken /\ Says("exists")
       \/ q \notin Taken /\ space = 0 /\ Says("no space")
       \/ /\ q \notin Taken /\ q[1] \in crowded /\ (q[1] = 0 \/ space = 1)
          /\ Says("no space")
    /\ UNCHANGED <<content, sub, cursor>>

Open(h, q) ==
    /\ Says("ok")
    /\ cursor[h] = Closed /\ q \in Files
    /\ cursor' = [cursor EXCEPT ![h] = [path |-> q, pos |-> 0]]
    /\ UNCHANGED <<content, sub>>

Close(h) ==
    /\ Says("ok")
    /\ cursor[h] # Closed
    /\ cursor' = [cursor EXCEPT ![h] = Closed]
    /\ UNCHANGED <<content, sub>>

NameMissing(q) ==
    Says("not found") /\ q \notin Taken /\ UNCHANGED <<content, sub, cursor>>

Delete(q) ==
    /\ Says("ok")
    /\ q \in Files
    /\ cursor' = [h \in Handles |-> IF On(h, q) THEN Orphan ELSE cursor[h]]
    /\ content' = Without(content, q)
    /\ UNCHANGED sub

Rmdir(q) ==
    /\ Says("ok")
    /\ q \in Subdirs
    /\ \A n \in Names : <<sub[q], n>> \notin Taken
    /\ sub' = Without(sub, q)
    /\ UNCHANGED <<content, cursor>>

RmdirDenied(q) ==
    /\ Says("denied")
    /\ \/ q \in Files
       \/ q \in Subdirs /\ \E n \in Names : <<sub[q], n>> \in Taken
    /\ UNCHANGED <<content, sub, cursor>>

Rename(q, n) ==
    LET r == <<q[1], n>>
    IN  /\ q \in Taken
        /\ IF r \in Taken
           THEN Says("exists") /\ UNCHANGED <<content, sub, cursor>>
           ELSE /\ Says("ok")
                /\ cursor' = [h \in Handles |->
                                IF On(h, q) THEN [cursor[h] EXCEPT !.path = r]
                                            ELSE cursor[h]]
                /\ sub' = IF q \in Subdirs THEN Moved(sub, q, r) ELSE sub
                /\ content' = IF q \in Files THEN Moved(content, q, r) ELSE content

\* bs replaces and extends the bytes at the handle's position.
Overwritten(s, p, bs) ==
    LET n == IF p + Len(bs) > Len(s) THEN p + Len(bs) ELSE Len(s)
    IN  [x \in 1 .. n |-> IF x \in p + 1 .. p + Len(bs) THEN bs[x - p] ELSE s[x]]

Write(h, bs) ==
    /\ Says("ok")
    /\ Live(h)
    /\ LET c == cursor[h]
       IN  /\ cursor' = [cursor EXCEPT ![h] = [c EXCEPT !.pos = @ + Len(bs)]]
           /\ content' = [content EXCEPT ![c.path] = Overwritten(@, c.pos, bs)]
    /\ UNCHANGED sub

\* Only a write that extends the file can find the volume full.
WriteRefused(h) ==
    /\ Says("no space") /\ space = 0
    /\ Live(h) /\ cursor[h].pos = Len(content[cursor[h].path])
    /\ UNCHANGED <<content, sub, cursor>>

\* A read before the end of the file returns at least one byte, and the bytes
\* it returns are those of the file at the handle's position.
Read(h, n) ==
    /\ Live(h)
    /\ LET c == cursor[h]
           s == content[c.path]
       IN  IF c.pos = Len(s)
           THEN Says("ok") /\ UNCHANGED cursor
           ELSE \E k \in 1 .. n :
                  /\ c.pos + k <= Len(s)
                  /\ reply' = [status |-> "ok",
                               bytes |-> SubSeq(s, c.pos + 1, c.pos + k)]
                  /\ cursor' = [cursor EXCEPT ![h] = [c EXCEPT !.pos = @ + k]]
    /\ UNCHANGED <<content, sub>>

Seek(h, pos) ==
    /\ Live(h)
    /\ IF pos > Len(content[cursor[h].path])
       THEN Says("invalid") /\ UNCHANGED cursor
       ELSE /\ cursor' = [cursor EXCEPT ![h] = [@ EXCEPT !.pos = pos]]
            /\ Says("ok")
    /\ UNCHANGED <<content, sub>>

Next ==
    \/ \E q \in Paths :
         \/ \E h \in Handles : Create(h, q) \/ Open(h, q)
         \/ \E d \in Dirs : Mkdir(q, d)
         \/ MakeRefused(q) \/ NameMissing(q) \/ Delete(q)
         \/ Rmdir(q) \/ RmdirDenied(q)
         \/ \E n \in Names : Rename(q, n)
    \/ \E h \in Handles :
         \/ Close(h) \/ WriteRefused(h)
         \/ \E k \in 1 .. ChunkSize : Read(h, k) \/ \E bs \in [1 .. k -> Bytes] : Write(h, bs)
         \/ \E pos \in 0 .. MaxSize + 1 : Seek(h, pos)

Spec == Init /\ [][Next]_vars
=============================================================================
