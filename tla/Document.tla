------------------------------ MODULE Document ------------------------------
(***************************************************************************)
(* The documents of the editor: doc.c, the file commands of main.c and the *)
(* file dialog of dlg.c, over the gap buffer that holds the text and the   *)
(* files of a volume.  The editor runs alone until it exits, so a command  *)
(* with its questions is one step; what the user answers, and whether the  *)
(* volume has room, are its alternatives.                                  *)
(***************************************************************************)
EXTENDS Gap

CONSTANTS
    Dirs,       \* directories the user can reach
    Names,
    None,
    Absent,
    MaxText,    \* cap - 1000: the longest text that is loaded
    Risky       \* what this model leaves out, and does when it is a member:
                \* "read error":  a read ends early and is taken for end of file
                \* "open error":  a file that exists cannot be opened

ASSUME MaxTextAssumption == MaxText \in 0 .. Cap - 1

VARIABLES
    ed,         \* [g, name, modified, cwd, disk]: e_fname is name, or None
    running,
    origin,     \* the file the text was last loaded from or saved to, or None
    did         \* the last command, the answer to its question and the file it wrote

vars == <<ed, running, origin, did>>

Texts == UNION {[1 .. n -> Chars] : n \in 0 .. Cap}
Files == Dirs \X Names

ASSUME MarksAssumption == None \notin Names /\ None \notin Files /\ Absent \notin Texts

Here(s, n) == <<s.cwd, n>>
Shown == TextOf(ed.g)

-----------------------------------------------------------------------------
(* doc.c                                                                   *)

\* creat(): SYSCALL_CREATE refuses a name that exists.
Creatable(s, n) == s.disk[Here(s, n)] = Absent

\* What of a text gets written, 256 bytes at a time until a write fails.
WriteFar(t) == {SubSeq(t, 1, k) : k \in 0 .. Len(t)}

\* What of a file is read before its end, or MaxText + 1 bytes, or an error.
ReadFar(f) ==
    LET most == Least(Len(f), MaxText + 1)
    IN  {SubSeq(f, 1, k) : k \in IF "read error" \in Risky THEN 0 .. most ELSE {most}}

DocSaveAnyway(s, n) ==
    IF Creatable(s, n)
    THEN {[s |-> [s EXCEPT !.disk[Here(s, n)] = SubSeq(TextOf(s.g), 1, k)], result |-> "ok"] :
            k \in 0 .. GbLen(s.g)}
    ELSE {[s |-> s, result |-> "exists"]}

\* doc_save: the outcomes [s, result] of saving to n; a write may stop early.
DocSave(s, n) ==
    LET t == TextOf(s.g)
    IN  IF Creatable(s, n)
        THEN {[s |-> s, result |-> "no room"]}
             \cup {[s |-> [s EXCEPT !.g = Flat(s.g), !.disk[Here(s, n)] = f],
                    result |-> IF f = t THEN "ok" ELSE "no room"] : f \in WriteFar(t)}
        ELSE {[s |-> s, result |-> "exists"]}

\* doc_load: the outcomes [s, result] of loading n.
DocLoad(s, n) ==
    LET f == s.disk[Here(s, n)]
        Got(t) == [s EXCEPT !.g = Filled(Flat(Emptied(s.g)), t)]
    IN  (IF f = Absent \/ "open error" \in Risky THEN {[s |-> s, result |-> "open"]} ELSE {})
        \cup
        (IF f = Absent THEN {}
         ELSE {IF Len(t) > MaxText
               THEN [s |-> [s EXCEPT !.g = Emptied(Got(t).g)], result |-> "big"]
               ELSE [s |-> Got(t), result |-> "ok"] : t \in ReadFar(f)})

-----------------------------------------------------------------------------
(* main.c and dlg.c.  An outcome of a command is [s, result, ans, wrote]:  *)
(* the state it leaves, "ok", or why not, the answer to the question it    *)
(* asked and the file it wrote.                                            *)

Outcome(s, result, ans, wrote) ==
    [s |-> s, result |-> result, ans |-> ans, wrote |-> wrote]

\* dlg_filebox: the user moves to any directory and picks or types a name, or
\* leaves with Esc; chdir() has moved the editor itself by then.
Filebox(s) ==
    {<<[s EXCEPT !.cwd = d], n>> : d \in Dirs, n \in Names \cup {None}}

SavedTo(s, n) ==
    {IF o.result = "ok"
     THEN Outcome([o.s EXCEPT !.name = n, !.modified = FALSE], "ok", None, Here(s, n))
     ELSE Outcome(o.s, o.result, None, None) : o \in DocSave(s, n)}

DoSaveAs(s) ==
    UNION {IF c[2] = None THEN {Outcome(c[1], "left", None, None)} ELSE SavedTo(c[1], c[2]) :
           c \in Filebox(s)}

DoSave(s) == IF s.name = None THEN DoSaveAs(s) ELSE SavedTo(s, s.name)

ConfirmSave(s) ==
    IF s.modified
    THEN {[o EXCEPT !.ans = "ja", !.result = "ok"] : o \in DoSave(s)}
         \cup {Outcome(s, "ok", "nei", None)}
    ELSE {Outcome(s, "ok", None, None)}

\* confirm_discard: "Lagre endringer?", Ja, Nei or Avbryt.
ConfirmDiscard(s) ==
    IF s.modified
    THEN {[o EXCEPT !.ans = "ja"] : o \in DoSave(s)}
         \cup {Outcome(s, "ok", "nei", None), Outcome(s, "left", "avbryt", None)}
    ELSE {Outcome(s, "ok", None, None)}

\* gb_reset and edit_init.
Fresh(s) == [s EXCEPT !.g = Emptied(s.g), !.name = None, !.modified = FALSE]

\* What do_open and _main make of doc_load: <<state, origin, result>>.
Opened(s, n) ==
    {CASE o.result = "ok"   -> <<[Fresh(o.s) EXCEPT !.g = o.s.g, !.name = n], Here(s, n), "ok">>
       [] o.result = "open" -> <<[Fresh(o.s) EXCEPT !.name = n], None, "open">>
       [] o.result = "big"  -> <<Fresh(o.s), None, "big">> : o \in DocLoad(s, n)}

-----------------------------------------------------------------------------
Init ==
    /\ ed \in [g : {x \in GapBuffers : x.gs = 0 /\ x.ge = Cap}, name : {None}, modified : {FALSE},
               cwd : Dirs, disk : [Files -> {Absent} \cup Texts]]
    /\ running = FALSE
    /\ origin = None
    /\ did = [op |-> "none", result |-> "ok", ans |-> None, wrote |-> None]

Did(op, o) == did' = [op |-> op, result |-> o.result, ans |-> o.ans, wrote |-> o.wrote]
DidOnly(op, result) == did' = [op |-> op, result |-> result, ans |-> None, wrote |-> None]

\* _main: with a file that is too large the editor ends at once.
Start(n) ==
    /\ ~running
    /\ IF n = None
       THEN ed' = Fresh(ed) /\ origin' = None /\ running' = TRUE /\ DidOnly("start", "ok")
       ELSE \E o \in Opened(Fresh(ed), n) :
              /\ ed' = o[1]
              /\ origin' = o[2]
              /\ running' = (o[3] # "big")
              /\ DidOnly("start", o[3])

\* The commands of edit.c, as far as they change the text: a character put in
\* or taken out at the cursor, wherever it is.
Type(p, c) ==
    /\ running
    /\ Fits(ed.g, <<c>>)
    /\ ed' = [ed EXCEPT !.g = Put(ed.g, p, <<c>>), !.modified = TRUE]
    /\ DidOnly("edit", "ok")
    /\ UNCHANGED <<running, origin>>

Erase(p) ==
    /\ running
    /\ ed' = [ed EXCEPT !.g = Cut(ed.g, p, 1), !.modified = TRUE]
    /\ DidOnly("edit", "ok")
    /\ UNCHANGED <<running, origin>>

Wrote(o) == IF o.wrote = None THEN origin ELSE o.wrote

Save ==
    /\ running
    /\ \E o \in DoSave(ed) : ed' = o.s /\ origin' = Wrote(o) /\ Did("save", o)
    /\ UNCHANGED running

SaveAs ==
    /\ running
    /\ \E o \in DoSaveAs(ed) : ed' = o.s /\ origin' = Wrote(o) /\ Did("save as", o)
    /\ UNCHANGED running

\* do_new, do_open, quit: what was asked first, and if it was granted, the rest.
New ==
    /\ running
    /\ \E o \in ConfirmDiscard(ed) :
         /\ Did("new", o)
         /\ IF o.result = "ok"
            THEN ed' = Fresh(o.s) /\ origin' = None
            ELSE ed' = o.s /\ origin' = Wrote(o)
    /\ UNCHANGED running

Open ==
    /\ running
    /\ \E o \in ConfirmDiscard(ed) :
         /\ Did("open", o)
         /\ \/ o.result # "ok" /\ ed' = o.s /\ origin' = Wrote(o)
            \/ o.result = "ok" /\ \E c \in Filebox(o.s) :
                 IF c[2] = None
                 THEN ed' = c[1] /\ origin' = Wrote(o)
                 ELSE \E r \in Opened(c[1], c[2]) : ed' = r[1] /\ origin' = r[2]
    /\ UNCHANGED running

Quit ==
    /\ running
    /\ \E o \in ConfirmDiscard(ed) :
         /\ Did("quit", o)
         /\ ed' = o.s
         /\ origin' = Wrote(o)
         /\ running' = (o.result # "ok")

Next ==
    \/ \E n \in Names \cup {None} : Start(n)
    \/ \E p \in 0 .. GbLen(ed.g), c \in Chars : Type(p, c)
    \/ \E p \in 0 .. GbLen(ed.g) - 1 : Erase(p)
    \/ Save \/ SaveAs \/ New \/ Open \/ Quit

Spec == Init /\ [][Next]_vars

-----------------------------------------------------------------------------
\* While "Endret" is not shown the text is what its file holds, byte for byte,
\* after any loads, failed and partial saves, and moves between directories; a
\* text that never had a file is empty.
UnmodifiedIsSaved ==
    running /\ ~ed.modified =>
        IF origin = None THEN Shown = << >> ELSE Shown = ed.disk[origin]

\* No command throws changes away unless the user answered Nei: otherwise they
\* are all in the file the command wrote first.
KeepsEdits ==
    [][running /\ ed.modified /\ did'.op # "edit" /\ (TextOf(ed'.g) # Shown \/ running # running')
         => did'.ans = "nei" \/ (did'.wrote # None /\ ed'.disk[did'.wrote] = Shown)]_vars

\* "Create or truncate a file" (fcntl.h), "save=1 adds an overwrite
\* confirmation" (dlg.h): a save fails only if the volume has no room.
SavesUnlessFull == did.op \in {"save", "save as"} => did.result # "exists"
=============================================================================
