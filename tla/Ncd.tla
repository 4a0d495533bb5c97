-------------------------------- MODULE Ncd --------------------------------
(***************************************************************************)
(* The file manager (apps/ncd/main.c and panel.c) on top of FileTools.     *)
(*                                                                         *)
(* Two panels show a directory each, while the system has one current      *)
(* directory for both and for every program started from them: each        *)
(* operation goes to its panel's directory first, and both panels are read *)
(* again after it.  A key is one action until something is copied, moved   *)
(* or removed; that goes on step by step.  Drawing and dialogs are left    *)
(* out: an operation the user does not confirm changes nothing.            *)
(***************************************************************************)
EXTENDS FileTools

CONSTANTS
    Order,      \* all names, as strcmp sorts them
    Rows,       \* panel_get_visible
    WordSize,   \* 2^16
    Commands,   \* bound: the command lines users type, [prog, src, dst]
    NewNames,   \* bound: the names they type
    StartTree,
    Coms,       \* names of programs
    Bin,        \* the directory /BIN
    MaxTurns    \* bound: the operations of a session that change the tree

ASSUME NcdAssumption ==
    /\ Rows \in Nat \ {0} /\ WordSize \in Nat \ {0} /\ MaxTurns \in Nat
    /\ Order \in Seq(Names)

VARIABLES
    panels,     \* [cwd, list, marked, sel, scroll], list of [name, dir]
    active,
    turns

ncdVars == <<tree, lost, here, pool, calls, job, panels, active, turns>>

Sides == {"left", "right"}
Panel == panels[active]
Other == panels[IF active = "left" THEN "right" ELSE "left"]
Rel(n) == [abs |-> FALSE, parts |-> <<n>>]
Abs(p) == [abs |-> TRUE, parts |-> p]

-----------------------------------------------------------------------------
(* panel_refresh                                                           *)

DirIn(t, p) == p = << >> \/ (p \in DOMAIN t /\ t[p] = Dir)

\* The current directory after chdir(p).
Went(t, h, p) == IF DirIn(t, p) THEN p ELSE h

\* The entries of d: directories first.
Sorted(t, d) ==
    LET names == NamesIn(t, d)
        dirs  == SelectSeq(Order, LAMBDA n : n \in names /\ DirIn(t, Append(d, n)))
        files == SelectSeq(Order, LAMBDA n : n \in names /\ ~DirIn(t, Append(d, n)))
    IN  [i \in DOMAIN dirs |-> [name |-> dirs[i], dir |-> TRUE]]
        \o [i \in DOMAIN files |-> [name |-> files[i], dir |-> FALSE]]

\* panel_clamp_scroll.
Clamped(p) ==
    LET count == Len(p.list)
        up == Min({p.scroll, p.sel})
    IN  [p EXCEPT !.scroll = IF count <= Rows THEN 0
                             ELSE IF up + Rows > count THEN count - Rows ELSE up]

\* [here, panel] after p was read again; a directory that has gone is given up
\* for the current one.
Refreshed(t, h, p) ==
    LET d == Went(t, h, p.cwd)
        list == Sorted(t, d)
        sel == IF list = << >> THEN 0 ELSE Min({p.sel, Len(list) - 1})
    IN  [here |-> d,
         panel |-> Clamped([p EXCEPT !.cwd = d, !.list = list, !.marked = {}, !.sel = sel])]

\* MUTANT of BothRead: only the active one.
ActiveRead(ps, t, h) ==
    LET x == Refreshed(t, h, ps[active])
    IN  panels' = [ps EXCEPT ![active] = x.panel] /\ here' = x.here

\* Both panels ps are read again, from the current directory h, in the tree t.
BothRead(ps, t, h) ==
    LET l == Refreshed(t, h, ps["left"])
        r == Refreshed(t, l.here, ps["right"])
    IN  /\ panels' = [side \in Sides |-> IF side = "left" THEN l.panel ELSE r.panel]
        /\ here' = r.here

-----------------------------------------------------------------------------
(* Keys that move about                                                    *)

Waits == calls = << >>
OnEntry == Panel.sel < Len(Panel.list)
Entry == Panel.list[Panel.sel + 1]

Shows(p) == panels' = [panels EXCEPT ![active] = p]

Down(p) ==
    IF p.sel < (Len(p.list) - 1) % WordSize THEN Clamped([p EXCEPT !.sel = @ + 1]) ELSE p

Up(p) == IF p.sel > 0 THEN Clamped([p EXCEPT !.sel = @ - 1]) ELSE p

PageUp(p) == Clamped([p EXCEPT !.sel = IF @ >= Rows THEN @ - Rows ELSE 0])

PageDown(p) ==
    Clamped([p EXCEPT !.sel = IF (@ + Rows) % WordSize < Len(p.list) THEN (@ + Rows) % WordSize
                              ELSE (Len(p.list) - 1) % WordSize])

Home(p) == [p EXCEPT !.sel = 0, !.scroll = 0]

End(p) ==
    IF p.list = << >> THEN p
    ELSE [p EXCEPT !.sel = Len(p.list) - 1,
                   !.scroll = Max({Len(p.list) - Rows, 0})]

\* panel_toggle_select, then down.
Insert(p) ==
    LET n == p.list[p.sel + 1].name
    IN  Down(IF p.sel >= Len(p.list) THEN p
             ELSE [p EXCEPT !.marked = IF n \in @ THEN @ \ {n} ELSE @ \cup {n}])

MovesCursor ==
    /\ Waits
    /\ \E F \in {Up(Panel), Down(Panel), PageUp(Panel), PageDown(Panel), Home(Panel),
                 End(Panel), Insert(Panel)} : Shows(F)
    /\ UNCHANGED <<tree, lost, here, pool, calls, job, active, turns>>

Tab ==
    /\ Waits
    /\ active' = IF active = "left" THEN "right" ELSE "left"
    /\ UNCHANGED <<tree, lost, here, pool, calls, job, panels, turns>>

\* MUTANT of Syncs: the current directory is taken for the panel's.
SyncsNot(p) == here

\* panel_sync_cwd.
Syncs(p) == Went(tree, here, p.cwd)

\* The active panel, gone from the current directory h to d, if that is one.
Visited(h, d) ==
    LET to == Went(tree, h, d)
    IN  Refreshed(tree, to, [Panel EXCEPT !.cwd = to, !.sel = 0, !.scroll = 0])

Entered == Visited(Syncs(Panel), Append(Syncs(Panel), Entry.name))

EnterDir ==
    /\ Waits /\ OnEntry /\ Entry.dir
    /\ Shows(Entered.panel) /\ here' = Entered.here
    /\ UNCHANGED <<tree, lost, pool, calls, job, active, turns>>

\* F3 on a directory.
ViewsDir ==
    /\ Waits /\ OnEntry /\ Entry.dir
    /\ BothRead([panels EXCEPT ![active] = Entered.panel], tree, Entered.here)
    /\ UNCHANGED <<tree, lost, pool, calls, job, active, turns>>

ParentDir ==
    /\ Waits
    /\ LET h == Syncs(Panel)
           x == IF h = << >> THEN Refreshed(tree, h, Panel) ELSE Visited(h, Front(h))
       IN  Shows(x.panel) /\ here' = x.here
    /\ UNCHANGED <<tree, lost, pool, calls, job, active, turns>>

\* F3 and F4 on a file: the viewer, the editor.
Views ==
    /\ Waits /\ OnEntry /\ ~Entry.dir
    /\ BothRead(panels, tree, Syncs(Panel))
    /\ UNCHANGED <<tree, lost, pool, calls, job, active, turns>>

\* The command line given up, F4 on a directory.
GoesThere ==
    /\ Waits
    /\ here' = Syncs(Panel)
    /\ UNCHANGED <<tree, lost, pool, calls, job, panels, active, turns>>

\* Enter on a program: it is run wherever the system is.
Launches ==
    /\ Waits /\ OnEntry /\ ~Entry.dir /\ Entry.name \in Coms
    /\ BothRead(panels, tree, here)
    /\ UNCHANGED <<tree, lost, pool, calls, job, active, turns>>

\* Where EXEC finds the program n: here, in the root, in BIN.
Runs(n) ==
    LET found == SelectSeq(<<here, << >>, Bin>>,
                           LAMBDA h : Append(h, n) \in DOMAIN tree /\ ~DirIn(tree, Append(h, n)))
    IN  IF found = << >> THEN << >> ELSE Append(Head(found), n)

-----------------------------------------------------------------------------
(* Keys that change the tree                                               *)

Turn == turns < MaxTurns /\ turns' = turns + 1

\* F6: in the panel's directory, back to where the system was, if it is there
\* still.
HandleF6 ==
    /\ Waits /\ Turn /\ OnEntry
    /\ \E n \in NewNames :
         LET h == Syncs(Panel)
             p == Append(h, Entry.name)
             q == Append(h, n)
             t == IF CanRename(p, q) THEN Renamed(p, q) ELSE tree
         IN  /\ tree' = t
             /\ BothRead(panels, t, Went(t, h, here))
    /\ UNCHANGED <<lost, pool, calls, job, active>>

\* F7 makes a directory, Shift-F4 a file, and both panels are read again.
Creates(c, back) ==
    /\ Waits /\ Turn
    /\ \E n \in NewNames :
         LET h == Syncs(Panel)
             p == Append(h, n)
             t == IF CanCreate(tree, lost, p) THEN With(tree, p, c) ELSE tree
         IN  /\ tree' = t
             /\ BothRead(panels, t, IF back THEN Went(t, h, here) ELSE h)
    /\ UNCHANGED <<lost, pool, calls, job, active>>

HandleF7      == Creates(Dir, TRUE)
HandleShiftF4 == Creates(<< >>, FALSE)

\* What F5 and F8 are about: the marked entries in their order, or the current.
Chosen ==
    LET entries == SelectSeq(Panel.list, LAMBDA e : e.name \in Panel.marked)
        names == [i \in DOMAIN entries |-> entries[i].name]
    IN  IF Panel.marked # {} THEN names ELSE IF OnEntry THEN <<Entry.name>> ELSE << >>

HandleF5 ==
    /\ Waits /\ Turn
    /\ Panel.list # << >> /\ Panel.cwd # Other.cwd
    /\ LET all == ToSet(Chosen)
           pairs == {[from |-> Append(Panel.cwd, n), to |-> Append(Other.cwd, n)] : n \in all}
       IN  /\ \A x \in pairs : CopyGuarded(x.from, x.to, Abs(x.to))
           /\ Clusters(tree, UNION {Under(tree, x.from) : x \in pairs}) > Free(tree, lost)
                => "full volume" \in Risky
           /\ job' = Asked("copy", pairs, Panel.cwd)
    /\ here' = Syncs(Panel)
    /\ calls' = <<[Frame("F5", Abs(Panel.cwd), Abs(Other.cwd)) EXCEPT !.data = Chosen]>>
    /\ UNCHANGED <<tree, lost, pool, panels, active>>

HandleF8 ==
    /\ Waits /\ Turn
    /\ LET pairs == {[from |-> Append(Panel.cwd, n), to |-> << >>] : n \in ToSet(Chosen)}
       IN  /\ \A x \in pairs : RemoveGuarded(x.from, Panel.cwd)
           /\ job' = Asked("remove", pairs, Panel.cwd)
    /\ here' = Syncs(Panel)
    /\ calls' = <<[Frame("F8", Abs(Panel.cwd), Abs(Panel.cwd)) EXCEPT
                     !.data = Chosen, !.saved = here]>>
    /\ UNCHANGED <<tree, lost, pool, panels, active>>

NextChosen ==
    /\ calls # << >> /\ Top.fn \in {"F5", "F8"}
    /\ Top.data # << >>
    /\ LET n == Head(Top.data)
           rest == [Top EXCEPT !.data = Tail(@)]
       IN  Does(rest, IF Top.fn = "F5" THEN Frame("copy_tree", Rel(n), Below1(Top.dst, n))
                      ELSE Frame("remove_tree", Rel(n), Rel(n)))
    /\ UNCHANGED <<tree, lost, here, pool, job, panels, active, turns>>

ChosenDone ==
    /\ calls # << >> /\ Top.fn \in {"F5", "F8"} /\ Top.pc = "start"
    /\ Top.data = << >>
    /\ GoesOn([Top EXCEPT !.pc = "done"])
    /\ job' = [job EXCEPT !.over = TRUE]
    /\ UNCHANGED <<tree, lost, here, pool, panels, active, turns>>

ChosenEnds ==
    /\ calls # << >> /\ Top.fn \in {"F5", "F8"} /\ Top.pc = "done"
    /\ BothRead(panels, tree, IF Top.fn = "F8" THEN Went(tree, here, Top.saved) ELSE here)
    /\ calls' = << >>
    /\ job' = NoJob
    /\ UNCHANGED <<tree, lost, pool, active, turns>>

\* The command line: the active panel's directory is where the command runs.
ShellPrompt ==
    /\ Waits /\ Turn
    /\ here' = Syncs(Panel)
    /\ \E c \in Commands :
         /\ Guarded(c, Panel.cwd)
         /\ calls' = <<Frame(c.prog, c.src, c.dst), Frame("prompt", c.src, c.dst)>>
         /\ job' = Asked(Kind(c.prog), Pairs(c, Panel.cwd), Panel.cwd)
    /\ UNCHANGED <<tree, lost, pool, panels, active>>

PromptEnds ==
    /\ In("prompt", "start") /\ job.over
    /\ BothRead(panels, tree, here)
    /\ calls' = << >>
    /\ job' = NoJob
    /\ UNCHANGED <<tree, lost, pool, active, turns>>

-----------------------------------------------------------------------------

Unread == [cwd |-> << >>, list |-> << >>, marked |-> {}, sel |-> 0, scroll |-> 0]

Init ==
    /\ tree = StartTree
    /\ lost = 0
    /\ here = << >>
    /\ pool = 0
    /\ calls = << >>
    /\ job = NoJob
    /\ panels = [s \in Sides |-> Refreshed(StartTree, << >>, Unread).panel]
    /\ active = "left"
    /\ turns = 0

GoOn ==
    \/ Step /\ UNCHANGED <<panels, active, turns>>
    \/ NextChosen \/ ChosenDone \/ ChosenEnds \/ PromptEnds

Next ==
    \/ MovesCursor \/ Tab \/ EnterDir \/ ViewsDir \/ ParentDir \/ Views \/ GoesThere \/ Launches
    \/ HandleF6 \/ HandleF7 \/ HandleShiftF4 \/ HandleF5 \/ HandleF8 \/ ShellPrompt
    \/ GoOn

\* A program that runs goes on: nothing takes the machine from it.  Keys are
\* the user's.
Spec == Init /\ [][Next]_ncdVars /\ WF_ncdVars(GoOn)

-----------------------------------------------------------------------------
(* Properties                                                              *)

\* While NCD waits for a key each panel shows what its directory holds, that
\* directory exists, the cursor is on an entry, and the window has no row
\* behind the last entry that could show one in front.
PanelsTrue ==
    Waits => \A s \in Sides :
        LET p == panels[s]
            count == Len(p.list)
        IN  /\ DirIn(tree, p.cwd)
            /\ p.list = Sorted(tree, p.cwd)
            /\ count > 0 => p.sel < count
            /\ p.scroll > 0 => p.scroll + Rows <= count

\* "Every operation that resolves names must sync it to the panel's directory
\* first": what Enter runs is the file under the cursor.
RunsShown ==
    Waits /\ OnEntry /\ ~Entry.dir /\ Entry.name \in Coms =>
        Runs(Entry.name) = Append(Panel.cwd, Entry.name)

\* Every operation ends and gives the panels back.
OperationsEnd == calls # << >> ~> calls = << >>
=============================================================================
