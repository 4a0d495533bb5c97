------------------------------- MODULE Editor -------------------------------
(***************************************************************************)
(* The editing core of EDIT.COM: edit.c, clip.c and search.c over a text   *)
(* (what GapBuffer implements).  The editor redraws the screen, waits for  *)
(* a key, and does what the key says: a step is the key with the redraw    *)
(* that follows it.  Tabs, horizontal scrolling, colours and e_modified    *)
(* (see Document) are left out.                                            *)
(***************************************************************************)
EXTENDS Lines

CONSTANTS
    Letters,    \* the other characters, upper and lower case being one
    None,
    Cap,        \* size of the text buffer
    TextRows,   \* rows of text on the screen
    ClipTexts,  \* bound: what is cut or copied
    FindTexts, ReplTexts,   \* what is typed in the search dialogs
    Risky       \* what this model leaves out, and does when it is a member:
                \* "short join": Backspace joins the line at the top of the
                \*               screen, shorter than what it deletes, to the
                \*               line above
                \* "tall line":  with wrapping, the cursor goes so far down a
                \*               line that its row and the line's first one do
                \*               not fit on the screen together
                \* "lone CR":    a text is loaded with a CR that no LF follows,
                \*               which ends a line where one is looked for
                \*               forwards, and begins none backwards

ASSUME EditorAssumption ==
    /\ TextRows \in Nat \ {0} /\ WrapCol \in Nat \ {0, 1} /\ Cap \in Nat
    /\ CR # LF /\ Space \notin {CR, LF} /\ Letters \cap {CR, LF, Space} = {}
    /\ None \notin Nat

\* A dialog's field takes printable characters only (dlg_field_key), and an empty
\* text is not looked for.
ASSUME DialogAssumption ==
    /\ FindTexts \subseteq Seq(Letters \cup {Space}) \ {<< >>}
    /\ ReplTexts \subseteq Seq(Letters \cup {Space})
    /\ None \notin [find : FindTexts, repl : ReplTexts, all : BOOLEAN, asks : BOOLEAN]

VARIABLES
    text,
    cur,            \* e_cur
    top, topline,   \* e_top, e_topline: the first line on the screen
    row,            \* e_currow
    pref,           \* e_prefcol
    sel,            \* e_selanchor, or None when e_selon is 0
    wrap,           \* menu_wrap_flag
    clip,           \* the clipboard, empty when there is none
    task            \* the replacement under way, or None

vars == <<text, cur, top, topline, row, pref, sel, wrap, clip, task>>

Chars == Letters \cup {CR, LF, Space}

ColOf(t, p)       == p - LineHome(t, p)
PosAtCol(t, h, w) == Least(h + w, LineEnd(t, h))

-----------------------------------------------------------------------------
(* ensure_visible                                                          *)

RowsOf(t, h) == IF wrap' THEN Cardinality(RowStarts(t, h, LineEnd(t, h))) ELSE 1
After(t, h)  == NextLine(t, LineEnd(t, h))

\* Rows from the line at h down to the line at home.
RowsTo(t, h, home) ==
    LET sum[p \in 0 .. Len(t)] == IF p >= home THEN 0 ELSE RowsOf(t, p) + sum[After(t, p)]
    IN  sum[h]
\* Rows of the cursor's own line above the one the cursor is in.
RowsIn(t, c, h) ==
    IF wrap' THEN Cardinality({s \in RowStarts(t, h, LineEnd(t, h)) : h < s /\ s <= c}) ELSE 0

\* The screen goes up, a line at a time, from h until home is on it: [top, up].
Up(t, h, home) ==
    LET up[p \in 0 .. Len(t)] ==
          IF p <= home THEN [top |-> p, up |-> 0]
          ELSE [up[PrevLine(t, p)] EXCEPT !.up = @ + 1]
    IN  up[h]

DownLate(t, h, r) ==
    LET down[x \in (0 .. Len(t)) \X Int] ==
          IF x[2] <= TextRows THEN [top |-> x[1], down |-> 0, row |-> x[2]]
          ELSE [down[<<After(t, x[1]), x[2] - RowsOf(t, x[1])>>] EXCEPT !.down = @ + 1]
    IN  down[<<h, r>>]

\* The screen goes down from h until the r-th row from there is on it; x is a line
\* and the row's number from there.
Down(t, h, r) ==
    LET down[x \in (0 .. Len(t)) \X Int] ==
          IF x[2] < TextRows THEN [top |-> x[1], down |-> 0, row |-> x[2]]
          ELSE IF x[2] < RowsOf(t, x[1])
          THEN [top |-> After(t, x[1]), down |-> 1, row |-> 0]
          ELSE [down[<<After(t, x[1]), x[2] - RowsOf(t, x[1])>>] EXCEPT !.down = @ + 1]
    IN  down[<<h, r>>]

\* The redraw with the screen so far at h, line l.  A deletion may have left h
\* past the end of the text: what is read there is what follows the block.
Redraw(h, l) ==
    \E beyond \in IF h > Len(text') THEN [1 .. 2 -> {CR, LF, Space}] ELSE {<< >>},
       home \in {LineHome(text', cur')} :
    \E u \in {Up(text' \o beyond, LineHome(text' \o beyond, h), home)} :
    \E r \in {RowsIn(text', cur', home)} :
    \E d \in {Down(text', u.top, RowsTo(text', u.top, home) + r)} :
        /\ r >= TextRows => "tall line" \in Risky
        /\ top' = d.top
        /\ topline' = Max({1, l - u.up}) + d.down
        /\ row' = d.row

-----------------------------------------------------------------------------
(* edit_render: what the redraw leaves on the screen.                      *)

\* A row: from column 0 on its cells show the characters of [from, to).
RenderLine(from, to) == [from |-> from, to |-> to]

\* The rows of the line at h, one unless lines are wrapped.
RowsPainted(h) ==
    LET e        == LineEnd(text, h)
        starts   == RowStarts(text, h, e)
        start(i) == CHOOSE s \in starts : Cardinality({q \in starts : q < s}) = i - 1
    IN  IF wrap
        THEN [i \in 1 .. Cardinality(starts) |-> RenderLine(start(i), RowEnd(text, start(i), e))]
        ELSE <<RenderLine(h, e)>>

\* From the top of the screen to its bottom or the end of the text; x is a line and
\* the number of rows left.
EditRender ==
    LET paint[x \in (0 .. Len(text)) \X (0 .. TextRows)] ==
          LET rows == RowsPainted(x[1])
              e    == LineEnd(text, x[1])
          IN  IF Len(rows) >= x[2] THEN SubSeq(rows, 1, x[2])
              ELSE IF e >= Len(text) THEN rows
              ELSE rows \o paint[<<NextLine(text, e), x[2] - Len(rows)>>]
    IN  paint[<<top, TextRows>>]

\* e_curcol: the columns from the start of the cursor's row; 0 in an empty line.
CurCol ==
    LET home == LineHome(text, cur)
        e    == LineEnd(text, home)
    IN  IF ~wrap THEN cur - home
        ELSE IF e = home THEN 0
        ELSE cur - Max({s \in RowStarts(text, home, e) : s <= cur})

EditPlaceCursor == [row |-> row + 1, col |-> CurCol]

-----------------------------------------------------------------------------
(* Selections                                                              *)

\* The selection of a cursor c and an anchor a, <<lo, hi>>, empty if there is
\* none; the state with it deleted.
Selected(c, a) == IF a = None THEN <<c, c>> ELSE <<Least(a, c), Max({a, c})>>
Empty(s)       == s[1] = s[2]

WithoutSelectionOnly(c, a) ==
    LET s == Selected(c, a)
    IN  [text |-> Deleted(text, s[1], s[2] - s[1]), cur |-> s[1], top |-> Least(top, s[1]),
         line |-> topline, fits |-> FALSE]

WithoutSelection(c, a) ==
    LET s == Selected(c, a)
        t == Deleted(text, s[1], s[2] - s[1])
        h == LineHome(t, s[1])
    IN  IF Empty(s)
        THEN [text |-> text, cur |-> c, top |-> top, line |-> topline,
              fits |-> FALSE]
        ELSE [text |-> t, cur |-> s[1], fits |-> FALSE,
              top  |-> IF s[1] < top THEN h ELSE top,
              line |-> IF s[1] < top THEN CountLine(t, h) ELSE topline]

ReplacedInPlace(c, a, s) ==
    LET w == WithoutSelection(c, a)
    IN  IF Len(w.text) + Len(s) <= Cap
        THEN [w EXCEPT !.text = Inserted(w.text, w.cur, s), !.fits = TRUE]
        ELSE w

\* edit_insert_str, ins_char: s replaces the selection; the selection is gone
\* even when s does not fit.
Replaced(c, a, s) ==
    LET w == WithoutSelection(c, a)
    IN  IF Len(w.text) + Len(s) <= Cap
        THEN [w EXCEPT !.text = Inserted(w.text, w.cur, s), !.cur = w.cur + Len(s),
                       !.fits = TRUE]
        ELSE w
Becomes(w) == text' = w.text /\ cur' = w.cur /\ sel' = None
PrefAfter(w, old) == pref' = IF w.fits THEN ColOf(w.text, w.cur) ELSE old

Ready == task = None

-----------------------------------------------------------------------------
(* edit_handle                                                             *)

Vertical(c, lines) ==
    LET move[k \in Nat] ==
          IF k = 0 THEN c
          ELSE LET p == move[k - 1]
               IN  IF lines < 0
                   THEN IF LineHome(text, p) = 0 THEN p
                        ELSE PosAtCol(text, PrevLine(text, LineHome(text, p)), pref)
                   ELSE IF LineEnd(text, p) >= Len(text) THEN p
                        ELSE PosAtCol(text, After(text, p), pref)
    IN  move[IF lines < 0 THEN -lines ELSE lines]

LeftOne(c) == IF c = 0 THEN c ELSE c - 1
Left(c) ==
    IF c = 0 THEN c ELSE IF IsPair(text, c - 2) THEN c - 2 ELSE c - 1
Right(c) ==
    IF c >= Len(text) THEN c
    ELSE IF At(text, c) \in {CR, LF} THEN NextLine(text, c) ELSE c + 1

Goes(c, column) == cur' = c /\ pref' = column
Keeps(c)        == Goes(c, ColOf(text, c))

CmdHome == Goes(LineHome(text, cur), 0)
CmdEnd  == Keeps(LineEnd(text, cur))

\* A cursor key; with Shift it starts or extends a selection.
Nav(shift) ==
    /\ Ready
    /\ sel' = IF ~shift THEN None ELSE IF sel = None THEN cur ELSE sel
    /\ UNCHANGED <<text, wrap, clip, task>>
    /\ \/ /\ \/ \E k \in {-1, 1, 1 - TextRows, TextRows - 1} : Goes(Vertical(cur, k), pref)
             \/ IF Left(cur) = cur THEN Goes(cur, pref) ELSE Keeps(Left(cur))
             \/ IF Right(cur) = cur THEN Goes(cur, pref) ELSE Keeps(Right(cur))
             \/ CmdHome
             \/ CmdEnd
             \/ Keeps(Len(text))
          /\ Redraw(top, topline)
       \/ Goes(0, 0) /\ Redraw(0, 1)

\* A printable character, or a line end; Enter leaves column 0 preferred.
Insert(s) ==
    /\ Ready
    /\ UNCHANGED <<wrap, clip, task>>
    /\ LET w == Replaced(cur, sel, s)
       IN  /\ Becomes(w)
           /\ PrefAfter(w, pref)
           /\ Redraw(w.top, w.line)

InsChar  == \E c \in Letters \cup {Space} : Insert(<<c>>)
CmdEnter == Insert(<<CR, LF>>)

\* Backspace and Del with a selection.
DelSelection ==
    /\ Ready /\ ~Empty(Selected(cur, sel))
    /\ UNCHANGED <<wrap, clip, task>>
    /\ LET w == WithoutSelection(cur, sel)
       IN  Becomes(w) /\ pref' = ColOf(w.text, w.cur) /\ Redraw(w.top, w.line)

\* What was deleted reaches past the line it joined, so that the old place of
\* that line is in a later one, or past the end.
ShortJoin ==
    cur = top /\ (top > Len(text') \/ LineHome(text', top) # LineHome(text', cur'))

CmdBackspace ==
    /\ Ready /\ Empty(Selected(cur, sel)) /\ cur > 0
    /\ UNCHANGED <<wrap, clip, task>>
    /\ sel' = None
    /\ cur' = Left(cur)
    /\ text' = Deleted(text, cur', cur - cur')
    /\ pref' = ColOf(text', cur')
    /\ ShortJoin => "short join" \in Risky
    /\ Redraw(top, IF cur = top /\ topline > 1 THEN topline - 1 ELSE topline)

CmdDel ==
    /\ Ready /\ Empty(Selected(cur, sel)) /\ cur < Len(text)
    /\ sel' = None
    /\ text' = Deleted(text, cur, Right(cur) - cur)
    /\ UNCHANGED <<cur, pref, wrap, clip, task>>
    /\ Redraw(top, topline)

NothingToDelete ==
    /\ Ready /\ sel = cur /\ cur \in {0, Len(text)}
    /\ sel' = None
    /\ UNCHANGED <<text, cur, top, topline, row, pref, wrap, clip, task>>

-----------------------------------------------------------------------------
(* The clipboard; SYSCALL_ALLOC may have no room for a new one, and the    *)
(* old one is given up first.                                              *)

SelectedText == LET s == Selected(cur, sel) IN SubSeq(text, s[1] + 1, s[2])
ClipSet == {SelectedText, << >>}

EditCopy ==
    /\ Ready /\ SelectedText \in ClipTexts
    /\ clip' \in ClipSet
    /\ UNCHANGED <<text, cur, top, topline, row, pref, sel, wrap, task>>

EditCut ==
    /\ Ready /\ SelectedText \in ClipTexts
    /\ clip' \in ClipSet
    /\ UNCHANGED <<wrap, task>>
    /\ IF clip' = << >>
       THEN UNCHANGED <<text, cur, top, topline, row, pref, sel>>
       ELSE LET w == WithoutSelection(cur, sel)
            IN  Becomes(w) /\ pref' = ColOf(w.text, w.cur) /\ Redraw(w.top, w.line)

EditPaste ==
    /\ Ready /\ clip # << >>
    /\ UNCHANGED <<wrap, clip, task>>
    /\ LET w == Replaced(cur, sel, clip)
       IN  /\ Becomes(w)
           /\ PrefAfter(w, pref)
           /\ Redraw(w.top, w.line)

ToggleWrap ==
    /\ Ready
    /\ wrap' = ~wrap
    /\ UNCHANGED <<text, cur, pref, sel, clip, task>>
    /\ Redraw(top, topline)

-----------------------------------------------------------------------------
(* search.c                                                                *)

Matches(f) == {p \in 0 .. Len(text) - Len(f) : SubSeq(text, p + 1, p + Len(f)) = f}
SearchNext(f, from) ==
    LET found == {p \in Matches(f) : p >= from} IN IF found = {} THEN None ELSE Min(found)

\* edit_select
Select(lo, hi) ==
    /\ cur' = hi
    /\ sel' = IF lo = hi THEN None ELSE lo
    /\ pref' = ColOf(text, hi)

\* From the cursor, and once more from the top.
FindAndSelect(f) ==
    /\ Ready
    /\ UNCHANGED <<text, wrap, clip, task>>
    /\ Matches(f) # {}
    /\ LET p == IF SearchNext(f, cur) # None THEN SearchNext(f, cur) ELSE SearchNext(f, 0)
       IN  Select(p, p + Len(f))
    /\ Redraw(top, topline)

Erstatt(f, r) ==
    /\ Ready
    /\ task' = [find |-> f, repl |-> r, all |-> FALSE, asks |-> FALSE]
    /\ UNCHANGED <<text, cur, top, topline, row, pref, sel, wrap, clip>>

\* The loop looks for the next match: none is left; it is shown and asked
\* about; or, after Alle, it is replaced and nothing is drawn.
ReplaceEnds ==
    /\ ~Ready /\ ~task.asks
    /\ SearchNext(task.find, cur) = None
    /\ task' = None
    /\ UNCHANGED <<text, cur, pref, sel, wrap, clip>>
    /\ Redraw(top, topline)

ReplaceAsks ==
    /\ ~Ready /\ ~task.asks /\ ~task.all
    /\ LET p == SearchNext(task.find, cur)
       IN  p # None /\ Select(p, p + Len(task.find))
    /\ task' = [task EXCEPT !.asks = TRUE]
    /\ UNCHANGED <<text, wrap, clip>>
    /\ Redraw(top, topline)

ReplaceStep ==
    /\ ~Ready /\ task.all
    /\ LET p == SearchNext(task.find, cur)
           w == Replaced(p + Len(task.find), p, task.repl)
       IN  /\ p # None
           /\ Becomes(w)
           /\ PrefAfter(w, ColOf(text, p + Len(task.find)))
           /\ top' = w.top /\ topline' = w.line
    /\ UNCHANGED <<row, wrap, clip, task>>

Answer(a) ==
    /\ ~Ready /\ task.asks
    /\ UNCHANGED <<wrap, clip>>
    /\ \/ a = "avbryt" /\ task' = None
          /\ UNCHANGED <<text, cur, pref, sel>>
          /\ Redraw(top, topline)
       \/ a = "nei" /\ task' = [task EXCEPT !.asks = FALSE]
          /\ Select(cur, cur)
          /\ UNCHANGED <<text, top, topline, row>>
       \/ /\ a \in {"ja", "alle"}
          /\ task' = [task EXCEPT !.asks = FALSE, !.all = (a = "alle")]
          /\ LET w == Replaced(cur, sel, task.repl)
             IN  /\ Becomes(w)
                 /\ PrefAfter(w, pref)
                 /\ top' = w.top /\ topline' = w.line
          /\ UNCHANGED row

Replacing == ReplaceEnds \/ ReplaceAsks \/ ReplaceStep

-----------------------------------------------------------------------------
LoneCR(t) == {p \in 0 .. Len(t) - 1 : At(t, p) = CR /\ ~IsPair(t, p)}

\* Any text that is loaded.
Init ==
    /\ text \in UNION {[1 .. n -> Chars] : n \in 0 .. Cap - 1}
    /\ LoneCR(text) # {} => "lone CR" \in Risky
    /\ cur = 0 /\ top = 0 /\ topline = 1 /\ row = 0 /\ pref = 0
    /\ sel = None /\ wrap = FALSE /\ clip = << >> /\ task = None

Next ==
    \/ \E shift \in BOOLEAN : Nav(shift)
    \/ InsChar \/ CmdEnter \/ DelSelection \/ CmdBackspace \/ CmdDel
    \/ NothingToDelete
    \/ EditCopy \/ EditCut \/ EditPaste \/ ToggleWrap
    \/ \E f \in FindTexts : FindAndSelect(f)
    \/ \E f \in FindTexts, r \in ReplTexts : Erstatt(f, r)
    \/ Replacing
    \/ \E a \in {"ja", "nei", "alle", "avbryt"} : Answer(a)

Spec == Init /\ [][Next]_vars

-----------------------------------------------------------------------------
\* No command leaves half of a CR LF, neither in the text nor in the clipboard;
\* the cursor, the top of the screen and the anchor of the selection stand in
\* the text after every command that shortens it, and never inside a CR LF.
LineEndsWhole ==
    /\ LoneCR(text) = {} /\ LoneCR(clip) = {}
    /\ Len(text) <= Cap /\ top \in 0 .. Len(text)
    /\ cur \in 0 .. Len(text) /\ ~IsPair(text, cur - 1)
    /\ sel # None => sel \in 0 .. Len(text) /\ ~IsPair(text, sel - 1)

\* Whenever a key is awaited the cursor is on the screen, and where
\* edit_place_cursor puts it is the cell in which edit_render has just painted
\* the character at the cursor, or the one behind the end of its row.
Waiting == task = None \/ task.asks
CursorShown ==
    Waiting =>
        \E rows \in {EditRender}, cell \in {EditPlaceCursor} :
          /\ cell.row \in DOMAIN rows
          /\ cur = rows[cell.row].from + cell.col
          /\ cell.col >= 0 /\ cur <= rows[cell.row].to

\* "1-based line number of e_top" (edit.h): it is counted along, one line at a
\* time, and never looked up, and it is still right.
TopLineExact == Waiting => topline = CountLine(text, top)

\* Replacing all ends whatever the replacement contains: every round leaves
\* less text after the cursor, where the next match is looked for.
ReplaceAllEnds ==
    [][task # None /\ task' = task => Len(text') - cur' < Len(text) - cur]_vars
=============================================================================
