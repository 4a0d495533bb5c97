\* Texts of four characters, a screen of two rows, rows of four columns.
SPECIFICATION Spec
CONSTANTS
    a = a
    CR = CR
    LF = LF
    Space = Space
    None = None
    Letters = {a}
    WrapCol = 4
    Cap = 4
    TextRows = 2
    ClipTexts <- MCClips
    FindTexts <- MCFind
    ReplTexts <- MCRepl
    Risky = {}
INVARIANTS
    LineEndsWhole
    CursorShown
    TopLineExact
PROPERTY ReplaceAllEnds
