\* Two directories, one name in each, a buffer of three characters.
SPECIFICATION Spec
CONSTANTS
    Chars = {a, b}
    Cap = 3
    Dirs = {d, e}
    Names = {n}
    None = None
    Absent = Absent
    MaxText = 2
    Risky = {}
SYMMETRY Symmetry
INVARIANTS
    UnmodifiedIsSaved
PROPERTY KeepsEdits
