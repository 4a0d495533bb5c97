\* A file that is there is saved over.
SPECIFICATION Spec
CONSTANTS
    Chars = {a, b}
    Cap = 3
    Dirs = {d, e}
    Names = {n}
    None = None
    Absent = Absent
    MaxText = 2
    Risky = {}
INVARIANT SavesUnlessFull
