\* A ring of three, a shift key, Caps Lock, a letter and a gray key.
SPECIFICATION Spec
CONSTANTS
    Size = 3
    Keys = {"shift", "caps", "letter", "gray"}
    Chars = {s}
    None = None
    WireMax = 4
VIEW Unobserved
INVARIANTS
    KeysUnderstood
    ShiftStateCurrent
PROPERTIES
    ImplementsKeyQueue
