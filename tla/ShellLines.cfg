\* Three slots, lines of three stages, a shell in a shell, programs that leave
\* files open.
SPECIFICATION Spec
CONSTANTS
    MaxOpenFiles = 3
    Paths = {"OUT", "WORK", "DEMO.BAT", "PIPE0", "PIPE1", "PIPE2"}
    Targets = {"OUT"}
    Work = {"WORK"}
    Bytes = {b}
    None = None
    MaxStages = 3
    MaxDepth = 2
    MaxBytes = 2
    Space = 4
    Risky = {}
VIEW Unobserved
INVARIANTS
    Directed
    HandlesAccounted
PROPERTIES
    ImplementsStreams
