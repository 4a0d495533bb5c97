\* Two files, a directory in a directory, every command once from every view.
SPECIFICATION Spec
CONSTANTS
    a = a
    sub = sub
    e = e
    one = one
    two = two
    Spellings = {a, sub, e}
    Names = {a, sub, e}
    Upper <- MCUpper
    Dir = Dir
    Capacity = 16
    PoolSize = 2
    Risky = {}
    Order <- MCOrder
    Rows = 1
    WordSize = 6
    Commands <- MCCommands
    NewNames = {a, e}
    StartTree <- MCTree
    MaxTurns = 1
    Coms = {a}
    Bin <- MCBin
INVARIANTS
    DoneAsAsked
    OnlyTargets
    MoveKeeps
    LeavesNothing
    PanelsTrue
PROPERTY
    OperationsEnd
