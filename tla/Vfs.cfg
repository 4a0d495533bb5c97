\* A root of two entries, directories that grow, a second volume.
SPECIFICATION Spec
CONSTANTS
    A = A
    B = B
    M = M
    a = a
    r = r
    u = u
    Gone = Gone
    Spellings = {A, B, M, a}
    Names = {A, B, M}
    Upper <- MCUpper
    Volumes = {r, u}
    RootVolume = r
    Mountable = {u}
    CdPaths <- MCCdPaths
    UserPaths <- MCUserPaths
    DirPaths <- MCDirPaths
    Points <- MCPoints
    Together = FALSE
    MaxMounts = 2
    Dirs <- MCDirs
    RootSlots = 2
    DirEntries = 3
    Risky = {}
VIEW Unobserved
INVARIANTS
    TypeOK
    ListingsExact
    CwdThere
PROPERTY ImplementsTreeStore
