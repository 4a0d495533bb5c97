\* Any interleaving of calls, files opened twice included.
SPECIFICATION Spec
CONSTANTS
    TotalClusters = 6
    ClusterSize = 2
    RootEntries = 2
    DirEntries = 2
    WordSize = 65536
    Names = {n1, n2}
    End = End
    Deleted = Deleted
    Handles = {h1, h2}
    Closed = Closed
    Orphan = Orphan
    Bytes = {b}
    MaxSize = 3
    Risky = {"shared file"}
SYMMETRY Symmetry
VIEW VolumeAndHandles
INVARIANTS
    TypeOK
    ChainsSound
    NothingLeaked
    EntriesFound
    ChainsLongEnough
    DirectoriesSound
    HandlesSound
