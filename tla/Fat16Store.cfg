\* One handle to a file at a time, two byte values, files over two clusters.
SPECIFICATION Spec
CONSTANTS
    TotalClusters = 5
    ClusterSize = 2
    RootEntries = 2
    DirEntries = 2
    WordSize = 65536
    Names = {n1, n2}
    End = End
    Deleted = Deleted
    Handles = {h1}
    Closed = Closed
    Orphan = Orphan
    Bytes = {b1, b2}
    MaxSize = 3
    Risky = {}
SYMMETRY Symmetry
VIEW VolumeAndHandles
INVARIANTS
    ChainsExact
PROPERTIES
    ImplementsFileStore
