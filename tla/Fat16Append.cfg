\* A handle may be moved to the end of a file of whole clusters.
SPECIFICATION Spec
CONSTANTS
    TotalClusters = 6
    ClusterSize = 2
    RootEntries = 2
    DirEntries = 2
    WordSize = 65536
    Names = {n1, n2}
    End = End
    Deleted = Deleted
    Handles = {h1}
    Closed = Closed
    Orphan = Orphan
    Bytes = {b}
    MaxSize = 3
    Risky = {"seek boundary"}
SYMMETRY Symmetry
VIEW VolumeAndHandles
INVARIANTS
    ChainsLongEnough
