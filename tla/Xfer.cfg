\* Every job, two faults.
SPECIFICATION FairSpec
CONSTANTS
    a = a
    b = b
    file1 = file1
    sub = sub
    file2 = file2
    None = None
    Gone = Gone
    Root = Root
    Names = {file1, file2}
    SubDirs = {sub}
    Chunks = {a, b}
    SeqLimit = 6
    MaxOpen = 3
    Space = 6
    Stored <- MCStored
    Risky = {}
    MaxFaults = 2
    Jobs <- MCJobs
INVARIANTS
    AgentSound
    UploadsExact
    StreamsExact
    
PROPERTY JobsEnd
