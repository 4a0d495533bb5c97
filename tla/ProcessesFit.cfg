\* 416 KB: exactly as many nested programs as there are contexts.
SPECIFICATION Spec
CONSTANTS
    ComSegment = 12288
    ProcParas = 1536
    PctxMax = 8
    RamParas = 26624
    Blocks = {1024, 4096}
    Kernel = Kernel
INVARIANTS
    TypeOK
    LastStartedRuns
    MemorySeparate
PROPERTIES
    ExitReclaims
