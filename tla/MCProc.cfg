CONSTANTS
    ProcMax = 4
    BlockMax = 3
    MaxPid = 5
    Pages <- MCPages
    Links <- MCLinks
SPECIFICATION Spec
CHECK_DEADLOCK FALSE
INVARIANTS
    TypeOK
    PidsUnique
    WaitChain
    NoLostImage
    ReturnIsSafe
PROPERTIES
    ZombiesStayDead
    FramesKept
