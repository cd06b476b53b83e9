SPECIFICATION Spec
CONSTANTS
    NSock = 2
    BufSize = 1
    SegMax = 2
    PollMax = 2
    MaxSyn = 2
    Stream = 3
    MaxWire = 2
    MaxPort = 3
    MaxFaults = 2
    NetConf <- Conf
INVARIANTS AckHonest InOrder ConnectedIsAnswered
CHECK_DEADLOCK FALSE
