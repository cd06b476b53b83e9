SPECIFICATION Spec
CONSTANTS
    Paths <- MCPaths
    Modes <- MCModes
    Stamps = {x}
    Hello = "hello"
    RootSlots = 2
    PerClus = 2
    LastClus = 4
    MaxFd = 2
    MaxWrite = 2
    MaxCuts = 1
CONSTRAINT Sparing
VIEW Seen
INVARIANTS Sound NothingLost ReadsTheFile
PROPERTY ImplementsFiles
