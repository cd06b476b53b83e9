SPECIFICATION Spec
CONSTANTS
    Paths <- MCPaths
    Modes <- MCModes
    Mounts = {"sys"}
    Stamps = {x}
    PageCount = 4
    PageBytes = 2
    MaxNode = 3
    MaxKids = 2
    MaxFd = 2
    FileMax = 3
    MaxWrite = 2
CONSTRAINT NotStray
VIEW Seen
INVARIANTS IsTree PagesOwned
PROPERTY ImplementsFiles
