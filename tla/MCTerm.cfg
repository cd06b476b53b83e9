SPECIFICATION Spec
CONSTANTS
    LineMax = 5
    HistMax = 1
    NamesMax = 2
    Builtins <- TheBuiltins
    Bins <- TheBins
    Cd <- TheCd
    Names <- TheNames
    InMax = 3
    OutMax = 30
    Slack = 4
    ReadMax = 17
    AccMax = 8
    TermRows = 2
    ColMax = 4
    SpinMax = 2
    Width = 9
    Height = 2
    Banner <- TheBanner
    Finished <- TheFinished
    Missing <- TheMissing
    Help <- TheHelp
    Home0 <- Sys
    Shell <- TheShell
    Programs <- ThePrograms
    KeysFor <- TheKeys
    Chunks <- TheChunks
    Consoles = {TRUE, FALSE}
    MaxKeys <- TheMax
    MaxFaults = 1
    MaxParts = 1
INVARIANTS ScreenIsTrue TtyIsTrue DrawnIsCurrent HistoryNumbers YankRestores
PROPERTIES KeysAreTaken
CHECK_DEADLOCK FALSE
