SPECIFICATION Spec
CONSTANTS
    Clients = {c1, c2, c3}
    Hosted = {c3}
    Deaf = {c2}
    WinMax = 2
    WmMax = 2
    MaxId = 3
    EvtMax = 2
    Keys = {k}
    Points = {}
    Sizes = {1, 2}
    PageCount = 3
INVARIANTS PixelsOwned WmPaintsLivePixels DrawsInWindow
PROPERTY DrawnIsSeen
