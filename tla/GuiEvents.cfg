SPECIFICATION RingSpec
CONSTANTS
    EvtMax = 5
    Keys = {k1, k2}
    Points = {up, down}
    Sizes = {small, large}
    Point0 = up
    Size0 = small
PROPERTIES IsAQueue ResizeArrives
