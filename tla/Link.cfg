CONSTANTS
    SIZE = 2
    PIPE = 2
    UART = 2
    FRAMING = 4
    Directions = {"setpoints", "reports"}
    MaxSent = 4
    MaxLost = 3
SPECIFICATION FairSpec
INVARIANT TypeOK
PROPERTIES LinksFrames FramesArrive
CHECK_DEADLOCK FALSE
