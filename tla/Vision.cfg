CONSTANTS
    WIDTH = 5
    HEIGHT = 4
    Brightness <- Pictures
    ZeroLines = {0, 2, 132}
    Gains = {1, 12, 100}
    Speeds = {20, 90}
SPECIFICATION Spec
INVARIANTS TypeOK FilterIsExact LineIsNoOutlier KnifeClosesError
CHECK_DEADLOCK FALSE
