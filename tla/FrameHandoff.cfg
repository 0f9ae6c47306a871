CONSTANTS
    Modes = {"Manual", "Vision"}
    ControlTask = TRUE
    GENERATIONS = 4
SPECIFICATION FairSpec
INVARIANTS TypeOK ReadsLentFrame
PROPERTIES NoFrameLost ModeTaken FramesKeepComing
