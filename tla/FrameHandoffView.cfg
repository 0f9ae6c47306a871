CONSTANTS
    Modes = {"Manual", "Vision"}
    ControlTask = TRUE
    GENERATIONS = 4
SPECIFICATION Spec
INVARIANT ViewInvariant
