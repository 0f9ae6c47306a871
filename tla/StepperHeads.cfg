CONSTANTS
    MINIMUM_SPS = 100
    MAXIMUM_SPS = 10000
    MINIMUM_TRANSITION_SPS = 500
    ACCEL_SPS_PER_INTERVAL = 600
    ACCEL_SPS_PER_SECOND = 60000
    TICK_HZ = 1000000
    STEP_INTERVAL = 10000
    APPROACHING_STEP_INTERVAL = 10000
    TARGET_REACHED_EPSILON = 10
    TARGET_CLOSE_EPSILON = 500
    LOOP_LIMIT = 1022
    Velocities = {}
    PositionMoves <- ForwardMoves
    DirPinOutcomes = {TRUE}
    ArmOutcomes = {TRUE}
    Interrupt = FALSE
    MaxSent = 2
    MaxPosition = 3000
SPECIFICATION Spec
INVARIANT HeadsForTarget
CHECK_DEADLOCK FALSE
