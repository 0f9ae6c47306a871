CONSTANTS
    MINIMUM_SPS = 100
    MAXIMUM_SPS = 2000
    MINIMUM_TRANSITION_SPS = 500
    ACCEL_SPS_PER_INTERVAL = 600
    ACCEL_SPS_PER_SECOND = 60000
    TICK_HZ = 1000000
    STEP_INTERVAL = 10000
    APPROACHING_STEP_INTERVAL = 10000
    TARGET_REACHED_EPSILON = 10
    TARGET_CLOSE_EPSILON = 500
    LOOP_LIMIT = 1022
    Velocities <- AllVelocities
    PositionMoves <- NearMoves
    DirPinOutcomes = {TRUE, FALSE}
    ArmOutcomes = {TRUE, FALSE}
    Interrupt = TRUE
    MaxSent = 3
    MaxPosition = 1
SPECIFICATION FairSpec
INVARIANTS TypeOK RampConsistent StopLeavesNothing BurstFits
PROPERTIES SmoothMotion ReversalKeepsCount StopCompletes
CHECK_DEADLOCK FALSE
