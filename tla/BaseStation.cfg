CONSTANTS
    Parameters = {"reset", "zero"}
    ResetParams = "reset"
    ZeroParams = "zero"
    PanelStates <- Panel
    Efforts <- SlowEffort
SPECIFICATION FairSpec
INVARIANTS TypeOK StoppedWhenDisabled MotorFollowsSetpoint
PROPERTIES StopReaches CommandsInOrder CommandsArrive
