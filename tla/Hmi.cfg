CONSTANTS
    LEN = 7
    COUNTS = 2
    COUNT_MOD = 32
    WORD = 256
    MAX_SPEED <- FewSpeeds
    MAX_PARAM <- SmallParams
    DEFAULT_PARAM <- SmallDefaults
    Turns <- SomeTurns
    MaxInputs = 6
SPECIFICATION FairSpec
INVARIANT TypeOK
PROPERTIES KnobFollowsHand OnlyKnobSetsMotors StopServed PanicsOnlyLoweringZeroLine
CHECK_DEADLOCK FALSE
