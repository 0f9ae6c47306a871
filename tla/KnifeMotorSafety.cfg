CONSTANTS
    Top = 2
    HOMING_DETECTED_STALL_COUNT = 2
    SEEK_FORWARD_STALL_COUNT = 2
    SEEK_REVERSE_RESOLVE_COUNT = 0
    Requests <- AllRequests
    MaxRequests = 2
    MaxErrors = 1
    MaxCount = 3
    MaxPos = 2
SPECIFICATION FairSpec
INVARIANTS TypeOK HomeGate StopMeansStop UnbrokenSeekTouchesCable
PROPERTIES HomingCompletes CountedHomingAtStop SeekSettles
