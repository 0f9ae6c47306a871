CONSTANTS
    Top = 3
    HOMING_DETECTED_STALL_COUNT = 2
    SEEK_FORWARD_STALL_COUNT = 2
    SEEK_REVERSE_RESOLVE_COUNT = 0
    Requests <- NoRequests
    MaxRequests = 0
    MaxErrors = 0
    MaxCount = 4
    MaxPos = 3
SPECIFICATION Spec
PROPERTY HomedAtStop
