SPECIFICATION SlotSpec
CONSTANTS
    MaxRuns = 1
    MaxDirectives = 2
    MaxFrames = 4
    MaxFaults = 0
    Other = Other
    None = None
INVARIANTS
    ForcedStopIsRecorded
CHECK_DEADLOCK FALSE
