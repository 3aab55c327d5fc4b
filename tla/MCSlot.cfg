SPECIFICATION FairSlotSpec
CONSTANTS
    MaxRuns = 2
    MaxDirectives = 2
    MaxFrames = 2
    MaxFaults = 2
    Other = Other
    None = None
INVARIANTS
    SlotTypeOK
    OneWorkerPerSlot
PROPERTIES
    LeaseOutlivesWorker
    MarkerRemovedWhenSettled
    NoReplayIntoWorker
    StoppedRunIsCleared
CHECK_DEADLOCK FALSE
