SPECIFICATION FairDeliverySpec
CONSTANTS
    MaxDirectives = 3
    DeliveryBatch = 2
    ResendBatch = 2
    ClockBehind = TRUE
    MaxFaults = 2
    MaxRestores = 1
    None = None
INVARIANTS
    DeliveryTypeOK
    PrunedIsRecorded
    ServingIsReconciled
    InboxFollowsDelivery
    BacklogBounded
PROPERTIES
    ImplementsContract
    EveryDirectiveAnswered
CHECK_DEADLOCK FALSE
