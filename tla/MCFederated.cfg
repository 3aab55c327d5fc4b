SPECIFICATION FairFederatedSpec
CONSTANTS
    a = a
    b = b
    n1 = n1
    n2 = n2
    main = main
    topic = topic
    Agents = {a, b}
    Nodes = {n1, n2}
    Sessions <- TwoNodes
    Claimant <- AtFirstNode
    Leases = {1}
    Branches = {main, topic}
    Declared <- SwitchesAfterFirst
    Fresh = 0
    Horizon <- OneCallsLater
    MaxEvents = 3
    MaxClock = 3
    None = None
INVARIANTS
    FederatedTypeOK
    HistoryRebuildsLease
    CachedOwnerHeldClaim
PROPERTIES
    WindowFollowsCustody
    ClaimantServed
CHECK_DEADLOCK FALSE
