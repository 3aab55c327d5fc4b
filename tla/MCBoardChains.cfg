SPECIFICATION Spec
CONSTANTS
    Tasks = {t1, t2, t3}
    Agents = {a}
    Legacy = {}
    Reviewers = {}
    GoalOf <- OneGoal
    Judged = {"aligned", "needs_human"}
    Leases = {0}
    MaxClaims = 2
    Grace = 0
    MaxDelay = 0
    MaxClock = 1
    None = None
SYMMETRY TaskSymmetry
INVARIANTS
    GatesCanLift
    HandoffsAcyclic
    SomeoneCanProceed
PROPERTIES
    GateStandsUntilLifted
CHECK_DEADLOCK FALSE
