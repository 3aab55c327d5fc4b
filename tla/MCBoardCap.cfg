SPECIFICATION Spec
CONSTANTS
    Tasks = {t1, t2}
    Agents = {a}
    Legacy = {}
    Reviewers = {}
    GoalOf <- OneGoal
    Judged = {"aligned"}
    Leases = {1}
    MaxClaims = 1
    Grace = 1
    MaxDelay = 0
    MaxClock = 2
    None = None
INVARIANTS
    ClaimCapHolds
CHECK_DEADLOCK FALSE
