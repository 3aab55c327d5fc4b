SPECIFICATION LedgerSpec
CONSTANTS
    Tasks = {t1}
    Agents = {a, b}
    Legacy = {}
    Reviewers = {a, h}
    GoalOf <- OneGoal
    Judged = {"aligned", "needs_human"}
    Leases = {1}
    MaxClaims = 1
    Grace = 1
    MaxDelay = 0
    MaxClock = 3
    MaxChecks = 1
    MaxTransfers = 2
    None = None
PROPERTIES
    HoledWindowNeverCertifies
CHECK_DEADLOCK FALSE
