SPECIFICATION Spec
CONSTANTS
    Tasks = {t1}
    Agents = {a, b, l}
    Legacy = {l}
    Reviewers = {a, b}
    GoalOf <- OneGoal
    Judged = {"aligned", "violation", "drift", "needs_human"}
    Leases = {0, 1, 2}
    MaxClaims = 1
    Grace = 1
    MaxDelay = 1
    MaxClock = 6
    None = None
INVARIANTS
    TypeOK
    ColumnsAgree
    OutcomesAreBacked
PROPERTIES
    DisplacedOnlyWhenForfeit
    TerminalIsFinal
CHECK_DEADLOCK FALSE
