SPECIFICATION RescueSpec
CONSTANTS
    Tasks = {t1, t2}
    Agents = {r, a, l}
    Legacy = {l}
    Reviewers = {h}
    GoalOf <- OneGoal
    Judged = {"aligned"}
    Leases = {1}
    MaxClaims = 1
    Grace = 1
    MaxDelay = 0
    MaxClock = 4
    Rescuer = r
    Horizon = 1
    None = None
PROPERTIES
    NothingStranded
CHECK_DEADLOCK FALSE
