SPECIFICATION Spec
CONSTANTS
    Workers = {p, w1}
    Planner = p
    Calls = {c1}
    CallOps = {"lead", "done"}
    Repairers = {q1}
    MaxTime = 0
    MaxRevision = 1
    MaxRestarts = 1
INVARIANTS TurnsAreExclusive CompletionIsEarned
CHECK_DEADLOCK FALSE
