SPECIFICATION Spec
CONSTANTS
    Workers = {p, w1}
    Planner = p
    Calls = {c1}
    CallOps = {"active", "lead"}
    Repairers = {q1}
    MaxTime = 0
    MaxRevision = 2
    MaxRestarts = 0
SYMMETRY Symmetry
INVARIANTS AcknowledgedIsCarried
CHECK_DEADLOCK FALSE
