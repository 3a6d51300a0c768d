SPECIFICATION Spec
CONSTANTS
    Workers = {p, w1, w2}
    Planner = p
    Calls = {c1, c2}
    CallOps = {"resolve"}
    Repairers = {}
    MaxTime = 0
    MaxRevision = 0
    MaxRestarts = 0
SYMMETRY Symmetry
INVARIANTS RetriedOnce
CHECK_DEADLOCK FALSE
