SPECIFICATION FairSpec
CONSTANTS
    Workers = {p, w1}
    Planner = p
    Calls = {}
    CallOps = {}
    Repairers = {}
    MaxTime = 1
    MaxRevision = 2
    MaxRestarts = 0
INVARIANTS TypeOK AcknowledgedIsCarried
PROPERTIES WorkersEnd UnsavedRunBlocks
CHECK_DEADLOCK FALSE
