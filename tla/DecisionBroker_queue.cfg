SPECIFICATION FairSpec
CONSTANTS
    Permissions = {p1, p2}
    Questions = {}
    Devices = {d1}
    QueueCap = 1
    MaxCards = 1
INVARIANTS TypeOK AllowedByUser PendingIsWaiting
PROPERTIES EveryRequestReturns
CHECK_DEADLOCK FALSE
