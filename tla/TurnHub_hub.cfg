SPECIFICATION FairSpec
CONSTANTS
    Sessions = {s1, s2}
    Turns = {t1, t2}
    Writers = {w1}
    NoTurn = NoTurn
    NoWriter = NoWriter
INVARIANTS TypeOK NoOrphanEntry AnnouncedExactlyOnce
PROPERTIES StopFreesSession CancelEndsGoroutine
CHECK_DEADLOCK FALSE
