SPECIFICATION ThreadsSpec
CONSTANTS
    Thread = {t1, t2, t3}
    None = None
    Worker = {w1, w2}
    MaxLocks = 2
INVARIANTS
    ReadIsSafe
    Guarded
    JoinTells
PROPERTIES
    MadeOnce
    DisableIsFinal
    ThreadsEnd
CHECK_DEADLOCK FALSE
