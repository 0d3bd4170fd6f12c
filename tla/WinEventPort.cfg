SPECIFICATION FairSpec
CONSTANTS
    None = None
    HeadSlot = HeadSlot
    Observer = {o1, o2, o3}
    Handle = {a, m1, m2}
    AutoReset = {a}
    Mutex = {m2}
    MaxHandles = 3
INVARIANTS
    ListOK
PROPERTIES
    OneSignalOnePromise
    NobodyStarves
CHECK_DEADLOCK FALSE
