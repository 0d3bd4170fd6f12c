SPECIFICATION PromisesSpec
CONSTANTS
    None = None
    AlreadyReady = AlreadyReady
    Pair = {p1, p2}
    Others = {o1, o2}
    ChainNodes = {n1, n2, n3, n4}
    Root = Root
    Consumer = Consumer
    Task = {t1, t2, t3}
    Owner = {t1}
INVARIANTS
    DeletedByTheLast
    FirstWordCounts
    FirstWins
    ChainsAreSound
    ResultIsRight
    NothingDangles
    NobodyForgotten
    HandlerHearsOnce
    NothingOutlivesTheLoop
PROPERTY
    TasksEnd
CHECK_DEADLOCK FALSE
