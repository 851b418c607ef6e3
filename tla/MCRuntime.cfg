SPECIFICATION AllSpec
CONSTANTS
    c1 = c1
    c2 = c2
    c3 = c3
    m1 = m1
    Producers = {p1, p2, p3}
    Workers = {w1, w2}
    Others = {o1}
    MaxPush = 1
    PoolSize = 1
    NULL = NULL
    AreaThreads = {c1, c2, c3}
    MaxEntries = 2
    MEDIATOR = MEDIATOR
INVARIANTS RootQueueSafe MainSerial    AreaExclusive
PROPERTY EveryPushRuns
CHECK_DEADLOCK FALSE
