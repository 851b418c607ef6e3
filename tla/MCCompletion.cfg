SPECIFICATION AllSpec
CONSTANTS
    c1 = c1
    c2 = c2
    w1 = w1
    q1 = q1
    q2 = q2
    t1 = t1
    t2 = t2
    t3 = t3
    NULL = NULL
    Parts = {"queue", "apply", "group", "late"}
    Threads = {t1, t2, t3}
    Orig = 7
    Ops <- NotifyOps
    PromptOps <- EveryOp
    MaxCalls <- GroupCalls
    StoreBuffer = TRUE
    MaxIterations = 4
    CPUs = 3
    MaxCPUs = 256
    Queues <- SomeQueues
    WordSize = 8
INVARIANTS
    QueueLife
    EachIndexOnce
    FrameAlive
    SleepersCovered
    EachNotifiedOnce
    GroupAlive
PROPERTY NothingOwed
CHECK_DEADLOCK FALSE
