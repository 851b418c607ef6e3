SPECIFICATION SafeSpec
CONSTANTS
    c1 = c1
    c2 = c2
    w1 = w1
    q1 = q1
    q2 = q2
    t1 = t1
    t2 = t2
    t3 = t3
    NULL = NULL
    Parts = {"group"}
    Threads = {t1, t2, t3}
    Orig = 7
    Ops <- RaceOps
    PromptOps <- RaceOps
    MaxCalls <- GroupCalls
    StoreBuffer = TRUE
    MaxIterations = 4
    CPUs = 3
    MaxCPUs = 256
    Queues <- SomeQueues
    WordSize = 8
INVARIANT NotifiedAfterEmpty
CHECK_DEADLOCK FALSE
