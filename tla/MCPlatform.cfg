SPECIFICATION AllSpec
CONSTANTS
    t1 = t1
    t2 = t2
    NULL = NULL
    Parts = {"workqueue", "items", "kqueue", "tree", "splay", "lists", "table", "iocp", "callback"}
    Clients <- MCClients
    Programs <- AllPrograms
    Prios <- MCPrios
    Workers = {w1, w2, w3}
    OcWorkers = {o1, o2, o3}
    cpu_count = 2
    worker_max = 3
    WORKER_IDLE_SECONDS_THRESHOLD = 3
    SpinSettings <- MCSpin
    MaxTicks = 2
    MaxFailures = 1
INVARIANTS ScoreboardAccount ItemsServed 
              KnotesFound  ListsAgree
CHECK_DEADLOCK FALSE
