SPECIFICATION AllSpec
CONSTANTS
    Threads = {t1, t2, t3}
    Orig = 1
    MaxSignals = 2
    NULL = NULL
INVARIANTS
    NoLostWakeup
    Conservation
    NoUseAfterFree
    
    
PROPERTIES
    WaiterReturns
    ImplementsCounter
    WinOrder
CHECK_DEADLOCK FALSE
