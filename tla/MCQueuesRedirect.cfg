SPECIFICATION BothSpec
CONSTANTS
    c1 = c1
    c2 = c2
    w1 = w1
    w2 = w2
    q1 = q1
    q2 = q2
    Clients = {c1, c2}
    Workers = {w1, w2}
    Targets = {q1}
    FirstTarget = q1
    Width = 8
    NULL = NULL
    Parts = {"own"}
    MaxCalls <- TwoOne
    Ops <- RedirectOps
INVARIANTS
    ContinuationAllocated
SYMMETRY Symmetry
CHECK_DEADLOCK FALSE
