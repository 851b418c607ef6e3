SPECIFICATION BothSpec
CONSTANTS
    c1 = c1
    c2 = c2
    w1 = w1
    w2 = w2
    q1 = q1
    q2 = q2
    Clients = {c1, c2}
    Workers = {w1}
    Targets = {q1}
    FirstTarget = q1
    Width = 1
    NULL = NULL
    Parts = {"own"}
    MaxCalls <- TwoTwo
    Ops <- SerialOps
INVARIANTS
    OneBlockAtATime
SYMMETRY Symmetry
CHECK_DEADLOCK FALSE
