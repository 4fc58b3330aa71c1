SPECIFICATION Spec
CONSTANTS
    Conns = {c1}
    Tokens = {t1, t2}
    Null = Null
    Requests <- Overlapping
    MaxRequests = 3
    Pipelining = TRUE
    Faults = {}
INVARIANTS
    InOrder
    OwnToken
PROPERTIES
    Handled
CHECK_DEADLOCK FALSE
