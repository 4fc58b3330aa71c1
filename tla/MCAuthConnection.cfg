SPECIFICATION Spec
CONSTANTS
    Conns = {c1}
    Tokens = {t1, t2}
    Null = Null
    Requests <- OneOfEach
    MaxRequests = 3
    Pipelining = FALSE
    Faults = {"database", "in doubt", "reset", "no session"}
SYMMETRY Interchangeable
INVARIANTS
    TypeOK
    RightAnswer
    AnswerTellsTruth
    RefusedForGood
    WaitsExplained
    OnlyInputEnds
CHECK_DEADLOCK FALSE
