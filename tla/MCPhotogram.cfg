SPECIFICATION Spec
CONSTANTS
    Users = {u1, u2}
    PostIds = {}
    Null = Null
    Conns = {c1, c2, c3}
    MaxSessions = 3
    Throws = {}
    AuthFaults = {"no session", "reset"}
    MaxVisitors = 0
SYMMETRY Interchangeable
INVARIANTS
    QuestionsClosed
    AuthEndsOfQuestion
PROPERTIES
    ContentServerSpec
CHECK_DEADLOCK FALSE
