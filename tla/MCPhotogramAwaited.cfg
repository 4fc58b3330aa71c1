SPECIFICATION Spec
CONSTANTS
    Users = {u1}
    PostIds = {p1}
    Null = Null
    Conns = {c1, c2}
    MaxSessions = 3
    Throws = {}
    AuthFaults = {"no session"}
    MaxVisitors = 2
PROPERTIES
    Awaited
    SessionsReturn
CHECK_DEADLOCK FALSE
