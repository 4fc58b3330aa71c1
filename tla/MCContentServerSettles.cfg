SPECIFICATION Spec
CONSTANTS
    Users = {u1}
    PostIds = {}
    Null = Null
    Conns = {c1, c2, c3}
    MaxSessions = 2
    Throws = {}
PROPERTIES
    Settles
    OnlyGetDiesOfSessions
CHECK_DEADLOCK FALSE
