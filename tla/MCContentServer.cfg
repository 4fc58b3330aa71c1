SPECIFICATION Spec
CONSTANTS
    Users = {u1, u2}
    PostIds = {p1}
    Null = Null
    Conns = {c1, c2, c3}
    MaxSessions = 2
    Throws = {"connect", "shutdown", "at(id)"}
SYMMETRY Interchangeable
INVARIANTS
    TypeOK
    AlwaysListening
    StatusTellsTruth
    SessionsEarned
PROPERTIES
    EffectsAuthorised
CHECK_DEADLOCK FALSE
