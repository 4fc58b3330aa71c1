SPECIFICATION Spec
CONSTANTS
    Workers = {w1, w2}
    Nicknames = {n1, n2}
    UserIds = {u1, u2}
    PhotoIds = {f1, f2}
    Null = Null
    Schemas = {FALSE}
    Faults = {"rollback", "in doubt"}
PROPERTIES
    Answered
