SPECIFICATION Spec
CONSTANTS
    Workers = {w1, w2}
    Nicknames = {n1, n2}
    UserIds = {u1, u2, u3}
    PhotoIds = {f1, f2}
    Null = Null
    Schemas = {TRUE, FALSE}
    Faults = {"rollback", "in doubt", "crash"}
SYMMETRY Interchangeable
INVARIANTS
    TypeOK
    AckedComplete
    ResidueExplained
    PictureOwn
