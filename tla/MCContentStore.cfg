SPECIFICATION Spec
CONSTANTS
    Users = {u1, u2}
    PostIds = {p1, p2}
    PhotoIds = {f1, f2, f3}
    Null = Null
    InitialLikeCount = Null
INVARIANTS
    TypeOK
    LikeCountExact
    NoOrphanLikes
    PhotosFetchable
PROPERTIES
    AnswerTellsTruth
    OnlyOwnRows
    BoardSpec
