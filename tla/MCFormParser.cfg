SPECIFICATION Spec
CONSTANTS
    Names = {"nickname", "password", "photo"}
    MaxFiles = 2
    MaxParts = 4
INVARIANTS
    FieldsMean
    PhotoMeans
    FailureExplained
CHECK_DEADLOCK FALSE
