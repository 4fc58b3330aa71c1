SPECIFICATION Spec
CONSTANTS
    Letters = {"a", "b"}
    Lengths = {1, 2, 3, 4, 5, 6}
    Names <- ShortNames
    MaxPairs = 3
    Starts = {0, 4}
INVARIANTS
    RoundTrip
    NoSpill
CHECK_DEADLOCK FALSE
