SPECIFICATION Spec
CONSTANTS
    Ids = {u1, u18}
    Probe = u18
    Addresses = {a, b}
    Spellings = {s, S}
    Upper = S
    Passwords = {p}
    Null = Null
    KeyIgnoresCase = FALSE
    RefreshLife = 4
    AccessLife = 1
    MaxTime = 8
SYMMETRY Interchangeable
PROPERTIES
    LoginLasts
    LoginExplained
CHECK_DEADLOCK FALSE
