CONSTANTS
    n1 = n1
    n2 = n2
    a1 = a1
    p1 = p1
    NoName = NoName
    Names = {n1, n2}
    Accounts = {a1}
    Procs = {p1}
    CacheTTL = 2
    MaxDeks = 4
    MaxKeks = 3
SPECIFICATION Spec
SYMMETRY MCSymmetry
INVARIANTS
    NoSecretLost
    StaleWithinTTL
CHECK_DEADLOCK FALSE
