CONSTANTS
    a1 = a1
    u1 = u1
    u2 = u2
    c1 = c1
    c2 = c2
    NoUser = NoUser
    NoAcct = NoAcct
    Accounts = {a1}
    Users = {u1, u2}
    FirstUsers = {u1}
    FirstAccount = a1
    Clients = {c1, c2}
    MaxNow = 4
    MaxSeeds = 2
    MaxResets = 1
    MaxSessions = 2
    MaxFaults = 1
SPECIFICATION Spec
SYMMETRY MCSymmetry
INVARIANTS
    TypeOK
    CodeUsedOnce
    StoresLinked
    MirrorAgrees
    AdminRemains
CHECK_DEADLOCK FALSE
