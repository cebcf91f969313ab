CONSTANTS
    u1 = u1
    u2 = u2
    forge = forge
    new = new
    c1 = c1
    c2 = c2
    p1 = p1
    NoUser = NoUser
    NoShell = NoShell
    Users = {u1, u2}
    AdminUsers = {u1}
    FirstUsers = {u1}
    Owner1 = u1
    Shells = {forge, new}
    Seeds = {forge}
    AdminShells = {}
    SharedShells = {forge}
    Clients = {c1, c2}
    Ensurers = {p1}
    MaxKeys = 3
SPECIFICATION Spec
SYMMETRY MCSymmetry
INVARIANTS
    TypeOK
    OneTarget
    TurnKeyResolves
CHECK_DEADLOCK FALSE
