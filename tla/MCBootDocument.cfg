SPECIFICATION Spec
CONSTANTS
    sh1 = sh1
    s1 = s1
    s2 = s2
    c1 = c1
    c2 = c2
    Shells <- MCShells
    Sessions <- MCSessions
    OldSessions <- MCOldSessions
    Clients <- MCClients
    ShellOf <- MCShellOf
    Workers = 1
    Texts = {x1, x2}
    Models = {m1, m2}
    m1 = m1
    m2 = m2
    DefaultModel = m1
    NoModel = NoModel
    NoDocument = NoDocument
SYMMETRY Symmetry
INVARIANTS
    TypeOK
    IdentityIsCurrent
    ModelIsCurrent
    TurnHasItsModel
