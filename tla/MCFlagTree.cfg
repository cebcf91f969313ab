CONSTANTS
    f1 = f1
    f2 = f2
    f3 = f3
    c1 = c1
    c2 = c2
    NoFlag = NoFlag
    Flags = {f1, f2, f3}
    Clients = {c1, c2}
SPECIFICATION Spec
SYMMETRY Symmetry
INVARIANTS
    TypeOK
    NoLoopWithoutRace
    NoOrphanWithoutRace
    AllScheduledWithoutRace
CHECK_DEADLOCK FALSE
