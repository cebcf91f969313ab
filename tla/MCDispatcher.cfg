CONSTANTS
    sh = sh
    s1 = s1
    s2 = s2
    Shells = {sh}
    Sessions = {s1, s2}
    ShellOf <- MCShellOf
    FirstOf <- MCFirstOf
    Window = 3
    Levels = {"low", "clear"}
    MaxMessages = 2
    MaxRows = 0
    Procs = {"p"}
    Slots = {1, 2}
    PoolWorkers = 2
    Attempts = 2
    MaxFaults = 1
SPECIFICATION Spec
INVARIANTS
    TypeOK
    OneTurnPerSession
    InFlightExact
    MarkerTruthful
    ServedInOrder
CHECK_DEADLOCK FALSE
