CONSTANTS
    sh = sh
    s1 = s1
    s2 = s2
    Shells = {sh}
    Sessions = {s1, s2}
    ShellOf <- MCShellOf
    FirstOf <- MCFirstOf
    Window = 3
    Levels = {"low"}
    MaxMessages = 2
    MaxRows = 1
    Procs = {"p"}
    Slots = {1}
    PoolWorkers = 1
    Attempts = 2
    MaxFaults = 1
SPECIFICATION FairSpec
PROPERTIES
    EveryMessageSettled
    MarkerGoesOut
    StoppedLoopEnds
    ImplementsMailbox
ACTION_CONSTRAINT SecondSessionLate
CHECK_DEADLOCK FALSE
