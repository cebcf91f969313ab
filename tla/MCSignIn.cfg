CONSTANTS
    e1 = e1
    c1 = c1
    c2 = c2
    NoEmail = NoEmail
    Emails = {e1}
    Clients = {c1, c2}
    Base = 1
    Cap = 3
    Window = 4
    Ttl = 4
    RenewAfter = 1
    MaxNow = 8
    MaxEvents = 4
    MaxSessions = 1
SPECIFICATION Spec
SYMMETRY MCSymmetry
INVARIANTS
    TypeOK
    WaitToldIsEnough
    GuessesPaced
    SlidingKeepsAlive
CHECK_DEADLOCK FALSE
