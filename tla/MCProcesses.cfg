SPECIFICATION MCSpec
CONSTANTS
    Procs = {w1, w2, r1, r2}
    WithArguments = {r1, r2}
    FileExists = TRUE
    Clients = {c1, c2}
    MaxStarts = 2
    Backlog = 1
    None = None
    Capacity = 24
    MessageLength = 23
    CHARSTOREAD = 3
INVARIANTS
    GotLockIsExclusive
    MessageIsTrue
    ConnectionsEndRight
    TextIsShown
PROPERTIES
    LockGranted
    ClientsServed
    BindEnds
    Ends
CHECK_DEADLOCK FALSE
