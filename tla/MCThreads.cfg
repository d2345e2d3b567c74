SPECIFICATION MCSpec
CONSTANTS
    NThreads = 2
    MAX_LINES = 4
    Kirks = {k1, k2}
    Spocks = {s1, s2}
    ReadResults <- MCReadResults
    Lines <- MCLines
    QueueLimit = 1
    Privileged = TRUE
INVARIANTS
    LinesConserved
    AllLinesPrinted
    QueueTypeOK
    Delivered
PROPERTIES
    ProgramEnds
    ImplementsLines
    RemovalEndsSpock
    BlockedSenderReleased
CHECK_DEADLOCK FALSE
