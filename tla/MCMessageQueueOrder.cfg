SPECIFICATION MCSpec
CONSTANTS
    NThreads = 2
    MAX_LINES = 4
    Kirks = {k1}
    Spocks = {s1}
    ReadResults <- MCReadResults
    Lines <- MCLines
    QueueLimit = 1
    Privileged = FALSE
PROPERTIES
    KirkFirstThenSpock
CHECK_DEADLOCK FALSE
