SPECIFICATION Spec
CONSTANTS
    Procs = {w1, w2}
    WithArguments = {}
    FileExists = FALSE
INVARIANT GotLockIsExclusive
