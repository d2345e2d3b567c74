SPECIFICATION Spec
CONSTANTS
    N = 30
    Arrays <- ProgramArray
INVARIANT EveryRunSorts
