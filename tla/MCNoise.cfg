SPECIFICATION MCSpec
CONSTANTS
    Uninit = Uninit
    Unused = Unused
    Jobs <- MCJobs
    SampleJobs <- MCSampleJobs
    Builds <- MCBuilds
    Cpus <- MCCpus
    Sizes = {4, 5}
    MaxOctaves = 3
    Gains = {1, 3}
    Amps = {3}
    Values <- MCValues
    Gradient = 2
    LatticePlaces <- MCLatticePlaces
    SimplexPlaces = {0, 1, 2, 3}
    Cells = 3
    Far = 9
    Distances = {1, 2, 3}
    Indices <- MCIndices
    ReturnTypes = {"CellValue", "NoiseLookup", "Distance", "Distance2", "Distance2Add",
                   "Distance2Sub", "Distance2Mul", "Distance2Div", "Distance2Cave"}
INVARIANTS
    SetHoldsNoise
    AccessesAreKnown
    BlendIsRight
    KLeast
    FirstClosest
    AnswerIsTrue
    FractalInRange
CHECK_DEADLOCK FALSE
