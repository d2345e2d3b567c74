CONSTANTS
    B = 2
    Puzzles <- MCPuzzles
    N = 5
    Arrays <- MCArrays
SPECIFICATION MCSpec
INVARIANTS
    SolvedIsSolution
    NoSolutionIsTrue
    FirstSolution
    EndIsSorted
    SwapsAreInversions
    Run1And3Sort
PROPERTIES
    Ends
