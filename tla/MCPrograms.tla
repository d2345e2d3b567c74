----------------------------- MODULE MCPrograms -----------------------------
(* The two programs of one thread for TLC: sudoku_solver or bubblesort runs,
   and the variables of the other one stay as they are.                     *)
EXTENDS Sudoku, BubbleSortConstants, FiniteSets

VARIABLES
    program,    \* which program was started
    orig_array, work_array, run, step, i, r10, newn, isSwapped, r8, r9, df, start, results

Sort == INSTANCE BubbleSort WITH pc <- step

sortVars == <<orig_array, work_array, run, step, i, r10, newn, isSwapped, r8, r9, df, start, results>>
MCvars == <<program, vars, sortVars>>

NotStarted ==
    /\ step = "exit" /\ orig_array = <<>> /\ work_array = <<>> /\ start = <<>> /\ results = <<>>
    /\ run = 0 /\ i = 1 /\ r10 = 0 /\ newn = 0 /\ isSwapped = 0 /\ r8 = 0 /\ r9 = 0 /\ df = 0

MCInit ==
    \/ program = "sudoku_solver" /\ Init /\ NotStarted
    \/ /\ program = "bubblesort" /\ Sort!Init
       /\ puzzle = <<>> /\ grid = <<>> /\ stack = <<>> /\ pc = "exit" /\ rax = -1 /\ shown = <<>>

MCNext ==
    \/ program = "sudoku_solver" /\ Next /\ UNCHANGED <<program, sortVars>>
    \/ program = "bubblesort" /\ Sort!Next /\ UNCHANGED <<program, vars>>

(* Each is a program of one thread, which the kernel runs. *)
MCSpec == MCInit /\ [][MCNext]_MCvars /\ WF_MCvars(MCNext)

-----------------------------------------------------------------------------
(* A solved 4x4 grid, row by row, and one where two neighbours have changed
   places: as a puzzle it may contradict itself, or have no solution.       *)
Solved  == <<<<1, 2, 3, 4>>, <<3, 4, 1, 2>>, <<2, 1, 4, 3>>, <<4, 3, 2, 1>>>>
Spoiled == <<<<1, 2, 3, 4>>, <<3, 4, 1, 2>>, <<2, 1, 4, 3>>, <<4, 3, 1, 2>>>>

(* The cells that may be blank, and how many of them are. *)
Erasable == {<<0, 0>>, <<0, 1>>, <<0, 3>>, <<1, 1>>, <<1, 2>>, <<2, 0>>, <<2, 1>>, <<3, 3>>}
MaxBlanks == 5

MCPuzzles ==
    {[c \in Cells |-> IF c \in holes THEN BLANK ELSE rows[c[1] + 1][c[2] + 1]] :
        rows \in {Solved, Spoiled},
        holes \in {h \in SUBSET Erasable : Cardinality(h) <= MaxBlanks}}

(* Every array of N numbers, negative ones and equal ones included, with the 0
   that stands behind work_array among them.                                *)
MCArrays == [1..N -> -2..2]

-----------------------------------------------------------------------------
(* BubbleSort: a sort that ends has sorted its cells. *)
EndIsSorted == Sort!EndIsSorted

(* BubbleSort: r9, which is shown, is the number of inversions of the array. *)
SwapsAreInversions == Sort!SwapsAreInversions

(* BubbleSort: RUN 1 and RUN 3 show the numbers of orig_array, sorted. *)
Run1And3Sort == Sort!Run1And3Sort
=============================================================================
