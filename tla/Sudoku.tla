------------------------------- MODULE Sudoku -------------------------------
(***************************************************************************)
(* sudoku_solver.asm: the recursive backtracking solver and the program    *)
(* around it.  solve_sudoku is a machine with a call stack: a frame holds  *)
(* what the routine keeps in r12, r13 (the cell) and r14 (the digit), rax  *)
(* is its result.                                                          *)
(*                                                                         *)
(* The puzzle is data of the program; Puzzles are the ones it is built     *)
(* with.  The boxes are B by B, 3 by 3 in the program.                     *)
(***************************************************************************)
EXTENDS Integers, Sequences

CONSTANTS B, Puzzles

DIM    == B * B
BLANK  == 0
Index  == 0..(DIM - 1)
Cells  == Index \X Index
Digits == 1..DIM
Grids  == [Cells -> Digits \cup {BLANK}]

ASSUME BAssumption == B \in Nat \ {0}
ASSUME PuzzlesAssumption == Puzzles \subseteq Grids

VARIABLES
    puzzle,     \* the grid as it was assembled
    grid,       \* the grid in memory, solved in place
    stack,      \* the frames of solve_sudoku
    pc,         \* where solve_sudoku stands
    rax,        \* what the last call returned: 1 solved, 0 not
    shown       \* what the program has written: grids, "no_solution"

vars == <<puzzle, grid, stack, pc, rax, shown>>

-----------------------------------------------------------------------------
(* The routines that look at a grid. *)
used_in_row(g, row, num) == \E col \in Index : g[<<row, col>>] = num
used_in_col(g, col, num) == \E row \in Index : g[<<row, col>>] = num

box_start(i) == i - (i % B)

used_in_box(g, row, col, num) ==
    \E r, c \in 0..(B - 1) : g[<<box_start(row) + r, box_start(col) + c>>] = num

\* Mutant: the test of the columns is left out.
is_safe_NoCol(g, cell, num) ==
    /\ ~used_in_row(g, cell[1], num)
    /\ ~used_in_box(g, cell[1], cell[2], num)

is_safe(g, cell, num) ==
    /\ ~used_in_row(g, cell[1], num)
    /\ ~used_in_col(g, cell[2], num)
    /\ ~used_in_box(g, cell[1], cell[2], num)

Blanks(g) == {c \in Cells : g[c] = BLANK}

(* Row by row, and from left to right in a row. *)
NotAfter(c, d) == c[1] < d[1] \/ (c[1] = d[1] /\ c[2] <= d[2])

\* Mutant: the rows are searched from the last one up.
get_unassigned_location_Up(g) ==
    {c \in Blanks(g) : \A d \in Blanks(g) : c[1] > d[1] \/ (c[1] = d[1] /\ c[2] <= d[2])}

(* The first blank cell, in a set that is empty when the grid is full (-1). *)
get_unassigned_location(g) == {c \in Blanks(g) : \A d \in Blanks(g) : NotAfter(c, d)}

-----------------------------------------------------------------------------
Top    == stack[Len(stack)]
Pop    == SubSeq(stack, 1, Len(stack) - 1)
TryNext == [stack EXCEPT ![Len(stack)].num = Top.num + 1]

\* Mutant: the last digit is not tried.
Exhausted_Early == Top.num >= DIM

Exhausted == Top.num > DIM

Init ==
    /\ puzzle \in Puzzles
    /\ grid = puzzle
    /\ stack = <<>>
    /\ pc = "start"
    /\ rax = 0
    /\ shown = <<>>

(* _start writes the puzzle and calls solve_sudoku. *)
Start ==
    /\ pc = "start"
    /\ shown' = <<grid>>
    /\ pc' = "call"
    /\ UNCHANGED <<puzzle, grid, stack, rax>>

(* No blank cell is left: solved. *)
CallFull ==
    /\ pc = "call"
    /\ get_unassigned_location(grid) = {}
    /\ rax' = 1
    /\ pc' = "return"
    /\ UNCHANGED <<puzzle, grid, stack, shown>>

(* A frame for the first blank cell, to be tried with 1. *)
CallBlank ==
    /\ pc = "call"
    /\ \E c \in get_unassigned_location(grid) :
           stack' = Append(stack, [cell |-> c, num |-> 1])
    /\ pc' = "try"
    /\ UNCHANGED <<puzzle, grid, rax, shown>>

(* .backtrack_loop: a digit that is safe is written, and the rest is solved;  *)
Assign ==
    /\ pc = "try" /\ ~Exhausted
    /\ is_safe(grid, Top.cell, Top.num)
    /\ grid' = [grid EXCEPT ![Top.cell] = Top.num]
    /\ pc' = "call"
    /\ UNCHANGED <<puzzle, stack, rax, shown>>

(* one that is not is passed over;                                           *)
NextDigit ==
    /\ pc = "try" /\ ~Exhausted
    /\ ~is_safe(grid, Top.cell, Top.num)
    /\ stack' = TryNext
    /\ UNCHANGED <<puzzle, grid, pc, rax, shown>>

(* after the last one the routine returns 0.                                 *)
FailBacktrack ==
    /\ pc = "try" /\ Exhausted
    /\ rax' = 0
    /\ stack' = Pop
    /\ pc' = "return"
    /\ UNCHANGED <<puzzle, grid, shown>>

(* A call that solved the grid: so did its caller. *)
ReturnSolved ==
    /\ pc = "return" /\ stack # <<>> /\ rax = 1
    /\ stack' = Pop
    /\ UNCHANGED <<puzzle, grid, pc, rax, shown>>

\* Mutant: the same digit is tried again.
ReturnFailed_Again ==
    /\ pc = "return" /\ stack # <<>> /\ rax # 1
    /\ grid' = [grid EXCEPT ![Top.cell] = BLANK]
    /\ pc' = "try"
    /\ UNCHANGED <<puzzle, stack, rax, shown>>

(* One that did not: the cell is cleared and the next digit tried. *)
ReturnFailed ==
    /\ pc = "return" /\ stack # <<>> /\ rax # 1
    /\ grid' = [grid EXCEPT ![Top.cell] = BLANK]
    /\ stack' = TryNext
    /\ pc' = "try"
    /\ UNCHANGED <<puzzle, rax, shown>>

(* Back in _start: the grid or the message is written, and the program exits. *)
Exit ==
    /\ pc = "return" /\ stack = <<>>
    /\ shown' = Append(shown, IF rax = 1 THEN grid ELSE "no_solution")
    /\ pc' = "exit"
    /\ UNCHANGED <<puzzle, grid, stack, rax>>

solve_sudoku ==
    CallFull \/ CallBlank \/ Assign \/ NextDigit \/ FailBacktrack \/ ReturnSolved \/ ReturnFailed

Done == pc = "exit" /\ UNCHANGED vars

Next == Start \/ solve_sudoku \/ Exit \/ Done

(* A program of one thread, which the kernel runs. *)
Spec == Init /\ [][Next]_vars /\ WF_vars(Next)

-----------------------------------------------------------------------------
(* The rules, without reference to the solver: two cells see each other that
   share a row, a column or a box.                                          *)
SameBox(c, d) == c[1] \div B = d[1] \div B /\ c[2] \div B = d[2] \div B
Sees(c, d) == c # d /\ (c[1] = d[1] \/ c[2] = d[2] \/ SameBox(c, d))

Conflict(g, c, d) == Sees(c, d) /\ g[c] = g[d] /\ g[c] # BLANK

Consistent(g) == \A c, d \in Cells : ~Conflict(g, c, d)

Completions(p) ==
    {[c \in Cells |-> IF p[c] = BLANK THEN f[c] ELSE p[c]] : f \in [Blanks(p) -> Digits]}

Solutions(p) == {s \in Completions(p) : Consistent(s)}

-----------------------------------------------------------------------------
Frame == [cell : Cells, num : 1..(DIM + 1)]

(* Type invariant. *)
TypeOK ==
    /\ puzzle \in Puzzles
    /\ grid \in Grids
    /\ stack \in Seq(Frame)
    /\ pc \in {"start", "call", "try", "return", "exit"}
    /\ pc = "try" => stack # <<>>
    /\ rax \in {0, 1}
    /\ Len(shown) \in 0..2

(* What is shown as solved is a solution of the puzzle (if the puzzle does not
   contradict itself).                                                      *)
SolvedIsSolution ==
    (pc = "exit" /\ rax = 1 /\ Consistent(puzzle)) =>
        /\ Consistent(grid)
        /\ \A c \in Cells : grid[c] \in Digits /\ puzzle[c] \in {BLANK, grid[c]}
        /\ shown = <<puzzle, grid>>

(* "No solution exists" is written only if none exists. *)
NoSolutionIsTrue == (pc = "exit" /\ rax = 0) => Solutions(puzzle) = {}

(* Among several solutions the first one in the order of the search is found:
   no other has a smaller digit in the first cell where they differ.        *)
FirstSolution ==
    (pc = "exit" /\ rax = 1) =>
        \A s \in Solutions(puzzle), c \in Cells :
            (s[c] < grid[c]) => \E d \in Cells : NotAfter(d, c) /\ d # c /\ s[d] # grid[d]

(* The solver gives an answer. *)
Ends == <>(pc = "exit")
=============================================================================
