---------------------------- MODULE SudokuProofs ----------------------------
(***************************************************************************)
(* Proofs about Sudoku, for boxes of every size and for every puzzle.      *)
(* First what the routines compute on one grid: is_safe is the rule of the *)
(* game, and get_unassigned_location finds a cell whenever one is blank.   *)
(***************************************************************************)
EXTENDS Sudoku, FiniteSetTheorems, WellFoundedInduction, TLAPS

LEMMA BType == B \in Nat \ {0}
BY BAssumption

LEMMA DimType == DIM \in Nat /\ DIM = B * B
BY BType DEF DIM

LEMMA CellType ==
    /\ \A c \in Cells : c[1] \in Index /\ c[2] \in Index /\ c = <<c[1], c[2]>>
    /\ \A r, s \in Index : <<r, s>> \in Cells
BY DEF Cells

-----------------------------------------------------------------------------
(* Division by a positive number. *)
LEMMA Quotient ==
    ASSUME NEW b \in Nat \ {0}, NEW q \in Nat, NEW r \in 0..(b - 1)
    PROVE  (b * q + r) \div b = q /\ (b * q + r) % b = r
OBVIOUS

LEMMA DivMod ==
    ASSUME NEW b \in Nat \ {0}, NEW i \in Nat
    PROVE  \E q \in Nat, r \in 0..(b - 1) : i = b * q + r /\ i \div b = q /\ i % b = r
<1> DEFINE q == i \div b
           r == i - b * q
<1>1. q \in Nat
  OBVIOUS
<1>2. b * q <= i
  OBVIOUS
<1>3. i < b * q + b
  OBVIOUS
<1>4. b * q \in Int
  BY <1>1
<1> HIDE DEF q
<1>5. r \in 0..(b - 1) /\ i = b * q + r
  BY <1>2, <1>3, <1>4
<1>6. (b * q + r) \div b = q /\ (b * q + r) % b = r
  BY <1>1, <1>5, Quotient
<1> HIDE DEF r
<1> QED BY <1>1, <1>5, <1>6

(* box_start(i) is the first index of the box of i, and the box has B of them. *)
LEMMA BoxStart ==
    ASSUME NEW i \in Index, NEW r \in 0..(B - 1)
    PROVE  box_start(i) + r \in Index /\ (box_start(i) + r) \div B = i \div B
<1>1. PICK q \in Nat, s \in 0..(B - 1) : i = B * q + s /\ i \div B = q /\ i % B = s
  <2>1. i \in Nat
    BY DimType DEF Index
  <2> QED BY <2>1, BType, DivMod
<1>2. box_start(i) = B * q
  <2>1. B * q \in Int /\ s \in Int
    BY BType
  <2>2. box_start(i) = i - s
    BY <1>1 DEF box_start
  <2> QED BY <2>1, <2>2, <1>1
<1>3. B * q + r < B * B
  <2>1. B * q + s < B * B
    BY <1>1, DimType DEF Index
  <2>2. q < B
    BY <2>1, BType
  <2> QED BY <2>2, BType
<1>4. B * q + r \in Nat
  BY BType
<1>5. B * q + r \in Index
  BY <1>3, <1>4, DimType DEF Index
<1>6. (B * q + r) \div B = q
  BY BType, Quotient
<1> QED BY <1>1, <1>2, <1>5, <1>6

LEMMA InBox ==
    ASSUME NEW i \in Index, NEW j \in Index, i \div B = j \div B
    PROVE  \E r \in 0..(B - 1) : box_start(i) + r = j
<1>1. i \in Nat /\ j \in Nat
  BY DimType DEF Index
<1>2. PICK q \in Nat, s \in 0..(B - 1) : i = B * q + s /\ i \div B = q /\ i % B = s
  BY <1>1, BType, DivMod
<1>3. PICK p \in Nat, t \in 0..(B - 1) : j = B * p + t /\ j \div B = p /\ j % B = t
  BY <1>1, BType, DivMod
<1>4. box_start(i) = B * q /\ j = B * q + t
  BY <1>2, <1>3, BType DEF box_start
<1> QED BY <1>4

(* Two cells in one row, column or box. *)
Together(c, d) == c[1] = d[1] \/ c[2] = d[2] \/ SameBox(c, d)

(* is_safe is the rule: no cell of the row, the column or the box has the digit. *)
LEMMA IsSafeIsTheRule ==
    ASSUME NEW g, NEW c \in Cells, NEW num
    PROVE  is_safe(g, c, num) <=> \A d \in Cells : Together(c, d) => g[d] # num
<1>1. c[1] \in Index /\ c[2] \in Index
  BY CellType
<1>2. used_in_row(g, c[1], num) <=> \E d \in Cells : c[1] = d[1] /\ g[d] = num
  <2>1. ASSUME NEW col \in Index, g[<<c[1], col>>] = num
        PROVE  \E d \in Cells : c[1] = d[1] /\ g[d] = num
    BY <2>1, <1>1, CellType
  <2>2. ASSUME NEW d \in Cells, c[1] = d[1], g[d] = num
        PROVE  d[2] \in Index /\ g[<<c[1], d[2]>>] = num
    BY <2>2, CellType
  <2> QED BY <2>1, <2>2 DEF used_in_row
<1>3. used_in_col(g, c[2], num) <=> \E d \in Cells : c[2] = d[2] /\ g[d] = num
  <2>1. ASSUME NEW row \in Index, g[<<row, c[2]>>] = num
        PROVE  \E d \in Cells : c[2] = d[2] /\ g[d] = num
    BY <2>1, <1>1, CellType
  <2>2. ASSUME NEW d \in Cells, c[2] = d[2], g[d] = num
        PROVE  d[1] \in Index /\ g[<<d[1], c[2]>>] = num
    BY <2>2, CellType
  <2> QED BY <2>1, <2>2 DEF used_in_col
<1>4. used_in_box(g, c[1], c[2], num) <=> \E d \in Cells : SameBox(c, d) /\ g[d] = num
  <2>1. ASSUME used_in_box(g, c[1], c[2], num)
        PROVE  \E d \in Cells : SameBox(c, d) /\ g[d] = num
    <3>1. PICK r, s \in 0..(B - 1) : g[<<box_start(c[1]) + r, box_start(c[2]) + s>>] = num
      BY <2>1 DEF used_in_box
    <3> DEFINE d == <<box_start(c[1]) + r, box_start(c[2]) + s>>
    <3>2. d \in Cells /\ SameBox(c, d)
      BY <1>1, BoxStart, CellType DEF SameBox
    <3> QED BY <3>1, <3>2
  <2>2. ASSUME NEW d \in Cells, SameBox(c, d), g[d] = num
        PROVE  used_in_box(g, c[1], c[2], num)
    <3>1. d[1] \in Index /\ d[2] \in Index /\ d = <<d[1], d[2]>>
      BY CellType
    <3>2. PICK r \in 0..(B - 1) : box_start(c[1]) + r = d[1]
      BY <1>1, <2>2, <3>1, InBox DEF SameBox
    <3>3. PICK s \in 0..(B - 1) : box_start(c[2]) + s = d[2]
      BY <1>1, <2>2, <3>1, InBox DEF SameBox
    <3> QED BY <2>2, <3>1, <3>2, <3>3 DEF used_in_box
  <2> QED BY <2>1, <2>2
<1> QED BY <1>2, <1>3, <1>4 DEF is_safe, Together

-----------------------------------------------------------------------------
(* The cells before a cell, row by row. *)
Before(c) == {d \in Cells : NotAfter(d, c) /\ d # c}

LEMMA CellsOrdered ==
    ASSUME NEW c \in Cells, NEW d \in Cells, ~NotAfter(c, d)
    PROVE  Before(d) \subseteq Before(c) /\ Before(d) # Before(c)
<1>1. \A e \in Cells : e[1] \in Int /\ e[2] \in Int /\ e = <<e[1], e[2]>>
  BY CellType, DimType DEF Index
<1>2. d \in Before(c) /\ d \notin Before(d)
  BY <1>1 DEF Before, NotAfter
<1>3. ASSUME NEW e \in Before(d) PROVE e \in Before(c)
  BY <1>1, <1>3 DEF Before, NotAfter
<1> QED BY <1>2, <1>3

LEMMA CellsFinite == IsFiniteSet(Cells)
<1>1. IsFiniteSet(Index)
  BY DimType, FS_Interval DEF Index
<1> QED BY <1>1, FS_Product DEF Cells

(* Any set of cells that is not empty has a first one. *)
LEMMA FirstCell ==
    ASSUME NEW C \in SUBSET Cells, C # {}
    PROVE  \E c \in C : \A d \in C : NotAfter(c, d)
<1> DEFINE R == StrictSubsetOrdering(Cells)
           T == {Before(c) : c \in C}
<1>1. IsWellFoundedOn(R, SUBSET Cells)
  BY CellsFinite, FS_StrictSubsetOrderingWellFounded, FS_FiniteSubsetsOfFinite
<1>2. T \subseteq SUBSET Cells /\ T # {}
  BY DEF Before
<1>3. \E x \in T : \A y \in T : <<y, x>> \notin R
  BY <1>1, <1>2, WFMin
<1>4. PICK c \in C : \A d \in C : <<Before(d), Before(c)>> \notin R
  BY <1>3
<1>5. ASSUME NEW d \in C, ~NotAfter(c, d) PROVE FALSE
  <2>1. Before(d) \subseteq Before(c) /\ Before(d) # Before(c)
    BY <1>5, CellsOrdered
  <2>2. Before(c) \in SUBSET Cells /\ Before(d) \in SUBSET Cells
    BY DEF Before
  <2>3. <<Before(d), Before(c)>> \in R
    BY <2>1, <2>2 DEF StrictSubsetOrdering
  <2> QED BY <1>4, <2>3
<1> QED BY <1>5

(* The search for a blank cell fails only on a full grid. *)
LEMMA FullGrid ==
    ASSUME NEW g, get_unassigned_location(g) = {} PROVE Blanks(g) = {}
<1>1. Blanks(g) \in SUBSET Cells
  BY DEF Blanks
<1> QED BY <1>1, FirstCell DEF get_unassigned_location

-----------------------------------------------------------------------------
(* The frames whose digit is in the grid: all but the one that is trying. *)
SetFrames == 1..(IF pc = "try" THEN Len(stack) - 1 ELSE Len(stack))

ControlOK ==
    /\ pc \in {"start", "exit"} => stack = <<>>
    /\ rax = 1 => pc \in {"return", "exit"} /\ Blanks(grid) = {}
    /\ \A k \in SetFrames : stack[k].num \in Digits

ShownOK ==
    /\ pc = "start" => shown = <<>> /\ grid = puzzle
    /\ pc \in {"call", "try", "return"} => shown = <<puzzle>>
    /\ pc = "exit" => Len(shown) = 2
    /\ pc = "exit" /\ rax = 1 => shown = <<puzzle, grid>>

TypeInv == TypeOK /\ ControlOK /\ ShownOK

(* What happens to the stack. *)
LEMMA Push ==
    ASSUME stack \in Seq(Frame), NEW f \in Frame
    PROVE  /\ Append(stack, f) \in Seq(Frame)
           /\ Append(stack, f) # <<>>
           /\ Len(Append(stack, f)) = Len(stack) + 1
           /\ Append(stack, f)[Len(stack) + 1] = f
           /\ \A k \in 1..Len(stack) : Append(stack, f)[k] = stack[k]
OBVIOUS

LEMMA TopType ==
    ASSUME stack \in Seq(Frame), stack # <<>>
    PROVE  /\ Len(stack) \in Nat /\ Len(stack) >= 1
           /\ Top = stack[Len(stack)] /\ Top \in Frame
           /\ Top.cell \in Cells /\ Top.num \in 1..(DIM + 1)
<1>1. Len(stack) \in Nat /\ Len(stack) >= 1
  OBVIOUS
<1>2. Top = stack[Len(stack)] /\ Top \in Frame
  BY <1>1 DEF Top
<1> QED BY <1>1, <1>2 DEF Frame

LEMMA Popped ==
    ASSUME stack \in Seq(Frame), stack # <<>>
    PROVE  /\ Pop \in Seq(Frame)
           /\ Len(Pop) = Len(stack) - 1
           /\ \A k \in 1..(Len(stack) - 1) : Pop[k] = stack[k]
BY DEF Pop

LEMMA Tried ==
    ASSUME stack \in Seq(Frame), stack # <<>>, Top.num <= DIM
    PROVE  /\ TryNext \in Seq(Frame)
           /\ TryNext # <<>>
           /\ Len(TryNext) = Len(stack)
           /\ TryNext[Len(stack)].cell = Top.cell
           /\ TryNext[Len(stack)].num = Top.num + 1
           /\ \A k \in 1..(Len(stack) - 1) : TryNext[k] = stack[k]
<1> DEFINE n == Len(stack)
           f == [Top EXCEPT !.num = Top.num + 1]
<1>1. n \in Nat /\ n >= 1 /\ Top \in Frame /\ Top = stack[n]
  BY TopType
<1>2. f \in Frame /\ f.cell = Top.cell /\ f.num = Top.num + 1
  BY <1>1, DimType DEF Frame
<1>3. TryNext = [stack EXCEPT ![n] = f]
  BY <1>1 DEF TryNext
<1> HIDE DEF f
<1> QED BY <1>1, <1>2, <1>3

LEMMA AppendToOne ==
    ASSUME NEW S, NEW p \in S, NEW x \in S PROVE Append(<<p>>, x) = <<p, x>>
<1> DEFINE s == Append(<<p>>, x)
           t == <<p, x>>
<1>1. <<p>> \in Seq(S)
  OBVIOUS
<1>2. s \in Seq(S) /\ Len(s) = 2 /\ s[1] = p /\ s[2] = x
  BY <1>1
<1>3. t \in Seq(S) /\ Len(t) = 2 /\ t[1] = p /\ t[2] = x
  OBVIOUS
<1>4. \A u, v \in Seq(S) : Len(u) = 2 /\ Len(v) = 2 /\ u[1] = v[1] /\ u[2] = v[2] => u = v
  OBVIOUS
<1> HIDE DEF s, t
<1>5. s = t
  BY <1>2, <1>3, <1>4
<1> QED BY <1>5 DEF s, t

LEMMA TypeInit == Init => TypeInv
BY PuzzlesAssumption DEF Init, TypeInv, TypeOK, ControlOK, ShownOK, SetFrames

LEMMA TypeStep == TypeInv /\ [Next]_vars => TypeInv'
<1> SUFFICES ASSUME TypeOK, ControlOK, ShownOK, [Next]_vars PROVE TypeInv'
  BY DEF TypeInv
<1> USE DEF TypeInv, TypeOK, ControlOK, ShownOK, SetFrames
<1>1. CASE Start
  BY <1>1 DEF Start
<1>2. CASE CallFull
  BY <1>2, FullGrid DEF CallFull
<1>3. CASE CallBlank
  <2>1. PICK c \in get_unassigned_location(grid) : stack' = Append(stack, [cell |-> c, num |-> 1])
    BY <1>3 DEF CallBlank
  <2>2. [cell |-> c, num |-> 1] \in Frame
    BY DimType DEF get_unassigned_location, Blanks, Frame
  <2> QED BY <1>3, <2>1, <2>2, Push DEF CallBlank
<1>4. CASE Assign
  <2>1. Top.cell \in Cells /\ Top.num \in Digits /\ Top = stack[Len(stack)]
    BY <1>4, TopType, DimType DEF Assign, Exhausted, Digits
  <2>2. grid' \in Grids
    BY <2>1, <1>4 DEF Assign, Grids
  <2> QED BY <1>4, <2>1, <2>2 DEF Assign
<1>5. CASE NextDigit
  <2>1. stack # <<>> /\ Top.num <= DIM
    BY <1>5, TopType, DimType DEF NextDigit, Exhausted
  <2> QED BY <1>5, <2>1, Tried DEF NextDigit
<1>6. CASE FailBacktrack
  BY <1>6, Popped, TopType DEF FailBacktrack
<1>7. CASE ReturnSolved
  BY <1>7, Popped, TopType DEF ReturnSolved
<1>8. CASE ReturnFailed
  <2>1. stack # <<>> /\ Top.cell \in Cells /\ Top.num <= DIM
    BY <1>8, TopType, DimType DEF ReturnFailed, Digits
  <2>2. grid' \in Grids
    BY <2>1, <1>8 DEF ReturnFailed, Grids
  <2> QED BY <1>8, <2>1, <2>2, Tried DEF ReturnFailed
<1>9. CASE Exit
  <2>1. pc' = "exit" /\ shown = <<puzzle>> /\ UNCHANGED <<puzzle, grid, stack, rax>>
    BY <1>9 DEF Exit
  <2> DEFINE answer == IF rax = 1 THEN grid ELSE "no_solution"
  <2>2. shown' = <<puzzle, answer>>
    <3>1. shown' = Append(<<puzzle>>, answer)
      BY <2>1, <1>9 DEF Exit
    <3>2. puzzle \in {puzzle, answer} /\ answer \in {puzzle, answer}
      OBVIOUS
    <3> QED BY <3>1, <3>2, AppendToOne
  <2>3. ShownOK'
    BY <2>1, <2>2
  <2> QED BY <2>1, <2>3, <1>9 DEF Exit
<1>10. CASE UNCHANGED vars
  BY <1>10 DEF vars
<1> QED
  BY <1>1, <1>2, <1>3, <1>4, <1>5, <1>6, <1>7, <1>8, <1>9, <1>10 DEF Next, solve_sudoku, Done

(* Every variable keeps its type: no digit beyond DIM is ever written, and the
   stack is empty when the program exits.                                  *)
THEOREM TypeCorrect == Spec => []TypeOK
<1>1. TypeInv => TypeOK
  BY DEF TypeInv
<1> QED
  BY <1>1, TypeInit, TypeStep, PTL DEF Spec

-----------------------------------------------------------------------------
(* While the search goes on, the grid is the puzzle with the digits of the
   frames in it: each frame has a blank cell of the puzzle to itself.       *)
FramesOnBlanks ==
    rax = 0 =>
        /\ \A k \in 1..Len(stack) : puzzle[stack[k].cell] = BLANK
        /\ \A k \in 1..Len(stack) : \A l \in 1..(k - 1) : stack[l].cell # stack[k].cell

GridIsPuzzleAndFrames ==
    rax = 0 =>
        /\ \A k \in SetFrames : grid[stack[k].cell] = stack[k].num
        /\ \A c \in Cells : (\A k \in SetFrames : c # stack[k].cell) => grid[c] = puzzle[c]

(* A frame has the first of the cells that the frames before it have left. *)
FirstBlanks ==
    rax = 0 =>
        \A k \in 1..Len(stack) : \A d \in Blanks(puzzle) :
            (\A l \in 1..k : d # stack[l].cell) => NotAfter(stack[k].cell, d)

(* The givens are never written. *)
GivensKept == \A c \in Cells : puzzle[c] # BLANK => grid[c] = puzzle[c]

(* The solver brings no conflict into the grid: two cells that contradict each
   other are both givens.                                                  *)
NoNewConflict ==
    \A c, d \in Cells : Conflict(grid, c, d) => puzzle[c] # BLANK /\ puzzle[d] # BLANK

FrameInv ==
    FramesOnBlanks /\ GridIsPuzzleAndFrames /\ FirstBlanks /\ GivensKept /\ NoNewConflict

LEMMA FrameInit == Init => FrameInv
<1> SUFFICES ASSUME Init PROVE FrameInv
  OBVIOUS
<1>1. grid = puzzle /\ 1..Len(stack) = {} /\ SetFrames = {}
  BY DEF Init, SetFrames
<1> QED
  BY <1>1 DEF FrameInv, FramesOnBlanks, GridIsPuzzleAndFrames, FirstBlanks, GivensKept,
              NoNewConflict, Conflict

(* The cell of a frame that is trying is blank. *)
LEMMA TopIsBlank ==
    ASSUME TypeInv, FrameInv, pc = "try"
    PROVE  /\ rax = 0 /\ stack # <<>> /\ Len(stack) \in SetFrames \cup {Len(stack)}
           /\ Top.cell \in Cells /\ Top = stack[Len(stack)]
           /\ puzzle[Top.cell] = BLANK /\ grid[Top.cell] = BLANK
<1>1. /\ rax = 0 /\ stack \in Seq(Frame) /\ stack # <<>> /\ SetFrames = 1..(Len(stack) - 1)
  BY DEF TypeInv, TypeOK, ControlOK, SetFrames
<1>2. Len(stack) \in Nat /\ Len(stack) >= 1 /\ Top = stack[Len(stack)] /\ Top.cell \in Cells
  BY <1>1, TopType
<1>3. puzzle[Top.cell] = BLANK /\ \A k \in SetFrames : Top.cell # stack[k].cell
  BY <1>1, <1>2 DEF FrameInv, FramesOnBlanks
<1> QED BY <1>1, <1>2, <1>3 DEF FrameInv, GridIsPuzzleAndFrames

LEMMA FrameCallBlank == TypeInv /\ FrameInv /\ CallBlank => FrameInv'
<1> SUFFICES ASSUME TypeInv, FrameInv, CallBlank PROVE FrameInv'
  OBVIOUS
<1> DEFINE n == Len(stack)
<1>1. PICK c \in get_unassigned_location(grid) : stack' = Append(stack, [cell |-> c, num |-> 1])
  BY DEF CallBlank
<1>2. /\ pc = "call" /\ pc' = "try" /\ rax' = rax /\ puzzle' = puzzle /\ grid' = grid
      /\ stack \in Seq(Frame) /\ rax = 0
  BY DEF CallBlank, TypeInv, TypeOK, ControlOK
<1>3. /\ c \in Cells /\ grid[c] = BLANK /\ \A d \in Blanks(grid) : NotAfter(c, d)
      /\ [cell |-> c, num |-> 1] \in Frame
  BY <1>1, DimType DEF get_unassigned_location, Blanks, Frame
<1>4. /\ n \in Nat /\ Len(stack') = n + 1 /\ stack'[n + 1].cell = c
      /\ \A k \in 1..n : stack'[k] = stack[k]
  BY <1>1, <1>2, <1>3, Push
<1>5. SetFrames = 1..n /\ SetFrames' = 1..n
  BY <1>2, <1>4 DEF SetFrames
<1>6. \A k \in 1..n : c # stack[k].cell
  BY <1>2, <1>3, <1>5 DEF FrameInv, GridIsPuzzleAndFrames, TypeInv, ControlOK, Digits, BLANK
<1>7. \A d \in Cells : (\A k \in 1..n : d # stack[k].cell) => grid[d] = puzzle[d]
  BY <1>2, <1>5 DEF FrameInv, GridIsPuzzleAndFrames
<1>8. FramesOnBlanks'
  BY <1>2, <1>3, <1>4, <1>6, <1>7 DEF FrameInv, FramesOnBlanks
<1>9. GridIsPuzzleAndFrames'
  BY <1>2, <1>4, <1>5 DEF FrameInv, GridIsPuzzleAndFrames
<1>10. FirstBlanks'
  <2>1. SUFFICES ASSUME NEW k \in 1..(n + 1), NEW d \in Blanks(puzzle),
                        \A l \in 1..k : d # stack'[l].cell
                 PROVE  NotAfter(stack'[k].cell, d)
    BY <1>2, <1>4 DEF FirstBlanks
  <2>2. CASE k \in 1..n
    BY <2>1, <2>2, <1>2, <1>4 DEF FrameInv, FirstBlanks
  <2>3. CASE k = n + 1
    <3>1. \A l \in 1..n : d # stack[l].cell
      BY <2>1, <2>3, <1>4
    <3>2. d \in Blanks(grid)
      BY <3>1, <1>7 DEF Blanks
    <3> QED BY <3>2, <2>3, <1>3, <1>4
  <2> QED BY <2>2, <2>3, <1>4
<1>11. GivensKept' /\ NoNewConflict'
  BY <1>2 DEF FrameInv, GivensKept, NoNewConflict, Conflict
<1> QED BY <1>8, <1>9, <1>10, <1>11 DEF FrameInv

(* A digit that is safe contradicts none in the grid. *)
LEMMA SafeDigit ==
    ASSUME NEW g \in Grids, NEW c \in Cells, NEW num \in Digits, is_safe(g, c, num),
           NEW d \in Cells, NEW e \in Cells, Conflict([g EXCEPT ![c] = num], d, e)
    PROVE  Conflict(g, d, e)
<1> DEFINE h == [g EXCEPT ![c] = num]
<1>1. /\ h[c] = num /\ \A x \in Cells : x # c => h[x] = g[x]
      /\ \A x \in Cells : Together(c, x) => g[x] # num
  BY IsSafeIsTheRule DEF Grids
<1>2. d # e /\ Together(d, e) /\ Together(e, d) /\ h[d] = h[e] /\ h[d] # BLANK /\ Sees(d, e)
  BY DEF Conflict, Sees, Together, SameBox
<1> HIDE DEF h
<1>3. d # c /\ e # c
  BY <1>1, <1>2
<1> QED BY <1>1, <1>2, <1>3 DEF Conflict

LEMMA FrameAssign == TypeInv /\ FrameInv /\ Assign => FrameInv'
<1> SUFFICES ASSUME TypeInv, FrameInv, Assign PROVE FrameInv'
  OBVIOUS
<1> DEFINE n == Len(stack)
           c == Top.cell
<1>1. /\ pc = "try" /\ pc' = "call" /\ rax' = rax /\ puzzle' = puzzle /\ stack' = stack
      /\ grid' = [grid EXCEPT ![c] = Top.num] /\ is_safe(grid, c, Top.num)
      /\ stack \in Seq(Frame) /\ grid \in Grids
  BY DEF Assign, TypeInv, TypeOK
<1>2. /\ rax = 0 /\ stack # <<>> /\ c \in Cells /\ puzzle[c] = BLANK /\ grid[c] = BLANK
  BY <1>1, TopIsBlank
<1>3. n \in Nat /\ n >= 1 /\ Top = stack[n] /\ Top.num \in Digits
  BY <1>1, <1>2, TopType, DimType DEF Assign, Exhausted, Digits
<1>4. SetFrames = 1..(n - 1) /\ SetFrames' = 1..n
  BY <1>1, <1>3 DEF SetFrames
<1>5. grid'[c] = Top.num /\ \A d \in Cells : d # c => grid'[d] = grid[d]
  BY <1>1, <1>2 DEF Grids
<1>6. FramesOnBlanks' /\ FirstBlanks'
  BY <1>1 DEF FrameInv, FramesOnBlanks, FirstBlanks
<1>7. GridIsPuzzleAndFrames'
  <2>1. \A k \in 1..(n - 1) : stack[k].cell # c /\ stack[k].cell \in Cells
    <3>1. \A k \in 1..(n - 1) : stack[k] \in Frame
      BY <1>1, <1>3
    <3>2. \A k \in 1..(n - 1) : stack[k].cell # c
      BY <1>1, <1>2, <1>3 DEF FrameInv, FramesOnBlanks
    <3> QED BY <3>1, <3>2 DEF Frame
  <2>2. \A k \in 1..n : grid'[stack[k].cell] = stack[k].num
    BY <2>1, <1>2, <1>3, <1>4, <1>5 DEF FrameInv, GridIsPuzzleAndFrames
  <2>3. ASSUME NEW d \in Cells, \A k \in 1..n : d # stack[k].cell PROVE grid'[d] = puzzle[d]
    BY <2>3, <1>2, <1>3, <1>4, <1>5 DEF FrameInv, GridIsPuzzleAndFrames
  <2> QED BY <2>2, <2>3, <1>1, <1>4 DEF GridIsPuzzleAndFrames
<1>8. GivensKept'
  BY <1>1, <1>2, <1>5 DEF FrameInv, GivensKept
<1>9. NoNewConflict'
  BY <1>1, <1>2, <1>3, SafeDigit DEF FrameInv, NoNewConflict
<1> QED BY <1>6, <1>7, <1>8, <1>9 DEF FrameInv

LEMMA FrameTry == TypeInv /\ FrameInv /\ (NextDigit \/ FailBacktrack) => FrameInv'
<1> SUFFICES ASSUME TypeInv, FrameInv, NextDigit \/ FailBacktrack PROVE FrameInv'
  OBVIOUS
<1> DEFINE n == Len(stack)
<1>1. /\ pc = "try" /\ puzzle' = puzzle /\ grid' = grid /\ stack \in Seq(Frame)
  BY DEF NextDigit, FailBacktrack, TypeInv, TypeOK
<1>2. rax = 0 /\ rax' = 0 /\ stack # <<>> /\ n \in Nat /\ n >= 1 /\ Top = stack[n] /\ Top \in Frame
  BY <1>1, TopIsBlank, TopType DEF NextDigit, FailBacktrack
<1>3. SetFrames = 1..(n - 1)
  BY <1>1 DEF SetFrames
<1>4. /\ SetFrames' = 1..(n - 1)
      /\ Len(stack') \in {n - 1, n}
      /\ \A k \in 1..(n - 1) : stack'[k] = stack[k]
      /\ Len(stack') = n => stack'[n].cell = stack[n].cell
  <2>1. CASE NextDigit
    <3>1. stack' = TryNext /\ pc' = "try" /\ Top.num <= DIM
      BY <2>1, <1>1, <1>2, TopType, DimType DEF NextDigit, Exhausted
    <3>2. /\ Len(stack') = n /\ stack'[n].cell = Top.cell
          /\ \A k \in 1..(n - 1) : stack'[k] = stack[k]
      BY <3>1, <1>1, <1>2, Tried
    <3> QED BY <3>1, <3>2, <1>2 DEF SetFrames
  <2>2. CASE FailBacktrack
    BY <2>2, <1>1, <1>2, Popped DEF FailBacktrack, SetFrames
  <2> QED BY <2>1, <2>2
<1>5. Len(stack') \in Nat /\ \A k \in 1..Len(stack') : k \in 1..n /\ stack'[k].cell = stack[k].cell
  BY <1>2, <1>4
<1>6. FramesOnBlanks'
  BY <1>1, <1>2, <1>5 DEF FrameInv, FramesOnBlanks
<1>7. FirstBlanks'
  BY <1>1, <1>2, <1>5 DEF FrameInv, FirstBlanks
<1>8. GridIsPuzzleAndFrames'
  BY <1>1, <1>2, <1>3, <1>4 DEF FrameInv, GridIsPuzzleAndFrames
<1>9. GivensKept' /\ NoNewConflict'
  BY <1>1 DEF FrameInv, GivensKept, NoNewConflict, Conflict
<1> QED BY <1>6, <1>7, <1>8, <1>9 DEF FrameInv

LEMMA FrameReturn == TypeInv /\ FrameInv /\ ReturnFailed => FrameInv'
<1> SUFFICES ASSUME TypeInv, FrameInv, ReturnFailed PROVE FrameInv'
  OBVIOUS
<1> DEFINE n == Len(stack)
           c == Top.cell
<1>1. /\ pc = "return" /\ pc' = "try" /\ rax = 0 /\ rax' = 0 /\ puzzle' = puzzle
      /\ stack \in Seq(Frame) /\ stack # <<>> /\ grid \in Grids
      /\ grid' = [grid EXCEPT ![c] = BLANK] /\ stack' = TryNext
  BY DEF ReturnFailed, TypeInv, TypeOK
<1>2. n \in Nat /\ n >= 1 /\ Top = stack[n] /\ c \in Cells
  BY <1>1, TopType
<1>3. SetFrames = 1..n
  BY <1>1 DEF SetFrames
<1>4. Top.num \in Digits
  BY <1>1, <1>2, <1>3 DEF TypeInv, ControlOK
<1>5. /\ Len(stack') = n /\ stack'[n].cell = c /\ \A k \in 1..(n - 1) : stack'[k] = stack[k]
  BY <1>1, <1>4, Tried, DimType DEF Digits
<1>6. \A k \in 1..n : stack'[k].cell = stack[k].cell
  BY <1>2, <1>5
<1>7. SetFrames' = 1..(n - 1)
  BY <1>1, <1>5 DEF SetFrames
<1>8. grid'[c] = BLANK /\ \A d \in Cells : d # c => grid'[d] = grid[d]
  BY <1>1, <1>2 DEF Grids
<1>9. puzzle[c] = BLANK
  BY <1>1, <1>2 DEF FrameInv, FramesOnBlanks
<1>10. FramesOnBlanks' /\ FirstBlanks'
  BY <1>1, <1>5, <1>6 DEF FrameInv, FramesOnBlanks, FirstBlanks
<1>11. GridIsPuzzleAndFrames'
  <2>1. \A k \in 1..(n - 1) : stack[k].cell # c /\ stack[k].cell \in Cells
    <3>1. \A k \in 1..(n - 1) : stack[k] \in Frame
      BY <1>1, <1>2
    <3>2. \A k \in 1..(n - 1) : stack[k].cell # c
      BY <1>1, <1>2 DEF FrameInv, FramesOnBlanks
    <3> QED BY <3>1, <3>2 DEF Frame
  <2>2. \A k \in 1..(n - 1) : grid'[stack[k].cell] = stack[k].num
    BY <2>1, <1>1, <1>2, <1>3, <1>8 DEF FrameInv, GridIsPuzzleAndFrames
  <2>3. ASSUME NEW d \in Cells, \A k \in 1..(n - 1) : d # stack[k].cell
        PROVE  grid'[d] = puzzle[d]
    <3>1. CASE d = c
      BY <3>1, <1>8, <1>9
    <3>2. CASE d # c
      BY <3>2, <2>3, <1>1, <1>2, <1>3, <1>8 DEF FrameInv, GridIsPuzzleAndFrames
    <3> QED BY <3>1, <3>2
  <2> QED BY <2>2, <2>3, <1>1, <1>5, <1>7 DEF GridIsPuzzleAndFrames
<1>12. GivensKept'
  BY <1>1, <1>8, <1>9 DEF FrameInv, GivensKept
<1>13. NoNewConflict'
  BY <1>1, <1>2, <1>8 DEF FrameInv, NoNewConflict, Conflict
<1> QED BY <1>10, <1>11, <1>12, <1>13 DEF FrameInv

LEMMA FrameStep == TypeInv /\ FrameInv /\ [Next]_vars => FrameInv'
<1> SUFFICES ASSUME TypeInv, FrameInv, [Next]_vars PROVE FrameInv'
  OBVIOUS
<1>1. ASSUME UNCHANGED <<puzzle, grid, stack, rax>>, (pc = "try") <=> (pc' = "try") PROVE FrameInv'
  <2>1. SetFrames' = SetFrames
    BY <1>1 DEF SetFrames
  <2> QED BY <1>1, <2>1 DEF FrameInv, FramesOnBlanks, GridIsPuzzleAndFrames, FirstBlanks,
                            GivensKept, NoNewConflict, Conflict
<1>2. CASE Start \/ Exit
  BY <1>2, <1>1 DEF Start, Exit
<1>3. CASE CallFull \/ ReturnSolved
  <2>1. rax' = 1 /\ UNCHANGED <<puzzle, grid>>
    BY <1>3 DEF CallFull, ReturnSolved
  <2> QED BY <2>1 DEF FrameInv, FramesOnBlanks, GridIsPuzzleAndFrames, FirstBlanks,
                      GivensKept, NoNewConflict, Conflict
<1>4. CASE UNCHANGED vars
  BY <1>4, <1>1 DEF vars
<1> QED
  BY <1>2, <1>3, <1>4, FrameCallBlank, FrameAssign, FrameTry, FrameReturn
     DEF Next, solve_sudoku, Done

(* The givens stay as they are, and the solver brings no conflict into a grid. *)
THEOREM NoConflictIsAdded == Spec => [](GivensKept /\ NoNewConflict)
<1>1. FrameInv => GivensKept /\ NoNewConflict
  BY DEF FrameInv
<1> QED
  BY <1>1, TypeInit, TypeStep, FrameInit, FrameStep, PTL DEF Spec

(* What is shown as solved is a solution of a puzzle that does not contradict
   itself, and the program has shown that puzzle and nothing else before.    *)
THEOREM SolvedIsTrue == Spec => []SolvedIsSolution
<1>1. ASSUME TypeInv, FrameInv PROVE SolvedIsSolution
  <2>1. SUFFICES ASSUME pc = "exit", rax = 1, Consistent(puzzle)
                 PROVE  /\ Consistent(grid) /\ shown = <<puzzle, grid>>
                        /\ \A c \in Cells : grid[c] \in Digits /\ puzzle[c] \in {BLANK, grid[c]}
    BY DEF SolvedIsSolution
  <2>2. shown = <<puzzle, grid>> /\ grid \in Grids /\ Blanks(grid) = {}
    BY <2>1, <1>1 DEF TypeInv, TypeOK, ControlOK, ShownOK
  <2>3. \A c \in Cells : grid[c] \in Digits /\ puzzle[c] \in {BLANK, grid[c]}
    BY <2>2, <1>1 DEF FrameInv, GivensKept, Blanks, Grids
  <2>4. \A c, d \in Cells : ~Conflict(grid, c, d)
    <3>1. SUFFICES ASSUME NEW c \in Cells, NEW d \in Cells, Conflict(grid, c, d) PROVE FALSE
      OBVIOUS
    <3>2. puzzle[c] = grid[c] /\ puzzle[d] = grid[d]
      BY <3>1, <2>3, <1>1 DEF FrameInv, NoNewConflict
    <3> QED BY <3>1, <3>2, <2>1 DEF Consistent, Conflict
  <2> QED BY <2>2, <2>3, <2>4 DEF Consistent
<1> QED
  BY <1>1, TypeInit, TypeStep, FrameInit, FrameStep, PTL DEF Spec

-----------------------------------------------------------------------------
(* A solution that has the digits of the first k frames. *)
Agrees(s, k) == \A l \in 1..k : s[stack[l].cell] = stack[l].num

(* The search has passed over no solution: one that agrees with the frames below
   has not a smaller digit in the cell of a frame.                          *)
NoneMissed ==
    rax = 0 =>
        \A s \in Solutions(puzzle) : \A k \in 1..Len(stack) :
            Agrees(s, k - 1) => s[stack[k].cell] >= stack[k].num

(* A call that has failed leaves no solution with the digits of its callers. *)
NoneLeft == (pc \in {"return", "exit"} /\ rax = 0) => \A s \in Solutions(puzzle) : ~Agrees(s, Len(stack))

(* FirstSolution, from the moment the grid is full. *)
FirstFound ==
    rax = 1 =>
        \A s \in Solutions(puzzle), c \in Cells :
            (s[c] < grid[c]) => \E d \in Cells : NotAfter(d, c) /\ d # c /\ s[d] # grid[d]

SearchInv == NoneMissed /\ NoneLeft /\ FirstFound

LEMMA SolutionType ==
    ASSUME TypeInv, NEW s \in Solutions(puzzle)
    PROVE  /\ \A c \in Cells : s[c] \in Digits
           /\ \A c \in Cells : puzzle[c] # BLANK => s[c] = puzzle[c]
           /\ Consistent(s)
<1>1. puzzle \in Grids
  BY PuzzlesAssumption DEF TypeInv, TypeOK
<1>2. s \in Completions(puzzle) /\ Consistent(s)
  BY DEF Solutions
<1>3. PICK f \in [Blanks(puzzle) -> Digits] :
           s = [c \in Cells |-> IF puzzle[c] = BLANK THEN f[c] ELSE puzzle[c]]
  BY <1>2 DEF Completions
<1>4. \A c \in Cells : puzzle[c] = BLANK => f[c] \in Digits
  BY <1>3 DEF Blanks
<1>5. \A c \in Cells : puzzle[c] # BLANK => puzzle[c] \in Digits
  BY <1>1 DEF Grids
<1> QED BY <1>2, <1>3, <1>4, <1>5

(* A solution with the digits of the frames in the grid has all that is there. *)
LEMMA AgreesWithGrid ==
    ASSUME TypeInv, FrameInv, rax = 0, NEW s \in Solutions(puzzle),
           \A k \in SetFrames : s[stack[k].cell] = stack[k].num
    PROVE  \A c \in Cells : grid[c] # BLANK => s[c] = grid[c]
<1> SUFFICES ASSUME NEW c \in Cells, grid[c] # BLANK PROVE s[c] = grid[c]
  OBVIOUS
<1>1. CASE \E k \in SetFrames : c = stack[k].cell
  BY <1>1 DEF FrameInv, GridIsPuzzleAndFrames
<1>2. CASE \A k \in SetFrames : c # stack[k].cell
  BY <1>2, SolutionType DEF FrameInv, GridIsPuzzleAndFrames
<1> QED BY <1>1, <1>2

LEMMA SearchInit == Init => SearchInv
<1> SUFFICES ASSUME Init PROVE SearchInv
  OBVIOUS
<1>1. 1..Len(stack) = {} /\ rax = 0 /\ pc = "start"
  BY DEF Init
<1> QED BY <1>1 DEF SearchInv, NoneMissed, NoneLeft, FirstFound

(* The grid is full: by the order of the frames the first difference between it
   and a solution is a digit that the search has passed over.               *)
LEMMA SearchCallFull == TypeInv /\ FrameInv /\ SearchInv /\ CallFull => SearchInv'
<1> SUFFICES ASSUME TypeInv, FrameInv, SearchInv, CallFull PROVE SearchInv'
  OBVIOUS
<1> DEFINE n == Len(stack)
<1>1. /\ pc = "call" /\ rax = 0 /\ rax' = 1 /\ puzzle' = puzzle /\ grid' = grid
      /\ stack \in Seq(Frame) /\ grid \in Grids /\ n \in Nat
  BY DEF CallFull, TypeInv, TypeOK, ControlOK
<1>2. SetFrames = 1..n
  BY <1>1 DEF SetFrames
<1>3. ASSUME NEW s \in Solutions(puzzle), NEW c \in Cells, s[c] < grid[c]
      PROVE  \E d \in Cells : NotAfter(d, c) /\ d # c /\ s[d] # grid[d]
  <2>1. s[c] # grid[c] /\ s[c] \in Digits
    BY <1>3, <1>1, SolutionType DEF Grids, Digits, BLANK
  <2>2. puzzle[c] = BLANK
    BY <2>1, SolutionType DEF FrameInv, GivensKept
  <2>3. grid[c] # BLANK
    BY FullGrid DEF CallFull, Blanks
  <2>4. PICK k \in 1..n : c = stack[k].cell
    BY <2>2, <2>3, <1>1, <1>2 DEF FrameInv, GridIsPuzzleAndFrames
  <2>5. grid[c] = stack[k].num
    BY <2>4, <1>1, <1>2 DEF FrameInv, GridIsPuzzleAndFrames
  <2>6. ~Agrees(s, k - 1)
    <3>1. Agrees(s, k - 1) => s[c] >= grid[c]
      BY <2>4, <2>5, <1>1 DEF SearchInv, NoneMissed
    <3>2. grid[c] \in Int /\ s[c] \in Int
      BY <2>1, <1>1 DEF Grids, Digits, BLANK
    <3> QED BY <3>1, <3>2, <1>3
  <2>7. PICK l \in 1..(k - 1) : s[stack[l].cell] # stack[l].num
    BY <2>6 DEF Agrees
  <2> DEFINE d == stack[l].cell
  <2>8. l \in 1..n /\ d \in Cells /\ grid[d] = stack[l].num /\ d # c
    <3>1. l \in 1..n
      BY <1>1, <2>7
    <3>2. stack[l] \in Frame
      BY <3>1, <1>1
    <3>3. d \in Cells
      BY <3>2 DEF Frame
    <3> QED BY <3>1, <3>3, <2>4, <2>7, <1>1, <1>2 DEF FrameInv, GridIsPuzzleAndFrames, FramesOnBlanks
  <2>9. NotAfter(d, c)
    <3>1. c \in Blanks(puzzle)
      BY <2>2 DEF Blanks
    <3>2. \A m \in 1..l : c # stack[m].cell
      BY <2>4, <2>7, <1>1 DEF FrameInv, FramesOnBlanks
    <3> QED BY <3>1, <3>2, <2>8, <1>1 DEF FrameInv, FirstBlanks
  <2> QED BY <2>7, <2>8, <2>9
<1> QED BY <1>1, <1>3 DEF SearchInv, NoneMissed, NoneLeft, FirstFound

LEMMA SearchCallBlank == TypeInv /\ FrameInv /\ SearchInv /\ CallBlank => SearchInv'
<1> SUFFICES ASSUME TypeInv, FrameInv, SearchInv, CallBlank PROVE SearchInv'
  OBVIOUS
<1> DEFINE n == Len(stack)
<1>1. PICK c \in get_unassigned_location(grid) : stack' = Append(stack, [cell |-> c, num |-> 1])
  BY DEF CallBlank
<1>2. /\ pc' = "try" /\ rax = 0 /\ rax' = 0 /\ puzzle' = puzzle /\ stack \in Seq(Frame)
  BY DEF CallBlank, TypeInv, TypeOK, ControlOK
<1>3. c \in Cells /\ [cell |-> c, num |-> 1] \in Frame
  BY DimType DEF get_unassigned_location, Blanks, Frame
<1>4. /\ n \in Nat /\ Len(stack') = n + 1 /\ stack'[n + 1] = [cell |-> c, num |-> 1]
      /\ \A k \in 1..n : stack'[k] = stack[k]
  BY <1>1, <1>2, <1>3, Push
<1>5. NoneMissed'
  <2>1. SUFFICES ASSUME NEW s \in Solutions(puzzle), NEW k \in 1..(n + 1), Agrees(s, k - 1)'
                 PROVE  s[stack'[k].cell] >= stack'[k].num
    BY <1>2, <1>4 DEF NoneMissed, Agrees
  <2>2. CASE k = n + 1
    <3>1. s[c] >= 1
      BY <1>3, SolutionType DEF Digits
    <3> QED BY <3>1, <2>2, <1>4
  <2>3. CASE k \in 1..n
    <3>1. Agrees(s, k - 1)
      BY <2>1, <2>3, <1>4 DEF Agrees
    <3> QED BY <3>1, <2>3, <1>2, <1>4 DEF SearchInv, NoneMissed
  <2> QED BY <2>2, <2>3, <1>4
<1> QED BY <1>2, <1>5 DEF SearchInv, NoneLeft, FirstFound

(* A digit that is not safe is in no solution that agrees with the grid. *)
LEMMA SearchNextDigit == TypeInv /\ FrameInv /\ SearchInv /\ NextDigit => SearchInv'
<1> SUFFICES ASSUME TypeInv, FrameInv, SearchInv, NextDigit PROVE SearchInv'
  OBVIOUS
<1> DEFINE n == Len(stack)
           c == Top.cell
<1>1. /\ pc = "try" /\ pc' = "try" /\ rax = 0 /\ rax' = 0 /\ puzzle' = puzzle /\ stack' = TryNext
      /\ stack \in Seq(Frame) /\ stack # <<>> /\ c \in Cells /\ grid[c] = BLANK
      /\ ~is_safe(grid, c, Top.num)
  BY TopIsBlank DEF NextDigit, TypeInv, TypeOK
<1>2. n \in Nat /\ n >= 1 /\ Top = stack[n] /\ Top.num \in Digits
  BY <1>1, TopType, DimType DEF NextDigit, Exhausted, Digits
<1>3. /\ Len(stack') = n /\ stack'[n].cell = c /\ stack'[n].num = Top.num + 1
      /\ \A k \in 1..(n - 1) : stack'[k] = stack[k]
  BY <1>1, <1>2, Tried, DimType DEF Digits
<1>4. SetFrames = 1..(n - 1)
  BY <1>1 DEF SetFrames
<1>5. ASSUME NEW s \in Solutions(puzzle), Agrees(s, n - 1) PROVE s[c] >= Top.num + 1
  <2>1. PICK d \in Cells : Together(c, d) /\ grid[d] = Top.num
    BY <1>1, IsSafeIsTheRule
  <2>2. d # c /\ grid[d] # BLANK
    BY <2>1, <1>1, <1>2 DEF Digits, BLANK
  <2>3. s[d] = Top.num
    BY <2>1, <2>2, <1>1, <1>4, <1>5, AgreesWithGrid DEF Agrees
  <2>4. s[c] # Top.num
    <3>1. ~Conflict(s, c, d) /\ Sees(c, d)
      BY <2>1, <2>2, <1>1, SolutionType DEF Consistent, Sees, Together
    <3> QED BY <3>1, <2>2, <2>1, <2>3 DEF Conflict
  <2>5. s[c] >= Top.num
    BY <1>1, <1>2, <1>5 DEF SearchInv, NoneMissed
  <2>6. s[c] \in Int /\ Top.num \in Int
    BY <1>1, <1>2, SolutionType DEF Digits
  <2> QED BY <2>4, <2>5, <2>6
<1>6. NoneMissed'
  <2>1. SUFFICES ASSUME NEW s \in Solutions(puzzle), NEW k \in 1..n, Agrees(s, k - 1)'
                 PROVE  s[stack'[k].cell] >= stack'[k].num
    BY <1>1, <1>3 DEF NoneMissed, Agrees
  <2>2. Agrees(s, k - 1)
    BY <2>1, <1>2, <1>3 DEF Agrees
  <2>3. CASE k = n
    BY <2>2, <2>3, <1>3, <1>5
  <2>4. CASE k \in 1..(n - 1)
    BY <2>2, <2>4, <1>1, <1>2, <1>3 DEF SearchInv, NoneMissed
  <2> QED BY <2>3, <2>4, <1>2
<1> QED BY <1>1, <1>6 DEF SearchInv, NoneLeft, FirstFound

(* After the last digit no solution is left for the frames below. *)
LEMMA SearchFail == TypeInv /\ FrameInv /\ SearchInv /\ FailBacktrack => SearchInv'
<1> SUFFICES ASSUME TypeInv, FrameInv, SearchInv, FailBacktrack PROVE SearchInv'
  OBVIOUS
<1> DEFINE n == Len(stack)
<1>1. /\ pc = "try" /\ rax = 0 /\ rax' = 0 /\ puzzle' = puzzle /\ stack' = Pop
      /\ stack \in Seq(Frame) /\ stack # <<>> /\ Top.cell \in Cells
  BY TopIsBlank DEF FailBacktrack, TypeInv, TypeOK
<1>2. n \in Nat /\ n >= 1 /\ Top = stack[n] /\ Top.num \in Int /\ Top.num > DIM
  BY <1>1, TopType, DimType DEF FailBacktrack, Exhausted
<1>3. Len(stack') = n - 1 /\ \A k \in 1..(n - 1) : stack'[k] = stack[k]
  BY <1>1, Popped
<1>4. NoneLeft'
  <2>1. SUFFICES ASSUME NEW s \in Solutions(puzzle), Agrees(s, Len(stack))' PROVE FALSE
    BY <1>1, <1>3 DEF NoneLeft, Agrees
  <2>2. Agrees(s, n - 1)
    BY <2>1, <1>3 DEF Agrees
  <2>3. s[Top.cell] >= Top.num
    BY <2>2, <1>1, <1>2 DEF SearchInv, NoneMissed
  <2>4. s[Top.cell] \in Int /\ s[Top.cell] <= DIM
    BY <1>1, SolutionType, DimType DEF Digits
  <2> QED BY <2>3, <2>4, <1>2, DimType
<1>5. NoneMissed'
  <2>1. SUFFICES ASSUME NEW s \in Solutions(puzzle), NEW k \in 1..(n - 1), Agrees(s, k - 1)'
                 PROVE  s[stack'[k].cell] >= stack'[k].num
    BY <1>1, <1>3 DEF NoneMissed, Agrees
  <2>2. Agrees(s, k - 1)
    BY <2>1, <1>2, <1>3 DEF Agrees
  <2> QED BY <2>2, <1>1, <1>2, <1>3 DEF SearchInv, NoneMissed
<1> QED BY <1>1, <1>4, <1>5 DEF SearchInv, FirstFound

(* The digit of a call that has failed is in no solution that agrees below. *)
LEMMA SearchReturn == TypeInv /\ FrameInv /\ SearchInv /\ ReturnFailed => SearchInv'
<1> SUFFICES ASSUME TypeInv, FrameInv, SearchInv, ReturnFailed PROVE SearchInv'
  OBVIOUS
<1> DEFINE n == Len(stack)
           c == Top.cell
<1>1. /\ pc = "return" /\ pc' = "try" /\ rax = 0 /\ rax' = 0 /\ puzzle' = puzzle /\ stack' = TryNext
      /\ stack \in Seq(Frame) /\ stack # <<>>
  BY DEF ReturnFailed, TypeInv, TypeOK
<1>2. n \in Nat /\ n >= 1 /\ Top = stack[n] /\ c \in Cells
  BY <1>1, TopType
<1>3. Top.num \in Digits
  BY <1>1, <1>2 DEF TypeInv, ControlOK, SetFrames
<1>4. /\ Len(stack') = n /\ stack'[n].cell = c /\ stack'[n].num = Top.num + 1
      /\ \A k \in 1..(n - 1) : stack'[k] = stack[k]
  BY <1>1, <1>3, Tried, DimType DEF Digits
<1>5. ASSUME NEW s \in Solutions(puzzle), Agrees(s, n - 1) PROVE s[c] >= Top.num + 1
  <2>1. s[c] >= Top.num
    BY <1>1, <1>2, <1>5 DEF SearchInv, NoneMissed
  <2>2. ~Agrees(s, n)
    BY <1>1 DEF SearchInv, NoneLeft
  <2>3. s[c] # Top.num
    BY <2>2, <1>2, <1>5 DEF Agrees
  <2>4. s[c] \in Int /\ Top.num \in Int
    BY <1>2, <1>3, SolutionType DEF Digits
  <2> QED BY <2>1, <2>3, <2>4
<1>6. NoneMissed'
  <2>1. SUFFICES ASSUME NEW s \in Solutions(puzzle), NEW k \in 1..n, Agrees(s, k - 1)'
                 PROVE  s[stack'[k].cell] >= stack'[k].num
    BY <1>1, <1>4 DEF NoneMissed, Agrees
  <2>2. Agrees(s, k - 1)
    BY <2>1, <1>2, <1>4 DEF Agrees
  <2>3. CASE k = n
    BY <2>2, <2>3, <1>4, <1>5
  <2>4. CASE k \in 1..(n - 1)
    BY <2>2, <2>4, <1>1, <1>2, <1>4 DEF SearchInv, NoneMissed
  <2> QED BY <2>3, <2>4, <1>2
<1> QED BY <1>1, <1>6 DEF SearchInv, NoneLeft, FirstFound

LEMMA SearchStep == TypeInv /\ FrameInv /\ SearchInv /\ [Next]_vars => SearchInv'
<1> SUFFICES ASSUME TypeInv, FrameInv, SearchInv, [Next]_vars PROVE SearchInv'
  OBVIOUS
<1>1. CASE Start \/ Assign
  BY <1>1 DEF Start, Assign, TypeInv, ControlOK, SearchInv, NoneMissed, NoneLeft, FirstFound, Agrees
<1>2. CASE ReturnSolved
  BY <1>2 DEF ReturnSolved, SearchInv, NoneMissed, NoneLeft, FirstFound
<1>3. CASE Exit
  BY <1>3 DEF Exit, SearchInv, NoneMissed, NoneLeft, FirstFound, Agrees
<1>4. CASE UNCHANGED vars
  BY <1>4 DEF vars, SearchInv, NoneMissed, NoneLeft, FirstFound, Agrees
<1> QED
  BY <1>1, <1>2, <1>3, <1>4, SearchCallFull, SearchCallBlank, SearchNextDigit, SearchFail,
     SearchReturn DEF Next, solve_sudoku, Done

(* "No solution exists" is written only if the puzzle has none: no return, and no
   digit passed over, has skipped a solution.                               *)
THEOREM NoSolutionIsMissed == Spec => []NoSolutionIsTrue
<1>1. ASSUME TypeInv, SearchInv PROVE NoSolutionIsTrue
  <2>1. SUFFICES ASSUME pc = "exit", rax = 0 PROVE Solutions(puzzle) = {}
    BY DEF NoSolutionIsTrue
  <2>2. 1..Len(stack) = {}
    BY <2>1, <1>1 DEF TypeInv, ControlOK
  <2> QED BY <2>1, <2>2, <1>1 DEF SearchInv, NoneLeft, Agrees
<1> QED
  BY <1>1, TypeInit, TypeStep, FrameInit, FrameStep, SearchInit, SearchStep, PTL DEF Spec

(* Of several solutions the program shows the one that is first in the order of
   the search: smallest in the first cell where it differs from another.    *)
THEOREM FirstIsFound == Spec => []FirstSolution
<1>1. SearchInv => FirstSolution
  BY DEF SearchInv, FirstFound, FirstSolution
<1> QED
  BY <1>1, TypeInit, TypeStep, FrameInit, FrameStep, SearchInit, SearchStep, PTL DEF Spec
=============================================================================
