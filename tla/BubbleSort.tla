----------------------------- MODULE BubbleSort -----------------------------
(***************************************************************************)
(* bubblesort.asm: the same numbers are copied to work_array and sorted    *)
(* three times, by BubbleSort0, BubbleSort1 and BubbleSort2, which count   *)
(* their comparisons (r8) and swaps (r9).                                  *)
(*                                                                         *)
(* BubbleSort1 and BubbleSort2 start with r10 = length where BubbleSort0   *)
(* has length-1: their first pass also compares the last number with the   *)
(* quadword behind work_array.  work_array is the last thing in .bss, so   *)
(* that quadword is there, 0 when the program starts, and no ResetWorkArray *)
(* ever writes it: here it is cell N + 1.                                  *)
(***************************************************************************)
EXTENDS Integers, Sequences, FiniteSets, BubbleSortConstants

VARIABLES
    orig_array,
    work_array, \* with the cell behind it
    run,        \* which of the three sorts: 0, 1, 2
    pc,
    i,          \* rcx
    r10,        \* the bound of the inner loop, in BubbleSort1 and BubbleSort2
    newn,       \* r11, in BubbleSort2
    isSwapped,  \* rdx, in BubbleSort0 and BubbleSort1
    r8, r9,     \* comparisons and swaps of this run
    df,         \* the direction flag: string instructions go down
    start,      \* history: work_array when the sort began
    results     \* what every run has written: numbers, iterations, swaps

counters == <<r8, r9>>
vars == <<orig_array, work_array, run, pc, i, r10, newn, isSwapped, r8, r9, df, start, results>>

Runs == 0..2

(* The numbers that the program is assembled with. *)
ProgramArray ==
    {<<154, 2144, 119, 98, 4, 520, 2, 75, 15, 0, -85, -4, -78, -54, -485, -458, -25, -92, -233,
       720, 368, 547, 758, 8, -233, 72, -36, 854, -775, 807>>}

Init ==
    /\ orig_array \in Arrays
    /\ work_array = [k \in 1..(N + 1) |-> 0]
    /\ run = 0 /\ pc = "reset"
    /\ i = 1 /\ r10 = 0 /\ newn = 0 /\ isSwapped = 0
    /\ r8 = 0 /\ r9 = 0
    /\ df = 0
    /\ start = work_array
    /\ results = <<>>

\* Mutant: the quadword behind is reset as well, from what follows orig_array.
ResetWorkArray_OneMore ==
    /\ work_array' = [k \in 1..(N + 1) |-> IF k <= N THEN orig_array[k] ELSE 0]
    /\ df' = 0

ResetWorkArray ==
    /\ work_array' = [k \in 1..(N + 1) |-> IF k <= N THEN orig_array[k] ELSE work_array[k]]
    /\ df' = 0

(* A run begins: the array is reset and shown, and the sort is called. *)
Reset ==
    /\ pc = "reset"
    /\ ResetWorkArray
    /\ start' = work_array'
    /\ r8' = 0 /\ r9' = 0
    /\ r10' = N
    /\ i' = 1 /\ newn' = 0 /\ isSwapped' = 0
    /\ pc' = "for"
    /\ UNCHANGED <<orig_array, run, results>>

(* The last comparison of a pass: cmp rcx, length-1 or cmp rcx, r10. *)
Bound == IF run = 0 THEN N - 1 ELSE r10

Swap(a, k) == [a EXCEPT ![k] = a[k + 1], ![k + 1] = a[k]]

(* One comparison and, when the second number is less, the swap.  newn and
   isSwapped are set by the runs that have them.                           *)
Compare(less, last) ==
    /\ pc = "for"
    /\ work_array' = IF less THEN Swap(work_array, i) ELSE work_array
    /\ r9' = IF less THEN r9 + 1 ELSE r9
    /\ isSwapped' = IF run # 2 /\ less THEN 1 ELSE isSwapped
    /\ newn' = IF run = 2 /\ less THEN i ELSE newn
    /\ r8' = r8 + 1
    /\ i' = i + 1
    /\ pc' = IF i + 1 <= last THEN "for" ELSE "until"
    /\ UNCHANGED <<orig_array, run, r10, df, start, results>>

\* Mutants: equal numbers are swapped (jg for jge); the last pair is left out
\* (jl for jle).
For_Jg    == Compare(work_array[i + 1] <= work_array[i], Bound)
For_Short == Compare(work_array[i + 1] < work_array[i], Bound - 1)

For == Compare(work_array[i + 1] < work_array[i], Bound)

(* Another pass, or the end of the sort. *)
Repeat(again) ==
    /\ pc' = IF again THEN "for" ELSE "print"
    /\ i' = 1 /\ newn' = 0 /\ isSwapped' = 0
    /\ UNCHANGED <<orig_array, work_array, run, counters, df, start, results>>

Until0 == pc = "until" /\ run = 0 /\ UNCHANGED r10 /\ Repeat(isSwapped = 1)

Until1 ==
    /\ pc = "until" /\ run = 1
    /\ r10' = r10 - 1
    /\ Repeat(isSwapped = 1)

Until2 ==
    /\ pc = "until" /\ run = 2
    /\ r10' = newn - 1
    /\ Repeat(r10' > 0)

(* PrintResults: the numbers, r8 and r9.  Convert leaves the direction flag set
   and no ClearBuffer follows the last one.                                *)
PrintResults ==
    /\ pc = "print"
    /\ results' = Append(results, [numbers |-> [k \in 1..N |-> work_array[k]],
                                   iterations |-> r8, swaps |-> r9])
    /\ df' = 1
    /\ IF run = 2 THEN pc' = "exit" /\ UNCHANGED run
                  ELSE pc' = "reset" /\ run' = run + 1
    /\ UNCHANGED <<orig_array, work_array, i, r10, newn, isSwapped, counters, start>>

Done == pc = "exit" /\ UNCHANGED vars

Next == Reset \/ For \/ Until0 \/ Until1 \/ Until2 \/ PrintResults \/ Done

(* A program of one thread, which the kernel runs. *)
Spec == Init /\ [][Next]_vars /\ WF_vars(Next)

-----------------------------------------------------------------------------
(* Type invariant. *)
TypeOK ==
    /\ orig_array \in Arrays
    /\ work_array \in [1..(N + 1) -> Int]
    /\ start \in [1..(N + 1) -> Int]
    /\ run \in Runs
    /\ pc \in {"reset", "for", "until", "print", "exit"}
    /\ i \in 1..(N + 1) /\ (pc = "for" => i <= N)
    /\ r10 \in Int /\ r10 <= N
    /\ newn \in 0..N
    /\ isSwapped \in {0, 1} /\ df \in {0, 1}
    /\ r8 \in Nat /\ r9 \in Nat

(* lodsq and movsq run with the direction flag clear, although Convert sets it
   and the last Convert of a run leaves it set.                            *)
StringsGoUp == pc \in {"for", "until", "print"} => df = 0

(* The cells a sort works on: BubbleSort0 leaves the one behind alone. *)
Sorting == 1..(IF run = 0 THEN N ELSE N + 1)

InOrder(a, cells) == \A j, k \in cells : j < k => a[j] <= a[k]

(* What the inner loop may leave out: everything beyond its last comparison is
   in its final place, above all that comes before it.                     *)
TailInPlace ==
    pc \in {"for", "until"} /\ run > 0 =>
        \A j, k \in Sorting : (j < k /\ k > r10 + 1) => work_array[j] <= work_array[k]

(* A sort that ends has sorted its cells, whichever way it was shortened. *)
EndIsSorted == pc = "print" => InOrder(work_array, Sorting)

(* Pairs that stand in the wrong order. *)
Inversions(a) ==
    Cardinality({p \in Sorting \X Sorting : p[1] < p[2] /\ a[p[1]] > a[p[2]]})

(* Every swap removes exactly one inversion: r9, which is shown, is the number
   of inversions the array had, and no order of passes can do with less.    *)
SwapsAreInversions ==
    pc \in {"for", "until", "print"} => r9 + Inversions(work_array) = Inversions(start)

Occurrences(a, cells, v) == Cardinality({k \in cells : a[k] = v})

IsSortOf(a, b) ==
    /\ InOrder(a, 1..N)
    /\ \A k \in 1..N : Occurrences(a, 1..N, b[k]) = Occurrences(b, 1..N, b[k])

(* RUN 1 and RUN 3 show the numbers of orig_array, sorted: RUN 3 compares with
   the quadword behind work_array as RUN 2 does, but RUN 2 has left there a
   number that none of the array exceeds.                                  *)
Run1And3Sort ==
    \A r \in DOMAIN results \ {2} : IsSortOf(results[r].numbers, orig_array)

(* The three sorts end. *)
Ends == <>(pc = "exit")

-----------------------------------------------------------------------------
(* bubblesort.asm:51, "The SORTED array:" follows every sort: the numbers of
   the unsorted array, in order.                                           *)
EveryRunSorts == \A r \in DOMAIN results : IsSortOf(results[r].numbers, orig_array)
=============================================================================
