------------------------ MODULE BubbleSortConstants ------------------------
(* The array of bubblesort.asm, for BubbleSort and for the modules that run
   it beside another program.                                               *)
EXTENDS Integers

CONSTANTS
    N,          \* orig_array.length: 30 in the program
    Arrays      \* what orig_array may hold

ASSUME NAssumption == N \in Nat /\ N >= 2
ASSUME ArraysAssumption == Arrays \subseteq [1..N -> Int]
=============================================================================
