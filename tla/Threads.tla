------------------------------ MODULE Threads ------------------------------
(***************************************************************************)
(* threads.asm: raw clone(2) threads that share one counter.  The main     *)
(* thread (0) maps a stack and clones a thread, once per worker, and then  *)
(* runs the same loop as the workers: check_count, puts, again.  The only  *)
(* synchronisation is `lock xadd' on count; a thread whose decrement makes *)
(* it negative ends itself with exit(2), which leaves the others running.  *)
(***************************************************************************)
EXTENDS Integers, FiniteSets

CONSTANTS
    NThreads,   \* threads created by main (threadfn1, threadfn2: 2)
    MAX_LINES   \* lines printed before the program ends (100000)

ASSUME NThreadsAssumption == NThreads \in Nat
ASSUME MaxLinesAssumption == MAX_LINES \in Nat

VARIABLES
    count,      \* the shared quadword
    pc,         \* where each thread stands
    rax,        \* what xadd left in rax: the value count had
    creating,   \* the worker main is about to create
    printed     \* lines written to stdout

vars == <<count, pc, rax, creating, printed>>

Main    == 0
Workers == 1..NThreads
Threads == {Main} \cup Workers

(* "unborn" is a thread that clone has not created, "killed" one that died
   with the whole process.                                                 *)
Running == {"mmap", "clone", "check_count", "puts"}
PC      == Running \cup {"unborn", "exited", "killed"}

InPC(p) == {t \in Threads : pc[t] = p}

Init ==
    /\ count = MAX_LINES
    /\ pc = [t \in Threads |-> IF t # Main THEN "unborn"
                               ELSE IF NThreads = 0 THEN "check_count" ELSE "mmap"]
    /\ rax = [t \in Threads |-> 0]
    /\ creating = 1
    /\ printed = 0

(* stack_create: mmap maps the new stack ... *)
StackCreate ==
    /\ pc[Main] = "mmap"
    /\ pc' = [pc EXCEPT ![Main] = "clone"]
    /\ UNCHANGED <<count, rax, creating, printed>>

(* ... or fails.  Its result is not tested: `pop qword [rsi]' stores to
   -errno + STACK_SIZE - 8, which is not mapped, and SIGSEGV takes down every
   thread of the process.                                                  *)
StackCreateFails ==
    /\ pc[Main] = "mmap"
    /\ pc' = [t \in Threads |-> IF pc[t] \in Running THEN "killed" ELSE pc[t]]
    /\ UNCHANGED <<count, rax, creating, printed>>

(* clone: the worker returns from it into its thread function; a failure is
   not tested and main goes on with one thread fewer.                      *)
ThreadCreate(born) ==
    /\ pc[Main] = "clone"
    /\ pc' = [pc EXCEPT
                ![Main]     = IF creating < NThreads THEN "mmap" ELSE "check_count",
                ![creating] = IF born THEN "check_count" ELSE "unborn"]
    /\ creating' = creating + 1
    /\ UNCHANGED <<count, rax, printed>>

(* What a thread does with the value of count it has drawn. *)
Drawn(t, exits) ==
    /\ pc[t] = "check_count"
    /\ rax' = [rax EXCEPT ![t] = count]
    /\ pc' = [pc EXCEPT ![t] = IF exits THEN "exited" ELSE "puts"]
    /\ UNCHANGED <<creating, printed>>

\* Mutants: no lock prefix, another processor's store may overwrite this one;
\* jle for jl.
CheckCount_NoLock(t) == Drawn(t, count - 1 < 0) /\ count' \in {count, count - 1}
CheckCount_Jle(t)    == Drawn(t, count - 1 <= 0) /\ count' = count - 1

\* Mutant: exit_group(2) for exit(2), the first thread to finish ends them all.
CheckCount_ExitGroup(t) ==
    /\ pc[t] = "check_count"
    /\ rax' = [rax EXCEPT ![t] = count]
    /\ count' = count - 1
    /\ pc' = IF count - 1 < 0
             THEN [u \in Threads |-> IF pc[u] \in Running THEN "exited" ELSE pc[u]]
             ELSE [pc EXCEPT ![t] = "puts"]
    /\ UNCHANGED <<creating, printed>>

\* Mutant: a thread that finds count used up looks again instead of ending.
CheckCount_Retry(t) ==
    /\ pc[t] = "check_count"
    /\ IF count > 0 THEN Drawn(t, FALSE) /\ count' = count - 1 ELSE UNCHANGED vars

(* lock xadd [count], -1 and the jl on the sum, as one step. *)
CheckCount(t) == Drawn(t, count - 1 < 0) /\ count' = count - 1

(* One write(2) of the greeting. *)
Puts(t) ==
    /\ pc[t] = "puts"
    /\ printed' = printed + 1
    /\ pc' = [pc EXCEPT ![t] = "check_count"]
    /\ UNCHANGED <<count, rax, creating>>

Create == StackCreate \/ \E born \in BOOLEAN : ThreadCreate(born)
Loop(t) == CheckCount(t) \/ Puts(t)

(* Every thread has ended: the process is gone. *)
Terminated == \A t \in Threads : pc[t] \notin Running
Done == Terminated /\ UNCHANGED vars

Next ==
    \/ Create
    \/ StackCreateFails
    \/ \E t \in Threads : Loop(t)
    \/ Done

(* The kernel runs every runnable thread. *)
Fairness == WF_vars(Create) /\ \A t \in Threads : WF_vars(Loop(t))

Spec == Init /\ [][Next]_vars /\ Fairness

-----------------------------------------------------------------------------
(* Type invariant. *)
TypeOK ==
    /\ count \in Int
    /\ pc \in [Threads -> PC]
    /\ rax \in [Threads -> Int]
    /\ creating \in 1..(NThreads + 1)
    /\ printed \in Nat

(* Two threads about to print never drew the same value of count: the locked
   xadd hands every value out once, however the threads interleave.        *)
TicketsUnique ==
    \A t, u \in InPC("puts") : t # u => rax[t] # rax[u]

(* The value of count that is still to be handed out. *)
Left == IF count > 0 THEN count ELSE 0

(* A line is written, about to be written, or still in count: none is lost
   and none is promised twice.  The SIGSEGV loses those about to be written. *)
LinesConserved ==
    /\ printed + Cardinality(InPC("puts")) + Left <= MAX_LINES
    /\ InPC("killed") = {} =>
           printed + Cardinality(InPC("puts")) + Left = MAX_LINES

(* count is below zero by exactly the number of threads that ended, so it
   cannot wrap around and let a thread print again.                        *)
OvershootIsExited ==
    Cardinality(InPC("exited")) = IF count < 0 THEN -count ELSE 0

(* When the program ends by itself every line was printed, also when some
   worker could not be created; it never ends with a line too many.        *)
AllLinesPrinted ==
    (Terminated /\ InPC("killed") = {}) => printed = MAX_LINES

(* The program ends, by itself or by the SIGSEGV: no thread prints for ever
   and none waits for another.                                             *)
EventuallyTerminated == <>Terminated

-----------------------------------------------------------------------------
(* What the threads promise together: a budget of lines, drawn one by one. *)
Budget == INSTANCE LineBudget
    WITH Total <- MAX_LINES,
         drawn <- MAX_LINES - Left,
         written <- printed,
         dead <- (InPC("killed") # {})

(* The threads implement the budget, its progress included. *)
ImplementsBudget == Budget!Spec
=============================================================================
