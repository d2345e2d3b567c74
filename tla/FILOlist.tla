------------------------------ MODULE FILOlist ------------------------------
(***************************************************************************)
(* FILOlist.cpp: a stack of at most MAXSIZE objects.  The pointer top is   *)
(* kept as an index of list, next to the count n; true and false are 1, 0. *)
(***************************************************************************)
EXTENDS Containers

VARIABLES top, n, list, result, status

vars == <<top, n, list, result, status>>

Init == /\ top = 0 /\ n = 0
        /\ list = [s \in Slots(MAXSIZE) |-> Junk]
        /\ result = <<>> /\ status = "running"

Put(x) ==
    \/ n >= MAXSIZE /\ result' = <<0>> /\ UNCHANGED <<top, n, list, status>>
    \/ /\ n < MAXSIZE
       /\ n' = n + 1
       /\ list' = [list EXCEPT ![top] = x]
       /\ top' = top + 1
       /\ result' = <<1>>
       /\ UNCHANGED status

Get ==
    \/ n <= 0 /\ status' = "exited" /\ UNCHANGED <<top, n, list, result>>
    \/ /\ n > 0
       /\ n' = n - 1
       /\ top' = top - 1
       /\ result' = <<list[top - 1]>>
       /\ UNCHANGED <<list, status>>

Next == status = "running" /\ ((\E x \in OBJTYPE : Put(x)) \/ Get)

Spec == Init /\ [][Next]_vars

-----------------------------------------------------------------------------
TypeOK == /\ n \in 0 .. MAXSIZE
          /\ top \in 0 .. MAXSIZE
          /\ list \in [Slots(MAXSIZE) -> Cell]
          /\ status \in {"running", "exited"}

\* A bounded stack: an object comes out before those that were put in before
\* it, and one is refused only by a stack that holds MAXSIZE of them.
Stack == INSTANCE ZeroedArray
            WITH a <- [i \in 1 .. n |-> list[i - 1]],
                 Elements <- OBJTYPE, Lengths <- {1}, AnswersIndex <- FALSE, Capacity <- MAXSIZE
ImplementsStack == Stack!Spec

=============================================================================
