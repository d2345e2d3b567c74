------------------------------ MODULE SafeArray ------------------------------
(***************************************************************************)
(* SafeArray.cpp: MAXSIZE entries, zero at first, with checked indices; an *)
(* index out of range returns a null reference, and its use ends the       *)
(* program.                                                                *)
(***************************************************************************)
EXTENDS Containers

VARIABLES a, result, status

vars == <<a, result, status>>

Init == /\ a = [s \in Slots(MAXSIZE) |-> Zero]
        /\ result = <<>> /\ status = "running"

NullReference == status' = "exited" /\ UNCHANGED <<a, result>>

Read(i) == \/ ~ValidIndex(i, MAXSIZE) /\ NullReference
           \/ ValidIndex(i, MAXSIZE) /\ result' = <<a[i]>> /\ UNCHANGED <<a, status>>

Assign(i, x) == /\ ValidIndex(i, MAXSIZE)
                /\ a' = [a EXCEPT ![i] = x]
                /\ result' = <<i + 1, 1, x>>
                /\ UNCHANGED status

Next == /\ status = "running"
        /\ \E i \in -1 .. MAXSIZE : Read(i) \/ \E x \in OBJTYPE : Assign(i, x)

Spec == Init /\ [][Next]_vars

-----------------------------------------------------------------------------
TypeOK == a \in [Slots(MAXSIZE) -> OBJTYPE] /\ status \in {"running", "exited"}

\* The entries are zero until written and read back as written.
Entries == INSTANCE ZeroedArray
            WITH a <- [i \in 1 .. MAXSIZE |-> a[i - 1]],
                 Elements <- OBJTYPE, Lengths <- {1}, AnswersIndex <- TRUE, Capacity <- MAXSIZE
ImplementsArray == Entries!Spec

=============================================================================
