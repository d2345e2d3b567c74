----------------------------- MODULE ZeroedArray -----------------------------
(***************************************************************************)
(* What DynamicArray, AlignedArray, SafeArray, FILOlist and MixedPool      *)
(* promise: an array that is read back as it was written, grows and        *)
(* shrinks at its end and whose new entries are zero.                      *)
(***************************************************************************)
EXTENDS Integers, Sequences

CONSTANTS
    Elements, Zero,
    Capacity,   \* the number of entries at which a push may be refused
    AnswersIndex, \* whether a push returns the new index (else 1 for true)
    Lengths       \* the numbers of entries that can be accessed at once

VARIABLES
    a,          \* the entries
    result,     \* what the last call returned, or what it wrote and where
    status      \* "running", or "exited" by an error

vars == <<a, result, status>>

Init == a \in Seq({Zero}) /\ result = <<>> /\ status = "running"

Push(x, k) == /\ a' = a \o [i \in 1 .. k |-> x]
              /\ result' = IF AnswersIndex THEN <<Len(a)>> ELSE <<1>>
              /\ UNCHANGED status

Refuse == Len(a) >= Capacity /\ result' = <<0>> /\ UNCHANGED <<a, status>>

Pop == /\ a # <<>>
       /\ a' = SubSeq(a, 1, Len(a) - 1)
       /\ result' = <<a[Len(a)]>>
       /\ UNCHANGED status

SetNum(num) == /\ a' = [i \in 1 .. num |-> IF i <= Len(a) THEN a[i] ELSE Zero]
               /\ result' = <<>>
               /\ UNCHANGED status

\* x is written into the k entries from i on, and into no other.
Write(i, k, x) == /\ i + k - 1 <= Len(a)
                  /\ a' = [j \in DOMAIN a |-> IF j \in i .. i + k - 1 THEN x ELSE a[j]]
                  /\ result' = <<i, k, x>>
                  /\ UNCHANGED status

\* The k entries from i on, read as one object.
Read(i, k) == /\ i + k - 1 <= Len(a)
              /\ result' = SubSeq(a, i, i + k - 1)
              /\ UNCHANGED <<a, status>>

Exit == status' = "exited" /\ UNCHANGED <<a, result>>

Next == /\ status = "running"
        /\ \/ \E x \in Elements, k \in Lengths : Push(x, k)
           \/ Refuse
           \/ Pop
           \/ SetNum(Len(a'))
           \/ \E i \in 1 .. Len(a), k \in Lengths :
                 Read(i, k) \/ \E x \in Elements : Write(i, k, x)
           \/ Exit

Spec == Init /\ [][Next]_vars

=============================================================================
