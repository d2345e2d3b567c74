------------------------------ MODULE FifoQueue ------------------------------
(***************************************************************************)
(* What DynamicQueue and FIFOlist promise: objects come out in the order   *)
(* they went in, whatever happens to the memory they are kept in, and the  *)
(* program is only ended for a call that the queue cannot honour.          *)
(***************************************************************************)
EXTENDS Integers, Sequences

CONSTANTS
    Elements,
    Capacity,   \* the number of objects at which a put may be refused
    AnswersTrue \* whether a put returns 1 for true (else nothing)

VARIABLES
    q,          \* the objects in the queue, the oldest first
    result,     \* what the last call returned, or what it wrote and where
    status      \* "running", or "exited" by Error

vars == <<q, result, status>>

Init == q = <<>> /\ result = <<>> /\ status = "running"

Put(x) == /\ q' = Append(q, x)
          /\ result' = IF AnswersTrue THEN <<1>> ELSE <<>>
          /\ UNCHANGED status

Refuse == Len(q) >= Capacity /\ result' = <<0>> /\ UNCHANGED <<q, status>>

Get == /\ q # <<>>
       /\ q' = Tail(q)
       /\ result' = <<Head(q)>>
       /\ UNCHANGED status

Read(i) == result' = <<q[i]>> /\ UNCHANGED <<q, status>>

Assign(i, x) == /\ q' = [q EXCEPT ![i] = x]
                /\ result' = <<i, x>>
                /\ UNCHANGED status

Discard == q' = <<>> /\ result' = <<>> /\ UNCHANGED status

\* A call that changes the memory and not the queue.
Keep == result' = <<>> /\ UNCHANGED <<q, status>>

Exit == status' = "exited" /\ UNCHANGED <<q, result>>

Next == /\ status = "running"
        /\ \/ \E x \in Elements : Put(x)
           \/ Refuse
           \/ Get
           \/ \E i \in 1 .. Len(q) : Read(i) \/ \E x \in Elements : Assign(i, x)
           \/ Discard
           \/ Keep
           \/ Exit

Spec == Init /\ [][Next]_vars

=============================================================================
