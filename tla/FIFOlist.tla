------------------------------ MODULE FIFOlist ------------------------------
(***************************************************************************)
(* FIFOlist.cpp: a first-in-first-out list in a circular array of MAXSIZE  *)
(* objects.  The pointers head and tail are kept as indices of list; true  *)
(* and false are 1 and 0.                                                  *)
(***************************************************************************)
EXTENDS Containers

VARIABLES head, tail, n, list, result, status

vars == <<head, tail, n, list, result, status>>

Init == /\ head = 0 /\ tail = 0 /\ n = 0
        /\ list = [s \in Slots(MAXSIZE) |-> Junk]
        /\ result = <<>> /\ status = "running"

Put(x) ==
    \/ n >= MAXSIZE /\ result' = <<0>> /\ UNCHANGED <<head, tail, n, list, status>>
    \/ /\ n < MAXSIZE
       /\ n' = n + 1
       /\ list' = [list EXCEPT ![head] = x]
       /\ head' = Wrap(head + 1, MAXSIZE)
       /\ result' = <<1>>
       /\ UNCHANGED <<tail, status>>

Get ==
    \/ n <= 0 /\ status' = "exited" /\ UNCHANGED <<head, tail, n, list, result>>
    \/ /\ n > 0
       /\ n' = n - 1
       /\ tail' = Wrap(tail + 1, MAXSIZE)
       /\ result' = <<list[tail]>>
       /\ UNCHANGED <<head, list, status>>

Next == status = "running" /\ ((\E x \in OBJTYPE : Put(x)) \/ Get)

Spec == Init /\ [][Next]_vars

-----------------------------------------------------------------------------
TypeOK == /\ head \in Slots(MAXSIZE) /\ tail \in Slots(MAXSIZE)
          /\ n \in 0 .. MAXSIZE
          /\ list \in [Slots(MAXSIZE) -> Cell]
          /\ status \in {"running", "exited"}

Queued == [i \in 1 .. n |-> list[Wrap(tail + i - 1, MAXSIZE)]]

\* A bounded queue: objects come out in the order they went in, and one is
\* refused only by a list that holds MAXSIZE of them.
Fifo == INSTANCE FifoQueue
            WITH q <- Queued, Elements <- OBJTYPE, Capacity <- MAXSIZE,
                 AnswersTrue <- TRUE
ImplementsFifo == Fifo!Spec

=============================================================================
