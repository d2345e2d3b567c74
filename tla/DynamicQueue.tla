---------------------------- MODULE DynamicQueue ----------------------------
(***************************************************************************)
(* DynamicQueue.cpp: a first-in-first-out queue in a circular buffer that  *)
(* grows.  A call is one action: the class is for one thread.  OldBuffer,  *)
(* which is 0 between calls, lives in the action that reallocates.         *)
(***************************************************************************)
EXTENDS Containers

VARIABLES Buffer, head, tail, MaxNum, NumEntries,
          result,   \* what the last call returned, or what it wrote and where
          status    \* "running", or "exited" after Error or bad_alloc

vars == <<Buffer, head, tail, MaxNum, NumEntries, result, status>>
memory == <<Buffer, head, tail, MaxNum, NumEntries>>

Init == /\ Buffer = NullBuffer
        /\ head = 0 /\ tail = 0 /\ MaxNum = 0 /\ NumEntries = 0
        /\ result = <<>>
        /\ status = "running"

\* The slot of the object with index i from the tail.
Slot(i) == Wrap(i + tail, MaxNum)

\* Error and an allocation that fails (new throws) both end the program.
Error == status' = "exited" /\ UNCHANGED <<memory, result>>

-----------------------------------------------------------------------------
\* Mutant: the buffer is copied as one block, wherever the tail is.
Moved_Block(num) == [s \in Slots(num) |-> IF s < MaxNum THEN Buffer[s] ELSE Junk]

\* The new buffer: the objects from tail to head in one block, or in two when
\* the trail wraps around or is full.
Moved(num) ==
    [s \in Slots(num) |->
        CASE tail < head /\ s < NumEntries -> Buffer[tail + s]
          [] tail >= head /\ NumEntries > 0 /\ s < MaxNum - tail
                -> Buffer[tail + s]
          [] /\ tail >= head /\ NumEntries > 0
             /\ s >= MaxNum - tail /\ s < (MaxNum - tail) + head
                -> Buffer[s - (MaxNum - tail)]
          [] OTHER -> Junk]

Deallocate == /\ Buffer' = NullBuffer
              /\ head' = 0 /\ tail' = 0 /\ MaxNum' = 0 /\ NumEntries' = 0

ReAllocate(num) == /\ Buffer' = Moved(num)
                   /\ tail' = 0 /\ head' = NumEntries
                   /\ MaxNum' = num
                   /\ UNCHANGED NumEntries

Reserve(num) ==
    \/ num < 0 /\ Error
    \/ num = 0 /\ Deallocate /\ result' = <<>> /\ UNCHANGED status
    \/ 0 < num /\ num <= MaxNum /\ result' = <<>> /\ UNCHANGED <<memory, status>>
    \/ num > MaxNum /\ ReAllocate(num) /\ result' = <<>> /\ UNCHANGED status
    \/ num > MaxNum /\ Error

\* Put when there is a vacant slot, and when the buffer must grow first.
PutInRoom(x) == /\ NumEntries < MaxNum
                /\ Buffer' = [Buffer EXCEPT ![head] = x]
                /\ head' = Wrap(head + 1, MaxNum)
                /\ NumEntries' = NumEntries + 1
                /\ result' = <<>>
                /\ UNCHANGED <<tail, MaxNum, status>>

PutGrows(x) == /\ NumEntries >= MaxNum
               /\ LET num == NewSize(MaxNum)
                  IN  /\ Buffer' = [Moved(num) EXCEPT ![NumEntries] = x]
                      /\ head' = Wrap(NumEntries + 1, num)
                      /\ MaxNum' = num
               /\ tail' = 0
               /\ NumEntries' = NumEntries + 1
               /\ result' = <<>>
               /\ UNCHANGED status

PutFails == NumEntries >= MaxNum /\ Error

\* The reference that Put takes may be to an object of the queue itself: it
\* is read before OldBuffer is deleted.
Put(x) == NumEntries < MaxEntries /\ (PutInRoom(x) \/ PutGrows(x) \/ PutFails)
PutOwn(i) == ValidIndex(i, NumEntries) /\ Put(Buffer[Slot(i)])

Get == \/ /\ NumEntries > 0
          /\ result' = <<Buffer[tail]>>
          /\ tail' = Wrap(tail + 1, MaxNum)
          /\ NumEntries' = NumEntries - 1
          /\ UNCHANGED <<Buffer, head, MaxNum, status>>
       \/ NumEntries <= 0 /\ Error

\* queue[i] read, and written through the reference it returns.
Read(i) == \/ /\ ValidIndex(i, NumEntries)
              /\ result' = <<Buffer[Slot(i)]>>
              /\ UNCHANGED <<memory, status>>
           \/ ~ValidIndex(i, NumEntries) /\ Error

Assign(i, x) == /\ ValidIndex(i, NumEntries)
                /\ Buffer' = [Buffer EXCEPT ![Slot(i)] = x]
                /\ result' = <<i + 1, x>>
                /\ UNCHANGED <<head, tail, MaxNum, NumEntries, status>>

Next == /\ status = "running"
        /\ \/ \E num \in -1 .. MaxEntries : Reserve(num)
           \/ \E x \in OBJTYPE : Put(x)
           \/ \E i \in Slots(MaxEntries) : PutOwn(i)
           \/ Get
           \/ \E i \in -1 .. MaxEntries : Read(i)
           \/ \E i \in Slots(MaxEntries), x \in OBJTYPE : Assign(i, x)

Spec == Init /\ [][Next]_vars

-----------------------------------------------------------------------------
TypeOK == /\ MaxNum \in Nat /\ NumEntries \in 0 .. MaxNum
          /\ Buffer \in [Slots(MaxNum) -> Cell]
          /\ head \in Nat /\ tail \in Nat
          /\ status \in {"running", "exited"}

\* The queue that the buffer stands for.
Queued == [i \in 1 .. NumEntries |-> Buffer[Wrap(tail + i - 1, MaxNum)]]

\* What the queue hands out is the objects put in, in their order, through
\* wrapping, growth, Reserve and a Put of one of its own objects.
Fifo == INSTANCE FifoQueue
            WITH q <- Queued, Elements <- OBJTYPE, Capacity <- MaxEntries,
                 AnswersTrue <- FALSE
ImplementsFifo == Fifo!Spec

=============================================================================
