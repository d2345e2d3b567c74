---------------------------- MODULE DynamicArray ----------------------------
(***************************************************************************)
(* DynamicArray.cpp: an array that grows by Push, SetNum and Reserve.      *)
(***************************************************************************)
EXTENDS Containers

VARIABLES Buffer, MaxNum, NumEntries, result, status

vars == <<Buffer, MaxNum, NumEntries, result, status>>
memory == <<Buffer, MaxNum, NumEntries>>

Init == /\ Buffer = NullBuffer /\ MaxNum = 0 /\ NumEntries = 0
        /\ result = <<>> /\ status = "running"

Error == status' = "exited" /\ UNCHANGED <<memory, result>>

-----------------------------------------------------------------------------
\* A new buffer of num slots that holds the whole old one.
ReAllocated(num) ==
    [s \in Slots(num) |-> IF s < MaxNum THEN Buffer[s] ELSE Junk]

Reserve(num) ==
    \/ num < 0 /\ Error
    \/ /\ num = 0
       /\ Buffer' = NullBuffer /\ MaxNum' = 0 /\ NumEntries' = 0
       /\ result' = <<>> /\ UNCHANGED status
    \/ 0 < num /\ num <= MaxNum /\ result' = <<>> /\ UNCHANGED <<memory, status>>
    \/ /\ num > MaxNum
       /\ Buffer' = ReAllocated(num) /\ MaxNum' = num
       /\ result' = <<>> /\ UNCHANGED <<NumEntries, status>>
    \/ num > MaxNum /\ Error

\* b with zeroes in the entries that num adds.
Cleared(b, num) ==
    [s \in DOMAIN b |-> IF NumEntries <= s /\ s < num THEN Zero ELSE b[s]]

SetNum(num) ==
    \/ num < 0 /\ Error
    \/ /\ 0 <= num /\ num <= MaxNum
       /\ Buffer' = Cleared(Buffer, num)
       /\ NumEntries' = num
       /\ result' = <<>> /\ UNCHANGED <<MaxNum, status>>
    \/ /\ num > MaxNum
       /\ Buffer' = Cleared(ReAllocated(num), num) /\ MaxNum' = num
       /\ NumEntries' = num
       /\ result' = <<>> /\ UNCHANGED status
    \/ num > MaxNum /\ Error

PushInRoom(x) == /\ NumEntries < MaxNum
                 /\ Buffer' = [Buffer EXCEPT ![NumEntries] = x]
                 /\ UNCHANGED MaxNum

PushGrows(x) == /\ NumEntries >= MaxNum
                /\ Buffer' = [ReAllocated(NewSize(MaxNum)) EXCEPT ![NumEntries] = x]
                /\ MaxNum' = NewSize(MaxNum)

\* obj may be an object of the array: it is read before OldBuffer is deleted.
Push(x) == /\ NumEntries < MaxEntries
           /\ \/ /\ PushInRoom(x) \/ PushGrows(x)
                 /\ NumEntries' = NumEntries + 1
                 /\ result' = <<NumEntries>> /\ UNCHANGED status
              \/ NumEntries >= MaxNum /\ Error
PushOwn(i) == ValidIndex(i, NumEntries) /\ Push(Buffer[i])

Pop == \/ NumEntries <= 0 /\ Error
       \/ /\ NumEntries > 0
          /\ NumEntries' = NumEntries - 1
          /\ result' = <<Buffer[NumEntries - 1]>>
          /\ UNCHANGED <<Buffer, MaxNum, status>>

Read(i) == \/ ~ValidIndex(i, NumEntries) /\ Error
           \/ /\ ValidIndex(i, NumEntries)
              /\ result' = <<Buffer[i]>>
              /\ UNCHANGED <<memory, status>>

Assign(i, x) == /\ ValidIndex(i, NumEntries)
                /\ Buffer' = [Buffer EXCEPT ![i] = x]
                /\ result' = <<i + 1, 1, x>>
                /\ UNCHANGED <<MaxNum, NumEntries, status>>

Next == /\ status = "running"
        /\ \/ \E num \in -1 .. MaxEntries : Reserve(num) \/ SetNum(num)
           \/ \E x \in OBJTYPE : Push(x)
           \/ \E i \in Slots(MaxEntries) : PushOwn(i)
           \/ Pop
           \/ \E i \in -1 .. MaxEntries : Read(i)
           \/ \E i \in Slots(MaxEntries), x \in OBJTYPE : Assign(i, x)

Spec == Init /\ [][Next]_vars

-----------------------------------------------------------------------------
TypeOK == /\ MaxNum \in Nat /\ NumEntries \in 0 .. MaxNum
          /\ Buffer \in [Slots(MaxNum) -> Cell]
          /\ status \in {"running", "exited"}

\* The entries read back as written through growth, Pop and SetNum, and an
\* entry that SetNum adds is zero whatever was in its slot before.
Entries == INSTANCE ZeroedArray
            WITH a <- [i \in 1 .. NumEntries |-> Buffer[i - 1]],
                 Elements <- OBJTYPE, Lengths <- {1}, AnswersIndex <- TRUE, Capacity <- MaxEntries
ImplementsArray == Entries!Spec

=============================================================================
