---------------------------- MODULE AlignedArray ----------------------------
(***************************************************************************)
(* AlignedArray.cpp: an array whose first entry lies at an address that is *)
(* divisible by AlignBy, so that aligned vectors of entries can be read    *)
(* and written.  Addresses are in bytes; an address of new[] may have any  *)
(* remainder.                                                              *)
(***************************************************************************)
EXTENDS Containers

CONSTANTS
    AlignBy,            \* the desired alignment in bytes
    SizeTX,             \* sizeof(TX)
    ElementsPerVector,  \* sizeof(VEC) / sizeof(TX)
    Addresses           \* where new[] may find its memory (0 is the null pointer)

VARIABLES bufferU, bufferA,
          data,         \* the slots from bufferA on
          allocated,    \* bytes from bufferU on
          MaxNum, NumEntries, result, status

vars == <<bufferU, bufferA, data, allocated, MaxNum, NumEntries, result, status>>
memory == <<bufferU, bufferA, data, allocated, MaxNum, NumEntries>>

Init == /\ bufferU = 0 /\ bufferA = 0 /\ data = NullBuffer /\ allocated = 0
        /\ MaxNum = 0 /\ NumEntries = 0
        /\ result = <<>> /\ status = "running"

Error == status' = "exited" /\ UNCHANGED <<memory, result>>

-----------------------------------------------------------------------------
\* address & -AlignBy
RoundedDown(address) == address - (address % AlignBy)

Allocate(num) ==
    \E U \in Addresses :
        /\ bufferU' = U
        /\ allocated' = num * SizeTX + AlignBy - 1
        /\ bufferA' = RoundedDown(U + AlignBy - 1)
        /\ MaxNum' = num

\* The new buffer gets the valid entries of the old one.
Moved(num) == [s \in Slots(num) |-> IF s < NumEntries THEN data[s] ELSE Junk]

Reserve(num) ==
    \/ num < 0 /\ Error
    \/ /\ num = 0
       /\ bufferU' = 0 /\ bufferA' = 0 /\ data' = NullBuffer /\ allocated' = 0
       /\ MaxNum' = 0 /\ NumEntries' = 0
       /\ result' = <<>> /\ UNCHANGED status
    \/ 0 < num /\ num <= MaxNum /\ result' = <<>> /\ UNCHANGED <<memory, status>>
    \/ /\ num > MaxNum
       /\ Allocate(num) /\ data' = Moved(num)
       /\ result' = <<>> /\ UNCHANGED <<NumEntries, status>>
    \/ num > MaxNum /\ Error

Cleared(b, num) ==
    [s \in DOMAIN b |-> IF NumEntries <= s /\ s < num THEN Zero ELSE b[s]]

SetNum(num) ==
    \/ num < 0 /\ Error
    \/ /\ 0 <= num /\ num <= MaxNum
       /\ data' = Cleared(data, num)
       /\ NumEntries' = num
       /\ result' = <<>> /\ UNCHANGED <<bufferU, bufferA, allocated, MaxNum, status>>
    \/ /\ num > MaxNum
       /\ Allocate(num) /\ data' = Cleared(Moved(num), num)
       /\ NumEntries' = num
       /\ result' = <<>> /\ UNCHANGED status
    \/ num > MaxNum /\ Error

Read(i) == \/ ~ValidIndex(i, NumEntries) /\ Error
           \/ /\ ValidIndex(i, NumEntries)
              /\ result' = <<data[i]>>
              /\ UNCHANGED <<memory, status>>

Assign(i, x) == /\ ValidIndex(i, NumEntries)
                /\ data' = [data EXCEPT ![i] = x]
                /\ result' = <<i + 1, 1, x>>
                /\ UNCHANGED <<bufferU, bufferA, allocated, MaxNum, NumEntries, status>>

\* Mutant: only the first entry of the vector is checked.
ValidVector_First(i) == i % ElementsPerVector = 0 /\ ValidIndex(i, NumEntries)

\* Vect(i): the vector of the entries from i on, read and written.
ValidVector(i) == /\ i % ElementsPerVector = 0
                  /\ ValidIndex(ElementsPerVector - 1 + i, NumEntries)

ReadVect(i) == \/ ~ValidVector(i) /\ Error
               \/ /\ ValidVector(i)
                  /\ result' = [k \in 1 .. ElementsPerVector |-> data[i + k - 1]]
                  /\ UNCHANGED <<memory, status>>

AssignVect(i, x) ==
    /\ ValidVector(i)
    /\ data' = [s \in DOMAIN data |->
                   IF s \in i .. i + ElementsPerVector - 1 THEN x ELSE data[s]]
    /\ result' = <<i + 1, ElementsPerVector, x>>
    /\ UNCHANGED <<bufferU, bufferA, allocated, MaxNum, NumEntries, status>>

Next == /\ status = "running"
        /\ \/ \E num \in -1 .. MaxEntries : Reserve(num) \/ SetNum(num)
           \/ \E i \in -1 .. MaxEntries : Read(i) \/ ReadVect(i)
           \/ \E i \in Slots(MaxEntries), x \in OBJTYPE :
                 Assign(i, x) \/ AssignVect(i, x)

Spec == Init /\ [][Next]_vars

-----------------------------------------------------------------------------
TypeOK == /\ MaxNum \in Nat /\ NumEntries \in 0 .. MaxNum
          /\ data \in [Slots(MaxNum) -> Cell]
          /\ status \in {"running", "exited"}

\* Entries and vectors read back as written, and a vector that ends past the
\* last entry or starts between two vectors is never returned.
Entries == INSTANCE ZeroedArray
            WITH a <- [i \in 1 .. NumEntries |-> data[i - 1]],
                 Elements <- OBJTYPE, Lengths <- {1, ElementsPerVector}, AnswersIndex <- TRUE, Capacity <- MaxEntries
ImplementsArray == Entries!Spec

\* Every vector that Vect accepts lies at an aligned address inside the
\* memory that was allocated, wherever new[] put it.
VectorsInBuffer ==
    \A i \in Slots(MaxEntries) : ValidVector(i) =>
        LET address == bufferA + i * SizeTX
            size == ElementsPerVector * SizeTX
        IN  /\ address % size = 0
            /\ bufferU <= address
            /\ address + size <= bufferU + allocated

=============================================================================
