------------------------------ MODULE MixedPool ------------------------------
(***************************************************************************)
(* MixedPool.cpp: objects of any size one after the other in a buffer of   *)
(* bytes.  An object is size bytes of one value; AllocateSpace counts      *)
(* bytes here, and Granule is the 16 that buffer sizes are rounded up to.  *)
(***************************************************************************)
EXTENDS Containers

CONSTANTS
    Granule,    \* buffer sizes are multiples of this
    Sizes       \* the sizes of the objects that clients push and get

VARIABLES buffer, BufferSize, NumEntries, DataSize, result, status

vars == <<buffer, BufferSize, NumEntries, DataSize, result, status>>
memory == <<buffer, BufferSize, NumEntries, DataSize>>

Init == /\ buffer = NullBuffer
        /\ NumEntries = 0 /\ DataSize = 0 /\ BufferSize = 0
        /\ result = <<>> /\ status = "running"

Error == status' = "exited" /\ UNCHANGED <<memory, result>>

-----------------------------------------------------------------------------
RoundedUp(size, a) == ((size + a - 1) \div a) * a

\* A zeroed buffer of the given size that starts with the whole old one.
Moved(size) ==
    [o \in Slots(size) |-> IF o < BufferSize THEN buffer[o] ELSE Zero]

\* b with size bytes of x from the offset o on.
Filled(b, o, size, x) ==
    [p \in DOMAIN b |-> IF o <= p /\ p < o + size THEN x ELSE b[p]]

\* ReserveSize of a size that the buffer does not have yet.
Grow(size) == /\ buffer' = Moved(RoundedUp(size, Granule))
              /\ BufferSize' = RoundedUp(size, Granule)

ReserveSize(size) ==
    \/ size < 0 /\ Error
    \/ /\ size = 0
       /\ buffer' = NullBuffer
       /\ NumEntries' = 0 /\ DataSize' = 0 /\ BufferSize' = 0
       /\ result' = <<>> /\ UNCHANGED status
    \/ 0 < size /\ size <= BufferSize /\ result' = <<>> /\ UNCHANGED <<memory, status>>
    \/ /\ size > BufferSize
       /\ Grow(size)
       /\ result' = <<>> /\ UNCHANGED <<NumEntries, DataSize, status>>
    \/ size > BufferSize /\ Error

SetDataSize(size) ==
    \/ size < 0 /\ Error
    \/ /\ 0 <= size
       /\ \/ /\ size > BufferSize
             /\ Grow(RoundedUp(size + AllocateSpace, Granule))
          \/ /\ size <= BufferSize /\ size < DataSize
             /\ buffer' = Filled(buffer, size, DataSize - size, Zero)
             /\ UNCHANGED BufferSize
          \/ /\ DataSize <= size /\ size <= BufferSize
             /\ UNCHANGED <<buffer, BufferSize>>
       /\ DataSize' = size
       /\ result' = <<>> /\ UNCHANGED <<NumEntries, status>>
    \/ size > BufferSize /\ Error

\* Push an object of the client, size bytes of x.
Push(x, size) ==
    LET NewOffset == DataSize + size
        size2 == RoundedUp(NewOffset * 2 + AllocateSpace, Granule)
    IN  \/ /\ NewOffset <= MaxEntries /\ NumEntries < MaxEntries
           /\ \/ /\ NewOffset > BufferSize
                 /\ buffer' = Filled(Moved(size2), DataSize, size, x)
                 /\ BufferSize' = size2
              \/ /\ NewOffset <= BufferSize
                 /\ buffer' = Filled(buffer, DataSize, size, x)
                 /\ UNCHANGED BufferSize
           /\ DataSize' = NewOffset
           /\ NumEntries' = IF size = 0 THEN NumEntries ELSE NumEntries + 1
           /\ result' = <<DataSize>> /\ UNCHANGED status
        \/ NewOffset > BufferSize /\ Error

\* Push a byte of the pool itself: it is read before the old buffer is deleted.
PushOwn(o) == ValidIndex(o, DataSize) /\ Push(buffer[o], 1)

\* Push of a null pointer reserves size bytes without writing them.
PushNull(size) ==
    LET NewOffset == DataSize + size
        size2 == RoundedUp(NewOffset * 2 + AllocateSpace, Granule)
    IN  /\ NewOffset <= MaxEntries /\ NumEntries < MaxEntries
        /\ IF NewOffset > BufferSize
           THEN buffer' = Moved(size2) /\ BufferSize' = size2
           ELSE UNCHANGED <<buffer, BufferSize>>
        /\ DataSize' = NewOffset
        /\ NumEntries' = IF size = 0 THEN NumEntries ELSE NumEntries + 1
        /\ result' = <<DataSize>> /\ UNCHANGED status

Align(a) ==
    LET NewOffset == RoundedUp(DataSize, a)
    IN  /\ NewOffset <= MaxEntries
        /\ IF NewOffset > BufferSize
           THEN Grow(NewOffset * 2 + AllocateSpace)
           ELSE UNCHANGED <<buffer, BufferSize>>
        /\ DataSize' = NewOffset
        /\ result' = <<>> /\ UNCHANGED <<NumEntries, status>>

\* Get of an object that lies within the data, read and written.
Get(o, size) ==
    \/ o >= DataSize /\ Error
    \/ /\ o + size <= DataSize /\ o < DataSize
       /\ result' = [k \in 1 .. size |-> buffer[o + k - 1]]
       /\ UNCHANGED <<memory, status>>

Assign(o, size, x) ==
    /\ o + size <= DataSize
    /\ o < DataSize
    /\ buffer' = Filled(buffer, o, size, x)
    /\ result' = <<o + 1, size, x>>
    /\ UNCHANGED <<BufferSize, NumEntries, DataSize, status>>

Next == /\ status = "running"
        /\ \/ \E size \in -1 .. MaxEntries : ReserveSize(size) \/ SetDataSize(size)
           \/ \E o \in Slots(MaxEntries) : PushOwn(o)
           \/ \E a \in 1 .. MaxEntries : Align(a)
           \/ \E size \in Sizes :
                 \/ PushNull(size)
                 \/ \E x \in OBJTYPE : Push(x, size)
                 \/ \E o \in Slots(MaxEntries + 1) :
                       Get(o, size) \/ \E x \in OBJTYPE : Assign(o, size, x)

Spec == Init /\ [][Next]_vars

-----------------------------------------------------------------------------
TypeOK == /\ BufferSize \in Nat /\ BufferSize % Granule = 0
          /\ DataSize \in 0 .. BufferSize
          /\ NumEntries \in Nat
          /\ buffer \in [Slots(BufferSize) -> OBJTYPE]
          /\ status \in {"running", "exited"}

\* The pool is an array of bytes: an object reads back as it was pushed or
\* assigned at the offset that Push returned, and what SetDataSize, Align and
\* a push without object add is zero, also where erased data was before.
Bytes == INSTANCE ZeroedArray
            WITH a <- [i \in 1 .. DataSize |-> buffer[i - 1]],
                 Elements <- OBJTYPE, Lengths <- Sizes, AnswersIndex <- TRUE,
                 Capacity <- MaxEntries
ImplementsBytes == Bytes!Spec

=============================================================================
