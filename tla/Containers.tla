----------------------------- MODULE Containers -----------------------------
(***************************************************************************)
(* What the container classes of manuals/agner-fog/cppexamples share: the  *)
(* template parameters, the memory a buffer is made of and the size an     *)
(* automatic re-allocation asks for.  The buffers are functions from slot  *)
(* numbers; a slot that was allocated and never written holds Junk.        *)
(***************************************************************************)
EXTENDS Integers, Sequences

CONSTANTS
    OBJTYPE,        \* the objects a container stores
    Zero,           \* the object whose bytes are all zero
    Junk,           \* what uninitialised or freed memory reads as
    Key,            \* what operator < of an object compares
    MAXSIZE,        \* the compile-time size of the fixed lists
    AllocateSpace,  \* AllocateSpace bytes, in objects (rounded up)
    MaxEntries      \* bound: the number of objects a client ever stores

ASSUME ContainersAssumption ==
    /\ Zero \in OBJTYPE
    /\ Junk \notin OBJTYPE
    /\ Key \in [OBJTYPE -> Int]
    /\ MAXSIZE \in Nat \ {0}
    /\ AllocateSpace \in Nat \ {0}
    /\ MaxEntries \in Nat

Cell == OBJTYPE \cup {Junk}
Slots(num) == 0 .. num - 1
NullBuffer == [s \in Slots(0) |-> Junk]

\* The size of the buffer that Put and Push allocate when theirs is full.
NewSize(MaxNum) == MaxNum * 2 + AllocateSpace

\* Mutant: the slot after the last one counts as a slot.
Wrap_Late(s, num) == IF s > num THEN s - num ELSE s

\* A slot number past the end continues at slot 0.
Wrap(s, num) == IF s >= num THEN s - num ELSE s

\* What an unsigned comparison of an index accepts: a negative index is huge.
ValidIndex(i, num) == 0 <= i /\ i < num

=============================================================================
