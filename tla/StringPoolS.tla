----------------------------- MODULE StringPoolS -----------------------------
(***************************************************************************)
(* StringPoolS.cpp: zero-terminated strings in one growing buffer, found   *)
(* through an array of offsets.  Offset 0 is the empty string that all     *)
(* unused numbers share.  A call is one action; OldBuffer, which keeps a   *)
(* string that is being copied alive, lives within the action.             *)
(***************************************************************************)
EXTENDS Integers, Sequences, FiniteSetsExt

CONSTANTS
    Chars, NUL,     \* the characters of strings, and the terminating zero
    Junk,           \* what memory reads as that was never written
    Strings,        \* the strings that clients pass
    MaxLen,         \* bound: the longest string that a concatenation makes
    MaxNum,         \* bound: clients use the numbers 0 .. MaxNum - 1
    AllocateSpace1, AllocateSpace2,
    MemoryLimit,    \* new[] of a larger block fails
    Rules           \* what the client takes care of: see KeepsRule

VARIABLES pool,     \* the fields of the object
          call,     \* the last call and what it took or returned
          status    \* "running"; "exited" by Error or new; "crashed"

vars == <<pool, call, status>>

Slots(size) == 0 .. size - 1
Call(op, i, s) == [op |-> op, i |-> i, s |-> s]

Init == /\ pool = [Buffer |-> [p \in Slots(0) |-> Junk], BufferSize |-> 0,
                   Offsets |-> [i \in Slots(0) |-> 0], OffsetsSize |-> 0,
                   DataSize |-> 0, GarbageSize |-> 0, Top |-> 0, Num |-> 0]
        /\ call = Call("Reserve", 0, <<>>)
        /\ status = "running"

\* strlen and the characters of the zero-terminated string at p (a string
\* that has lost its zero runs to the end of the buffer).
StrLen(m, p) ==
    (CHOOSE q \in p .. m.BufferSize :
        /\ q = m.BufferSize \/ m.Buffer[q] = NUL
        /\ \A r \in p .. q - 1 : m.Buffer[r] # NUL) - p
StrAt(m, p) == [k \in 1 .. StrLen(m, p) |-> m.Buffer[p + k - 1]]
Get(m, i) == IF m.BufferSize = 0 THEN <<>> ELSE StrAt(m, m.Offsets[i])

\* memcpy of s and of its zero to p.
Copied(m, p, s) ==
    [m EXCEPT !.Buffer = [q \in DOMAIN @ |->
        IF q - p + 1 \in DOMAIN s THEN s[q - p + 1]
        ELSE IF q = p + Len(s) THEN NUL ELSE @[q]]]

-----------------------------------------------------------------------------
\* The strings that are not empty, and the cells each takes.
Live(m) == {i \in Slots(m.Num) : m.Offsets[i] # 0 /\ StrLen(m, m.Offsets[i]) # 0}
Room(m, i) == StrLen(m, m.Offsets[i]) + 1

\* Garbage collection puts them one after the other in the order of their numbers.
Cells(m, js) == UNION {{j} \X Slots(Room(m, j)) : j \in js}
Place(m, i) == 1 + Cardinality(Cells(m, {j \in Live(m) : j < i}))
Block(m, i) == Place(m, i) .. Place(m, i) + Room(m, i) - 1

\* Garbage collection: the strings move to a new buffer, and Top becomes the
\* offset of the last one.
ReserveBuf(m, newsize) ==
    LET least == (m.DataSize - m.GarbageSize) * 2 + AllocateSpace1
        size == (IF newsize < least THEN least ELSE newsize) + 1
    IN  [m EXCEPT
           !.Buffer = [q \in Slots(size) |->
               CASE q = 0 -> NUL
                 [] \E i \in Live(m) : q \in Block(m, i) ->
                      LET i == CHOOSE i \in Live(m) : q \in Block(m, i)
                      IN  m.Buffer[m.Offsets[i] + q - Place(m, i)]
                 [] OTHER -> Junk],
           !.BufferSize = size,
           !.Offsets = [i \in DOMAIN @ |-> IF i \in Live(m) THEN Place(m, i) ELSE 0],
           !.Top = IF Live(m) = {} THEN 1 ELSE Place(m, Max(Live(m))),
           !.DataSize = 1 + Cardinality(Cells(m, Live(m))),
           !.GarbageSize = 0]

ReserveNum(m, newsize) ==
    IF newsize <= m.OffsetsSize THEN m
    ELSE LET least == m.OffsetsSize * 2 + AllocateSpace2
             size == IF newsize < least THEN least ELSE newsize
         IN  [m EXCEPT !.Offsets = [i \in Slots(size) |->
                                       IF i < m.OffsetsSize THEN @[i] ELSE 0],
                       !.OffsetsSize = size]

\* A larger number than any before makes Num and, if needed, Offsets grow.
WithNum(m, i) == IF i < m.Num THEN m
                 ELSE ReserveNum([m EXCEPT !.Num = i + 1], i + 1)

\* Space for a string of length len as number i: at Top, where it can grow,
\* in its own place if it is not longer, or at the end of the buffer.  The
\* address returned is at.
At(m, p) == [pool |-> m, at |-> p]

AtTop(m, i) == i < m.Num /\ m.Offsets[i] # 0 /\ m.Offsets[i] = m.Top

\* Mutant: the place at Top from before the garbage collection.
AllocateAtTop_Stale(m, i, len) ==
    LET n == IF m.Top + len + 1 > m.BufferSize
             THEN ReserveBuf(m, m.Top + len + 1) ELSE m
    IN  At([n EXCEPT !.DataSize = m.Top + len + 1], m.Top)

AllocateAtTop(m, i, len) ==
    LET n == IF m.Top + len + 1 > m.BufferSize
             THEN ReserveBuf(m, m.Top + len + 1) ELSE m
    IN  At([n EXCEPT !.DataSize = n.Top + len + 1], n.Top)

AllocateInPlace(m, i, len) ==
    At([m EXCEPT !.GarbageSize = @ + StrLen(m, m.Offsets[i]) - len], m.Offsets[i])

AllocateAtEnd(m, i, len) ==
    LET g == IF m.Offsets[i] = 0 THEN m
             ELSE [m EXCEPT !.GarbageSize = @ + StrLen(m, m.Offsets[i]) + 1]
        n == IF g.DataSize + len + 1 > g.BufferSize
             THEN ReserveBuf(g, g.DataSize + len + 1) ELSE g
    IN  At([n EXCEPT !.Offsets[i] = n.DataSize, !.Top = n.DataSize,
                     !.DataSize = @ + len + 1], n.DataSize)

Allocate(m, i, len) ==
    IF AtTop(m, i) THEN AllocateAtTop(m, i, len)
    ELSE IF m.Offsets[i] # 0 /\ StrLen(m, m.Offsets[i]) >= len
    THEN AllocateInPlace(m, i, len)
    ELSE AllocateAtEnd(m, i, len)

Erase(m, i) ==
    IF m.Offsets[i] = 0 THEN m
    ELSE [m EXCEPT !.GarbageSize = @ + StrLen(m, m.Offsets[i]) + 1, !.Offsets[i] = 0]

\* Set and Concatenate: the pool with s stored as, or appended to, number i.
Stored(m, i, s) ==
    IF s = <<>> THEN Erase(WithNum(m, i), i)
    ELSE LET n == Allocate(WithNum(m, i), i, Len(s)) IN Copied(n.pool, n.at, s)

Appended(m, i, s) ==
    LET old == IF m.Offsets[i] = 0 THEN <<>> ELSE StrAt(m, m.Offsets[i])
    IN  IF s = <<>> THEN m ELSE Stored(m, i, old \o s)

-----------------------------------------------------------------------------
\* new[] that fails ends the program.
Becomes(m) == IF m.BufferSize > MemoryLimit
              THEN status' = "exited" /\ UNCHANGED pool
              ELSE pool' = m /\ UNCHANGED status
Done(c) == call' = IF status' = "running" THEN c ELSE call
Error == status' = "exited" /\ UNCHANGED <<pool, call>>

\* A string at Top that the buffer has room for stays where it is.
StaysAtTop(m, i, len) == AtTop(m, i) /\ m.Top + len + 1 <= m.BufferSize

\* The rules a client may keep, each against one weakness of the class that no
\* comment of the source tells the client of.  "grow": the string at Top
\* outgrows the buffer only if no higher number is in use; "clear": nothing is
\* stored after Clear, which lets the next string start at offset 0, where all
\* empty strings are; "self": no string is appended to itself that stays at Top.
KeepsRule(rule, i, len) == rule \in Rules =>
    CASE rule = "grow" ->
           AtTop(pool, i) /\ pool.Top + len + 1 > pool.BufferSize
               => \A j \in i + 1 .. pool.Num - 1 : pool.Offsets[j] = 0
      [] rule = "clear" -> pool.BufferSize > 0 => pool.DataSize > 0
      [] rule = "self" -> ~ StaysAtTop(pool, i, len)

Set(i, s) == /\ KeepsRule("grow", i, Len(s)) /\ KeepsRule("clear", i, Len(s))
             /\ Becomes(Stored(pool, i, s))
             /\ Done(Call("Set", i, s))

\* strings[i] = strings[j], and SetToSubstring, "a part of another string" by its
\* comment: the source is read in the old buffer when Allocate has moved the
\* strings.
SetFrom(i, j, start, len) ==
    /\ j < pool.Num
    /\ \/ start + len > Len(Get(pool, j)) /\ Error
       \/ /\ start + len <= Len(Get(pool, j))
          /\ i # j \/ len = Len(Get(pool, j))
          /\ Set(i, SubSeq(Get(pool, j), start + 1, start + len))

Concatenate(i, s) ==
    \/ /\ i < pool.Num
       /\ LET len == Len(Get(pool, i)) + Len(s)
          IN  len <= MaxLen /\ KeepsRule("grow", i, len) /\ KeepsRule("clear", i, len)
       /\ Becomes(Appended(pool, i, s))
       /\ Done(Call("Concatenate", i, s))
    \/ i >= pool.Num /\ s # <<>> /\ Error

\* A string that is appended to itself where it is: its zero is the first byte
\* that memcpy writes and the last one that it reads, and may be read too late.
WithoutZero(i, s) ==
    /\ pool' = [Appended(pool, i, s) EXCEPT !.Buffer[pool.Top + 2 * Len(s)] = s[1]]
    /\ call' = Call("Concatenate", i, s)
    /\ UNCHANGED status

\* strings[i] += strings[j]
ConcatenateFrom(i, j) ==
    /\ i < pool.Num /\ j < pool.Num
    /\ LET s == Get(pool, j)
       IN  /\ i = j => KeepsRule("self", i, 2 * Len(s))
           /\ \/ Concatenate(i, s)
              \/ /\ i = j /\ StaysAtTop(pool, i, 2 * Len(s)) /\ 2 * Len(s) <= MaxLen
                 /\ WithoutZero(i, s)

\* A string is read as Get says; before the first text Get returns the null
\* pointer, which Set and Concatenate take for an empty string and strlen not.
Read(i) == \/ /\ i < pool.Num /\ pool.BufferSize = 0
              /\ status' = "crashed" /\ UNCHANGED <<pool, call>>
           \/ i >= pool.Num /\ Error

\* strings[i][k] = c
SetChar(i, k, c) ==
    /\ i < pool.Num /\ pool.BufferSize > 0
    /\ \/ k >= Len(Get(pool, i)) /\ Error
       \/ /\ k < Len(Get(pool, i))
          /\ pool' = [pool EXCEPT !.Buffer[pool.Offsets[i] + k] = c]
          /\ call' = Call("Set", i, [Get(pool, i) EXCEPT ![k + 1] = c])
          /\ UNCHANGED status

Clear == /\ pool' = [pool EXCEPT
                        !.Offsets = [i \in DOMAIN @ |-> IF i < pool.Num THEN 0 ELSE @[i]],
                        !.DataSize = 0, !.GarbageSize = 0]
         /\ call' = Call("Clear", 0, <<>>)
         /\ UNCHANGED status

Reserve == /\ \/ Becomes(ReserveBuf(pool, 0))
              \/ Becomes(ReserveNum(pool, MaxNum))
           /\ Done(Call("Reserve", 0, <<>>))

Next == /\ status = "running"
        /\ \/ \E i \in Slots(MaxNum) :
                 \/ \E s \in Strings : Set(i, s) \/ Concatenate(i, s)
                 \/ \E j \in Slots(MaxNum) : ConcatenateFrom(i, j)
                 \/ \E j \in Slots(MaxNum), start, len \in 0 .. MaxLen :
                       SetFrom(i, j, start, len)
                 \/ \E k \in 0 .. MaxLen, c \in Chars : SetChar(i, k, c)
                 \/ Read(i)
           \/ Clear
           \/ Reserve

Spec == Init /\ [][Next]_vars

-----------------------------------------------------------------------------
TypeOK == /\ pool.Buffer \in [Slots(pool.BufferSize) -> Chars \cup {NUL, Junk}]
          /\ pool.Offsets \in [Slots(pool.OffsetsSize) -> Slots(pool.BufferSize + 1)]
          /\ pool.Num \in 0 .. pool.OffsetsSize
          /\ status \in {"running", "exited", "crashed"}

\* The bytes in use are inside the buffer, and the garbage among them.
WithinBuffer == /\ pool.DataSize \in 0 .. pool.BufferSize
                /\ pool.GarbageSize \in 0 .. pool.DataSize

\* Every string reads as the client left it, through growth and garbage
\* collection, and every unused number reads as the empty string.
Table == INSTANCE StringTable
            WITH text <- [k \in 1 .. pool.Num |-> Get(pool, k - 1)]
ImplementsStrings == Table!Spec

=============================================================================
