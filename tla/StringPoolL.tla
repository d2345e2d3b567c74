----------------------------- MODULE StringPoolL -----------------------------
(***************************************************************************)
(* StringPoolL.cpp: the string pool whose strings carry their length in a  *)
(* word before the first character (one cell here) as well as the zero     *)
(* after the last.  The word has 16 bits: a length is kept modulo          *)
(* MaxLength + 1.  A call is one action; OldBuffer lives within it.        *)
(***************************************************************************)
EXTENDS Integers, Sequences, FiniteSetsExt

CONSTANTS
    Chars, NUL,     \* the characters of strings, and the terminating zero
    Junk,           \* what memory reads as that was never written
    Strings,        \* the strings that clients pass
    MaxLength,      \* the largest LengthType
    MaxLen,         \* bound: the longest string that a concatenation makes
    MaxNum,         \* bound: clients use the numbers 0 .. MaxNum - 1
    AllocateSpace1, AllocateSpace2,
    MemoryLimit,    \* new[] of a larger block fails
    Rules           \* what the client takes care of: see KeepsRule

VARIABLES pool,     \* the fields of the object
          call,     \* the last call and what it took or returned
          status    \* "running"; "exited" by Error or new; "crashed"

vars == <<pool, call, status>>

Slots(size) == 0 .. size - 1
Call(op, i, s) == [op |-> op, i |-> i, s |-> s]
LengthType(len) == len % (MaxLength + 1)
Word == 1                       \* sizeof(LengthType), in cells
Overhead == Word + 1            \* what a string takes besides its characters

Init == /\ pool = [Buffer |-> [p \in Slots(0) |-> Junk], BufferSize |-> 0,
                   Offsets |-> [i \in Slots(0) |-> 0], OffsetsSize |-> 0,
                   DataSize |-> 0, GarbageSize |-> 0, Top |-> 0, Num |-> 0]
        /\ call = Call("Reserve", 0, <<>>)
        /\ status = "running"

\* The length word and the characters of string i.
LenOf(m, i) == m.Buffer[m.Offsets[i]]
Get(m, i) == IF m.BufferSize = 0 THEN <<>>
             ELSE [k \in 1 .. LenOf(m, i) |-> m.Buffer[m.Offsets[i] + Word + k - 1]]

\* The length word, s and its zero go to p.
Copied(m, p, s) ==
    [m EXCEPT !.Buffer = [q \in DOMAIN @ |->
        CASE q = p -> LengthType(Len(s))
          [] q - p - Word + 1 \in DOMAIN s -> s[q - p - Word + 1]
          [] q = p + Word + Len(s) -> NUL
          [] OTHER -> @[q]]]

-----------------------------------------------------------------------------
\* The strings that are not empty, and the cells each takes.
Live(m) == {i \in Slots(m.Num) : m.Offsets[i] # 0 /\ LenOf(m, i) # 0}
Room(m, i) == LenOf(m, i) + Overhead

\* Garbage collection puts them one after the other in the order of their numbers.
Cells(m, js) == UNION {{j} \X Slots(Room(m, j)) : j \in js}
Place(m, i) == Overhead + Cardinality(Cells(m, {j \in Live(m) : j < i}))
Block(m, i) == Place(m, i) .. Place(m, i) + Room(m, i) - 1

\* Garbage collection: the strings move to a new buffer, and Top becomes the
\* offset of the last one.
ReserveBuf(m, newsize) ==
    LET least == (m.DataSize - m.GarbageSize) * 2 + AllocateSpace1
        size == (IF newsize < least THEN least ELSE newsize) + Overhead
    IN  [m EXCEPT
           !.Buffer = [q \in Slots(size) |->
               CASE q = 0 -> 0
                 [] q = Word -> NUL
                 [] \E i \in Live(m) : q \in Block(m, i) ->
                      LET i == CHOOSE i \in Live(m) : q \in Block(m, i)
                      IN  m.Buffer[m.Offsets[i] + q - Place(m, i)]
                 [] OTHER -> Junk],
           !.BufferSize = size,
           !.Offsets = [i \in DOMAIN @ |-> IF i \in Live(m) THEN Place(m, i) ELSE 0],
           !.Top = IF Live(m) = {} THEN Overhead ELSE Place(m, Max(Live(m))),
           !.DataSize = Overhead + Cardinality(Cells(m, Live(m))),
           !.GarbageSize = 0]

ReserveNum(m, newsize) ==
    IF newsize <= m.OffsetsSize THEN m
    ELSE LET least == m.OffsetsSize * 2 + AllocateSpace2
             size == IF newsize < least THEN least ELSE newsize
         IN  [m EXCEPT !.Offsets = [i \in Slots(size) |->
                                       IF i < m.OffsetsSize THEN @[i] ELSE 0],
                       !.OffsetsSize = size]

\* A larger number than any before makes Num and, if needed, Offsets grow.
WithNum(m, i) == IF i < m.Num THEN m
                 ELSE ReserveNum([m EXCEPT !.Num = i + 1], i + 1)

\* Space for a string of length len as number i: at Top, where it can grow,
\* in its own place if it is not longer, or at the end of the buffer.  The
\* address returned is at.
At(m, p) == [pool |-> m, at |-> p]

AtTop(m, i) == i < m.Num /\ m.Offsets[i] # 0 /\ m.Offsets[i] = m.Top

AllocateAtTop(m, i, len) ==
    LET n == IF m.Top + len + Overhead > m.BufferSize
             THEN ReserveBuf(m, m.Top + len + Overhead) ELSE m
    IN  At([n EXCEPT !.DataSize = n.Top + len + Overhead], n.Top)

AllocateInPlace(m, i, len) ==
    At([m EXCEPT !.GarbageSize = @ + LenOf(m, i) - len], m.Offsets[i])

AllocateAtEnd(m, i, len) ==
    LET g == IF m.Offsets[i] = 0 THEN m
             ELSE [m EXCEPT !.GarbageSize = @ + LenOf(m, i) + Overhead]
        n == IF g.DataSize + len + Overhead > g.BufferSize
             THEN ReserveBuf(g, g.DataSize + len + Overhead) ELSE g
    IN  At([n EXCEPT !.Offsets[i] = n.DataSize, !.Top = n.DataSize,
                     !.DataSize = @ + len + Overhead], n.DataSize)

Allocate(m, i, len) ==
    IF AtTop(m, i) THEN AllocateAtTop(m, i, len)
    ELSE IF m.Offsets[i] # 0 /\ LenOf(m, i) >= len
    THEN AllocateInPlace(m, i, len)
    ELSE AllocateAtEnd(m, i, len)

Erase(m, i) ==
    IF m.Offsets[i] = 0 THEN m
    ELSE [m EXCEPT !.GarbageSize = @ + LenOf(m, i) + Overhead, !.Offsets[i] = 0]

\* Both forms of Set, and Concatenate: the pool with s stored as, or appended
\* to, number i.  Only the caller of Stored checks the length.
Stored(m, i, s) ==
    IF s = <<>> THEN Erase(WithNum(m, i), i)
    ELSE LET n == Allocate(WithNum(m, i), i, Len(s)) IN Copied(n.pool, n.at, s)

Appended(m, i, s) == IF s = <<>> THEN m ELSE Stored(m, i, Get(m, i) \o s)

-----------------------------------------------------------------------------
\* new[] that fails ends the program.
Becomes(m) == IF m.BufferSize > MemoryLimit
              THEN status' = "exited" /\ UNCHANGED pool
              ELSE pool' = m /\ UNCHANGED status
Done(c) == call' = IF status' = "running" THEN c ELSE call
Error == status' = "exited" /\ UNCHANGED <<pool, call>>
Crash == status' = "crashed" /\ UNCHANGED <<pool, call>>

\* A string at Top that the buffer has room for stays where it is.
StaysAtTop(m, i, len) == AtTop(m, i) /\ m.Top + len + Overhead <= m.BufferSize

\* The rules a client may keep, each against one weakness of the class that no
\* comment of the source tells the client of.  "grow": the string at Top
\* outgrows the buffer only if no higher number is in use; "clear": nothing is
\* stored after Clear, which lets the next string start at offset 0, where all
\* empty strings are; "long": no string of a length that is not checked is
\* longer than MaxLength; "self": no string is appended to itself that stays at Top.
KeepsRule(rule, i, len) == rule \in Rules =>
    CASE rule = "grow" ->
           AtTop(pool, i) /\ pool.Top + len + Overhead > pool.BufferSize
               => \A j \in i + 1 .. pool.Num - 1 : pool.Offsets[j] = 0
      [] rule = "clear" -> pool.BufferSize > 0 => pool.DataSize > 0
      [] rule = "long" -> len <= MaxLength
      [] rule = "self" -> ~ StaysAtTop(pool, i, len)

\* Set of a string whose length is known, which is not checked.
SetKnown(i, s) ==
    /\ KeepsRule("grow", i, Len(s)) /\ KeepsRule("clear", i, Len(s))
    /\ Becomes(Stored(pool, i, s))
    /\ Done(Call("Set", i, s))

Set(i, s) == IF Len(s) > MaxLength THEN Error ELSE SetKnown(i, s)

\* strings[i] = strings[j]: the source is read in the old buffer when
\* Allocate has moved the strings.
SetFrom(i, j) == /\ j < pool.Num
                 /\ IF pool.BufferSize = 0 THEN Crash
                    ELSE SetKnown(i, Get(pool, j))

\* SetToSubstring of a string of the client's.
SetToSubstring(i, s, start, len) ==
    IF start + len > Len(s) THEN Error
    ELSE KeepsRule("long", i, len) /\ SetKnown(i, SubSeq(s, start + 1, start + len))

Concatenate(i, s) ==
    IF i >= pool.Num THEN Error
    ELSE IF pool.BufferSize = 0 THEN Crash
    ELSE IF Len(s) > MaxLength THEN Error
    ELSE /\ LET len == LenOf(pool, i) + Len(s)
            IN  /\ len <= MaxLen
                /\ KeepsRule("grow", i, len) /\ KeepsRule("clear", i, len)
                /\ KeepsRule("long", i, len)
         /\ Becomes(Appended(pool, i, s))
         /\ Done(Call("Concatenate", i, s))

\* A string that is appended to itself where it is: its zero is the first byte
\* that memcpy writes and the last one that it reads, and may be read too late.
WithoutZero(i, s) ==
    /\ pool' = [Appended(pool, i, s) EXCEPT !.Buffer[pool.Top + Word + 2 * Len(s)] = s[1]]
    /\ call' = Call("Concatenate", i, s)
    /\ UNCHANGED status

\* strings[i] += strings[j]
ConcatenateFrom(i, j) ==
    /\ i < pool.Num /\ j < pool.Num /\ pool.BufferSize > 0
    /\ LET s == Get(pool, j)
       IN  /\ i = j => KeepsRule("self", i, 2 * Len(s))
           /\ \/ Concatenate(i, s)
              \/ /\ i = j /\ StaysAtTop(pool, i, 2 * Len(s)) /\ 2 * Len(s) <= MaxLen
                 /\ KeepsRule("long", i, 2 * Len(s))
                 /\ WithoutZero(i, s)

\* The length of a string that was never stored is read through Buffer, which
\* is 0 before the first text; a number that is out of range is an error.
ReadLen(i) == IF i >= pool.Num THEN Error
              ELSE pool.BufferSize = 0 /\ Crash

\* strings[i][k] = c
SetChar(i, k, c) ==
    /\ i < pool.Num
    /\ pool.BufferSize > 0
    /\ IF k >= LenOf(pool, i) THEN Error
       ELSE /\ pool' = [pool EXCEPT !.Buffer[pool.Offsets[i] + Word + k] = c]
            /\ call' = Call("Set", i, [Get(pool, i) EXCEPT ![k + 1] = c])
            /\ UNCHANGED status

Clear == /\ pool' = [pool EXCEPT
                        !.Offsets = [i \in DOMAIN @ |-> IF i < pool.Num THEN 0 ELSE @[i]],
                        !.DataSize = 0, !.GarbageSize = 0]
         /\ call' = Call("Clear", 0, <<>>)
         /\ UNCHANGED status

Reserve == /\ \/ Becomes(ReserveBuf(pool, 0))
              \/ Becomes(ReserveNum(pool, MaxNum))
           /\ Done(Call("Reserve", 0, <<>>))

Next == /\ status = "running"
        /\ \/ \E i \in Slots(MaxNum) :
                 \/ \E s \in Strings : Set(i, s) \/ Concatenate(i, s)
                 \/ \E j \in Slots(MaxNum) : SetFrom(i, j) \/ ConcatenateFrom(i, j)
                 \/ \E s \in Strings, start, len \in 0 .. MaxLen :
                       SetToSubstring(i, s, start, len)
                 \/ \E k \in 0 .. MaxLen, c \in Chars : SetChar(i, k, c)
                 \/ ReadLen(i)
           \/ Clear
           \/ Reserve

Spec == Init /\ [][Next]_vars

-----------------------------------------------------------------------------
TypeOK == /\ pool.Buffer \in [Slots(pool.BufferSize)
                                 -> Chars \cup {NUL, Junk} \cup 0 .. MaxLength]
          /\ pool.Offsets \in [Slots(pool.OffsetsSize) -> Slots(pool.BufferSize + 1)]
          /\ pool.Num \in 0 .. pool.OffsetsSize
          /\ status \in {"running", "exited", "crashed"}

\* The bytes in use are inside the buffer, and the garbage among them.
WithinBuffer == /\ pool.DataSize \in 0 .. pool.BufferSize
                /\ pool.GarbageSize \in 0 .. pool.DataSize

\* The two ways to find the end of a string agree: its zero is where its
\* length word says, and nowhere before.
LengthsMatchZeros ==
    \A i \in Slots(pool.Num) : pool.BufferSize > 0 =>
        /\ \A k \in DOMAIN Get(pool, i) : Get(pool, i)[k] # NUL
        /\ pool.Buffer[pool.Offsets[i] + Word + LenOf(pool, i)] = NUL

\* Every string reads as the client left it, through growth and garbage
\* collection, and every unused number reads as the empty string.
Table == INSTANCE StringTable
            WITH text <- [k \in 1 .. pool.Num |-> Get(pool, k - 1)]
ImplementsStrings == Table!Spec

=============================================================================
