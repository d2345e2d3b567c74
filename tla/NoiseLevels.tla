----------------------------- MODULE NoiseLevels -----------------------------
(***************************************************************************)
(* FastNoiseSIMD.cpp: one static variable, s_currentSIMDLevel, decides     *)
(* which class a new object has, how large a set is allocated and how a    *)
(* set is freed, while every object goes on with vectors of its own class. *)
(* Sets are aligned (FN_ALIGNED_SETS), as the header has it.               *)
(***************************************************************************)
EXTENDS Integers, FiniteSetsExt

CONSTANTS
    Builds,     \* the sets of levels (0 .. 4) that may be compiled in
    Cpus,       \* the sets of features that the CPU and the system may have
    Sizes,      \* the sizes of sets
    Rules       \* what the client takes care of: see KeepsRule

VARIABLES
    compiled, cpu,
    level,      \* s_currentSIMDLevel
    objects,    \* the classes of the objects that live
    set,        \* a noise set, or NoSet
    points,     \* the xSet of a FastNoiseVectorSet, or NoSet
    wrongs      \* history: what was done to memory that is not allowed

vars == <<compiled, cpu, level, objects, set, points, wrongs>>

NoSet == [size |-> -1, room |-> 0, from |-> "nowhere"]

VECTOR_SIZE(class) == CASE class = 0 -> 1 [] class \in {1, 2} -> 4
                        [] class = 3 -> 8 [] class = 4 -> 16

\* Every 64-bit x86 has SSE2, and their builds have no fallback.
Init == /\ compiled \in Builds /\ cpu \in Cpus
        /\ 0 \in compiled \/ "SSE2" \in cpu
        /\ level = -1
        /\ objects = {} /\ set = NoSet /\ points = NoSet /\ wrongs = {}

GetFastestSIMD ==
    IF "SSE2" \notin cpu THEN 0
    ELSE IF "SSE41" \notin cpu THEN 1
    ELSE IF ~({"XSAVE", "OSXSAVE", "AVX", "XCR0 AVX"} \subseteq cpu) THEN 2
    ELSE IF ~({"leaf 7", "FMA3", "AVX2"} \subseteq cpu) THEN 2
    ELSE IF ~({"AVX512", "XCR0 AVX512"} \subseteq cpu) THEN 3
    ELSE 4

GetSIMDLevel == IF level < 0 THEN GetFastestSIMD ELSE level

\* The rules a client may keep.  "compiled": it asks for levels that were
\* compiled and that the CPU has.  "fresh": it asks before it has any object
\* or set.
KeepsRule(l) ==
    /\ "compiled" \in Rules => l \in {-1} \cup {c \in compiled : c <= GetFastestSIMD}
    /\ "fresh" \in Rules => objects = {} /\ set = NoSet /\ points = NoSet

SetSIMDLevel(l) ==
    /\ KeepsRule(l)
    /\ level' = l
    /\ UNCHANGED <<compiled, cpu, objects, set, points, wrongs>>

\* The compiled class nearest below the level; without a fallback, SSE2.  The
\* constructor makes it the current level.
NewClass == LET fit == {c \in compiled : c <= GetSIMDLevel}
            IN  IF fit = {} THEN Min(compiled) ELSE Max(fit)

NewFastNoiseSIMD ==
    /\ objects' = objects \cup {NewClass}
    /\ level' = NewClass
    /\ UNCHANGED <<compiled, cpu, set, points, wrongs>>

Delete(c) == /\ objects' = objects \ {c}
             /\ UNCHANGED <<compiled, cpu, level, set, points, wrongs>>

-----------------------------------------------------------------------------
RoundUp(size, class) ==
    LET v == VECTOR_SIZE(class) IN v * ((size + v - 1) \div v)

\* AlignedSize and GetEmptySet have no case for SSE4.1: SSE2 stands for it.
SetClasses == {c \in compiled \ {0, 2} : c <= GetSIMDLevel}

AlignedSize(size) == IF SetClasses = {} THEN size ELSE RoundUp(size, Max(SetClasses))

GetEmptySet(size) == [size |-> size, room |-> AlignedSize(size),
                      from |-> IF SetClasses = {} THEN "new[]" ELSE "posix_memalign"]

\* FreeNoiseSet: what it does wrong to memory s.
FreeNoiseSet(s) ==
    IF s.from = (IF GetSIMDLevel > 0 THEN "new[]" ELSE "posix_memalign")
    THEN {"freed by the wrong function"} ELSE {}

Allocate(size) ==
    /\ set = NoSet
    /\ set' = GetEmptySet(size)
    /\ level' = GetSIMDLevel
    /\ UNCHANGED <<compiled, cpu, objects, points, wrongs>>

FreeSet ==
    /\ set # NoSet
    /\ wrongs' = wrongs \cup FreeNoiseSet(set)
    /\ set' = NoSet
    /\ level' = GetSIMDLevel
    /\ UNCHANGED <<compiled, cpu, objects, points>>

\* FastNoiseVectorSet: SetSize frees what there is and allocates three arrays
\* of AlignedSize(size), one after the other.
SetSize(size) ==
    /\ wrongs' = wrongs \cup FreeNoiseSet(points)
    /\ points' = [GetEmptySet(3 * AlignedSize(size)) EXCEPT !.size = size,
                                                            !.room = AlignedSize(size)]
    /\ level' = GetSIMDLevel
    /\ UNCHANGED <<compiled, cpu, objects, set>>

FreePoints ==
    /\ points # NoSet
    /\ wrongs' = wrongs \cup FreeNoiseSet(points)
    /\ points' = NoSet
    /\ level' = GetSIMDLevel
    /\ UNCHANGED <<compiled, cpu, objects, set>>

\* An object fills the set, whose last vector it stores whole.
Past(c, s, size) == IF RoundUp(size, c) > s.room THEN {"access behind the end"} ELSE {}

FillNoiseSet(c) ==
    /\ set # NoSet
    /\ wrongs' = wrongs \cup Past(c, set, set.size)
    /\ UNCHANGED <<compiled, cpu, level, objects, set, points>>

\* The same with the points of the vector set, which it loads by vectors.
FillFromPoints(c) ==
    /\ set # NoSet /\ points # NoSet /\ points.size = set.size
    /\ wrongs' = wrongs \cup Past(c, set, set.size) \cup Past(c, points, points.size)
    /\ UNCHANGED <<compiled, cpu, level, objects, set, points>>

Next == \/ \E l \in -1 .. 4 : SetSIMDLevel(l)
        \/ NewFastNoiseSIMD
        \/ \E c \in objects : Delete(c) \/ FillNoiseSet(c) \/ FillFromPoints(c)
        \/ \E size \in Sizes : Allocate(size) \/ SetSize(size)
        \/ FreeSet \/ FreePoints

Spec == Init /\ [][Next]_vars

-----------------------------------------------------------------------------
(* Every set is freed by the function that belongs to the one it was
   allocated with, and no object reads or writes behind the end of a set that
   GetEmptySet or SetSize made (FastNoiseSIMD.cpp 230-300 and 537-556).    *)
SetsAreSafe == wrongs = {}

(* No object uses instructions that the CPU does not have (120-220). *)
ObjectsRun == \A c \in objects : c <= GetFastestSIMD
=============================================================================
