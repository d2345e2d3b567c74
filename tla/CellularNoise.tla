---------------------------- MODULE CellularNoise ----------------------------
(***************************************************************************)
(* Cellular noise, in FastNoise.cpp for one point in two or three          *)
(* dimensions and in FastNoiseSIMD_internal.cpp for each lane of a vector: *)
(* the cells around the point are visited in order, each has one feature   *)
(* point, and the noise is made of the nearest one or of the distances to  *)
(* the nearest ones.  The three distance functions are left out: the       *)
(* distance to a feature point may be any of Distances.                    *)
(***************************************************************************)
EXTENDS Integers, Sequences, FiniteSets

CONSTANTS
    Cells,      \* bound: the cells visited (9 and 27 in the code)
    Far,        \* 999999, more than any distance
    Distances,
    Indices,    \* the arguments of SetCellularDistance2Indices
    ReturnTypes

FN_CELLULAR_INDEX_MAX == 3

ASSUME CellsAssumption == Cells \in Nat \ {0}
ASSUME FarAssumption == Far \in Nat \ {0} /\ Distances \subseteq 1 .. Far - 1
ASSUME IndicesAssumption == Indices \subseteq Int

VARIABLES
    pc,
    code,       \* which of the three texts runs
    returnType,
    index0, index1,
    distance,   \* distance[0] .. distance[3], the nearest first
    closest,    \* the nearest cell, 0 before the first visit
    seen,       \* history: the distances of the cells visited
    c0,         \* the first value of Distance2Cave, <<>> before
    result

vars == <<pc, code, returnType, index0, index1, distance, closest, seen, c0, result>>

Codes == {"FastNoise 3D", "FastNoise 2D", "SIMD"}
Nearest == {"CellValue", "NoiseLookup", "Distance"}
Edges == {"Distance2", "Distance2Add", "Distance2Sub", "Distance2Mul", "Distance2Div",
          "Distance2Cave"}

Least(a, b) == IF a < b THEN a ELSE b
Most(a, b) == IF a < b THEN b ELSE a

AllFar == [i \in 0 .. FN_CELLULAR_INDEX_MAX |-> Far]

Init == /\ pc = "set"
        /\ code \in Codes
        /\ returnType \in ReturnTypes
        /\ index0 = 0 /\ index1 = 1
        /\ distance = AllFar /\ closest = 0 /\ seen = <<>>
        /\ c0 = <<>> /\ result = <<>>

Clamped(i) == Least(Most(i, 0), FN_CELLULAR_INDEX_MAX)

\* Mutant: the indices are not put in order.
SetCellularDistance2Indices_AsGiven(i, j) ==
    /\ pc = "set"
    /\ index0' = Clamped(i)
    /\ index1' = Clamped(j)
    /\ pc' = "scan"
    /\ UNCHANGED <<code, returnType, distance, closest, seen, c0, result>>

SetCellularDistance2Indices(i, j) ==
    /\ pc = "set"
    /\ index0' = Clamped(Least(i, j))
    /\ index1' = Clamped(Most(i, j))
    /\ pc' = "scan"
    /\ UNCHANGED <<code, returnType, distance, closest, seen, c0, result>>

Visiting(d) == /\ pc = "scan" /\ Len(seen) < Cells
               /\ seen' = Append(seen, d)
               /\ UNCHANGED <<pc, code, returnType, index0, index1, c0, result>>

\* Mutant: a cell as near as the nearest one replaces it.
KeepNearest_Last(d) ==
    /\ Visiting(d)
    /\ distance' = [distance EXCEPT ![0] = Least(d, distance[0])]
    /\ closest' = IF d <= distance[0] THEN Len(seen) + 1 ELSE closest

(* The cell is the nearest so far if it is nearer than all before it. *)
KeepNearest(d) ==
    /\ Visiting(d)
    /\ distance' = [distance EXCEPT ![0] = Least(d, distance[0])]
    /\ closest' = IF d < distance[0] THEN Len(seen) + 1 ELSE closest

\* Mutant: the distances are moved from the first one up.
KeepEdges_Up(d) ==
    /\ Visiting(d)
    /\ LET after[i \in DOMAIN distance] ==
              IF i > index1 THEN distance[i]
              ELSE IF i = 0 THEN Least(distance[0], d)
              ELSE Most(Least(distance[i], d), after[i - 1])
       IN  distance' = after
    /\ UNCHANGED closest

(* The distances up to index1 are kept in order: from the last one down, each
   takes the new distance or the one before it if that is less.            *)
KeepEdges(d) ==
    /\ Visiting(d)
    /\ distance' = [i \in DOMAIN distance |->
           IF i > index1 THEN distance[i]
           ELSE IF i = 0 THEN Least(distance[0], d)
           ELSE Most(Least(distance[i], d), distance[i - 1])]
    /\ UNCHANGED closest

-----------------------------------------------------------------------------
\* The loops of each function.
SingleCellular3D(d) ==
    code = "FastNoise 3D" /\ returnType \in Nearest /\ KeepNearest(d)

SingleCellular2D(d) ==
    code = "FastNoise 2D" /\ returnType \in Nearest /\ KeepNearest(d)

SingleCellular2Edge3D(d) ==
    code = "FastNoise 3D" /\ returnType \in Edges /\ KeepEdges(d)

SingleCellular2Edge2D(d) ==
    code = "FastNoise 2D" /\ returnType \in Edges /\ KeepEdges(d)

CellularValueSingle(d) ==
    code = "SIMD" /\ returnType = "CellValue" /\ KeepNearest(d)

CellularLookupSingle(d) ==
    code = "SIMD" /\ returnType = "NoiseLookup" /\ KeepNearest(d)

CellularDistanceSingle(d) ==
    /\ code = "SIMD" /\ returnType = "Distance"
    /\ Visiting(d)
    /\ distance' = [distance EXCEPT ![0] = Least(distance[0], d)]
    /\ UNCHANGED closest

CellularDistance2Single(d) ==
    code = "SIMD" /\ returnType \in Edges /\ KeepEdges(d)

-----------------------------------------------------------------------------
\* The value returned, once all cells are visited.
Returns(value) ==
    /\ pc = "scan" /\ Len(seen) = Cells
    /\ result' = value
    /\ pc' = "done"
    /\ UNCHANGED <<code, returnType, index0, index1, distance, closest, seen, c0>>

ReturnNearest == /\ returnType \in Nearest
                 /\ Returns(IF returnType = "Distance" THEN <<distance[0]>>
                            ELSE <<"cell", closest>>)

\* A quotient is the pair of its terms.
ReturnEdges ==
    /\ returnType \in Edges \ {"Distance2Cave"}
    /\ LET d0 == distance[index0]
           d1 == distance[index1]
       IN  Returns(CASE returnType = "Distance2"    -> <<d1>>
                     [] returnType = "Distance2Add" -> <<d1 + d0>>
                     [] returnType = "Distance2Sub" -> <<d1 - d0>>
                     [] returnType = "Distance2Mul" -> <<d1 * d0>>
                     [] returnType = "Distance2Div" -> <<d0, d1>>)

\* FastNoise.cpp has no Distance2Cave: the switch ends in its default.
ReturnZero ==
    code # "SIMD" /\ returnType = "Distance2Cave" /\ Returns(<<0>>)

\* Distance2Cave: the quotient here and half a cell away; the less of them.
Quotient == <<distance[index0], distance[index1]>>

CaveAgain ==
    /\ pc = "scan" /\ Len(seen) = Cells
    /\ code = "SIMD" /\ returnType = "Distance2Cave" /\ c0 = <<>>
    /\ c0' = Quotient
    /\ distance' = AllFar /\ seen' = <<>>
    /\ UNCHANGED <<pc, code, returnType, index0, index1, closest, result>>

CellularDistance2CaveSingle ==
    /\ code = "SIMD" /\ returnType = "Distance2Cave" /\ c0 # <<>>
    /\ Returns(IF c0[1] * Quotient[2] < Quotient[1] * c0[2] THEN c0 ELSE Quotient)

Return == ReturnNearest \/ ReturnEdges \/ ReturnZero

Next == \/ \E i, j \in Indices : SetCellularDistance2Indices(i, j)
        \/ \E d \in Distances :
              \/ SingleCellular3D(d) \/ SingleCellular2Edge3D(d)
              \/ SingleCellular2D(d) \/ SingleCellular2Edge2D(d)
              \/ CellularValueSingle(d) \/ CellularLookupSingle(d)
              \/ CellularDistanceSingle(d) \/ CellularDistance2Single(d)
        \/ Return
        \/ CaveAgain \/ CellularDistance2CaveSingle

Spec == Init /\ [][Next]_vars

-----------------------------------------------------------------------------
TypeOK == /\ pc \in {"set", "scan", "done"}
          /\ code \in Codes
          /\ index0 \in 0 .. FN_CELLULAR_INDEX_MAX /\ index1 \in 0 .. FN_CELLULAR_INDEX_MAX
          /\ index0 <= index1
          /\ distance \in [0 .. FN_CELLULAR_INDEX_MAX -> 1 .. Far]
          /\ seen \in Seq(Distances) /\ Len(seen) <= Cells
          /\ closest \in 0 .. Cells

\* The cells seen at less than t, and at no more than t.
Below(s, t) == {j \in 1 .. Len(s) : s[j] < t}
UpTo(s, t)  == {j \in 1 .. Len(s) : s[j] <= t}

\* v is the number k, counted from 0, of the distances s put in order, or Far
\* if s has no such number.
IsLeast(s, k, v) ==
    \/ v = Far /\ Len(s) <= k
    \/ v < Far /\ Cardinality(Below(s, v)) <= k /\ Cardinality(UpTo(s, v)) > k

(* distance[0 .. index1] are the index1 + 1 least distances of the cells
   visited, in order and each as often as it occurs; what is not filled yet
   is Far (the loop at FastNoiseSIMD_internal.cpp 1867-1869).              *)
KLeast ==
    returnType \in Edges => \A k \in 0 .. index1 : IsLeast(seen, k, distance[k])

(* The cell whose value or whose noise is returned is the first of those with
   the least distance (FastNoise.cpp 1725-1732, FastNoiseSIMD_internal.cpp
   1618-1621).                                                             *)
FirstClosest ==
    returnType \in {"CellValue", "NoiseLookup"} /\ seen # <<>> =>
        /\ closest \in 1 .. Len(seen)
        /\ \A j \in 1 .. Len(seen) : seen[closest] <= seen[j]
        /\ \A j \in 1 .. closest - 1 : seen[closest] < seen[j]

(* What is returned is made of the right distances, whatever the order of the
   two indices was (FastNoise.cpp 229-236 and 1886-1907).                  *)
AnswerIsTrue ==
    pc = "done" =>
        LET Nth(k) == CHOOSE v \in Distances \cup {Far} : IsLeast(seen, k, v)
        IN  CASE returnType = "Distance"     -> result = <<Nth(0)>>
              [] returnType = "Distance2"    -> result = <<Nth(index1)>>
              [] returnType = "Distance2Sub" -> result = <<Nth(index1) - Nth(index0)>>
                                                /\ result[1] >= 0
              [] returnType = "Distance2Div" -> result = <<Nth(index0), Nth(index1)>>
                                                /\ result[1] <= result[2]
              [] OTHER -> TRUE
=============================================================================
