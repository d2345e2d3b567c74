---------------------------- MODULE NoiseProofs ----------------------------
(***************************************************************************)
(* Proofs about the noise libraries: CellularNoise by itself, then         *)
(* NoiseLevels, FractalNoise, NoiseSet, SampledNoise, LatticeNoise and     *)
(* SimplexNoise as the subjects of MCNoise, for any jobs, builds,          *)
(* processors, sizes, settings and places.                                 *)
(*                                                                         *)
(* CellularNoise first.  That the loop of KeepEdges leaves the least       *)
(* distances in their order is a matter of counting: how many cells were   *)
(* seen at less than a distance, and how many at no more than it.          *)
(* Counting also shows that there is one such distance, so that the answer *)
(* is the one.                                                             *)
(***************************************************************************)
EXTENDS MCNoise, TLAPS, FiniteSetTheorems, WellFoundedInduction

\* Before the loop nothing is kept.
NothingSeen == pc = "set" => seen = <<>> /\ distance = AllFar

\* The distances that are kept are in order.
Ordered == \A k \in 1 .. index1 : distance[k - 1] <= distance[k]

\* distance[0] is the distance to the cell that is called closest.
ClosestKept ==
    returnType \in {"CellValue", "NoiseLookup"} =>
        IF seen = <<>> THEN distance[0] = Far /\ closest = 0
        ELSE /\ closest \in 1 .. Len(seen)
             /\ distance[0] = seen[closest]
             /\ \A j \in 1 .. Len(seen) : seen[closest] <= seen[j]
             /\ \A j \in 1 .. closest - 1 : seen[closest] < seen[j]

EdgesKept == returnType \in Edges => Ordered /\ \A k \in 0 .. index1 : IsLeast(seen, k, distance[k])

NearestKept == returnType \in Nearest => IsLeast(seen, 0, distance[0])

\* The answer was made of the distances that were kept for it.
AnswerKept ==
    pc = "done" =>
        /\ returnType = "Distance" => result = <<distance[0]>>
        /\ returnType = "Distance2" => result = <<distance[index1]>>
        /\ returnType = "Distance2Sub" => result = <<distance[index1] - distance[index0]>>
        /\ returnType = "Distance2Div" => result = <<distance[index0], distance[index1]>>

IInv == TypeOK /\ NothingSeen /\ ClosestKept /\ NearestKept /\ EdgesKept /\ AnswerKept

Below_(s, t) == Cardinality(Below(s, t))
UpTo_(s, t) == Cardinality(UpTo(s, t))

-----------------------------------------------------------------------------
LEMMA IntervalCount == \A m \in Nat : IsFiniteSet(1 .. m) /\ Cardinality(1 .. m) = m
BY FS_Interval

(* How one more distance changes the counts. *)
LEMMA CountsOfAppend ==
    ASSUME NEW s \in Seq(Distances), NEW d \in Distances, NEW t \in Int
    PROVE  /\ Below_(Append(s, d), t) = Below_(s, t) + (IF d < t THEN 1 ELSE 0)
           /\ UpTo_(Append(s, d), t) = UpTo_(s, t) + (IF d <= t THEN 1 ELSE 0)
<1> DEFINE n == Len(s) + 1
<1>1. n \in Nat /\ Len(Append(s, d)) = n /\ Append(s, d)[n] = d
      /\ \A j \in 1 .. Len(s) : Append(s, d)[j] = s[j]
  OBVIOUS
<1>2. IsFiniteSet(1 .. Len(s))
  BY FS_Interval
<1>3. /\ IsFiniteSet(Below(s, t)) /\ n \notin Below(s, t)
      /\ IsFiniteSet(UpTo(s, t)) /\ n \notin UpTo(s, t)
  BY <1>2, FS_Subset DEF Below, UpTo
<1>4. Cardinality(Below(s, t)) \in Nat /\ Cardinality(UpTo(s, t)) \in Nat
  BY <1>3, FS_CardinalityType
<1>5. Below(Append(s, d), t) = IF d < t THEN Below(s, t) \cup {n} ELSE Below(s, t)
  BY <1>1 DEF Below
<1>6. UpTo(Append(s, d), t) = IF d <= t THEN UpTo(s, t) \cup {n} ELSE UpTo(s, t)
  BY <1>1 DEF UpTo
<1>7. Cardinality(Below(s, t) \cup {n}) = Cardinality(Below(s, t)) + 1
  BY <1>3, FS_AddElement
<1>8. Cardinality(UpTo(s, t) \cup {n}) = Cardinality(UpTo(s, t)) + 1
  BY <1>3, FS_AddElement
<1> QED
  BY <1>4, <1>5, <1>6, <1>7, <1>8 DEF Below_, UpTo_

(* The counts grow with the distance, up to the number of all cells seen. *)
LEMMA CountsGrow ==
    ASSUME NEW s \in Seq(Distances), NEW t \in Int, NEW u \in Int, t <= u
    PROVE  /\ Below_(s, t) \in Nat /\ UpTo_(s, t) \in Nat
           /\ Below_(s, t) <= Below_(s, u)
           /\ UpTo_(s, t) <= UpTo_(s, u)
           /\ Below_(s, t) <= Len(s)
<1>0. \A j \in 1 .. Len(s) : s[j] \in Int
  <2>1. Distances \subseteq Int
    BY FarAssumption
  <2>2. \A j \in 1 .. Len(s) : s[j] \in Distances
    OBVIOUS
  <2> QED
    BY <2>1, <2>2
<1>1. IsFiniteSet(1 .. Len(s)) /\ Cardinality(1 .. Len(s)) = Len(s)
  <2>1. Len(s) \in Nat
    OBVIOUS
  <2> QED
    BY <2>1, IntervalCount
<1>2. Below(s, t) \subseteq 1 .. Len(s) /\ UpTo(s, t) \subseteq 1 .. Len(s)
      /\ Below(s, u) \subseteq 1 .. Len(s) /\ UpTo(s, u) \subseteq 1 .. Len(s)
  BY DEF Below, UpTo
<1>3. IsFiniteSet(Below(s, t)) /\ IsFiniteSet(UpTo(s, t))
      /\ IsFiniteSet(Below(s, u)) /\ IsFiniteSet(UpTo(s, u))
  BY <1>1, <1>2, FS_Subset
<1>4. Below(s, t) \subseteq Below(s, u) /\ UpTo(s, t) \subseteq UpTo(s, u)
  BY <1>0 DEF Below, UpTo
<1>5. Cardinality(Below(s, t)) \in Nat /\ Cardinality(UpTo(s, t)) \in Nat
  BY <1>3, FS_CardinalityType
<1>6. Cardinality(Below(s, t)) <= Cardinality(Below(s, u))
  BY <1>3, <1>4, FS_Subset
<1>7. Cardinality(UpTo(s, t)) <= Cardinality(UpTo(s, u))
  BY <1>3, <1>4, FS_Subset
<1>8. Cardinality(Below(s, t)) <= Len(s)
  BY <1>1, <1>2, FS_Subset
<1> QED
  BY <1>5, <1>6, <1>7, <1>8 DEF Below_, UpTo_

(* The first of the distances that are kept is the least one. *)
LEMMA LeastFirst ==
    ASSUME NEW s \in Seq(Distances), NEW d \in Distances, NEW v \in 1 .. Far,
           IsLeast(s, 0, v)
    PROVE  IsLeast(Append(s, d), 0, Least(v, d))
<1>1. d \in Int /\ v \in Int /\ d < Far /\ v <= Far /\ Far \in Int
  BY FarAssumption
<1>2. Len(s) \in Nat /\ Len(Append(s, d)) = Len(s) + 1
  OBVIOUS
<1>3. CASE d < v
  <2>1. Least(v, d) = d
    BY <1>1, <1>3 DEF Least
  <2>2. Below_(s, d) <= 0
    BY <1>1, <1>2, <1>3, CountsGrow DEF IsLeast, Below_, UpTo_
  <2>3. UpTo_(s, d) \in Nat /\ Below_(s, d) \in Nat
    BY <1>1, CountsGrow
  <2>4. Below_(Append(s, d), d) = Below_(s, d) /\ UpTo_(Append(s, d), d) = UpTo_(s, d) + 1
    BY <1>1, <2>3, CountsOfAppend
  <2> QED
    BY <1>1, <2>1, <2>2, <2>3, <2>4 DEF IsLeast, Below_, UpTo_
<1>4. CASE d >= v
  <2>1. Least(v, d) = v /\ v < Far
    BY <1>1, <1>4 DEF Least
  <2>2. Below_(s, v) <= 0 /\ UpTo_(s, v) > 0 /\ Below_(s, v) \in Nat /\ UpTo_(s, v) \in Nat
    BY <1>1, <2>1, CountsGrow DEF IsLeast, Below_, UpTo_
  <2>3. Below_(Append(s, d), v) <= 0 /\ UpTo_(Append(s, d), v) > 0
    BY <1>1, <1>4, <2>2, CountsOfAppend
  <2> QED
    BY <1>1, <2>1, <2>3 DEF IsLeast, Below_, UpTo_
<1> QED
  BY <1>1, <1>3, <1>4

(* Each of the others takes the new distance, keeps its own or takes over the
   one before it.                                                          *)
LEMMA LeastNext ==
    ASSUME NEW s \in Seq(Distances), NEW d \in Distances, NEW k \in Nat, k > 0,
           NEW p \in 1 .. Far, NEW v \in 1 .. Far, p <= v,
           IsLeast(s, k - 1, p), IsLeast(s, k, v)
    PROVE  IsLeast(Append(s, d), k, Most(Least(v, d), p))
<1>1. d \in Int /\ v \in Int /\ p \in Int /\ d < Far /\ v <= Far /\ p <= Far /\ Far \in Int
  BY FarAssumption
<1>2. Len(s) \in Nat /\ Len(Append(s, d)) = Len(s) + 1
  OBVIOUS
<1>3. /\ Below_(s, d) \in Nat /\ UpTo_(s, d) \in Nat /\ Below_(s, d) <= Len(s)
      /\ Below_(s, v) \in Nat /\ UpTo_(s, v) \in Nat
      /\ Below_(s, p) \in Nat /\ UpTo_(s, p) \in Nat
  BY <1>1, CountsGrow
<1>4. /\ Below_(Append(s, d), d) = Below_(s, d)
      /\ UpTo_(Append(s, d), d) = UpTo_(s, d) + 1
  BY <1>1, <1>3, CountsOfAppend
<1>5. CASE d >= v
  <2>1. Most(Least(v, d), p) = v /\ v < Far
    BY <1>1, <1>5 DEF Least, Most
  <2>2. Below_(s, v) <= k /\ UpTo_(s, v) > k
    BY <1>1, <2>1 DEF IsLeast, Below_, UpTo_
  <2>3. Below_(Append(s, d), v) <= k /\ UpTo_(Append(s, d), v) > k
    BY <1>1, <1>3, <1>5, <2>2, CountsOfAppend
  <2> QED
    BY <1>1, <2>1, <2>3 DEF IsLeast, Below_, UpTo_
<1>6. CASE p <= d /\ d < v
  <2>1. Most(Least(v, d), p) = d /\ p < Far
    BY <1>1, <1>6 DEF Least, Most
  <2>2. UpTo_(s, p) > k - 1
    BY <1>1, <2>1 DEF IsLeast, Below_, UpTo_
  <2>3. UpTo_(s, d) >= k
    BY <1>1, <1>3, <1>6, <2>2, CountsGrow
  <2>4. Below_(s, d) <= k
    <3>1. CASE v = Far
      BY <1>2, <1>3, <3>1 DEF IsLeast
    <3>2. CASE v < Far
      <4>1. Below_(s, v) <= k
        BY <1>1, <3>2 DEF IsLeast, Below_, UpTo_
      <4>2. Below_(s, d) <= Below_(s, v)
        BY <1>1, <1>6, CountsGrow
      <4> QED
        BY <1>3, <4>1, <4>2
    <3> QED
      BY <1>1, <3>1, <3>2
  <2>5. Below_(Append(s, d), d) <= k /\ UpTo_(Append(s, d), d) > k
    BY <1>3, <1>4, <2>3, <2>4
  <2> QED
    BY <1>1, <2>1, <2>5 DEF IsLeast, Below_, UpTo_
<1>7. CASE d < p
  <2>1. Most(Least(v, d), p) = p
    BY <1>1, <1>7 DEF Least, Most
  <2>2. CASE p = Far
    <3>1. Len(s) <= k - 1
      BY <2>2 DEF IsLeast
    <3> QED
      BY <1>2, <2>1, <2>2, <3>1 DEF IsLeast
  <2>3. CASE p < Far
    <3>1. Below_(s, p) <= k - 1 /\ UpTo_(s, p) > k - 1
      BY <1>1, <2>3 DEF IsLeast, Below_, UpTo_
    <3>2. Below_(Append(s, d), p) <= k /\ UpTo_(Append(s, d), p) > k
      BY <1>1, <1>3, <1>7, <3>1, CountsOfAppend
    <3> QED
      BY <2>1, <2>3, <3>2 DEF IsLeast, Below_, UpTo_
  <2> QED
    BY <1>1, <2>2, <2>3
<1> QED
  BY <1>1, <1>5, <1>6, <1>7

(* A number of a sequence in order is one of the sequence. *)
LEMMA LeastIsSeen ==
    ASSUME NEW s \in Seq(Distances), NEW k \in Nat, NEW v \in 1 .. Far, IsLeast(s, k, v)
    PROVE  v \in Distances \cup {Far}
<1>1. v \in Int /\ Far \in Int
  BY FarAssumption
<1>2. CASE v < Far
  <2>1. Cardinality(Below(s, v)) <= k /\ Cardinality(UpTo(s, v)) > k
    BY <1>1, <1>2 DEF IsLeast
  <2>2. IsFiniteSet(Below(s, v))
        /\ Cardinality(Below(s, v)) \in Nat /\ Cardinality(UpTo(s, v)) \in Nat
    <3>1. Len(s) \in Nat
      OBVIOUS
    <3>2. IsFiniteSet(1 .. Len(s))
      BY <3>1, FS_Interval
    <3> QED
      BY <3>2, FS_Subset, FS_CardinalityType DEF Below, UpTo
  <2>3. ~(UpTo(s, v) \subseteq Below(s, v))
    BY <2>1, <2>2, FS_Subset
  <2>4. PICK j \in 1 .. Len(s) : s[j] <= v /\ ~(s[j] < v)
    BY <2>3 DEF UpTo, Below
  <2>5. s[j] \in Distances /\ Distances \subseteq Int
    BY FarAssumption
  <2>6. s[j] \in Int
    BY <2>5
  <2>7. s[j] = v
    BY <1>1, <2>4, <2>6
  <2> QED
    BY <2>5, <2>7
<1> QED
  BY <1>1, <1>2

(* There is one number k of a sequence in order. *)
LEMMA LeastIsUnique ==
    ASSUME NEW s \in Seq(Distances), NEW k \in Nat, NEW u \in 1 .. Far, NEW v \in 1 .. Far,
           IsLeast(s, k, u), IsLeast(s, k, v), u < v
    PROVE  FALSE
<1>1. u \in Int /\ v \in Int /\ Far \in Int /\ u < Far /\ v <= Far /\ Len(s) \in Nat
  BY FarAssumption
<1>2. IsFiniteSet(1 .. Len(s)) /\ Cardinality(1 .. Len(s)) = Len(s)
  BY <1>1, IntervalCount
<1>3. UpTo(s, u) \subseteq 1 .. Len(s) /\ Below(s, v) \subseteq 1 .. Len(s)
  BY DEF UpTo, Below
<1>4. UpTo(s, u) \subseteq Below(s, v)
  <2>1. \A j \in 1 .. Len(s) : s[j] \in Int
    <3>1. \A j \in 1 .. Len(s) : s[j] \in Distances
      OBVIOUS
    <3>2. Distances \subseteq Int
      BY FarAssumption
    <3> QED
      BY <3>1, <3>2
  <2> QED
    BY <1>1, <2>1 DEF UpTo, Below
<1>5. IsFiniteSet(UpTo(s, u)) /\ IsFiniteSet(Below(s, v))
  BY <1>2, <1>3, FS_Subset
<1>6. Cardinality(UpTo(s, u)) \in Nat /\ Cardinality(Below(s, v)) \in Nat
  BY <1>5, FS_CardinalityType
<1>7. Cardinality(UpTo(s, u)) > k
  BY <1>1 DEF IsLeast
<1>8. CASE v = Far
  <2>1. Len(s) <= k
    BY <1>1, <1>8 DEF IsLeast
  <2>2. Cardinality(UpTo(s, u)) <= Len(s)
    BY <1>2, <1>3, FS_Subset
  <2> QED
    BY <1>1, <1>6, <1>7, <2>1, <2>2
<1>9. CASE v < Far
  <2>1. Cardinality(Below(s, v)) <= k
    BY <1>1, <1>9 DEF IsLeast
  <2>2. Cardinality(UpTo(s, u)) <= Cardinality(Below(s, v))
    BY <1>4, <1>5, FS_Subset
  <2> QED
    BY <1>6, <1>7, <2>1, <2>2
<1> QED
  BY <1>1, <1>8, <1>9

(* So a definite description of it finds it. *)
LEMMA NthIsLeast ==
    ASSUME NEW s \in Seq(Distances), NEW k \in Nat, NEW v \in 1 .. Far, IsLeast(s, k, v)
    PROVE  (CHOOSE w \in Distances \cup {Far} : IsLeast(s, k, w)) = v
<1> DEFINE w == CHOOSE w \in Distances \cup {Far} : IsLeast(s, k, w)
<1>1. v \in Distances \cup {Far}
  BY LeastIsSeen
<1>2. w \in Distances \cup {Far} /\ IsLeast(s, k, w)
  BY <1>1
<1> HIDE DEF w
<1>3. w \in 1 .. Far
  BY <1>2, FarAssumption
<1>4. ~(w < v)
  BY <1>2, <1>3, LeastIsUnique
<1>5. ~(v < w)
  BY <1>2, <1>3, LeastIsUnique
<1>6. w = v
  BY <1>3, <1>4, <1>5
<1> QED
  BY <1>6 DEF w

-----------------------------------------------------------------------------
LEMMA InitOK == Init => IInv
<1> SUFFICES ASSUME Init PROVE IInv
  OBVIOUS
<1>1. Far \in Nat /\ Far >= 1 /\ Cells \in Nat
  BY FarAssumption, CellsAssumption
<1>2. TypeOK
  BY <1>1 DEF Init, TypeOK, AllFar, FN_CELLULAR_INDEX_MAX
<1>3. NothingSeen /\ ClosestKept
  BY DEF Init, NothingSeen, ClosestKept, AllFar, FN_CELLULAR_INDEX_MAX
<1>4. Ordered
  BY <1>1 DEF Init, Ordered, AllFar, FN_CELLULAR_INDEX_MAX
<1>5. \A k \in 0 .. index1 : IsLeast(seen, k, distance[k])
  BY <1>1 DEF Init, IsLeast, AllFar, FN_CELLULAR_INDEX_MAX
<1>6. NearestKept
  BY <1>5 DEF Init, NearestKept
<1>7. AnswerKept
  BY DEF Init, AnswerKept
<1> QED
  BY <1>2, <1>3, <1>4, <1>5, <1>6, <1>7 DEF IInv, EdgesKept

LEMMA SetIndicesOK ==
    ASSUME IInv, NEW n \in Indices, NEW j \in Indices, SetCellularDistance2Indices(n, j)
    PROVE  IInv'
<1>1. n \in Int /\ j \in Int /\ Far \in Nat /\ Far >= 1
  BY IndicesAssumption, FarAssumption
<1>2. index0' \in 0 .. 3 /\ index1' \in 0 .. 3 /\ index0' <= index1'
  BY <1>1 DEF SetCellularDistance2Indices, Clamped, Least, Most, FN_CELLULAR_INDEX_MAX
<1>3. /\ pc' = "scan" /\ pc = "set"
      /\ UNCHANGED <<code, returnType, distance, closest, seen, c0, result>>
  BY DEF SetCellularDistance2Indices
<1>4. seen = <<>> /\ distance = AllFar
  BY <1>3 DEF IInv, NothingSeen
<1>5. TypeOK'
  BY <1>2, <1>3 DEF IInv, TypeOK, FN_CELLULAR_INDEX_MAX
<1>6. NothingSeen' /\ ClosestKept'
  BY <1>3 DEF IInv, NothingSeen, ClosestKept
<1>7. Ordered'
  <2> SUFFICES ASSUME NEW k \in 1 .. index1' PROVE distance[k - 1] <= distance[k]
    BY <1>3 DEF Ordered
  <2> QED
    BY <1>1, <1>2, <1>4 DEF AllFar, FN_CELLULAR_INDEX_MAX
<1>8. \A k \in 0 .. index1' : IsLeast(seen', k, distance'[k])
  <2> TAKE k \in 0 .. index1'
  <2>1. distance'[k] = Far
    BY <1>2, <1>3, <1>4 DEF AllFar, FN_CELLULAR_INDEX_MAX
  <2>2. Len(seen') = 0 /\ 0 <= k
    BY <1>2, <1>3, <1>4
  <2> QED
    BY <2>1, <2>2 DEF IsLeast
<1>9. NearestKept' /\ AnswerKept'
  BY <1>3 DEF IInv, NearestKept, AnswerKept
<1> QED
  BY <1>5, <1>6, <1>7, <1>8, <1>9 DEF IInv, EdgesKept

(* What all the loops do. *)
LEMMA VisitingOK ==
    ASSUME IInv, NEW d \in Distances, Visiting(d)
    PROVE  /\ pc = "scan" /\ pc' = "scan"
           /\ UNCHANGED <<code, returnType, index0, index1>>
           /\ seen \in Seq(Distances) /\ seen' = Append(seen, d)
           /\ seen' \in Seq(Distances) /\ seen' # <<>>
           /\ Len(seen) \in Nat /\ Len(seen') = Len(seen) + 1 /\ Len(seen') <= Cells
           /\ d \in Int /\ 1 <= d /\ d < Far /\ Far \in Int /\ Cells \in Nat
<1>1. d \in Int /\ 1 <= d /\ d < Far /\ Far \in Int /\ Cells \in Nat
  BY FarAssumption, CellsAssumption
<1>2. seen \in Seq(Distances) /\ seen' = Append(seen, d) /\ Len(seen) < Cells
  BY DEF IInv, TypeOK, Visiting
<1>3. Len(seen) \in Nat /\ seen' \in Seq(Distances) /\ seen' # <<>> /\ Len(seen') = Len(seen) + 1
  BY <1>2
<1> QED
  BY <1>1, <1>2, <1>3 DEF Visiting

(* The nearest cell so far stays the first one with the least distance. *)
LEMMA NearestOK ==
    ASSUME IInv, NEW d \in Distances, returnType \in Nearest, Visiting(d),
           distance' = [distance EXCEPT ![0] = Least(d, distance[0])],
           \/ closest' = IF d < distance[0] THEN Len(seen) + 1 ELSE closest
           \/ returnType = "Distance" /\ UNCHANGED closest
    PROVE  IInv'
<1> DEFINE n == Len(seen)
<1>1. /\ pc = "scan" /\ pc' = "scan"
      /\ UNCHANGED <<code, returnType, index0, index1>>
      /\ seen \in Seq(Distances) /\ seen' = Append(seen, d)
      /\ seen' \in Seq(Distances) /\ seen' # <<>>
      /\ n \in Nat /\ Len(seen') = n + 1 /\ n + 1 <= Cells
      /\ d \in Int /\ 1 <= d /\ d < Far /\ Far \in Int /\ Cells \in Nat
  BY VisitingOK
<1>2. distance \in [0 .. 3 -> 1 .. Far] /\ distance[0] \in 1 .. Far
  BY DEF IInv, TypeOK, FN_CELLULAR_INDEX_MAX
<1>3. Least(d, distance[0]) \in 1 .. Far
  BY <1>1, <1>2 DEF Least
<1>4. distance' \in [0 .. 3 -> 1 .. Far] /\ distance'[0] = Least(d, distance[0])
  BY <1>2, <1>3
<1>5. closest' \in 0 .. Cells
  BY <1>1 DEF IInv, TypeOK
<1>6. TypeOK'
  BY <1>1, <1>4, <1>5 DEF IInv, TypeOK, FN_CELLULAR_INDEX_MAX
<1>7. NothingSeen'
  BY <1>1 DEF NothingSeen
<1>8. EdgesKept' /\ AnswerKept'
  BY <1>1 DEF EdgesKept, AnswerKept, Nearest, Edges
<1>10. NearestKept'
  <2>1. IsLeast(seen, 0, distance[0])
    BY DEF IInv, NearestKept
  <2>2. IsLeast(Append(seen, d), 0, Least(distance[0], d))
    BY <1>1, <1>2, <2>1, LeastFirst
  <2>3. Least(distance[0], d) = Least(d, distance[0])
    BY <1>1, <1>2 DEF Least
  <2> QED
    BY <1>1, <1>4, <2>2, <2>3 DEF NearestKept
<1>9. ClosestKept'
  <2> SUFFICES ASSUME returnType \in {"CellValue", "NoiseLookup"}
               PROVE  /\ closest' \in 1 .. Len(seen')
                      /\ distance'[0] = seen'[closest']
                      /\ \A j \in 1 .. Len(seen') : seen'[closest'] <= seen'[j]
                      /\ \A j \in 1 .. closest' - 1 : seen'[closest'] < seen'[j]
    BY <1>1 DEF ClosestKept
  <2>1. closest' = IF d < distance[0] THEN n + 1 ELSE closest
    OBVIOUS
  <2>2. /\ seen'[n + 1] = d
        /\ \A j \in 1 .. n : seen'[j] = seen[j]
    BY <1>1
  <2>3. \A j \in 1 .. n : seen[j] \in Int
    <3>1. \A j \in 1 .. n : seen[j] \in Distances
      BY <1>1
    <3>2. Distances \subseteq Int
      BY FarAssumption
    <3> QED
      BY <3>1, <3>2
  <2>4. IF n = 0 THEN distance[0] = Far
        ELSE /\ closest \in 1 .. n
             /\ distance[0] = seen[closest]
             /\ \A j \in 1 .. n : seen[closest] <= seen[j]
             /\ \A j \in 1 .. closest - 1 : seen[closest] < seen[j]
    <3>1. seen = <<>> <=> n = 0
      BY <1>1
    <3> QED
      BY <3>1 DEF IInv, ClosestKept
  <2> HIDE DEF n
  <2>5. CASE n = 0
    BY <1>1, <1>2, <1>4, <2>1, <2>2, <2>4, <2>5 DEF Least
  <2>6. CASE n # 0 /\ d < distance[0]
    <3>1. \A j \in 1 .. n : d < seen[j]
      <4> SUFFICES ASSUME NEW j \in 1 .. n PROVE d < seen[j]
        OBVIOUS
      <4>1. distance[0] <= seen[j] /\ seen[j] \in Int
        BY <2>3, <2>4, <2>6
      <4> QED
        BY <1>1, <1>2, <2>6, <4>1
    <3>2. closest' = n + 1 /\ distance'[0] = d /\ seen'[closest'] = d
      <4>1. closest' = n + 1 /\ seen'[n + 1] = d
        BY <2>1, <2>2, <2>6
      <4>2. distance'[0] = d
        BY <1>4, <2>6 DEF Least
      <4> QED
        BY <4>1, <4>2
    <3>3. \A j \in 1 .. n + 1 : d <= seen'[j]
      BY <1>1, <2>2, <2>3, <3>1
    <3> QED
      BY <1>1, <2>2, <3>1, <3>2, <3>3
  <2>7. CASE n # 0 /\ ~(d < distance[0])
    <3>1. closest' = closest /\ closest \in 1 .. n /\ seen'[closest'] = distance[0]
          /\ distance'[0] = distance[0]
      BY <1>1, <1>2, <1>4, <2>1, <2>2, <2>4, <2>7 DEF Least
    <3>2. \A j \in 1 .. n + 1 : distance[0] <= seen'[j]
      BY <1>1, <1>2, <2>2, <2>3, <2>4, <2>7
    <3>3. \A j \in 1 .. closest - 1 : distance[0] < seen'[j]
      BY <1>1, <2>2, <2>4, <2>7, <3>1
    <3> QED
      BY <1>1, <3>1, <3>2, <3>3
  <2> QED
    BY <2>5, <2>6, <2>7
<1> QED
  BY <1>6, <1>7, <1>8, <1>9, <1>10 DEF IInv

(* Putting a value between two that are kept keeps them in order. *)
LEMMA KeepsOrder ==
    ASSUME NEW b \in Int, NEW c \in Int, NEW d \in Int, b <= c
    PROVE  /\ Least(b, d) <= Most(Least(c, d), b)
           /\ \A a \in Int : a <= b => Most(Least(b, d), a) <= Most(Least(c, d), b)
BY DEF Least, Most

(* The distances that are kept stay the least ones in their order. *)
LEMMA EdgesOK ==
    ASSUME IInv, NEW d \in Distances, returnType \in Edges, KeepEdges(d)
    PROVE  IInv'
<1> DEFINE kept(n) == IF n > index1 THEN distance[n]
                      ELSE IF n = 0 THEN Least(distance[0], d)
                      ELSE Most(Least(distance[n], d), distance[n - 1])
<1>1. Visiting(d) /\ closest' = closest /\ distance' = [n \in DOMAIN distance |-> kept(n)]
  BY DEF KeepEdges
<1>2. /\ pc = "scan" /\ pc' = "scan"
      /\ UNCHANGED <<code, returnType, index0, index1>>
      /\ seen \in Seq(Distances) /\ seen' = Append(seen, d)
      /\ seen' \in Seq(Distances) /\ seen' # <<>>
      /\ Len(seen) \in Nat /\ Len(seen') = Len(seen) + 1 /\ Len(seen') <= Cells
      /\ d \in Int /\ 1 <= d /\ d < Far /\ Far \in Int /\ Cells \in Nat
  BY <1>1, VisitingOK
<1>3. distance \in [0 .. 3 -> 1 .. Far] /\ index1 \in 0 .. 3
  BY DEF IInv, TypeOK, FN_CELLULAR_INDEX_MAX
<1>4. Ordered /\ \A k \in 0 .. index1 : IsLeast(seen, k, distance[k])
  BY DEF IInv, EdgesKept
<1>5. ASSUME NEW n \in 0 .. 3 PROVE kept(n) \in 1 .. Far
  <2>1. \A v \in 1 .. Far : Least(v, d) \in 1 .. Far
    BY <1>2 DEF Least
  <2>2. \A v \in 1 .. Far, w \in 1 .. Far : Most(v, w) \in 1 .. Far
    BY <1>2 DEF Most
  <2>3. distance[n] \in 1 .. Far /\ distance[0] \in 1 .. Far
    BY <1>3
  <2>4. n # 0 => distance[n - 1] \in 1 .. Far
    BY <1>3
  <2> QED
    BY <2>1, <2>2, <2>3, <2>4
<1>6. distance' \in [0 .. 3 -> 1 .. Far] /\ \A n \in 0 .. 3 : distance'[n] = kept(n)
  BY <1>1, <1>3, <1>5
<1>7. TypeOK'
  BY <1>1, <1>2, <1>6 DEF IInv, TypeOK, FN_CELLULAR_INDEX_MAX
<1>8. NothingSeen' /\ ClosestKept' /\ NearestKept' /\ AnswerKept'
  BY <1>2 DEF NothingSeen, ClosestKept, NearestKept, AnswerKept, Nearest, Edges
<1>9. Ordered'
  <2> SUFFICES ASSUME NEW k \in 1 .. index1 PROVE distance'[k - 1] <= distance'[k]
    BY <1>2 DEF Ordered
  <2>1. k \in 1 .. 3 /\ k - 1 \in 0 .. 3 /\ k \in 0 .. 3 /\ k <= index1
    BY <1>3
  <2>2. distance[k - 1] <= distance[k]
    BY <1>4 DEF Ordered
  <2>3. distance[k - 1] \in Int /\ distance[k] \in Int
    BY <1>3, <2>1
  <2>4. kept(k) = Most(Least(distance[k], d), distance[k - 1])
    BY <1>3, <2>1
  <2>5. distance'[k] = kept(k) /\ distance'[k - 1] = kept(k - 1)
    BY <1>6, <2>1
  <2>6. CASE k = 1
    <3>1. kept(k - 1) = Least(distance[k - 1], d)
      BY <1>3, <2>1, <2>6
    <3> QED
      BY <1>2, <2>2, <2>3, <2>4, <2>5, <3>1, KeepsOrder
  <2>7. CASE k > 1
    <3>1. kept(k - 1) = Most(Least(distance[k - 1], d), distance[k - 2])
      BY <1>3, <2>1, <2>7
    <3>2. distance[k - 2] <= distance[k - 1]
      <4>1. k - 1 \in 1 .. index1 /\ (k - 1) - 1 = k - 2
        BY <1>3, <2>1, <2>7
      <4> QED
        BY <1>4, <4>1 DEF Ordered
    <3>3. distance[k - 2] \in Int
      BY <1>3, <2>1, <2>7
    <3> QED
      BY <1>2, <2>2, <2>3, <2>4, <2>5, <3>1, <3>2, <3>3, KeepsOrder
  <2>8. k = 1 \/ k > 1
    BY <2>1
  <2> QED
    BY <2>6, <2>7, <2>8
<1>10. ASSUME NEW k \in 0 .. index1 PROVE IsLeast(Append(seen, d), k, kept(k))
  <2>1. k \in 0 .. 3 /\ k <= index1 /\ distance[k] \in 1 .. Far
    BY <1>3
  <2>2. CASE k = 0
    <3>1. IsLeast(seen, 0, distance[0])
      BY <1>4, <2>2
    <3>2. kept(k) = Least(distance[0], d)
      BY <1>3, <2>2
    <3> QED
      BY <1>2, <2>1, <2>2, <3>1, <3>2, LeastFirst
  <2>3. CASE k > 0
    <3>1. k - 1 \in 0 .. index1 /\ k \in 1 .. index1 /\ k \in Nat
      BY <1>3, <2>1, <2>3
    <3>2. distance[k - 1] \in 1 .. Far /\ distance[k - 1] <= distance[k]
      BY <1>3, <1>4, <2>1, <3>1 DEF Ordered
    <3>3. IsLeast(seen, k - 1, distance[k - 1]) /\ IsLeast(seen, k, distance[k])
      BY <1>4, <3>1
    <3>4. kept(k) = Most(Least(distance[k], d), distance[k - 1])
      BY <1>3, <2>1, <2>3
    <3>5. IsLeast(Append(seen, d), k, Most(Least(distance[k], d), distance[k - 1]))
      BY <1>2, <2>1, <2>3, <3>1, <3>2, <3>3, LeastNext
    <3> QED
      BY <3>4, <3>5
  <2> QED
    BY <2>1, <2>2, <2>3
<1>11. ASSUME NEW k \in 0 .. index1' PROVE IsLeast(seen', k, distance'[k])
  <2>1. k \in 0 .. index1 /\ seen' = Append(seen, d)
    BY <1>2
  <2>2. distance'[k] = kept(k)
    BY <1>3, <1>6, <2>1
  <2> QED
    BY <1>10, <2>1, <2>2, Zenon
<1> QED
  BY <1>7, <1>8, <1>9, <1>11 DEF IInv, EdgesKept

(* The distances are put back before they are computed a second time. *)
LEMMA CaveAgainOK == ASSUME IInv, CaveAgain PROVE IInv'
<1>1. /\ UNCHANGED <<pc, code, returnType, index0, index1, closest>>
      /\ distance' = AllFar /\ seen' = <<>>
      /\ pc = "scan" /\ returnType = "Distance2Cave"
  BY DEF CaveAgain
<1>2. Far \in Nat /\ Far >= 1 /\ Cells \in Nat /\ index1 \in 0 .. 3
  BY FarAssumption, CellsAssumption DEF IInv, TypeOK, FN_CELLULAR_INDEX_MAX
<1>3. TypeOK'
  BY <1>1, <1>2 DEF IInv, TypeOK, AllFar, FN_CELLULAR_INDEX_MAX
<1>4. NothingSeen' /\ ClosestKept' /\ NearestKept' /\ AnswerKept'
  BY <1>1 DEF NothingSeen, ClosestKept, NearestKept, AnswerKept, Nearest
<1>5. Ordered'
  <2> SUFFICES ASSUME NEW k \in 1 .. index1 PROVE AllFar[k - 1] <= AllFar[k]
    BY <1>1 DEF Ordered
  <2> QED
    BY <1>2 DEF AllFar, FN_CELLULAR_INDEX_MAX
<1>6. \A k \in 0 .. index1' : IsLeast(seen', k, distance'[k])
  <2> TAKE k \in 0 .. index1'
  <2>1. distance'[k] = Far
    BY <1>1, <1>2 DEF AllFar, FN_CELLULAR_INDEX_MAX
  <2>2. Len(seen') = 0 /\ 0 <= k
    BY <1>1, <1>2
  <2> QED
    BY <2>1, <2>2 DEF IsLeast
<1> QED
  BY <1>3, <1>4, <1>5, <1>6 DEF IInv, EdgesKept

(* An answer changes nothing that is kept. *)
LEMMA ReturnsOK ==
    ASSUME IInv, NEW v, Returns(v)
    PROVE  /\ TypeOK' /\ NothingSeen' /\ ClosestKept' /\ NearestKept' /\ EdgesKept'
           /\ result' = v /\ UNCHANGED <<returnType, index0, index1, distance>>
BY DEF IInv, Returns, TypeOK, NothingSeen, ClosestKept, NearestKept, EdgesKept, Ordered

LEMMA NextOK == IInv /\ [Next]_vars => IInv'
<1> SUFFICES ASSUME IInv, [Next]_vars PROVE IInv'
  OBVIOUS
<1>1. ASSUME NEW n \in Indices, NEW j \in Indices, SetCellularDistance2Indices(n, j) PROVE IInv'
  BY <1>1, SetIndicesOK
<1>2. ASSUME NEW d \in Distances,
             SingleCellular3D(d) \/ SingleCellular2D(d) \/ CellularValueSingle(d)
             \/ CellularLookupSingle(d) \/ CellularDistanceSingle(d)
      PROVE  IInv'
  <2>1. CASE CellularDistanceSingle(d)
    <3>1. Least(distance[0], d) = Least(d, distance[0])
      BY FarAssumption DEF Least, IInv, TypeOK, FN_CELLULAR_INDEX_MAX
    <3> QED
      BY <2>1, <3>1, NearestOK DEF CellularDistanceSingle, Nearest
  <2>2. CASE SingleCellular3D(d) \/ SingleCellular2D(d) \/ CellularValueSingle(d)
             \/ CellularLookupSingle(d)
    BY <2>2, NearestOK DEF SingleCellular3D, SingleCellular2D, CellularValueSingle,
                           CellularLookupSingle, KeepNearest, Nearest
  <2> QED
    BY <1>2, <2>1, <2>2
<1>3. ASSUME NEW d \in Distances,
             SingleCellular2Edge3D(d) \/ SingleCellular2Edge2D(d) \/ CellularDistance2Single(d)
      PROVE  IInv'
  BY <1>3, EdgesOK DEF SingleCellular2Edge3D, SingleCellular2Edge2D, CellularDistance2Single
<1>4. CASE ReturnNearest
  <2> DEFINE v == IF returnType = "Distance" THEN <<distance[0]>> ELSE <<"cell", closest>>
  <2>1. Returns(v) /\ returnType \in Nearest
    BY <1>4 DEF ReturnNearest
  <2> HIDE DEF v
  <2>2. /\ TypeOK' /\ NothingSeen' /\ ClosestKept' /\ NearestKept' /\ EdgesKept'
        /\ result' = v /\ UNCHANGED <<returnType, index0, index1, distance>>
    BY <2>1, ReturnsOK
  <2>3. AnswerKept'
    BY <2>1, <2>2 DEF v, AnswerKept, Nearest
  <2> QED
    BY <2>2, <2>3 DEF IInv
<1>5. CASE ReturnEdges
  <2> DEFINE d0 == distance[index0]
             d1 == distance[index1]
             v == CASE returnType = "Distance2"    -> <<d1>>
                    [] returnType = "Distance2Add" -> <<d1 + d0>>
                    [] returnType = "Distance2Sub" -> <<d1 - d0>>
                    [] returnType = "Distance2Mul" -> <<d1 * d0>>
                    [] returnType = "Distance2Div" -> <<d0, d1>>
  <2>1. Returns(v) /\ returnType \in Edges
    BY <1>5 DEF ReturnEdges
  <2>2. /\ returnType = "Distance2" => v = <<d1>>
        /\ returnType = "Distance2Sub" => v = <<d1 - d0>>
        /\ returnType = "Distance2Div" => v = <<d0, d1>>
    OBVIOUS
  <2> HIDE DEF v
  <2>3. /\ TypeOK' /\ NothingSeen' /\ ClosestKept' /\ NearestKept' /\ EdgesKept'
        /\ result' = v /\ UNCHANGED <<returnType, index0, index1, distance>>
    BY <2>1, ReturnsOK
  <2>4. AnswerKept'
    BY <2>1, <2>2, <2>3 DEF AnswerKept, Edges
  <2> QED
    BY <2>3, <2>4 DEF IInv
<1>6. CASE ReturnZero \/ CellularDistance2CaveSingle
  <2>1. PICK v : Returns(v)
    BY <1>6 DEF ReturnZero, CellularDistance2CaveSingle
  <2>2. returnType = "Distance2Cave"
    BY <1>6 DEF ReturnZero, CellularDistance2CaveSingle
  <2>3. /\ TypeOK' /\ NothingSeen' /\ ClosestKept' /\ NearestKept' /\ EdgesKept'
        /\ result' = v /\ UNCHANGED <<returnType, index0, index1, distance>>
    BY <2>1, ReturnsOK
  <2>4. AnswerKept'
    BY <2>2, <2>3 DEF AnswerKept
  <2> QED
    BY <2>3, <2>4 DEF IInv
<1>7. CASE CaveAgain
  BY <1>7, CaveAgainOK
<1>8. CASE UNCHANGED vars
  BY <1>8 DEF vars, IInv, TypeOK, NothingSeen, ClosestKept, NearestKept, EdgesKept, Ordered,
              AnswerKept
<1> QED
  BY <1>1, <1>2, <1>3, <1>4, <1>5, <1>6, <1>7, <1>8 DEF Next, Return

LEMMA Invariant == Spec => []IInv
BY InitOK, NextOK, PTL DEF Spec

-----------------------------------------------------------------------------
(* The variables keep their types: whatever indices are asked for, those that
   are used are in order and within the distances that are kept (FastNoise.cpp
   229-236).                                                               *)
THEOREM TypeCorrect == Spec => []TypeOK
<1>1. IInv => TypeOK
  BY DEF IInv
<1> QED
  BY <1>1, Invariant, PTL

(* After each cell the distances up to index1 are the least ones of all the
   cells visited, in order (FastNoiseSIMD_internal.cpp 1867-1869).         *)
THEOREM LeastKept == Spec => []KLeast
<1>1. IInv => KLeast
  BY DEF IInv, EdgesKept, KLeast
<1> QED
  BY <1>1, Invariant, PTL

(* The cell that gives the value is the first one with the least distance
   (FastNoise.cpp 1725-1732).                                              *)
THEOREM FirstIsClosest == Spec => []FirstClosest
<1>1. IInv => FirstClosest
  BY DEF IInv, ClosestKept, FirstClosest
<1> QED
  BY <1>1, Invariant, PTL

(* What is returned is made of the right distances, and a difference is never
   negative: the answer is what a sort of all distances would have given,
   whatever the order of the two indices was (FastNoise.cpp 229-236 and
   1886-1907, FastNoiseSIMD_internal.cpp 1867-1869).                       *)
THEOREM AnswerCorrect == Spec => []AnswerIsTrue
<1>1. IInv => AnswerIsTrue
  <2> SUFFICES ASSUME IInv, pc = "done" PROVE AnswerIsTrue
    BY DEF AnswerIsTrue
  <2> DEFINE Nth(k) == CHOOSE v \in Distances \cup {Far} : IsLeast(seen, k, v)
  <2>1. /\ seen \in Seq(Distances)
        /\ distance \in [0 .. 3 -> 1 .. Far]
        /\ index0 \in 0 .. 3 /\ index1 \in 0 .. 3 /\ index0 <= index1
    BY DEF IInv, TypeOK, FN_CELLULAR_INDEX_MAX
  <2>2. returnType = "Distance" => Nth(0) = distance[0]
    <3>1. distance[0] \in 1 .. Far
      BY <2>1
    <3> QED
      BY <2>1, <3>1, NthIsLeast DEF IInv, NearestKept, Nearest
  <2>3. ASSUME returnType \in Edges
        PROVE  /\ Nth(index0) = distance[index0] /\ Nth(index1) = distance[index1]
               /\ distance[index0] <= distance[index1]
    <3>1. Ordered /\ IsLeast(seen, index0, distance[index0])
          /\ IsLeast(seen, index1, distance[index1])
      BY <2>1, <2>3 DEF IInv, EdgesKept
    <3>2. distance[index0] \in 1 .. Far /\ distance[index1] \in 1 .. Far
          /\ index0 \in Nat /\ index1 \in Nat
      BY <2>1
    <3>3. Nth(index0) = distance[index0] /\ Nth(index1) = distance[index1]
      BY <2>1, <3>1, <3>2, NthIsLeast
    <3>4. distance[index0] <= distance[index1]
      <4>1. /\ index1 >= 1 => distance[0] <= distance[1]
            /\ index1 >= 2 => distance[1] <= distance[2]
            /\ index1 >= 3 => distance[2] <= distance[3]
        BY <2>1, <3>1 DEF Ordered
      <4>2. distance[0] \in Int /\ distance[1] \in Int /\ distance[2] \in Int
            /\ distance[3] \in Int
        BY <2>1, FarAssumption
      <4> QED
        BY <2>1, <4>1, <4>2
    <3> QED
      BY <3>3, <3>4
  <2>4. distance[index0] \in Int /\ distance[index1] \in Int
    BY <2>1, FarAssumption
  <2> HIDE DEF Nth
  <2>5. CASE returnType = "Distance"
    BY <2>2, <2>5 DEF IInv, AnswerKept, AnswerIsTrue, Nth
  <2>6. CASE returnType = "Distance2"
    BY <2>3, <2>6 DEF IInv, AnswerKept, AnswerIsTrue, Nth, Edges
  <2>7. CASE returnType = "Distance2Sub"
    <3>1. result = <<Nth(index1) - Nth(index0)>>
      BY <2>3, <2>7 DEF IInv, AnswerKept, Edges
    <3>2. Nth(index1) - Nth(index0) >= 0
      BY <2>3, <2>4, <2>7 DEF Edges
    <3> QED
      BY <2>7, <3>1, <3>2 DEF AnswerIsTrue, Nth
  <2>8. CASE returnType = "Distance2Div"
    <3>1. result = <<Nth(index0), Nth(index1)>>
      BY <2>3, <2>8 DEF IInv, AnswerKept, Edges
    <3>2. Nth(index0) <= Nth(index1)
      BY <2>3, <2>8 DEF Edges
    <3> QED
      BY <2>8, <3>1, <3>2 DEF AnswerIsTrue, Nth
  <2>9. CASE returnType \notin {"Distance", "Distance2", "Distance2Sub", "Distance2Div"}
    BY <2>9 DEF AnswerIsTrue
  <2> QED
    BY <2>5, <2>6, <2>7, <2>8, <2>9
<1> QED
  BY <1>1, Invariant, PTL


-----------------------------------------------------------------------------
(***************************************************************************)
(* NoiseLevels.  As long as a set or an object lives, the level stays what *)
(* decided about it: every object has the class of the level, and a set    *)
(* has room for the last vector of an object that is made now.             *)
(***************************************************************************)
BuildOK == /\ compiled \subseteq 0 .. 4 /\ 1 \in compiled
           /\ 0 \in compiled \/ "SSE2" \in cpu

LevelOK == /\ level \in {-1} \cup 0 .. Levels!GetFastestSIMD
           /\ level = 0 => 0 \in compiled

SetFits(s) ==
    s # Levels!NoSet =>
        /\ level >= 0
        /\ s.size \in Nat /\ s.room \in Nat
        /\ s.from = IF level = 0 THEN "new[]" ELSE "posix_memalign"
        /\ Levels!RoundUp(s.size, Levels!NewClass) <= s.room

OneClass == objects # {} => objects = {level} /\ level \in compiled

LevelInv == BuildOK /\ LevelOK /\ OneClass /\ SetFits(set) /\ SetFits(points) /\ wrongs = {}

\* The largest of a few levels.
LEMMA MaxLevel ==
    ASSUME NEW S, S \subseteq 0 .. 4, S # {}
    PROVE  Levels!Max(S) \in S /\ \A c \in S : c <= Levels!Max(S)
<1>1. \E m \in S : \A c \in S : m >= c
  <2>1. CASE 4 \in S
    BY <2>1
  <2>2. CASE 4 \notin S /\ 3 \in S
    BY <2>2
  <2>3. CASE 4 \notin S /\ 3 \notin S /\ 2 \in S
    BY <2>3
  <2>4. CASE 4 \notin S /\ 3 \notin S /\ 2 \notin S /\ 1 \in S
    BY <2>4
  <2>5. CASE 4 \notin S /\ 3 \notin S /\ 2 \notin S /\ 1 \notin S
    <3>1. \A c \in S : c = 0
      BY <2>5
    <3>2. PICK m \in S : TRUE
      OBVIOUS
    <3> QED BY <3>1, <3>2
  <2> QED BY <2>1, <2>2, <2>3, <2>4, <2>5
<1>2. Levels!Max(S) \in S /\ \A c \in S : Levels!Max(S) >= c
  BY <1>1 DEF Levels!Max
<1> QED BY <1>2

LEMMA FastestOK == /\ Levels!GetFastestSIMD \in 0 .. 4
                   /\ "SSE2" \notin cpu <=> Levels!GetFastestSIMD = 0
BY DEF Levels!GetFastestSIMD

\* The level that is in force, and the class that an object would have.
LEMMA ClassOK ==
    ASSUME BuildOK, LevelOK
    PROVE  /\ Levels!GetSIMDLevel \in 0 .. Levels!GetFastestSIMD
           /\ Levels!GetSIMDLevel \in 0 .. 4
           /\ Levels!GetSIMDLevel = 0 => 0 \in compiled
           /\ Levels!NewClass \in compiled /\ Levels!NewClass <= Levels!GetSIMDLevel
           /\ \A c \in compiled : c <= Levels!GetSIMDLevel => c <= Levels!NewClass
           /\ Levels!NewClass = 0 <=> Levels!GetSIMDLevel = 0
<1> DEFINE g == Levels!GetSIMDLevel
           fit == {c \in compiled : c <= g}
<1>1. g \in 0 .. Levels!GetFastestSIMD /\ g \in 0 .. 4 /\ (g = 0 => 0 \in compiled)
  BY FastestOK DEF BuildOK, LevelOK, Levels!GetSIMDLevel
<1> HIDE DEF g
<1>2. fit \subseteq 0 .. 4 /\ fit # {}
  <2>1. fit \subseteq 0 .. 4
    BY DEF BuildOK
  <2>2. (IF g = 0 THEN 0 ELSE 1) \in fit
    BY <1>1 DEF BuildOK
  <2> QED BY <2>1, <2>2
<1>3. Levels!Max(fit) \in fit /\ \A c \in fit : c <= Levels!Max(fit)
  BY <1>2, MaxLevel
<1>4. Levels!NewClass = Levels!Max(fit)
  BY <1>2 DEF Levels!NewClass, g
<1>5. /\ Levels!NewClass \in compiled /\ Levels!NewClass <= g
      /\ \A c \in compiled : c <= g => c <= Levels!NewClass
  BY <1>3, <1>4
<1>6. g >= 1 => 1 <= Levels!NewClass
  BY <1>5 DEF BuildOK
<1>7. Levels!NewClass \in 0 .. 4
  BY <1>5 DEF BuildOK
<1> QED BY <1>1, <1>5, <1>6, <1>7 DEF g

LEMMA RoundUpOK ==
    ASSUME NEW size \in Nat, NEW c \in 0 .. 4
    PROVE  Levels!RoundUp(size, c) \in Nat /\ Levels!RoundUp(size, c) >= size
BY DEF Levels!RoundUp, Levels!VECTOR_SIZE

LEMMA RoundUpSSE ==
    ASSUME NEW size \in Nat
    PROVE  /\ Levels!RoundUp(size, 0) = size
           /\ Levels!RoundUp(size, 1) = Levels!RoundUp(size, 2)
BY DEF Levels!RoundUp, Levels!VECTOR_SIZE

\* A set of GetEmptySet has room for whole vectors of the class.
LEMMA AlignedSizeOK ==
    ASSUME BuildOK, LevelOK, NEW size \in Nat
    PROVE  /\ Levels!AlignedSize(size) \in Nat
           /\ Levels!RoundUp(size, Levels!NewClass) <= Levels!AlignedSize(size)
           /\ Levels!SetClasses = {} <=> Levels!GetSIMDLevel = 0
<1> DEFINE g == Levels!GetSIMDLevel
           S == Levels!SetClasses
           k == Levels!NewClass
<1>1. S = {c \in compiled \ {0, 2} : c <= g}
  BY DEF Levels!SetClasses
<1>2. /\ g \in 0 .. 4 /\ k \in compiled /\ k <= g /\ k \in 0 .. 4
      /\ \A c \in compiled : c <= g => c <= k
      /\ k = 0 <=> g = 0
  BY ClassOK DEF BuildOK
<1>3. S \subseteq 0 .. 4 /\ 1 \in compiled
  BY <1>1 DEF BuildOK
<1>4. S = {} <=> g = 0
  <2>1. CASE g = 0
    BY <1>1, <1>3, <2>1
  <2>2. CASE g # 0
    <3>1. 1 \in S
      BY <1>1, <1>2, <1>3, <2>2
    <3> QED BY <3>1, <2>2
  <2> QED BY <2>1, <2>2
<1>5. CASE g = 0
  BY <1>2, <1>4, <1>5, RoundUpSSE DEF Levels!AlignedSize
<1>6. CASE g # 0
  <2>1. Levels!Max(S) \in S /\ \A c \in S : c <= Levels!Max(S)
    BY <1>3, <1>4, <1>6, MaxLevel
  <2>2. Levels!AlignedSize(size) = Levels!RoundUp(size, Levels!Max(S))
    BY <1>4, <1>6 DEF Levels!AlignedSize
  <2>3. k = 2 \/ k = Levels!Max(S)
    <3>1. k # 2 => k \in S
      BY <1>1, <1>2, <1>6
    <3>2. Levels!Max(S) \in 0 .. 4 /\ Levels!Max(S) <= k
      BY <1>1, <1>2, <1>3, <2>1
    <3> QED BY <1>2, <2>1, <3>1, <3>2
  <2>4. k = 2 => Levels!Max(S) = 1
    <3>1. Levels!Max(S) \in 0 .. 4 /\ Levels!Max(S) \in compiled \ {0, 2} /\ Levels!Max(S) <= g
      BY <1>1, <1>3, <2>1
    <3> QED BY <1>2, <3>1
  <2>5. Levels!RoundUp(size, k) = Levels!RoundUp(size, Levels!Max(S))
    BY <2>3, <2>4, RoundUpSSE
  <2>6. Levels!RoundUp(size, k) \in Nat
    BY <1>2, RoundUpOK
  <2> QED BY <1>4, <1>6, <2>2, <2>5, <2>6
<1> QED BY <1>5, <1>6

\* As long as the level that is in force stays, the class stays.
LEMMA SameClass ==
    ASSUME BuildOK, LevelOK, UNCHANGED <<compiled, cpu>>, level' = Levels!GetSIMDLevel
    PROVE  /\ BuildOK' /\ LevelOK' /\ level' >= 0
           /\ Levels!NewClass' = Levels!NewClass
           /\ OneClass => (objects # {} => level' = level)
           /\ \A s : SetFits(s) => SetFits(s)'
<1>1. /\ Levels!GetSIMDLevel \in 0 .. Levels!GetFastestSIMD
      /\ Levels!GetSIMDLevel = 0 => 0 \in compiled
      /\ Levels!GetSIMDLevel \in 0 .. 4
  BY ClassOK
<1>2. Levels!GetFastestSIMD' = Levels!GetFastestSIMD
  BY DEF Levels!GetFastestSIMD
<1>3. BuildOK' /\ LevelOK' /\ level' >= 0
  BY <1>1, <1>2 DEF BuildOK, LevelOK
<1>4. Levels!GetSIMDLevel' = Levels!GetSIMDLevel
  BY <1>1 DEF Levels!GetSIMDLevel
<1>5. Levels!NewClass' = Levels!NewClass
  BY <1>4 DEF Levels!NewClass
<1>6. level >= 0 => level' = level
  BY DEF Levels!GetSIMDLevel, LevelOK
<1>7. ASSUME OneClass, objects # {} PROVE level' = level
  <2>1. level \in 0 .. 4
    BY <1>7 DEF OneClass, BuildOK
  <2> QED BY <1>6, <2>1
<1>8. ASSUME NEW s, SetFits(s) PROVE SetFits(s)'
  BY <1>5, <1>6, <1>8 DEF SetFits, Levels!RoundUp, Levels!NoSet, Levels!VECTOR_SIZE
<1> QED BY <1>3, <1>5, <1>7, <1>8

LEMMA LevelInitOK == Levels!Init => LevelInv
<1> SUFFICES ASSUME Levels!Init PROVE LevelInv
  OBVIOUS
<1>1. BuildOK /\ level = -1
  BY BuildsAssumption, FastestOK DEF Levels!Init, BuildOK
<1> QED BY <1>1 DEF Levels!Init, LevelInv, LevelOK, OneClass, SetFits

\* What is freed was allocated at the level that is in force.
LEMMA FreedRight ==
    ASSUME LevelInv, NEW s, SetFits(s)
    PROVE  Levels!FreeNoiseSet(s) = {}
<1>1. CASE s = Levels!NoSet
  BY <1>1 DEF Levels!FreeNoiseSet, Levels!NoSet
<1>2. CASE s # Levels!NoSet
  <2>1. level \in 0 .. 4
    BY <1>2, FastestOK DEF LevelInv, LevelOK, SetFits
  <2>2. Levels!GetSIMDLevel = level
    BY <2>1 DEF Levels!GetSIMDLevel
  <2>3. s.from = IF level = 0 THEN "new[]" ELSE "posix_memalign"
    BY <1>2 DEF SetFits
  <2>4. "new[]" # "posix_memalign"
    OBVIOUS
  <2>5. s.from # (IF level > 0 THEN "new[]" ELSE "posix_memalign")
    BY <2>1, <2>3, <2>4
  <2> QED BY <2>2, <2>5 DEF Levels!FreeNoiseSet
<1> QED BY <1>1, <1>2

\* The vectors of an object that lives fit into a set that lives.
LEMMA VectorsFit ==
    ASSUME LevelInv, NEW c \in objects, NEW s, SetFits(s), s # Levels!NoSet
    PROVE  Levels!Past(c, s, s.size) = {}
<1>1. c = level /\ level \in compiled /\ level \in 0 .. 4
  BY DEF LevelInv, OneClass, BuildOK
<1>2. Levels!GetSIMDLevel = level
  BY <1>1 DEF Levels!GetSIMDLevel
<1>3. Levels!NewClass = level
  <2>1. /\ Levels!NewClass \in compiled /\ Levels!NewClass <= Levels!GetSIMDLevel
        /\ \A k \in compiled : k <= Levels!GetSIMDLevel => k <= Levels!NewClass
    BY ClassOK DEF LevelInv
  <2>2. Levels!NewClass \in 0 .. 4
    BY <2>1 DEF LevelInv, BuildOK
  <2> QED BY <1>1, <1>2, <2>1, <2>2
<1>4. Levels!RoundUp(s.size, c) <= s.room /\ s.room \in Nat
  BY <1>1, <1>3 DEF SetFits
<1>5. Levels!RoundUp(s.size, c) \in Nat
  BY <1>1, RoundUpOK DEF SetFits
<1>6. ~(Levels!RoundUp(s.size, c) > s.room)
  BY <1>4, <1>5
<1> QED BY <1>6 DEF Levels!Past

\* A set that is allocated now fits.
LEMMA NewSetFits ==
    ASSUME LevelInv, UNCHANGED <<compiled, cpu>>, level' = Levels!GetSIMDLevel,
           NEW s, NEW size \in Nat, s.size = size, s.room = Levels!AlignedSize(size),
           s.from = IF Levels!SetClasses = {} THEN "new[]" ELSE "posix_memalign"
    PROVE  SetFits(s)'
<1>1. Levels!NewClass' = Levels!NewClass /\ level' >= 0
  BY SameClass DEF LevelInv
<1>2. /\ Levels!RoundUp(size, Levels!NewClass) <= Levels!AlignedSize(size)
      /\ Levels!SetClasses = {} <=> level' = 0
      /\ Levels!AlignedSize(size) \in Nat
  BY AlignedSizeOK DEF LevelInv
<1>3. s.from = IF level' = 0 THEN "new[]" ELSE "posix_memalign"
  BY <1>2
<1> QED BY <1>1, <1>2, <1>3 DEF SetFits, Levels!NoSet, Levels!RoundUp, Levels!VECTOR_SIZE

\* A step that leaves the objects and uses the level in force.
LEMMA LevelKept ==
    ASSUME LevelInv, UNCHANGED <<compiled, cpu, objects>>, level' = Levels!GetSIMDLevel
    PROVE  BuildOK' /\ LevelOK' /\ OneClass'
<1>1. BuildOK' /\ LevelOK' /\ (objects # {} => level' = level)
  BY SameClass DEF LevelInv
<1> QED BY <1>1 DEF LevelInv, OneClass

LEMMA LevelNextOK == LevelInv /\ [Levels!Next]_(Levels!vars) => LevelInv'
<1> SUFFICES ASSUME LevelInv, [Levels!Next]_(Levels!vars) PROVE LevelInv'
  OBVIOUS
<1>1. ASSUME NEW l \in -1 .. 4, Levels!SetSIMDLevel(l) PROVE LevelInv'
  <2>1. /\ level' = l /\ UNCHANGED <<compiled, cpu, objects, set, points, wrongs>>
        /\ objects = {} /\ set = Levels!NoSet /\ points = Levels!NoSet
        /\ l \in {-1} \cup {c \in compiled : c <= Levels!GetFastestSIMD}
    BY <1>1 DEF Levels!SetSIMDLevel, Levels!KeepsRule
  <2>2. Levels!GetFastestSIMD' = Levels!GetFastestSIMD
    BY <2>1 DEF Levels!GetFastestSIMD
  <2>3. LevelOK'
    BY <2>1, <2>2, FastestOK DEF LevelOK, LevelInv, BuildOK
  <2> QED BY <2>1, <2>3 DEF LevelInv, BuildOK, OneClass, SetFits
<1>2. ASSUME Levels!NewFastNoiseSIMD PROVE LevelInv'
  <2> DEFINE k == Levels!NewClass
  <2>1. /\ objects' = objects \cup {k} /\ level' = k
        /\ UNCHANGED <<compiled, cpu, set, points, wrongs>>
    BY <1>2 DEF Levels!NewFastNoiseSIMD
  <2>2. /\ k \in compiled /\ k \in 0 .. 4 /\ k <= Levels!GetSIMDLevel
        /\ Levels!GetSIMDLevel \in 0 .. Levels!GetFastestSIMD
        /\ \A c \in compiled : c <= Levels!GetSIMDLevel => c <= k
        /\ k = 0 <=> Levels!GetSIMDLevel = 0
    BY ClassOK DEF LevelInv, BuildOK
  <2> HIDE DEF k
  <2>3. Levels!GetFastestSIMD' = Levels!GetFastestSIMD
    BY <2>1 DEF Levels!GetFastestSIMD
  <2>4. BuildOK' /\ LevelOK'
    BY <2>1, <2>2, <2>3, FastestOK DEF LevelInv, BuildOK, LevelOK
  <2>5. Levels!GetSIMDLevel' = k
    BY <2>1, <2>2 DEF Levels!GetSIMDLevel
  <2>6. Levels!NewClass' = k
    <3> DEFINE fit == {c \in compiled : c <= k}
    <3>1. fit \subseteq 0 .. 4 /\ k \in fit
      BY <2>2 DEF LevelInv, BuildOK
    <3>2. Levels!Max(fit) \in fit /\ \A c \in fit : c <= Levels!Max(fit)
      BY <3>1, MaxLevel
    <3>3. Levels!Max(fit) \in 0 .. 4 /\ Levels!Max(fit) <= k /\ k <= Levels!Max(fit)
      BY <3>1, <3>2
    <3>4. Levels!NewClass' = Levels!Max(fit)
      BY <2>1, <2>5, <3>1 DEF Levels!NewClass
    <3> QED BY <2>2, <3>3, <3>4
  <2>7. OneClass'
    <3>1. CASE objects = {}
      BY <2>1, <2>2, <3>1 DEF OneClass
    <3>2. CASE objects # {}
      <4>1. objects = {level} /\ level \in compiled /\ level \in 0 .. 4
        BY <3>2 DEF LevelInv, OneClass, BuildOK
      <4>2. k = level
        BY <2>2, <4>1 DEF Levels!GetSIMDLevel
      <4> QED BY <2>1, <4>1, <4>2 DEF OneClass
    <3> QED BY <3>1, <3>2
  <2>8. ASSUME NEW s, SetFits(s) PROVE SetFits(s)'
    <3> SUFFICES ASSUME s # Levels!NoSet PROVE SetFits(s)'
      BY DEF SetFits, Levels!NoSet
    <3>1. /\ level \in 0 .. 4 /\ s.size \in Nat
          /\ s.from = IF level = 0 THEN "new[]" ELSE "posix_memalign"
          /\ Levels!RoundUp(s.size, k) <= s.room /\ s.room \in Nat
      BY <2>8, FastestOK DEF SetFits, LevelInv, LevelOK, k
    <3>2. level' >= 0 /\ (level' = 0 <=> level = 0)
      BY <2>1, <2>2, <3>1 DEF Levels!GetSIMDLevel
    <3> QED BY <2>6, <3>1, <3>2 DEF SetFits, Levels!RoundUp, Levels!VECTOR_SIZE
  <2>9. SetFits(set)' /\ SetFits(points)'
    BY <2>1, <2>8 DEF LevelInv, SetFits
  <2> QED BY <2>1, <2>4, <2>7, <2>9 DEF LevelInv
<1>3. ASSUME NEW c \in objects, Levels!Delete(c) PROVE LevelInv'
  <2>1. objects' = objects \ {c} /\ UNCHANGED <<compiled, cpu, level, set, points, wrongs>>
    BY <1>3 DEF Levels!Delete
  <2>2. Levels!GetFastestSIMD' = Levels!GetFastestSIMD /\ Levels!NewClass' = Levels!NewClass
    BY <2>1 DEF Levels!GetFastestSIMD, Levels!NewClass, Levels!GetSIMDLevel
  <2>3. BuildOK' /\ LevelOK' /\ OneClass'
    BY <2>1, <2>2 DEF LevelInv, BuildOK, LevelOK, OneClass
  <2>4. SetFits(set)' /\ SetFits(points)'
    BY <2>1, <2>2 DEF LevelInv, SetFits, Levels!RoundUp, Levels!VECTOR_SIZE, Levels!NoSet
  <2> QED BY <2>1, <2>3, <2>4 DEF LevelInv
<1>4. ASSUME NEW size \in Sizes, Levels!Allocate(size) PROVE LevelInv'
  <2>1. /\ level' = Levels!GetSIMDLevel
        /\ UNCHANGED <<compiled, cpu, objects, points, wrongs>>
        /\ set' = Levels!GetEmptySet(size)
    BY <1>4 DEF Levels!Allocate
  <2>2. size \in Nat /\ set'.size = size /\ set'.room = Levels!AlignedSize(size)
        /\ set'.from = IF Levels!SetClasses = {} THEN "new[]" ELSE "posix_memalign"
    BY <2>1, SizesAssumption DEF Levels!GetEmptySet
  <2>3. ASSUME NEW s, s = set' PROVE SetFits(s)'
    BY <2>1, <2>2, <2>3, NewSetFits
  <2>4. SetFits(set)'
    BY <2>3 DEF SetFits
  <2>5. SetFits(points)'
    <3>1. ASSUME NEW s, SetFits(s) PROVE SetFits(s)'
      BY <2>1, <3>1, SameClass DEF LevelInv
    <3> QED BY <2>1, <3>1 DEF LevelInv, SetFits
  <2> QED BY <2>1, <2>4, <2>5, LevelKept DEF LevelInv
<1>5. ASSUME Levels!FreeSet PROVE LevelInv'
  <2>1. /\ level' = Levels!GetSIMDLevel
        /\ UNCHANGED <<compiled, cpu, objects, points>>
        /\ set' = Levels!NoSet /\ wrongs' = wrongs \cup Levels!FreeNoiseSet(set)
    BY <1>5 DEF Levels!FreeSet
  <2>2. wrongs' = {}
    BY <2>1, FreedRight DEF LevelInv
  <2>3. SetFits(points)'
    <3>1. ASSUME NEW s, SetFits(s) PROVE SetFits(s)'
      BY <2>1, <3>1, SameClass DEF LevelInv
    <3> QED BY <2>1, <3>1 DEF LevelInv, SetFits
  <2>4. SetFits(set)'
    BY <2>1 DEF SetFits, Levels!NoSet
  <2> QED BY <2>1, <2>2, <2>3, <2>4, LevelKept DEF LevelInv
<1>6. ASSUME NEW size \in Sizes, Levels!SetSize(size) PROVE LevelInv'
  <2>1. /\ level' = Levels!GetSIMDLevel
        /\ UNCHANGED <<compiled, cpu, objects, set>>
        /\ wrongs' = wrongs \cup Levels!FreeNoiseSet(points)
        /\ points' = [Levels!GetEmptySet(3 * Levels!AlignedSize(size))
                         EXCEPT !.size = size, !.room = Levels!AlignedSize(size)]
    BY <1>6 DEF Levels!SetSize
  <2>2. size \in Nat /\ points'.size = size /\ points'.room = Levels!AlignedSize(size)
        /\ points'.from = IF Levels!SetClasses = {} THEN "new[]" ELSE "posix_memalign"
    BY <2>1, SizesAssumption DEF Levels!GetEmptySet
  <2>3. ASSUME NEW s, s = points' PROVE SetFits(s)'
    BY <2>1, <2>2, <2>3, NewSetFits
  <2>4. SetFits(points)'
    BY <2>3 DEF SetFits
  <2>5. SetFits(set)'
    <3>1. ASSUME NEW s, SetFits(s) PROVE SetFits(s)'
      BY <2>1, <3>1, SameClass DEF LevelInv
    <3> QED BY <2>1, <3>1 DEF LevelInv, SetFits
  <2>6. wrongs' = {}
    BY <2>1, FreedRight DEF LevelInv
  <2> QED BY <2>1, <2>4, <2>5, <2>6, LevelKept DEF LevelInv
<1>7. ASSUME Levels!FreePoints PROVE LevelInv'
  <2>1. /\ level' = Levels!GetSIMDLevel
        /\ UNCHANGED <<compiled, cpu, objects, set>>
        /\ points' = Levels!NoSet /\ wrongs' = wrongs \cup Levels!FreeNoiseSet(points)
    BY <1>7 DEF Levels!FreePoints
  <2>2. wrongs' = {}
    BY <2>1, FreedRight DEF LevelInv
  <2>3. SetFits(set)'
    <3>1. ASSUME NEW s, SetFits(s) PROVE SetFits(s)'
      BY <2>1, <3>1, SameClass DEF LevelInv
    <3> QED BY <2>1, <3>1 DEF LevelInv, SetFits
  <2>4. SetFits(points)'
    BY <2>1 DEF SetFits, Levels!NoSet
  <2> QED BY <2>1, <2>2, <2>3, <2>4, LevelKept DEF LevelInv
<1>8. ASSUME UNCHANGED <<compiled, cpu, level, objects, set, points>>, wrongs' = {}
      PROVE  LevelInv'
  <2>1. Levels!GetFastestSIMD' = Levels!GetFastestSIMD /\ Levels!NewClass' = Levels!NewClass
    BY <1>8 DEF Levels!GetFastestSIMD, Levels!NewClass, Levels!GetSIMDLevel
  <2> QED
    BY <1>8, <2>1 DEF LevelInv, BuildOK, LevelOK, OneClass, SetFits, Levels!RoundUp,
                      Levels!VECTOR_SIZE, Levels!NoSet
<1>9. ASSUME NEW c \in objects, Levels!FillNoiseSet(c) PROVE LevelInv'
  <2>1. /\ UNCHANGED <<compiled, cpu, level, objects, set, points>> /\ set # Levels!NoSet
        /\ wrongs' = wrongs \cup Levels!Past(c, set, set.size)
    BY <1>9 DEF Levels!FillNoiseSet
  <2>2. wrongs' = {}
    BY <2>1, VectorsFit DEF LevelInv
  <2> QED BY <2>1, <2>2, <1>8
<1>10. ASSUME NEW c \in objects, Levels!FillFromPoints(c) PROVE LevelInv'
  <2>1. /\ UNCHANGED <<compiled, cpu, level, objects, set, points>>
        /\ set # Levels!NoSet /\ points # Levels!NoSet
        /\ wrongs' = wrongs \cup Levels!Past(c, set, set.size)
                            \cup Levels!Past(c, points, points.size)
    BY <1>10 DEF Levels!FillFromPoints
  <2>2. Levels!Past(c, set, set.size) = {} /\ Levels!Past(c, points, points.size) = {}
    BY <2>1, VectorsFit DEF LevelInv
  <2> QED BY <2>1, <2>2, <1>8 DEF LevelInv
<1>11. CASE UNCHANGED Levels!vars
  BY <1>8, <1>11 DEF Levels!vars, LevelInv
<1> QED
  BY <1>1, <1>2, <1>3, <1>4, <1>5, <1>6, <1>7, <1>9, <1>10, <1>11 DEF Levels!Next

\* The set and the objects are as they must be.
LEMMA LevelsSafe == LevelInv => Levels!SetsAreSafe /\ Levels!ObjectsRun
<1> SUFFICES ASSUME LevelInv PROVE Levels!SetsAreSafe /\ Levels!ObjectsRun
  OBVIOUS
<1>1. ASSUME NEW c \in objects PROVE c <= Levels!GetFastestSIMD
  <2>1. c = level /\ level \in 0 .. 4
    BY DEF LevelInv, OneClass, BuildOK
  <2> QED BY <2>1, FastestOK DEF LevelInv, LevelOK
<1> QED BY <1>1 DEF Levels!SetsAreSafe, Levels!ObjectsRun, LevelInv

-----------------------------------------------------------------------------
(***************************************************************************)
(* Induction over the naturals, and functions that recursion defines.      *)
(***************************************************************************)
LEMMA Induction ==
    ASSUME NEW T, 0 \in T, \A k \in Nat : k \in T => k + 1 \in T
    PROVE  Nat \subseteq T
<1> DEFINE R == OpToRel(<, Nat)
<1> SUFFICES ASSUME Nat \ T # {} PROVE FALSE
  OBVIOUS
<1>1. PICK m \in Nat \ T : \A k \in Nat \ T : ~ (<<k, m>> \in R)
  <2>1. IsWellFoundedOn(R, Nat)
    BY NatLessThanWellFounded
  <2> HIDE DEF R
  <2>2. Nat \ T \subseteq Nat
    OBVIOUS
  <2> QED BY <2>1, <2>2, WFMin
<1>2. m # 0 /\ m - 1 \in Nat /\ m - 1 < m
  OBVIOUS
<1>3. <<m - 1, m>> \in R
  BY <1>2 DEF OpToRel
<1>4. m - 1 \in T
  BY <1>1, <1>2, <1>3
<1>5. (m - 1) + 1 \in T
  BY <1>2, <1>4
<1>6. (m - 1) + 1 = m
  BY <1>2
<1> QED BY <1>5, <1>6

\* g is the recursive function with the first value first and the step F, up
\* to k.
UpToStep(g, first, F, S, k) ==
    g \in [0 .. k -> S] /\ g[0] = first /\ \A j \in 0 .. k - 1 : g[j + 1] = F[j][g[j]]

LEMMA StepsExist ==
    ASSUME NEW S, NEW first \in S, NEW F \in [Nat -> [S -> S]], NEW k \in Nat
    PROVE  \E g : UpToStep(g, first, F, S, k)
<1> DEFINE T == {m \in Nat : \E g : UpToStep(g, first, F, S, m)}
<1>1. 0 \in T
  <2>1. UpToStep([j \in 0 .. 0 |-> first], first, F, S, 0)
    BY DEF UpToStep
  <2> QED BY <2>1
<1>2. ASSUME NEW m \in Nat, m \in T PROVE m + 1 \in T
  <2>1. PICK g : UpToStep(g, first, F, S, m)
    BY <1>2
  <2> DEFINE h == [j \in 0 .. m + 1 |-> IF j = m + 1 THEN F[m][g[m]] ELSE g[j]]
  <2>2. g \in [0 .. m -> S] /\ g[0] = first /\ \A j \in 0 .. m - 1 : g[j + 1] = F[j][g[j]]
    BY <2>1 DEF UpToStep
  <2>3. F[m][g[m]] \in S
    BY <2>2
  <2>4. h \in [0 .. m + 1 -> S] /\ h[0] = first
    BY <2>2, <2>3
  <2>5. ASSUME NEW j \in 0 .. (m + 1) - 1 PROVE h[j + 1] = F[j][h[j]]
    <3>1. CASE j = m
      BY <3>1
    <3>2. CASE j # m
      BY <2>2, <3>2
    <3> QED BY <3>1, <3>2
  <2> HIDE DEF h
  <2>6. UpToStep(h, first, F, S, m + 1)
    BY <2>4, <2>5 DEF UpToStep
  <2> QED BY <2>6
<1> HIDE DEF T
<1>3. k \in T
  BY <1>1, <1>2, Induction
<1> QED BY <1>3 DEF T

LEMMA StepsAgree ==
    ASSUME NEW S, NEW first \in S, NEW F \in [Nat -> [S -> S]], NEW k \in Nat, NEW m \in Nat,
           NEW g, NEW h, UpToStep(g, first, F, S, k), UpToStep(h, first, F, S, m)
    PROVE  \A j \in Nat : j <= k /\ j <= m => g[j] = h[j]
<1> DEFINE T == {j \in Nat : j <= k /\ j <= m => g[j] = h[j]}
<1>1. 0 \in T
  BY DEF UpToStep
<1>2. ASSUME NEW j \in Nat, j \in T PROVE j + 1 \in T
  BY <1>2 DEF UpToStep
<1> HIDE DEF T
<1>3. Nat \subseteq T
  BY <1>1, <1>2, Induction
<1> QED BY <1>3 DEF T

\* h is that function.
IsRecursive(h, first, F, S) ==
    h \in [Nat -> S] /\ h[0] = first /\ \A k \in Nat : h[k + 1] = F[k][h[k]]

LEMMA Recursion ==
    ASSUME NEW S, NEW first \in S, NEW F \in [Nat -> [S -> S]]
    PROVE  \E h : IsRecursive(h, first, F, S)
<1> DEFINE G(k) == CHOOSE g : UpToStep(g, first, F, S, k)
           h == [k \in Nat |-> G(k)[k]]
<1>1. ASSUME NEW k \in Nat PROVE UpToStep(G(k), first, F, S, k)
  BY StepsExist
<1> HIDE DEF G
<1>2. ASSUME NEW k \in Nat PROVE h[k] \in S
  BY <1>1 DEF UpToStep
<1>3. h[0] = first
  BY <1>1 DEF UpToStep
<1>4. ASSUME NEW k \in Nat PROVE h[k + 1] = F[k][h[k]]
  <2>1. UpToStep(G(k), first, F, S, k) /\ UpToStep(G(k + 1), first, F, S, k + 1)
    BY <1>1
  <2>2. G(k)[k] = G(k + 1)[k]
    BY <2>1, StepsAgree
  <2>3. G(k + 1)[k + 1] = F[k][G(k + 1)[k]]
    BY <2>1 DEF UpToStep
  <2> QED BY <2>2, <2>3
<1> HIDE DEF h
<1>5. h \in [Nat -> S]
  BY <1>2 DEF h
<1> QED BY <1>3, <1>4, <1>5 DEF IsRecursive

-----------------------------------------------------------------------------
(***************************************************************************)
(* FractalNoise.  The amplitude of the loop is the one that the setters    *)
(* added up, so that the sum of the octaves so far is no larger than that  *)
(* of their amplitudes.                                                    *)
(***************************************************************************)
LEMMA OneOK == Fractals!One \in Nat /\ Fractals!One > 0
BY OctavesAssumption DEF Fractals!One

LEMMA AmplitudeOK ==
    ASSUME NEW g \in Nat
    PROVE  /\ Fractals!Amplitude(0, g) = Fractals!One
           /\ \A k \in Nat : /\ Fractals!Amplitude(k, g) \in Nat
                             /\ Fractals!Amplitude(k + 1, g) = (Fractals!Amplitude(k, g) * g) \div 2
<1> DEFINE f == CHOOSE f : f = [k \in Nat |-> IF k = 0 THEN Fractals!One ELSE (f[k - 1] * g) \div 2]
           F == [k \in Nat |-> [v \in Nat |-> (v * g) \div 2]]
<1>1. ASSUME NEW v \in Nat PROVE (v * g) \div 2 \in Nat
  <2>1. v * g \in Nat
    OBVIOUS
  <2> QED BY <2>1
<1>2. PICK h \in [Nat -> Nat] : h[0] = Fractals!One /\ \A k \in Nat : h[k + 1] = F[k][h[k]]
  <2>1. F \in [Nat -> [Nat -> Nat]]
    BY <1>1
  <2> HIDE DEF F
  <2>2. Fractals!One \in Nat
    BY OneOK
  <2>3. PICK h : IsRecursive(h, Fractals!One, F, Nat)
    BY <2>1, <2>2, Recursion
  <2> QED BY <2>3 DEF IsRecursive
<1>3. h = [k \in Nat |-> IF k = 0 THEN Fractals!One ELSE (h[k - 1] * g) \div 2]
  <2>1. ASSUME NEW k \in Nat, k # 0 PROVE h[k] = (h[k - 1] * g) \div 2
    <3>1. k - 1 \in Nat /\ (k - 1) + 1 = k /\ h[k - 1] \in Nat
      BY <1>2, <2>1
    <3>2. h[(k - 1) + 1] = F[k - 1][h[k - 1]]
      BY <1>2, <3>1
    <3> QED BY <3>1, <3>2
  <2> QED BY <1>2, <2>1
<1>4. f = [k \in Nat |-> IF k = 0 THEN Fractals!One ELSE (f[k - 1] * g) \div 2]
  BY <1>3, Zenon
<1>5. \A k \in Nat : Fractals!Amplitude(k, g) = f[k]
  BY DEF Fractals!Amplitude
<1> HIDE DEF f
<1>6. f[0] = Fractals!One
  BY <1>4
<1>7. ASSUME NEW k \in Nat PROVE f[k + 1] = (f[k] * g) \div 2
  <2>1. k + 1 \in Nat /\ k + 1 # 0 /\ (k + 1) - 1 = k
    OBVIOUS
  <2>2. f[k + 1] = (f[(k + 1) - 1] * g) \div 2
    BY <1>4, <2>1
  <2> QED BY <2>1, <2>2
<1>8. ASSUME NEW k \in Nat PROVE f[k] \in Nat
  <2> DEFINE T == {m \in Nat : f[m] \in Nat}
  <2>1. 0 \in T
    BY <1>6, OneOK
  <2>2. ASSUME NEW m \in Nat, m \in T PROVE m + 1 \in T
    BY <1>1, <1>7, <2>2
  <2> HIDE DEF T
  <2>3. Nat \subseteq T
    BY <2>1, <2>2, Induction
  <2> QED BY <2>3 DEF T
<1> QED BY <1>5, <1>6, <1>7, <1>8

LEMMA ampFractalOK ==
    ASSUME NEW g \in Nat
    PROVE  /\ Fractals!ampFractal(0, g) = 0
           /\ \A k \in Nat :
                 /\ Fractals!ampFractal(k, g) \in Nat
                 /\ Fractals!ampFractal(k + 1, g)
                       = Fractals!ampFractal(k, g) + Fractals!Amplitude(k, g)
<1> DEFINE A(k) == Fractals!Amplitude(k, g)
           f == CHOOSE f : f = [k \in Nat |-> IF k = 0 THEN 0 ELSE f[k - 1] + A(k - 1)]
           F == [k \in Nat |-> [v \in Nat |-> v + A(k)]]
<1>1. \A k \in Nat : A(k) \in Nat
  BY AmplitudeOK
<1>2. \A k \in Nat : Fractals!ampFractal(k, g) = f[k]
  BY DEF Fractals!ampFractal
<1> HIDE DEF A
<1>3. PICK h \in [Nat -> Nat] : h[0] = 0 /\ \A k \in Nat : h[k + 1] = F[k][h[k]]
  <2>1. F \in [Nat -> [Nat -> Nat]]
    BY <1>1
  <2> HIDE DEF F
  <2>2. 0 \in Nat
    OBVIOUS
  <2>3. PICK h : IsRecursive(h, 0, F, Nat)
    BY <2>1, <2>2, Recursion
  <2> QED BY <2>3 DEF IsRecursive
<1>4. h = [k \in Nat |-> IF k = 0 THEN 0 ELSE h[k - 1] + A(k - 1)]
  <2>1. ASSUME NEW k \in Nat, k # 0 PROVE h[k] = h[k - 1] + A(k - 1)
    <3>1. k - 1 \in Nat /\ (k - 1) + 1 = k /\ h[k - 1] \in Nat
      BY <1>3, <2>1
    <3>2. h[(k - 1) + 1] = F[k - 1][h[k - 1]]
      BY <1>3, <3>1
    <3> QED BY <3>1, <3>2
  <2> QED BY <1>3, <2>1
<1>5. f = [k \in Nat |-> IF k = 0 THEN 0 ELSE f[k - 1] + A(k - 1)]
  BY <1>4, Zenon
<1> HIDE DEF f
<1>6. f[0] = 0
  BY <1>5
<1>7. ASSUME NEW k \in Nat PROVE f[k + 1] = f[k] + A(k)
  <2>1. k + 1 \in Nat /\ k + 1 # 0 /\ (k + 1) - 1 = k
    OBVIOUS
  <2>2. f[k + 1] = f[(k + 1) - 1] + A((k + 1) - 1)
    BY <1>5, <2>1
  <2> QED BY <2>1, <2>2
<1>8. ASSUME NEW k \in Nat PROVE f[k] \in Nat
  <2> DEFINE T == {m \in Nat : f[m] \in Nat}
  <2>1. 0 \in T
    BY <1>6
  <2>2. ASSUME NEW m \in Nat, m \in T PROVE m + 1 \in T
    BY <1>1, <1>7, <2>2
  <2> HIDE DEF T
  <2>3. Nat \subseteq T
    BY <2>1, <2>2, Induction
  <2> QED BY <2>3 DEF T
<1> QED BY <1>2, <1>6, <1>7, <1>8 DEF A

\* Which settings a loop goes by.
Fractal == {"ValueFractal", "PerlinFractal", "SimplexFractal", "CubicFractal", "Fractal"}
OwnPerturb(k) == k[1] = "Perturb" /\ lib = "FastNoiseSIMD"
LoopOctaves(k) == IF OwnPerturb(k) THEN perturbOctaves ELSE octaves
LoopGain(k) == IF OwnPerturb(k) THEN perturbGain ELSE gain
LoopDivisor(k) == IF k[1] # "Perturb" /\ fractalType = "RigidMulti" THEN Fractals!One ELSE bounding
LoopType(k) == IF k[1] = "Perturb" THEN "FBM" ELSE fractalType

SettingsOK ==
    /\ lib \in {"FastNoise", "FastNoiseSIMD"}
    /\ octaves \in 1 .. MaxOctaves /\ gain \in Nat
    /\ bounding = Fractals!ampFractal(octaves, gain)
    /\ fractalType \in Fractals!FractalTypes /\ noiseType \in Fractals!NoiseTypes
    /\ perturbOctaves \in 1 .. MaxOctaves /\ perturbGain \in Nat
    /\ perturbBounding = Fractals!ampFractal(perturbOctaves, perturbGain)
    /\ perturbAmp \in Nat /\ asked \in Nat
    /\ lib = "FastNoise" => perturbAmp = asked

LoopOK ==
    /\ pc \in {"idle", "octaves", "done"}
    /\ pc = "idle" => i = 0 /\ divisor = Fractals!One
    /\ pc = "octaves" =>
          /\ kernel[1] \in Fractal \cup {"Perturb"}
          /\ i \in 1 .. LoopOctaves(kernel)
          /\ amp = Fractals!Amplitude(i - 1, LoopGain(kernel))
          /\ sum \in Int /\ Fractals!Abs(sum) <= Fractals!ampFractal(i, LoopGain(kernel))
          /\ divisor = LoopDivisor(kernel)
    /\ pc = "done" => Fractals!FractalInRange /\ Fractals!WarpWithinReach

FractalInv == SettingsOK /\ LoopOK

LEMMA FractalInitOK == Fractals!Init => FractalInv
<1> SUFFICES ASSUME Fractals!Init PROVE FractalInv
  OBVIOUS
<1>1. SettingsOK
  BY OctavesAssumption
     DEF Fractals!Init, SettingsOK, Fractals!FractalTypes, Fractals!NoiseTypes
<1>2. LoopOK
  BY DEF Fractals!Init, LoopOK
<1> QED BY <1>1, <1>2 DEF FractalInv

\* An octave is between -1 and 1.
LEMMA OctaveOK ==
    ASSUME NEW type \in Fractals!FractalTypes, NEW v \in Values
    PROVE  Fractals!Octave(type, v) \in -1 .. 1
<1>1. v \in -1 .. 1
  BY OctavesAssumption
<1> QED BY <1>1 DEF Fractals!Octave, Fractals!Abs, Fractals!FractalTypes

LEMMA AbsSum ==
    ASSUME NEW s \in Int, NEW a \in Nat, NEW o \in -1 .. 1, NEW b \in Int, Fractals!Abs(s) <= b
    PROVE  s + o * a \in Int /\ Fractals!Abs(s + o * a) <= b + a
<1>1. o = -1 \/ o = 0 \/ o = 1
  OBVIOUS
<1>2. o * a \in Int /\ -a <= o * a /\ o * a <= a
  BY <1>1
<1> HIDE DEF Fractals!Abs
<1>3. s <= b /\ -s <= b
  BY DEF Fractals!Abs
<1> QED BY <1>2, <1>3 DEF Fractals!Abs

LEMMA LoopStepOK ==
    ASSUME FractalInv, NEW k, k[1] \in Fractal \cup {"Perturb"},
           Fractals!Loop(k, LoopType(k), LoopOctaves(k), LoopGain(k), LoopDivisor(k))
    PROVE  FractalInv'
<1> DEFINE nn == LoopOctaves(k)
           g == LoopGain(k)
           type == LoopType(k)
<1>1. /\ UNCHANGED <<lib, octaves, gain, bounding, fractalType, noiseType, perturbOctaves,
                     perturbGain, perturbBounding, perturbAmp, asked>>
      /\ kernel' = k
  BY DEF Fractals!Loop, Fractals!settings, Fractals!perturbs
<1>2. SettingsOK'
  BY <1>1 DEF FractalInv, SettingsOK
<1>3. /\ LoopOctaves(kernel)' = nn /\ LoopGain(kernel)' = g
      /\ LoopDivisor(kernel)' = LoopDivisor(k)
  BY <1>1 DEF LoopOctaves, LoopGain, LoopDivisor, OwnPerturb, Fractals!One
<1>4. nn \in 1 .. MaxOctaves /\ g \in Nat /\ type \in Fractals!FractalTypes /\ MaxOctaves \in Nat
  BY OctavesAssumption
     DEF FractalInv, SettingsOK, LoopOctaves, LoopGain, LoopType, Fractals!FractalTypes
<1>5. \A v \in Values : Fractals!Octave(type, v) \in -1 .. 1
  BY <1>4, OctaveOK
<1> HIDE DEF nn, g, type
<1>6. CASE pc = "idle" /\ (\E v \in Values : sum' = Fractals!Octave(type, v) * Fractals!One)
           /\ amp' = Fractals!One /\ i' = 1 /\ divisor' = LoopDivisor(k) /\ pc' = "octaves"
  <2>1. PICK v \in Values : sum' = Fractals!Octave(type, v) * Fractals!One
    BY <1>6
  <2>2. Fractals!Octave(type, v) \in -1 .. 1
    BY <1>5
  <2>3. sum' \in Int /\ Fractals!Abs(sum') <= Fractals!One
    <3>1. Fractals!Octave(type, v) \in {-1, 0, 1}
      BY <2>2
    <3> QED BY <2>1, <3>1, OneOK DEF Fractals!Abs
  <2>4. /\ Fractals!Amplitude(0, g) = Fractals!One
        /\ Fractals!ampFractal(1, g) = Fractals!One
    <3>1. /\ Fractals!ampFractal(0, g) = 0 /\ Fractals!Amplitude(0, g) = Fractals!One
          /\ Fractals!ampFractal(0 + 1, g) = Fractals!ampFractal(0, g) + Fractals!Amplitude(0, g)
      BY <1>4, AmplitudeOK, ampFractalOK
    <3> QED BY <3>1, OneOK
  <2>5. i' = 1 /\ i' \in 1 .. nn /\ i' - 1 = 0
    BY <1>4, <1>6
  <2>6. /\ amp' = Fractals!Amplitude(i' - 1, g)
        /\ Fractals!Abs(sum') <= Fractals!ampFractal(i', g)
    BY <1>6, <2>3, <2>4, <2>5
  <2> QED BY <1>1, <1>2, <1>3, <1>6, <2>3, <2>5, <2>6
          DEF FractalInv, LoopOK, Fractals!Abs, Fractals!ampFractal, Fractals!Amplitude, Fractals!One
<1>7. CASE pc = "octaves" /\ kernel = k /\ i < nn /\ amp' = (amp * g) \div 2
           /\ (\E v \in Values : sum' = sum + Fractals!Octave(type, v) * amp')
           /\ i' = i + 1 /\ UNCHANGED <<pc, divisor>>
  <2>1. PICK v \in Values : sum' = sum + Fractals!Octave(type, v) * amp'
    BY <1>7
  <2>2. Fractals!Octave(type, v) \in -1 .. 1
    BY <1>5
  <2>3. /\ i \in 1 .. nn /\ amp = Fractals!Amplitude(i - 1, g)
        /\ sum \in Int /\ Fractals!Abs(sum) <= Fractals!ampFractal(i, g)
        /\ divisor = LoopDivisor(k)
    BY <1>7 DEF FractalInv, LoopOK, nn, g
  <2>4. i \in Nat /\ i - 1 \in Nat /\ (i - 1) + 1 = i /\ i' \in 1 .. nn /\ i' - 1 = i
    BY <1>4, <1>7, <2>3
  <2>5. amp' = Fractals!Amplitude(i, g) /\ amp' \in Nat
    <3>1. Fractals!Amplitude((i - 1) + 1, g) = (Fractals!Amplitude(i - 1, g) * g) \div 2
      BY <1>4, <2>4, AmplitudeOK
    <3>2. Fractals!Amplitude(i, g) \in Nat
      BY <1>4, <2>4, AmplitudeOK
    <3> QED BY <1>7, <2>3, <2>4, <3>1, <3>2
  <2>6. /\ Fractals!ampFractal(i, g) \in Nat
        /\ Fractals!ampFractal(i + 1, g) = Fractals!ampFractal(i, g) + amp'
    BY <1>4, <2>4, <2>5, ampFractalOK
  <2>7. sum' \in Int /\ Fractals!Abs(sum') <= Fractals!ampFractal(i', g)
    <3> DEFINE o == Fractals!Octave(type, v)
    <3>1. /\ sum + o * amp' \in Int
          /\ Fractals!Abs(sum + o * amp') <= Fractals!ampFractal(i, g) + amp'
      <4>1. o \in -1 .. 1 /\ sum \in Int /\ amp' \in Nat /\ Fractals!ampFractal(i, g) \in Int
            /\ Fractals!Abs(sum) <= Fractals!ampFractal(i, g)
        BY <2>2, <2>3, <2>5, <2>6
      <4> HIDE DEF o
      <4> QED BY <4>1, AbsSum
    <3> HIDE DEF o
    <3>2. sum' = sum + o * amp'
      BY <2>1 DEF o
    <3>3. Fractals!ampFractal(i', g) = Fractals!ampFractal(i, g) + amp'
      BY <1>7, <2>6
    <3> QED BY <3>1, <3>2, <3>3
  <2>8. pc' = "octaves" /\ kernel' = k /\ kernel'[1] \in Fractal \cup {"Perturb"}
        /\ divisor' = LoopDivisor(k) /\ amp' = Fractals!Amplitude(i' - 1, g)
    BY <1>1, <1>7, <2>3, <2>4, <2>5
  <2>9. LoopOK'
    BY <1>3, <2>4, <2>7, <2>8
       DEF LoopOK, Fractals!Abs, Fractals!ampFractal, Fractals!Amplitude, Fractals!One
  <2> QED BY <1>2, <2>9 DEF FractalInv
<1>8. CASE pc = "octaves" /\ kernel = k /\ i >= nn /\ pc' = "done"
           /\ UNCHANGED <<i, amp, sum, divisor>>
  <2>1. /\ i = nn /\ sum \in Int /\ Fractals!Abs(sum) <= Fractals!ampFractal(nn, g)
        /\ divisor = LoopDivisor(k)
    BY <1>4, <1>8 DEF FractalInv, LoopOK, nn, g
  <2>2. Fractals!FractalInRange'
    <3> SUFFICES ASSUME k[1] # "Perturb",
                        ~(fractalType = "RigidMulti" /\ k[1] \in Fractal)
                 PROVE  Fractals!Abs(sum) <= divisor
      BY <1>1, <1>8 DEF Fractals!FractalInRange, Fractals!Perturbing, Fractals!Rigid, Fractal,
                        Fractals!Abs
    <3>1. divisor = bounding /\ nn = octaves /\ g = gain
      BY <2>1 DEF LoopDivisor, nn, g, LoopOctaves, LoopGain, OwnPerturb
    <3> QED BY <2>1, <3>1 DEF FractalInv, SettingsOK
  <2>3. Fractals!WarpWithinReach'
    <3> DEFINE within == Fractals!Abs(sum) * perturbAmp <= asked * divisor
    <3> SUFFICES ASSUME k[1] = "Perturb"
                 PROVE  /\ lib = "FastNoise" => within
                        /\ lib = "FastNoiseSIMD" =>
                              /\ divisor = bounding /\ Fractals!Abs(sum) <= perturbBounding
                              /\ perturbAmp = asked /\ perturbBounding <= bounding => within
      BY <1>1, <1>8 DEF Fractals!WarpWithinReach, Fractals!WithinAmp, Fractals!Perturbing,
                        Fractals!Abs
    <3>1. /\ divisor = bounding
          /\ lib = "FastNoise" => nn = octaves /\ g = gain
          /\ lib = "FastNoiseSIMD" => nn = perturbOctaves /\ g = perturbGain
      BY <2>1 DEF LoopDivisor, nn, g, LoopOctaves, LoopGain, OwnPerturb
    <3>2. /\ asked \in Nat
          /\ lib = "FastNoise" => perturbAmp = asked /\ Fractals!Abs(sum) <= divisor
          /\ lib = "FastNoiseSIMD" => Fractals!Abs(sum) <= perturbBounding
      BY <2>1, <3>1 DEF FractalInv, SettingsOK
    <3>3. Fractals!Abs(sum) \in Nat /\ divisor \in Nat /\ perturbBounding \in Nat
      <4>1. /\ octaves \in Nat /\ gain \in Nat /\ perturbOctaves \in Nat /\ perturbGain \in Nat
            /\ bounding = Fractals!ampFractal(octaves, gain)
            /\ perturbBounding = Fractals!ampFractal(perturbOctaves, perturbGain)
        BY OctavesAssumption DEF FractalInv, SettingsOK
      <4>2. bounding \in Nat /\ perturbBounding \in Nat
        BY <4>1, ampFractalOK
      <4> QED BY <2>1, <3>1, <4>2 DEF Fractals!Abs
    <3> HIDE DEF Fractals!Abs
    <3>4. ASSUME NEW p \in Nat, NEW q \in Nat, NEW r \in Nat, p <= q PROVE p * r <= r * q
      <4>1. (q - p) * r \in Nat
        BY <3>4
      <4> QED BY <3>4, <4>1
    <3>5. ASSUME perturbAmp = asked, Fractals!Abs(sum) <= divisor PROVE within
      BY <3>2, <3>3, <3>4, <3>5
    <3>6. perturbBounding <= bounding /\ lib = "FastNoiseSIMD" => Fractals!Abs(sum) <= divisor
      BY <3>1, <3>2, <3>3
    <3> HIDE DEF within
    <3> QED BY <3>1, <3>2, <3>5, <3>6
  <2> QED BY <1>2, <1>8, <2>2, <2>3 DEF FractalInv, LoopOK
<1> QED
  BY <1>6, <1>7, <1>8 DEF Fractals!Loop, Fractals!loop, nn, g, type

LEMMA FractalSettersOK == FractalInv /\ Fractals!Set => FractalInv'
<1> SUFFICES ASSUME FractalInv, Fractals!Set PROVE FractalInv'
  OBVIOUS
<1> USE DEF Fractals!settings, Fractals!perturbs, Fractals!loop
\* The setters neither run nor disturb a loop.
<1>1. ASSUME pc = "idle", UNCHANGED <<pc, i, divisor>>, SettingsOK' PROVE FractalInv'
  BY <1>1 DEF FractalInv, LoopOK, Fractals!One
<1>2. \A n \in 1 .. MaxOctaves, g \in Nat : Fractals!ampFractal(n, g)' = Fractals!ampFractal(n, g)
  BY DEF Fractals!ampFractal, Fractals!Amplitude, Fractals!One
<1>3. ASSUME NEW n \in 1 .. MaxOctaves, Fractals!SetFractalOctaves(n) PROVE FractalInv'
  <2>1. SettingsOK'
    BY <1>3 DEF Fractals!SetFractalOctaves, Fractals!CalculateFractalBounding, FractalInv,
                SettingsOK, Fractals!ampFractal, Fractals!Amplitude, Fractals!One
  <2> QED BY <1>1, <1>3, <2>1 DEF Fractals!SetFractalOctaves
<1>4. ASSUME NEW g \in Gains, Fractals!SetFractalGain(g) PROVE FractalInv'
  <2>1. g \in Nat
    BY OctavesAssumption
  <2>2. SettingsOK'
    BY <1>4, <2>1 DEF Fractals!SetFractalGain, Fractals!CalculateFractalBounding, FractalInv,
                SettingsOK, Fractals!ampFractal, Fractals!Amplitude, Fractals!One
  <2> QED BY <1>1, <1>4, <2>2 DEF Fractals!SetFractalGain
<1>5. ASSUME NEW type \in Fractals!FractalTypes, Fractals!SetFractalType(type) PROVE FractalInv'
  <2>1. SettingsOK'
    BY <1>5 DEF Fractals!SetFractalType, FractalInv, SettingsOK, Fractals!FractalTypes,
                Fractals!ampFractal, Fractals!Amplitude, Fractals!One
  <2> QED BY <1>1, <1>5, <2>1 DEF Fractals!SetFractalType
<1>6. ASSUME NEW type \in Fractals!NoiseTypes, Fractals!SetNoiseType(type) PROVE FractalInv'
  <2>1. SettingsOK'
    BY <1>6 DEF Fractals!SetNoiseType, FractalInv, SettingsOK, Fractals!NoiseTypes,
                Fractals!ampFractal, Fractals!Amplitude, Fractals!One
  <2> QED BY <1>1, <1>6, <2>1 DEF Fractals!SetNoiseType
<1>7. ASSUME NEW n \in 1 .. MaxOctaves, NEW g \in Nat, Fractals!SetPerturb(n, g) PROVE FractalInv'
  <2>1. SettingsOK'
    BY <1>7 DEF Fractals!SetPerturb, FractalInv, SettingsOK,
                Fractals!ampFractal, Fractals!Amplitude, Fractals!One
  <2> QED BY <1>1, <1>7, <2>1 DEF Fractals!SetPerturb
<1>8. ASSUME NEW n \in 1 .. MaxOctaves, Fractals!SetPerturbFractalOctaves(n) PROVE FractalInv'
  BY <1>7, <1>8 DEF Fractals!SetPerturbFractalOctaves, FractalInv, SettingsOK
<1>9. ASSUME NEW g \in Gains, Fractals!SetPerturbFractalGain(g) PROVE FractalInv'
  <2>1. g \in Nat /\ perturbOctaves \in 1 .. MaxOctaves
    BY OctavesAssumption DEF FractalInv, SettingsOK
  <2> QED BY <1>7, <1>9, <2>1 DEF Fractals!SetPerturbFractalGain
<1>10. ASSUME NEW a \in Amps, Fractals!SetPerturbAmp(a) PROVE FractalInv'
  <2>1. a \in Nat
    BY OctavesAssumption
  <2>2. SettingsOK'
    BY <1>10, <2>1 DEF Fractals!SetPerturbAmp, FractalInv, SettingsOK,
                Fractals!ampFractal, Fractals!Amplitude, Fractals!One
  <2> QED BY <1>1, <1>10, <2>2 DEF Fractals!SetPerturbAmp
<1> QED
  BY <1>3, <1>4, <1>5, <1>6, <1>8, <1>9, <1>10 DEF Fractals!Set

\* Noise that is not fractal is one octave.
LEMMA SingleOK ==
    ASSUME FractalInv, NEW noise, NEW dimensions, noise \in Fractals!NoiseTypes,
           noise \notin Fractal, Fractals!Single(noise, dimensions)
    PROVE  FractalInv'
<1>1. PICK v \in Values : sum' = v * Fractals!One
  BY DEF Fractals!Single
<1>2. /\ UNCHANGED <<lib, octaves, gain, bounding, fractalType, noiseType, perturbOctaves,
                     perturbGain, perturbBounding, perturbAmp, asked, divisor>>
      /\ kernel' = <<noise, dimensions>> /\ pc' = "done" /\ pc = "idle"
  BY DEF Fractals!Single, Fractals!settings, Fractals!perturbs
<1>3. v \in {-1, 0, 1} /\ divisor = Fractals!One
  BY <1>2, OctavesAssumption DEF FractalInv, LoopOK
<1>4. Fractals!Abs(sum') <= divisor'
  BY <1>1, <1>2, <1>3, OneOK DEF Fractals!Abs
<1>5. kernel'[1] # "Perturb"
  BY <1>2 DEF Fractals!NoiseTypes
<1>6. Fractals!FractalInRange' /\ Fractals!WarpWithinReach'
  BY <1>4, <1>5 DEF Fractals!FractalInRange, Fractals!WarpWithinReach, Fractals!Perturbing,
                    Fractals!Abs
<1>7. SettingsOK'
  BY <1>2 DEF FractalInv, SettingsOK, Fractals!ampFractal, Fractals!Amplitude, Fractals!One
<1> QED BY <1>2, <1>6, <1>7 DEF FractalInv, LoopOK

LEMMA FractalNextOK == FractalInv /\ [Fractals!Next]_(Fractals!vars) => FractalInv'
<1> SUFFICES ASSUME FractalInv, [Fractals!Next]_(Fractals!vars) PROVE FractalInv'
  OBVIOUS
<1>1. ASSUME NEW noise \in Fractal, NEW dimensions, Fractals!Fractal(noise, dimensions)
      PROVE  FractalInv'
  <2> DEFINE k == <<noise, dimensions>>
  <2>1. k[1] = noise /\ noise # "Perturb"
    BY DEF Fractal
  <2>2. /\ LoopType(k) = fractalType /\ LoopOctaves(k) = octaves /\ LoopGain(k) = gain
        /\ LoopDivisor(k) = IF fractalType = "RigidMulti" THEN Fractals!One ELSE bounding
    BY <2>1 DEF LoopType, LoopOctaves, LoopGain, LoopDivisor, OwnPerturb
  <2>3. Fractals!Loop(k, LoopType(k), LoopOctaves(k), LoopGain(k), LoopDivisor(k))
    BY <1>1, <2>2 DEF Fractals!Fractal, Fractals!FractalLoop
  <2> HIDE DEF k
  <2> QED BY <2>1, <2>3, LoopStepOK
<1>2. ASSUME NEW dimensions, Fractals!Perturb(dimensions) PROVE FractalInv'
  <2> DEFINE k == <<"Perturb", dimensions>>
  <2>1. k[1] = "Perturb" /\ lib = "FastNoise"
    BY <1>2 DEF Fractals!Perturb
  <2>2. /\ LoopType(k) = "FBM" /\ LoopOctaves(k) = octaves /\ LoopGain(k) = gain
        /\ LoopDivisor(k) = bounding
    BY <2>1 DEF LoopType, LoopOctaves, LoopGain, LoopDivisor, OwnPerturb
  <2>3. Fractals!Loop(k, LoopType(k), LoopOctaves(k), LoopGain(k), LoopDivisor(k))
    BY <1>2, <2>2 DEF Fractals!Perturb
  <2> HIDE DEF k
  <2> QED BY <2>1, <2>3, LoopStepOK
<1>3. ASSUME Fractals!FractalSingle PROVE FractalInv'
  <2> DEFINE k == <<"Fractal", 3>>
  <2>1. k[1] = "Fractal" /\ k[1] \in Fractal /\ k[1] # "Perturb"
    BY DEF Fractal
  <2>2. /\ LoopType(k) = fractalType /\ LoopOctaves(k) = octaves /\ LoopGain(k) = gain
        /\ LoopDivisor(k) = IF fractalType = "RigidMulti" THEN Fractals!One ELSE bounding
    BY <2>1 DEF LoopType, LoopOctaves, LoopGain, LoopDivisor, OwnPerturb
  <2>3. Fractals!Loop(k, LoopType(k), LoopOctaves(k), LoopGain(k), LoopDivisor(k))
    BY <1>3, <2>2 DEF Fractals!FractalSingle, Fractals!FractalLoop
  <2> HIDE DEF k
  <2> QED BY <2>1, <2>3, LoopStepOK
<1>4. ASSUME Fractals!PerturbSwitch PROVE FractalInv'
  <2> DEFINE k == <<"Perturb", 3>>
  <2>1. k[1] = "Perturb" /\ lib = "FastNoiseSIMD"
    BY <1>4 DEF Fractals!PerturbSwitch
  <2>2. /\ LoopType(k) = "FBM" /\ LoopOctaves(k) = perturbOctaves /\ LoopGain(k) = perturbGain
        /\ LoopDivisor(k) = bounding
    BY <2>1 DEF LoopType, LoopOctaves, LoopGain, LoopDivisor, OwnPerturb
  <2>3. Fractals!Loop(k, LoopType(k), LoopOctaves(k), LoopGain(k), LoopDivisor(k))
    BY <1>4, <2>2 DEF Fractals!PerturbSwitch, Fractals!InitPerturbValues
  <2> HIDE DEF k
  <2> QED BY <2>1, <2>3, LoopStepOK
<1>5. ASSUME Fractals!GetFractal PROVE FractalInv'
  BY <1>1, <1>5
     DEF Fractal, Fractals!GetFractal,
         Fractals!ValueFractal3D, Fractals!ValueFractal2D, Fractals!PerlinFractal3D,
         Fractals!PerlinFractal2D, Fractals!SimplexFractal3D, Fractals!SimplexFractal2D,
         Fractals!CubicFractal3D, Fractals!CubicFractal2D
<1>6. noiseType \in Fractals!NoiseTypes
  BY DEF FractalInv, SettingsOK
<1>7. ASSUME Fractals!GetNoise3D PROVE FractalInv'
  <2>1. CASE noiseType \in Fractal
    <3>1. Fractals!GetFractal
      BY <1>6, <1>7, <2>1
         DEF Fractal, Fractals!GetNoise3D, Fractals!GetFractal, Fractals!NoiseTypes
    <3> QED BY <1>5, <3>1
  <2>2. CASE noiseType \notin Fractal
    <3>1. Fractals!Single(noiseType, 3)
      BY <1>7, <2>2 DEF Fractal, Fractals!GetNoise3D
    <3> QED BY <1>6, <2>2, <3>1, SingleOK
  <2> QED BY <2>1, <2>2
<1>8. ASSUME Fractals!GetNoise2D PROVE FractalInv'
  <2>1. CASE noiseType \in Fractal
    <3>1. Fractals!GetFractal
      BY <1>6, <1>8, <2>1
         DEF Fractal, Fractals!GetNoise2D, Fractals!GetFractal, Fractals!NoiseTypes
    <3> QED BY <1>5, <3>1
  <2>2. CASE noiseType \notin Fractal
    <3>1. Fractals!Single(noiseType, 2)
      BY <1>8, <2>2 DEF Fractal, Fractals!GetNoise2D
    <3> QED BY <1>6, <2>2, <3>1, SingleOK
  <2> QED BY <2>1, <2>2
<1>9. ASSUME Fractals!Again PROVE FractalInv'
  <2>1. SettingsOK'
    BY <1>9 DEF Fractals!Again, Fractals!settings, Fractals!perturbs, FractalInv, SettingsOK,
                Fractals!ampFractal, Fractals!Amplitude, Fractals!One
  <2> QED BY <1>9, <2>1 DEF Fractals!Again, FractalInv, LoopOK, Fractals!One
<1>10. CASE UNCHANGED Fractals!vars
  <2>1. UNCHANGED <<lib, octaves, gain, bounding, fractalType, noiseType, perturbOctaves,
                    perturbGain, perturbBounding, perturbAmp, asked, pc, kernel, i, amp, sum,
                    divisor>>
    BY <1>10 DEF Fractals!vars, Fractals!settings, Fractals!perturbs, Fractals!loop
  <2> QED
    BY <2>1 DEF FractalInv, SettingsOK, LoopOK, LoopOctaves, LoopGain, LoopDivisor, OwnPerturb,
                Fractals!ampFractal, Fractals!Amplitude, Fractals!One, Fractals!Abs,
                Fractals!FractalInRange, Fractals!WarpWithinReach, Fractals!WithinAmp,
                Fractals!Perturbing, Fractals!Rigid
<1>11. ASSUME Fractals!GradientPerturbFractal3D \/ Fractals!GradientPerturbFractal2D
       PROVE  FractalInv'
  BY <1>2, <1>11 DEF Fractals!GradientPerturbFractal3D, Fractals!GradientPerturbFractal2D
<1> QED
  BY <1>3, <1>4, <1>5, <1>7, <1>8, <1>9, <1>10, <1>11, FractalSettersOK DEF Fractals!Next

-----------------------------------------------------------------------------
(***************************************************************************)
(* NoiseSet.  What is in front of index is filled with the noise of its    *)
(* own points, and each lane stands at the point it is to be stored at.    *)
(***************************************************************************)
LEMMA DivMod ==
    ASSUME NEW d \in Nat \ {0}, NEW q \in Int, NEW r \in 0 .. d - 1
    PROVE  (q * d + r) \div d = q /\ (q * d + r) % d = r
<1> DEFINE s == q * d + r
<1>1. s \in Int
  OBVIOUS
<1> HIDE DEF s
<1>2. /\ s \div d \in Int /\ s % d \in 0 .. d - 1
      /\ s = (s \div d) * d + (s % d)
  BY <1>1
<1>3. s = q * d + r
  BY DEF s
<1>4. (s \div d - q) * d = r - (s % d)
  BY <1>2, <1>3
<1>5. s \div d - q = 0
  <2> DEFINE e == s \div d - q
  <2>1. e \in Int /\ e * d = r - (s % d) /\ -d < r - (s % d) /\ r - (s % d) < d
    BY <1>2, <1>4
  <2> HIDE DEF e
  <2>2. e >= 1 => e * d >= d
    BY <2>1
  <2>3. e <= -1 => e * d <= -d
    BY <2>1
  <2>4. e = 0
    BY <2>1, <2>2, <2>3
  <2> QED BY <2>4 DEF e
<1>6. s \div d = q
  <2> DEFINE e == s \div d
  <2>1. e \in Int /\ e - q = 0
    BY <1>2, <1>5
  <2> HIDE DEF e
  <2>2. e = q
    BY <2>1
  <2> QED BY <2>2 DEF e
<1>7. s % d = r
  BY <1>2, <1>3, <1>6
<1> QED BY <1>6, <1>7 DEF s

\* A multiple below another one is a whole vector below it.
LEMMA NextMultiple ==
    ASSUME NEW v \in Nat, NEW m \in Nat, NEW k \in Nat, v * m < v * k
    PROVE  v * m + v <= v * k /\ v * m + v = v * (m + 1)
<1>1. m + 1 <= k
  <2> SUFFICES ASSUME k <= m PROVE FALSE
    OBVIOUS
  <2>1. v * (m - k) >= 0 /\ v * (m - k) = v * m - v * k /\ v * m \in Int /\ v * k \in Int
    OBVIOUS
  <2> QED BY <2>1
<1>2. v * (k - (m + 1)) >= 0 /\ v * (k - (m + 1)) = v * k - v * m - v /\ v * m \in Int /\ v * k \in Int
  BY <1>1
<1> QED BY <1>2

LEMMA SizesOK ==
    ASSUME job \in Jobs
    PROVE  /\ Sets!VECTOR_SIZE \in Nat /\ Sets!VECTOR_SIZE > 0
           /\ Sets!xSize \in Nat /\ Sets!xSize > 0
           /\ Sets!ySize \in Nat /\ Sets!ySize > 0
           /\ Sets!zSize \in Nat /\ Sets!zSize > 0
           /\ job.start[1] \in Int /\ job.start[2] \in Int /\ job.start[3] \in Int
BY JobsAssumption DEF Sets!VECTOR_SIZE, Sets!xSize, Sets!ySize, Sets!zSize

LEMMA MaxIndexOK ==
    ASSUME job \in Jobs
    PROVE  /\ Sets!maxIndex \in Nat /\ Sets!maxIndex > 0
           /\ Sets!maxIndex = (Sets!xSize * Sets!ySize) * Sets!zSize
<1> DEFINE a == Sets!xSize
           b == Sets!ySize
           c == Sets!zSize
<1>1. a \in Nat /\ a > 0 /\ b \in Nat /\ b > 0 /\ c \in Nat /\ c > 0
  BY SizesOK
<1>2. Sets!maxIndex = (a * b) * c
  BY DEF Sets!maxIndex
<1> HIDE DEF a, b, c
<1>3. a * b \in Nat /\ a * b > 0
  BY <1>1
<1>4. (a * b) * c \in Nat /\ (a * b) * c > 0
  BY <1>1, <1>3
<1> QED BY <1>2, <1>4 DEF a, b, c

\* The size of an aligned set is the next multiple of the size of a vector.
LEMMA AlignedOK ==
    ASSUME job \in Jobs, NEW size \in Nat
    PROVE  /\ Sets!AlignedSize(size) \in Nat /\ Sets!AlignedSize(size) >= size
           /\ job.aligned => \E k \in Nat : Sets!AlignedSize(size) = Sets!VECTOR_SIZE * k
           /\ ~job.aligned => Sets!AlignedSize(size) = size
<1> DEFINE v == Sets!VECTOR_SIZE
           k == size \div v
<1>1. v \in Nat /\ v > 0
  BY SizesOK
<1>2. k \in Nat /\ size % v \in 0 .. v - 1 /\ size = v * k + (size % v)
  BY <1>1
<1> HIDE DEF v, k
<1>3. CASE job.aligned /\ size % v # 0
  <2>1. Sets!AlignedSize(size) = v * (k + 1)
    BY <1>3 DEF Sets!AlignedSize, v, k
  <2>2. v * (k + 1) \in Nat /\ v * (k + 1) = v * k + v /\ v * k \in Nat
    BY <1>1, <1>2
  <2> QED BY <1>1, <1>2, <1>3, <2>1, <2>2 DEF v
<1>4. CASE ~(job.aligned /\ size % v # 0)
  <2>1. Sets!AlignedSize(size) = size
    BY <1>4 DEF Sets!AlignedSize, v
  <2>2. job.aligned => size = v * k
    <3>1. v * k \in Nat
      BY <1>1, <1>2
    <3> QED BY <1>2, <1>4, <3>1
  <2> QED BY <1>2, <2>1, <2>2 DEF v
<1> QED BY <1>3, <1>4

\* The number of a grid point in its box.
Pos(p1, p2, p3) ==
    ((p1 - job.start[1]) * Sets!ySize + (p2 - job.start[2])) * Sets!zSize + (p3 - job.start[3])

InRanges(p2, p3) == /\ p2 - job.start[2] \in 0 .. Sets!ySize - 1
                    /\ p3 - job.start[3] \in 0 .. Sets!zSize - 1

\* The digits of a number of mixed radix.
IsNumber(s, b, c, p, q, r) ==
    /\ b \in Nat \ {0} /\ c \in Nat \ {0} /\ p \in Int /\ q \in 0 .. b - 1 /\ r \in 0 .. c - 1
    /\ s = (p * b + q) * c + r

LEMMA DigitsOf ==
    ASSUME NEW s, NEW b, NEW c, NEW p, NEW q, NEW r, IsNumber(s, b, c, p, q, r)
    PROVE  s \in Int /\ s \div (b * c) = p /\ (s \div c) % b = q /\ s % c = r
<1>0. /\ b \in Nat \ {0} /\ c \in Nat \ {0} /\ p \in Int /\ q \in 0 .. b - 1 /\ r \in 0 .. c - 1
      /\ s = (p * b + q) * c + r
  BY DEF IsNumber
<1> DEFINE u == p * b + q
           d == b * c
           e == q * c + r
<1>1. u \in Int /\ d \in Nat \ {0}
  BY <1>0
<1>2. s = p * d + e
  BY <1>0
<1>3. e \in 0 .. d - 1
  <2>1. q * c >= 0 /\ q * c \in Int
    BY <1>0
  <2>2. (b - 1 - q) * c >= 0 /\ (b - 1 - q) * c = b * c - c - q * c
    BY <1>0
  <2>3. b * c \in Int
    BY <1>0
  <2> QED BY <1>0, <2>1, <2>2, <2>3
<1>4. u % b = q
  BY <1>0, DivMod
<1>5. s = u * c + r
  BY <1>0
<1> HIDE DEF d, e
<1>6. s \div d = p
  BY <1>0, <1>1, <1>2, <1>3, DivMod
<1> HIDE DEF u
<1>7. s \div c = u /\ s % c = r
  BY <1>0, <1>1, <1>5, DivMod
<1>8. s \in Int
  BY <1>0, <1>1, <1>5
<1> QED BY <1>4, <1>6, <1>7, <1>8 DEF d

LEMMA PointAt ==
    ASSUME job \in Jobs, NEW p1 \in Int, NEW p2 \in Int, NEW p3 \in Int, InRanges(p2, p3)
    PROVE  Sets!Point(Pos(p1, p2, p3)) = <<p1, p2, p3>>
<1> DEFINE b == Sets!ySize
           c == Sets!zSize
           p == p1 - job.start[1]
           q == p2 - job.start[2]
           r == p3 - job.start[3]
           s == (p * b + q) * c + r
<1>1. /\ b \in Nat \ {0} /\ c \in Nat \ {0} /\ p \in Int
      /\ q \in 0 .. b - 1 /\ r \in 0 .. c - 1
      /\ job.start[1] \in Int /\ job.start[2] \in Int /\ job.start[3] \in Int
  BY SizesOK DEF InRanges
<1>2. Pos(p1, p2, p3) = s
  BY DEF Pos
<1>3. job.start[1] + p = p1 /\ job.start[2] + q = p2 /\ job.start[3] + r = p3
  BY <1>1
<1>4. Sets!Point(s) = <<job.start[1] + s \div (b * c), job.start[2] + ((s \div c) % b),
                        job.start[3] + (s % c)>>
  BY DEF Sets!Point
<1> HIDE DEF b, c, p, q, r
<1>5. IsNumber(s, b, c, p, q, r)
  BY <1>1 DEF IsNumber
<1> HIDE DEF s
<1>6. s \div (b * c) = p /\ (s \div c) % b = q /\ s % c = r
  BY <1>5, DigitsOf
<1> QED BY <1>2, <1>3, <1>4, <1>6

\* One round of AXIS_RESET: the lane stays at its number.
LEMMA ResetOnceOK ==
    ASSUME job \in Jobs, NEW p1 \in Int, NEW p2 \in Int, NEW p3 \in Int,
           p2 - job.start[2] \in 0 .. Sets!ySize - 1, p3 - job.start[3] >= 0
    PROVE  \E q1, q2, q3 \in Int :
              /\ Sets!ResetOnce(<<p1, p2, p3>>) = <<q1, q2, q3>>
              /\ Pos(q1, q2, q3) = Pos(p1, p2, p3)
              /\ q2 - job.start[2] \in 0 .. Sets!ySize - 1
              /\ q3 = IF p3 - job.start[3] >= Sets!zSize THEN p3 - Sets!zSize ELSE p3
<1> DEFINE b == Sets!ySize
           c == Sets!zSize
           zReset == p3 > job.start[3] + c - 1
           r2 == IF zReset THEN p2 + 1 ELSE p2
           r3 == IF zReset THEN p3 - c ELSE p3
           yReset == r2 > job.start[2] + b - 1
           q1 == IF yReset THEN p1 + 1 ELSE p1
           q2 == IF yReset THEN r2 - b ELSE r2
<1>1. /\ b \in Nat /\ b > 0 /\ c \in Nat /\ c > 0
      /\ job.start[1] \in Int /\ job.start[2] \in Int /\ job.start[3] \in Int
  BY SizesOK
<1>2. Sets!ResetOnce(<<p1, p2, p3>>) = <<q1, q2, r3>>
  BY DEF Sets!ResetOnce, b, c
<1>3. Pos(p1, p2, p3) = ((p1 - job.start[1]) * b + (p2 - job.start[2])) * c + (p3 - job.start[3])
  BY DEF Pos
<1>4. Pos(q1, q2, r3) = ((q1 - job.start[1]) * b + (q2 - job.start[2])) * c + (r3 - job.start[3])
  BY DEF Pos
<1>5. p2 - job.start[2] \in 0 .. b - 1 /\ p3 - job.start[3] >= 0
  OBVIOUS
<1>6. r3 = IF p3 - job.start[3] >= Sets!zSize THEN p3 - Sets!zSize ELSE p3
  BY <1>1
<1> HIDE DEF b, c
<1>7. q1 \in Int /\ q2 \in Int /\ r3 \in Int /\ q2 - job.start[2] \in 0 .. b - 1
  BY <1>1, <1>5
<1>8. ((q1 - job.start[1]) * b + (q2 - job.start[2])) * c + (r3 - job.start[3])
      = ((p1 - job.start[1]) * b + (p2 - job.start[2])) * c + (p3 - job.start[3])
  <2> DEFINE e1 == p1 - job.start[1]
             e2 == p2 - job.start[2]
             e3 == p3 - job.start[3]
  <2>1. e1 \in Int /\ e2 \in Int /\ e3 \in Int
    BY <1>1
  <2>2. CASE zReset /\ yReset
    <3>1. /\ q1 - job.start[1] = e1 + 1 /\ q2 - job.start[2] = e2 + 1 - b
          /\ r3 - job.start[3] = e3 - c
      <4>1. q1 = p1 + 1 /\ q2 = p2 + 1 - b /\ r3 = p3 - c
        <5>1. r3 = p3 - c /\ r2 = p2 + 1
          BY <1>1, <2>2
        <5>2. q1 = p1 + 1 /\ q2 = r2 - b
          BY <2>2, Zenon
        <5> HIDE DEF q1, q2, r2, r3
        <5> QED BY <1>1, <5>1, <5>2
      <4> HIDE DEF q1, q2, r3
      <4> QED BY <1>1, <4>1
    <3> HIDE DEF e1, e2, e3
    <3>2. ((e1 + 1) * b + (e2 + 1 - b)) * c + (e3 - c) = (e1 * b + e2) * c + e3
      BY <1>1, <2>1
    <3> QED BY <3>1, <3>2 DEF e1, e2, e3
  <2>3. CASE zReset /\ ~yReset
    <3>1. /\ q1 - job.start[1] = e1 /\ q2 - job.start[2] = e2 + 1
          /\ r3 - job.start[3] = e3 - c
      BY <1>1, <2>3
    <3> HIDE DEF e1, e2, e3
    <3>2. (e1 * b + (e2 + 1)) * c + (e3 - c) = (e1 * b + e2) * c + e3
      BY <1>1, <2>1
    <3> QED BY <3>1, <3>2 DEF e1, e2, e3
  <2>4. CASE ~zReset
    <3>1. ~yReset
      BY <1>1, <1>5, <2>4
    <3> QED BY <2>4, <3>1
  <2> QED BY <2>2, <2>3, <2>4
<1> QED BY <1>2, <1>3, <1>4, <1>6, <1>7, <1>8 DEF b

\* The points of a lane that is in its plane, and in its row or behind it.
LEMMA AxisResetOK ==
    ASSUME job \in Jobs, NEW p1 \in Int, NEW p2 \in Int, NEW p3 \in Int, NEW first \in {0, 1},
           p2 - job.start[2] \in 0 .. Sets!ySize - 1, p3 - job.start[3] >= 0,
           p3 - job.start[3] + first * Sets!zSize < Sets!VECTOR_SIZE + Sets!zSize
    PROVE  \E q1, q2, q3 \in Int :
              /\ Sets!AxisReset(<<p1, p2, p3>>, first) = <<q1, q2, q3>>
              /\ Pos(q1, q2, q3) = Pos(p1, p2, p3)
              /\ InRanges(q2, q3)
<1> DEFINE b == Sets!ySize
           c == Sets!zSize
           v == Sets!VECTOR_SIZE
           p == <<p1, p2, p3>>
           d == p3 - job.start[3]
           w == v - first * c + c - 1
           rounds == w \div c
           S == Int \X Int \X Int
           F == [k \in Nat |-> [q \in S |-> Sets!ResetOnce(q)]]
           f == CHOOSE f : f = [k \in 0 .. v |-> IF k = 0 THEN p ELSE Sets!ResetOnce(f[k - 1])]
<1>1. /\ b \in Nat /\ b > 0 /\ c \in Nat /\ c > 0 /\ v \in Nat /\ v > 0
      /\ job.start[1] \in Int /\ job.start[2] \in Int /\ job.start[3] \in Int
      /\ d \in Nat /\ first * c \in {0, c}
  BY SizesOK
<1>2. w \in Nat /\ d <= w /\ w <= v + c - 1
  BY <1>1
<1>3. rounds \in 0 .. v /\ d < (rounds + 1) * c
  <2> HIDE DEF w, c, v, d
  <2>1. rounds \in Int /\ w = rounds * c + (w % c) /\ w % c \in 0 .. c - 1
    BY <1>1, <1>2
  <2> HIDE DEF rounds
  <2>2. rounds >= 0
    <3>1. rounds <= -1 => rounds * c <= -c
      BY <1>1, <2>1
    <3> QED BY <1>1, <1>2, <2>1, <3>1
  <2>3. rounds <= v
    <3>1. rounds >= v + 1 => (rounds - (v + 1)) * c >= 0
      BY <1>1, <2>1
    <3>2. (rounds - (v + 1)) * c = rounds * c - (v * c + c)
      BY <1>1, <2>1
    <3>3. v * (c - 1) >= 0 /\ v * (c - 1) = v * c - v
      BY <1>1
    <3>4. rounds * c \in Int /\ v * c \in Int
      BY <1>1, <2>1
    <3> QED BY <1>1, <1>2, <2>1, <3>1, <3>2, <3>3, <3>4
  <2>4. (rounds + 1) * c = rounds * c + c /\ rounds * c \in Int
    BY <1>1, <2>1
  <2> QED BY <1>1, <1>2, <2>1, <2>2, <2>3, <2>4
<1>4. ASSUME NEW q \in S PROVE Sets!ResetOnce(q) \in S
  BY <1>1, <1>4 DEF Sets!ResetOnce
<1>5. Sets!AxisReset(p, first) = f[rounds]
  <2>1. ~(rounds < 0)
    BY <1>3
  <2>2. Sets!AxisReset(p, first) = f[IF rounds < 0 THEN 0 ELSE rounds]
    BY DEF Sets!AxisReset
  <2> QED BY <2>1, <2>2
<1>6. /\ f[0] = p
      /\ \A k \in Nat : k + 1 <= v => f[k + 1] = Sets!ResetOnce(f[k])
  <2>1. p \in S /\ F \in [Nat -> [S -> S]]
    BY <1>4
  <2> HIDE DEF S, F, p, v
  <2>2. PICK h : IsRecursive(h, p, F, S)
    BY <2>1, Recursion
  <2>3. h \in [Nat -> S] /\ h[0] = p /\ \A k \in Nat : h[k + 1] = F[k][h[k]]
    BY <2>2 DEF IsRecursive
  <2>4. \A k \in Nat : h[k + 1] = Sets!ResetOnce(h[k])
    BY <2>3 DEF F
  <2> DEFINE g == [k \in 0 .. v |-> h[k]]
  <2>5. g = [k \in 0 .. v |-> IF k = 0 THEN p ELSE Sets!ResetOnce(g[k - 1])]
    <3>1. ASSUME NEW k \in 0 .. v, k # 0 PROVE g[k] = Sets!ResetOnce(g[k - 1])
      <4>1. k \in Nat /\ k - 1 \in Nat /\ k - 1 \in 0 .. v /\ (k - 1) + 1 = k
        BY <1>1, <3>1
      <4>2. h[(k - 1) + 1] = Sets!ResetOnce(h[k - 1])
        BY <2>4, <4>1
      <4> QED BY <4>1, <4>2
    <3> QED BY <2>3, <3>1
  <2> HIDE DEF g
  <2>6. f = [k \in 0 .. v |-> IF k = 0 THEN p ELSE Sets!ResetOnce(f[k - 1])]
    BY <2>5, Zenon
  <2> HIDE DEF f
  <2>7. f[0] = p
    BY <1>1, <2>6
  <2>8. ASSUME NEW k \in Nat, k + 1 <= v PROVE f[k + 1] = Sets!ResetOnce(f[k])
    <3>1. k + 1 \in 0 .. v /\ k + 1 # 0 /\ (k + 1) - 1 = k
      BY <1>1, <2>8
    <3>2. f[k + 1] = Sets!ResetOnce(f[(k + 1) - 1])
      BY <2>6, <3>1
    <3> QED BY <3>1, <3>2
  <2> QED BY <2>7, <2>8
<1> HIDE DEF f, F, S
<1> DEFINE Good(k) == \E q1, q2, q3 \in Int :
              /\ f[k] = <<q1, q2, q3>>
              /\ Pos(q1, q2, q3) = Pos(p1, p2, p3)
              /\ q2 - job.start[2] \in 0 .. b - 1
              /\ q3 - job.start[3] >= 0
              /\ q3 - job.start[3] < c \/ q3 - job.start[3] = d - k * c
           T == {k \in Nat : k <= v => Good(k)}
<1>7. 0 \in T
  <2>1. Good(0)
    <3>1. f[0] = <<p1, p2, p3>> /\ p3 - job.start[3] = d - 0 * c
      BY <1>1, <1>6
    <3> QED BY <3>1
  <2> QED BY <2>1
<1>8. ASSUME NEW k \in Nat, k \in T PROVE k + 1 \in T
  <2> SUFFICES ASSUME k + 1 <= v PROVE Good(k + 1)
    OBVIOUS
  <2>1. Good(k)
    BY <1>1, <1>8
  <2>2. PICK q1, q2, q3 \in Int :
              /\ f[k] = <<q1, q2, q3>>
              /\ Pos(q1, q2, q3) = Pos(p1, p2, p3)
              /\ q2 - job.start[2] \in 0 .. b - 1
              /\ q3 - job.start[3] >= 0
              /\ q3 - job.start[3] < c \/ q3 - job.start[3] = d - k * c
    BY <2>1
  <2>3. f[k + 1] = Sets!ResetOnce(<<q1, q2, q3>>)
    BY <1>6, <2>2
  <2>4. PICK r1, r2, r3 \in Int :
              /\ Sets!ResetOnce(<<q1, q2, q3>>) = <<r1, r2, r3>>
              /\ Pos(r1, r2, r3) = Pos(q1, q2, q3)
              /\ r2 - job.start[2] \in 0 .. Sets!ySize - 1
              /\ r3 = IF q3 - job.start[3] >= Sets!zSize THEN q3 - Sets!zSize ELSE q3
    BY <2>2, ResetOnceOK
  <2>5. /\ r3 - job.start[3] >= 0
        /\ r3 - job.start[3] < c \/ r3 - job.start[3] = d - (k + 1) * c
    <3>1. c \in Int /\ k \in Int
      BY <1>1
    <3>2. /\ r3 = IF q3 - job.start[3] >= c THEN q3 - c ELSE q3
          /\ q3 - job.start[3] >= 0
          /\ q3 - job.start[3] < c \/ q3 - job.start[3] = d - k * c
      BY <2>2, <2>4
    <3>3. d \in Int /\ job.start[3] \in Int
      BY <1>1
    <3> HIDE DEF d, c
    <3>4. (k + 1) * c = k * c + c /\ k * c \in Int
      BY <3>1
    <3>5. CASE q3 - job.start[3] >= c
      BY <3>1, <3>2, <3>3, <3>4, <3>5
    <3>6. CASE ~(q3 - job.start[3] >= c)
      BY <3>1, <3>2, <3>3, <3>4, <3>6
    <3> QED BY <3>5, <3>6
  <2> QED BY <2>2, <2>3, <2>4, <2>5
<1> HIDE DEF T
<1>9. rounds \in T
  BY <1>3, <1>7, <1>8, Induction
<1>10. Good(rounds)
  BY <1>3, <1>9 DEF T
<1>11. PICK q1, q2, q3 \in Int :
              /\ f[rounds] = <<q1, q2, q3>>
              /\ Pos(q1, q2, q3) = Pos(p1, p2, p3)
              /\ q2 - job.start[2] \in 0 .. b - 1
              /\ q3 - job.start[3] >= 0
              /\ q3 - job.start[3] < c \/ q3 - job.start[3] = d - rounds * c
  BY <1>10
<1>12. q3 - job.start[3] < c
  <2>1. (rounds + 1) * c = rounds * c + c /\ rounds * c \in Int
    <3>1. rounds \in Int
      BY <1>3
    <3> HIDE DEF rounds
    <3> QED BY <1>1, <3>1
  <2> HIDE DEF rounds, d
  <2> QED BY <1>1, <1>3, <1>11, <2>1
<1> QED
  BY <1>1, <1>5, <1>11, <1>12, SMTT(20) DEF InRanges

-----------------------------------------------------------------------------
\* The first k numbers of the set are those of their points.
Filled(ns, kn, k) ==
    \A s \in Nat : s < k /\ s < Sets!maxIndex => ns[s] = Sets!Noise(kn, Sets!Point(s))

LaneAt(p1, p2, p3, s) == /\ p1 \in Int /\ p2 \in Int /\ p3 \in Int
                         /\ InRanges(p2, p3) /\ Pos(p1, p2, p3) = s

SetShape == /\ job \in Jobs
            /\ pc \in {"get", "points", "fill", "row", "rest", "vector", "vectorset", "done"}
            /\ pc # "get" => DOMAIN noiseSet = Sets!Slots(Sets!AlignedSize(Sets!maxIndex))
            /\ pc \in {"get", "points", "fill"} => ix = 0 /\ iy = 0 /\ iz = 0 /\ index = 0
            /\ pc = "points" => job.vectors
            /\ pc \in {"row", "rest", "vector"} => ~job.vectors

\* Within a row the lanes are a vector further on than the counter iz.
RowOK == /\ Sets!Rows
         /\ ix \in Nat /\ ix < Sets!xSize /\ iy \in Nat /\ iy < Sets!ySize
         /\ x = [l \in Sets!Lanes |-> job.start[1] + ix]
         /\ y = [l \in Sets!Lanes |-> job.start[2] + iy]

RowStarts ==
    pc = "row" =>
        /\ RowOK
        /\ index = (ix * Sets!ySize + iy) * Sets!zSize
        /\ z = [l \in Sets!Lanes |-> job.start[3] + l]
        /\ Filled(noiseSet, kernel, index)

RowGoesOn ==
    pc = "rest" =>
        /\ RowOK
        /\ iz \in Nat /\ iz <= Sets!zSize
        /\ \E m \in Nat : iz = Sets!VECTOR_SIZE * m + Sets!VECTOR_SIZE
        /\ index = (ix * Sets!ySize + iy) * Sets!zSize + iz - Sets!VECTOR_SIZE
        /\ z = [l \in Sets!Lanes |-> job.start[3] + (iz - Sets!VECTOR_SIZE) + l]
        /\ Filled(noiseSet, kernel, index + Sets!VECTOR_SIZE)

\* Over several rows every lane has a place of its own.
VectorsGoOn ==
    pc = "vector" =>
        /\ index < Sets!maxIndex /\ \E m \in Nat : index = Sets!VECTOR_SIZE * m
        /\ \A l \in Sets!Lanes : LaneAt(x[l], y[l], z[l], index + l)
        /\ Filled(noiseSet, kernel, index)

BoxPoint(s) == <<s \div (Sets!ySize * Sets!zSize), (s \div Sets!zSize) % Sets!ySize, s % Sets!zSize>>

PointsMade ==
    pc \in {"fill", "vectorset"} /\ job.vectors =>
        \A s \in Nat : s < Sets!maxIndex => vectorSet[s] = BoxPoint(s)

PointsGoOn ==
    pc = "vectorset" =>
        /\ job.vectors
        /\ kernel = [f |-> kernel.f, scaled |-> TRUE, perturb |-> job.perturb]
        /\ \E m \in Nat : index = Sets!VECTOR_SIZE * m
        /\ ~job.aligned => index <= Sets!loopMax
        /\ Filled(noiseSet, kernel, index)

\* The rest of an unaligned vector set has a kernel of its own.
RestIsStored == job.vectors /\ Sets!HasRest

SetIsFilled ==
    pc = "done" =>
        /\ ~RestIsStored => Filled(noiseSet, kernel, Sets!maxIndex)
        /\ RestIsStored =>
              /\ Filled(noiseSet, kernel, Sets!loopMax)
              /\ \A s \in Nat : Sets!loopMax <= s /\ s < Sets!maxIndex =>
                    noiseSet[s] = Sets!Noise(Sets!OfRest(kernel), Sets!Point(s))

SetInv == /\ SetShape /\ RowStarts /\ RowGoesOn /\ VectorsGoOn
          /\ PointsMade /\ PointsGoOn /\ SetIsFilled

\* What one store adds to the numbers that are there.
LEMMA StoreOK ==
    ASSUME job \in Jobs, NEW ns, NEW ms, NEW kn, NEW at \in Nat, NEW count \in Nat, NEW n \in Nat,
           DOMAIN ns = Sets!Slots(n), at + count <= n,
           DOMAIN ms = (at .. at + count - 1) \cup DOMAIN ns,
           \A s \in DOMAIN ms : s \notin at .. at + count - 1 => ms[s] = ns[s]
    PROVE  /\ DOMAIN ms = Sets!Slots(n)
           /\ Filled(ns, kn, at) /\ (\A s \in at .. at + count - 1 :
                  s < Sets!maxIndex => ms[s] = Sets!Noise(kn, Sets!Point(s)))
              => Filled(ms, kn, at + count)
<1>1. DOMAIN ms = Sets!Slots(n)
  BY DEF Sets!Slots
<1>2. ASSUME Filled(ns, kn, at),
             \A s \in at .. at + count - 1 : s < Sets!maxIndex => ms[s] = Sets!Noise(kn, Sets!Point(s)),
             NEW s \in Nat, s < at + count, s < Sets!maxIndex
      PROVE  ms[s] = Sets!Noise(kn, Sets!Point(s))
  <2>1. CASE s < at
    <3>1. s \in DOMAIN ms /\ s \notin at .. at + count - 1
      BY <1>1, <2>1 DEF Sets!Slots
    <3>2. ns[s] = Sets!Noise(kn, Sets!Point(s))
      BY <1>2, <2>1 DEF Filled
    <3> QED BY <3>1, <3>2
  <2>2. CASE s >= at
    BY <1>2, <2>2
  <2> QED BY <2>1, <2>2
<1> QED BY <1>1, <1>2 DEF Filled

\* The definitions that look at nothing but the settings.
LEMMA SettingsStay ==
    ASSUME job' = job
    PROVE  /\ Sets!VECTOR_SIZE' = Sets!VECTOR_SIZE /\ Sets!Lanes' = Sets!Lanes
           /\ Sets!xSize' = Sets!xSize /\ Sets!ySize' = Sets!ySize /\ Sets!zSize' = Sets!zSize
           /\ Sets!maxIndex' = Sets!maxIndex /\ Sets!loopMax' = Sets!loopMax
           /\ Sets!Rows' = Sets!Rows /\ RestIsStored' = RestIsStored
           /\ Sets!AlignedSize(Sets!maxIndex)' = Sets!AlignedSize(Sets!maxIndex)
BY DEF Sets!VECTOR_SIZE, Sets!Lanes, Sets!xSize, Sets!ySize, Sets!zSize, Sets!maxIndex,
       Sets!loopMax, Sets!Rows, Sets!AlignedSize, RestIsStored, Sets!HasRest

LEMMA PointsStay ==
    ASSUME job' = job
    PROVE  /\ \A s : Sets!Point(s)' = Sets!Point(s) /\ BoxPoint(s)' = BoxPoint(s)
           /\ \A p1, p2, p3, s : LaneAt(p1, p2, p3, s)' <=> LaneAt(p1, p2, p3, s)
BY SettingsStay DEF Sets!Point, BoxPoint, LaneAt, Pos, InRanges

LEMMA SetInitOK == Sets!Init => SetInv
BY DEF Sets!Init, SetInv, SetShape, RowStarts, RowGoesOn, VectorsGoOn, PointsMade, PointsGoOn,
       SetIsFilled

LEMMA SetGetOK == SetInv /\ (Sets!GetNoiseSet \/ Sets!FillVectorSet) => SetInv'
<1> SUFFICES ASSUME SetInv, Sets!GetNoiseSet \/ Sets!FillVectorSet PROVE SetInv'
  OBVIOUS
<1>1. job' = job /\ job \in Jobs
  BY DEF SetInv, SetShape, Sets!GetNoiseSet, Sets!FillVectorSet
<1>2. pc' \in {"points", "fill"} /\ (pc' = "points" => job.vectors)
  BY DEF Sets!GetNoiseSet, Sets!FillVectorSet
<1>3. SetShape'
  <2>1. DOMAIN noiseSet' = Sets!Slots(Sets!AlignedSize(Sets!maxIndex))
    BY DEF SetInv, SetShape, Sets!GetNoiseSet, Sets!FillVectorSet
  <2>2. ix' = 0 /\ iy' = 0 /\ iz' = 0 /\ index' = 0
    BY DEF SetInv, SetShape, Sets!GetNoiseSet, Sets!FillVectorSet, Sets!counters
  <2> QED BY <1>1, <1>2, <2>1, <2>2, SettingsStay DEF SetShape, Sets!Slots
<1>4. PointsMade'
  <2> SUFFICES ASSUME pc' = "fill", job.vectors, NEW s \in Nat, s < Sets!maxIndex
               PROVE  vectorSet'[s] = BoxPoint(s)
    BY <1>1, <1>2, SettingsStay, PointsStay DEF PointsMade
  <2>1. Sets!FillVectorSet
    BY DEF Sets!GetNoiseSet
  <2>2. Sets!maxIndex \in Nat /\ Sets!AlignedSize(Sets!maxIndex) >= Sets!maxIndex
        /\ Sets!AlignedSize(Sets!maxIndex) \in Nat
    BY <1>1, MaxIndexOK, AlignedOK
  <2>3. s \in Sets!Slots(Sets!AlignedSize(Sets!maxIndex))
    BY <2>2 DEF Sets!Slots
  <2> QED BY <2>1, <2>3 DEF Sets!FillVectorSet, BoxPoint
<1> QED
  BY <1>2, <1>3, <1>4 DEF SetInv, RowStarts, RowGoesOn, VectorsGoOn, PointsGoOn, SetIsFilled

\* The memory of the set holds the vector that starts at a multiple below its end.
LEMMA VectorFits ==
    ASSUME job \in Jobs, NEW m \in Nat, Sets!VECTOR_SIZE * m < Sets!maxIndex,
           job.aligned \/ Sets!VECTOR_SIZE * m + Sets!VECTOR_SIZE <= Sets!maxIndex
    PROVE  Sets!VECTOR_SIZE * m + Sets!VECTOR_SIZE <= Sets!AlignedSize(Sets!maxIndex)
<1> DEFINE v == Sets!VECTOR_SIZE
           n == Sets!AlignedSize(Sets!maxIndex)
<1>1. /\ v \in Nat /\ v > 0 /\ Sets!maxIndex \in Nat /\ n \in Nat /\ n >= Sets!maxIndex
      /\ job.aligned => \E k \in Nat : n = v * k
  BY SizesOK, MaxIndexOK, AlignedOK
<1> HIDE DEF v, n
<1>2. v * m \in Nat
  BY <1>1
<1>3. CASE job.aligned
  <2>1. PICK k \in Nat : n = v * k
    BY <1>1, <1>3
  <2>2. v * m < v * k
    BY <1>1, <1>2, <2>1 DEF v
  <2> QED BY <1>1, <2>1, <2>2, NextMultiple DEF v, n
<1>4. CASE ~job.aligned
  BY <1>1, <1>2, <1>4 DEF v, n
<1> QED BY <1>3, <1>4

LEMMA SetBuilderOK ==
    ASSUME SetInv, NEW k, Sets!SetBuilder(k) PROVE SetInv'
<1>1. /\ job' = job /\ job \in Jobs /\ pc = "fill" /\ kernel' = k /\ ~job.vectors
      /\ ix = 0 /\ iy = 0 /\ iz = 0 /\ index = 0
      /\ ix' = 0 /\ iy' = 0 /\ iz' = 0 /\ index' = 0 /\ noiseSet' = noiseSet
      /\ pc' = IF Sets!Rows THEN "row" ELSE "vector"
  BY DEF SetInv, SetShape, Sets!SetBuilder, Sets!counters
<1> DEFINE v == Sets!VECTOR_SIZE
           b == Sets!ySize
           c == Sets!zSize
<1>2. /\ v \in Nat /\ v > 0 /\ Sets!xSize \in Nat /\ Sets!xSize > 0
      /\ b \in Nat /\ b > 0 /\ c \in Nat /\ c > 0
      /\ job.start[1] \in Int /\ job.start[2] \in Int /\ job.start[3] \in Int
      /\ Sets!maxIndex \in Nat /\ Sets!maxIndex > 0
  BY <1>1, SizesOK, MaxIndexOK
<1>3. SetShape'
  BY <1>1, SettingsStay DEF SetInv, SetShape, Sets!Slots
<1>4. Filled(noiseSet, kernel, index)'
  BY <1>1 DEF Filled
<1>5. RowStarts'
  <2> SUFFICES ASSUME Sets!Rows PROVE RowStarts'
    BY <1>1 DEF RowStarts
  <2>1. /\ x' = [l \in Sets!Lanes |-> job.start[1] + ix']
        /\ y' = [l \in Sets!Lanes |-> job.start[2] + iy']
        /\ z' = [l \in Sets!Lanes |-> job.start[3] + l]
    BY <1>1, <1>2 DEF Sets!SetBuilder, Sets!SetLanes, Sets!xBase, Sets!yBase, Sets!zBase, Sets!AllLanes
  <2>2. RowOK'
    BY <1>1, <1>2, <2>1, SettingsStay DEF RowOK
  <2>3. index' = (ix' * b + iy') * c
    BY <1>1, <1>2
  <2> QED BY <1>1, <1>4, <2>1, <2>2, <2>3, SettingsStay DEF RowStarts
<1>6. VectorsGoOn'
  <2> SUFFICES ASSUME ~Sets!Rows PROVE VectorsGoOn'
    BY <1>1 DEF VectorsGoOn
  <2>1. ASSUME NEW l \in Sets!Lanes PROVE LaneAt(x'[l], y'[l], z'[l], l)
    <3> DEFINE p1 == job.start[1]
               p2 == job.start[2]
               p3 == job.start[3] + l
               q == Sets!AxisReset(<<p1, p2, p3>>, 1)
    <3>1. l \in Nat /\ l < v
      BY <1>2 DEF Sets!Lanes
    <3>2. x'[l] = q[1] /\ y'[l] = q[2] /\ z'[l] = q[3]
      BY DEF Sets!SetBuilder, Sets!SetLanes, Sets!xBase, Sets!yBase, Sets!zBase, Sets!AllLanes
    <3>3. /\ p1 \in Int /\ p2 \in Int /\ p3 \in Int /\ p2 - job.start[2] = 0 /\ p3 - job.start[3] = l
          /\ p1 - job.start[1] = 0
      BY <1>2, <3>1
    <3>4. p2 - job.start[2] \in 0 .. Sets!ySize - 1 /\ p3 - job.start[3] >= 0
          /\ p3 - job.start[3] + 1 * Sets!zSize < Sets!VECTOR_SIZE + Sets!zSize
      BY <1>2, <3>1, <3>3
    <3>5. Pos(p1, p2, p3) = l
      BY <1>2, <3>1, <3>3 DEF Pos
    <3> HIDE DEF p1, p2, p3
    <3>6. PICK q1, q2, q3 \in Int : /\ q = <<q1, q2, q3>>
                                    /\ Pos(q1, q2, q3) = Pos(p1, p2, p3) /\ InRanges(q2, q3)
      BY <1>1, <3>3, <3>4, AxisResetOK
    <3> QED BY <3>2, <3>5, <3>6 DEF LaneAt
  <2>2. \A l \in Sets!Lanes : index' + l = l
    BY <1>1, <1>2 DEF Sets!Lanes
  <2>3. index' = v * 0
    BY <1>1, <1>2
  <2>4. \A l \in Sets!Lanes' : LaneAt(x'[l], y'[l], z'[l], index' + l)
    BY <1>1, <2>1, <2>2, SettingsStay
  <2>5. \A l \in Sets!Lanes' : (LaneAt(x[l], y[l], z[l], index + l))'
    BY <1>1, <2>4, SettingsStay DEF LaneAt, Pos, InRanges
  <2>6. index' < Sets!maxIndex' /\ \E m \in Nat : index' = Sets!VECTOR_SIZE' * m
    BY <1>1, <1>2, <2>3, SettingsStay
  <2> QED BY <1>4, <2>5, <2>6 DEF VectorsGoOn
<1>7. PointsMade'
  BY <1>1 DEF PointsMade
<1> QED
  BY <1>1, <1>3, <1>5, <1>6, <1>7 DEF SetInv, RowGoesOn, PointsGoOn, SetIsFilled

\* A set of rows that the vectors divide is as large as the box.
LEMMA RowsOK ==
    ASSUME job \in Jobs, Sets!Rows
    PROVE  /\ \E k \in Nat : k > 0 /\ Sets!zSize = Sets!VECTOR_SIZE * k
           /\ Sets!AlignedSize(Sets!maxIndex) = Sets!maxIndex
           /\ Sets!VECTOR_SIZE <= Sets!zSize
<1> DEFINE v == Sets!VECTOR_SIZE
           c == Sets!zSize
           ab == Sets!xSize * Sets!ySize
           k == c \div v
           n == Sets!maxIndex
<1>1. v \in Nat /\ v > 0 /\ c \in Nat /\ c > 0 /\ ab \in Nat /\ n = ab * c /\ n \in Nat
  BY SizesOK, MaxIndexOK
<1>2. c % v = 0
  BY DEF Sets!Rows
<1> HIDE DEF ab, n
<1>3. k \in Int /\ c = v * k
  <2> HIDE DEF c, v
  <2> QED BY <1>1, <1>2
<1> HIDE DEF c, v, k
<1>4. k > 0 /\ v <= c
  <2>1. k <= 0 => v * k <= 0
    BY <1>1, <1>3
  <2>2. k > 0
    BY <1>1, <1>3, <2>1
  <2>3. v * (k - 1) >= 0 /\ v * (k - 1) = v * k - v /\ v * k \in Int
    BY <1>1, <1>3, <2>2
  <2> QED BY <1>1, <1>3, <2>2, <2>3
<1>5. n % v = 0
  <2> DEFINE q == ab * k
             r == 0
  <2>1. n = q * v + r /\ q \in Int /\ r \in 0 .. v - 1
    BY <1>1, <1>3
  <2> HIDE DEF q, r
  <2>2. v \in Nat \ {0}
    BY <1>1
  <2>3. (q * v + r) % v = r
    BY <2>1, <2>2, DivMod
  <2>4. n % v = r
    BY <2>1, <2>3
  <2> QED BY <2>4 DEF r
<1>6. Sets!AlignedSize(n) = n
  BY <1>5 DEF Sets!AlignedSize, v, n
<1> QED BY <1>3, <1>4, <1>6 DEF v, c, n

\* A lane in a row.
LEMMA LaneInRow ==
    ASSUME job \in Jobs, NEW p \in Nat, NEW q \in Nat, q < Sets!ySize, NEW r \in Nat, r < Sets!zSize
    PROVE  LaneAt(job.start[1] + p, job.start[2] + q, job.start[3] + r,
                  (p * Sets!ySize + q) * Sets!zSize + r)
<1> DEFINE p1 == job.start[1] + p
           p2 == job.start[2] + q
           p3 == job.start[3] + r
<1>1. /\ job.start[1] \in Int /\ job.start[2] \in Int /\ job.start[3] \in Int
      /\ Sets!ySize \in Nat /\ Sets!zSize \in Nat
  BY SizesOK
<1>2. /\ p1 \in Int /\ p2 \in Int /\ p3 \in Int
      /\ p1 - job.start[1] = p /\ p2 - job.start[2] = q /\ p3 - job.start[3] = r
  BY <1>1
<1> HIDE DEF p1, p2, p3
<1>3. InRanges(p2, p3)
  BY <1>1, <1>2 DEF InRanges
<1>4. Pos(p1, p2, p3) = (p * Sets!ySize + q) * Sets!zSize + r
  BY <1>2 DEF Pos
<1>5. LaneAt(p1, p2, p3, (p * Sets!ySize + q) * Sets!zSize + r)
  BY <1>2, <1>3, <1>4 DEF LaneAt
<1> QED BY <1>5 DEF p1, p2, p3

LEMMA LanePoint ==
    ASSUME job \in Jobs, NEW p1, NEW p2, NEW p3, NEW s, LaneAt(p1, p2, p3, s)
    PROVE  Sets!Point(s) = <<p1, p2, p3>>
BY PointAt DEF LaneAt

\* The rows in front of row q of plane p, and all that come up to it.
LEMMA RowsBefore ==
    ASSUME job \in Jobs, NEW p \in Nat, p < Sets!xSize, NEW q \in Nat, q < Sets!ySize
    PROVE  /\ (p * Sets!ySize + q) * Sets!zSize \in Nat
           /\ (p * Sets!ySize + q) * Sets!zSize + Sets!zSize <= Sets!maxIndex
           /\ (p * Sets!ySize + q) * Sets!zSize + Sets!zSize = (p * Sets!ySize + (q + 1)) * Sets!zSize
           /\ q + 1 = Sets!ySize =>
                (p * Sets!ySize + q) * Sets!zSize + Sets!zSize
                  = ((p + 1) * Sets!ySize + 0) * Sets!zSize
           /\ q + 1 = Sets!ySize /\ p + 1 = Sets!xSize =>
                (p * Sets!ySize + q) * Sets!zSize + Sets!zSize = Sets!maxIndex
<1> DEFINE a == Sets!xSize
           b == Sets!ySize
           c == Sets!zSize
           u == p * b + q
<1>1. a \in Nat /\ b \in Nat /\ c \in Nat /\ Sets!maxIndex = (a * b) * c /\ p + 1 <= a /\ q + 1 <= b
  BY SizesOK, MaxIndexOK
<1> HIDE DEF a, b, c
<1>2. u \in Nat /\ u + 1 = p * b + (q + 1)
  BY <1>1
<1>3. u + 1 <= a * b /\ a * b \in Nat
  <2>1. (a - (p + 1)) * b >= 0 /\ (a - (p + 1)) * b = a * b - p * b - b
    BY <1>1
  <2>2. a * b \in Nat /\ p * b \in Nat
    BY <1>1
  <2> QED BY <1>1, <1>2, <2>1, <2>2
<1>4. q + 1 = b => u + 1 = (p + 1) * b + 0
  BY <1>1
<1>5. q + 1 = b /\ p + 1 = a => u + 1 = a * b
  BY <1>1
<1> DEFINE ab == a * b
<1> HIDE DEF u, ab
<1>6. u * c + c = (u + 1) * c /\ u * c \in Nat
  BY <1>1, <1>2
<1>7. (u + 1) * c <= ab * c
  <2>1. (ab - (u + 1)) * c >= 0
    BY <1>1, <1>2, <1>3 DEF ab
  <2>2. (ab - (u + 1)) * c = ab * c - (u + 1) * c /\ ab * c \in Int /\ (u + 1) * c \in Int
    BY <1>1, <1>2, <1>3 DEF ab
  <2> QED BY <2>1, <2>2
<1> QED BY <1>1, <1>2, <1>4, <1>5, <1>6, <1>7 DEF u, ab, a, b, c

LEMMA SetRowsOK ==
    SetInv /\ (Sets!FirstOfRow \/ Sets!RestOfRow \/ Sets!NextRow) => SetInv'
<1> SUFFICES ASSUME SetInv, Sets!FirstOfRow \/ Sets!RestOfRow \/ Sets!NextRow PROVE SetInv'
  OBVIOUS
<1> DEFINE v == Sets!VECTOR_SIZE
           b == Sets!ySize
           c == Sets!zSize
           start == (ix * b + iy) * c
<1>1. job' = job /\ job \in Jobs /\ kernel' = kernel /\ pc \in {"row", "rest"} /\ RowOK
      /\ ~job.vectors
  BY DEF SetInv, SetShape, RowStarts, RowGoesOn, Sets!FirstOfRow, Sets!RestOfRow, Sets!NextRow
<1>2. /\ v \in Nat /\ v > 0 /\ b \in Nat /\ b > 0 /\ c \in Nat /\ c > 0 /\ v <= c
      /\ job.start[1] \in Int /\ job.start[2] \in Int /\ job.start[3] \in Int
      /\ Sets!maxIndex \in Nat /\ Sets!AlignedSize(Sets!maxIndex) = Sets!maxIndex
      /\ ix \in Nat /\ iy \in Nat /\ ix < Sets!xSize /\ iy < b /\ Sets!xSize \in Nat
  BY <1>1, SizesOK, MaxIndexOK, RowsOK DEF RowOK
<1>3. start \in Nat /\ start + c <= Sets!maxIndex
  BY <1>1, <1>2, RowsBefore
<1>4. DOMAIN noiseSet = Sets!Slots(Sets!maxIndex)
  BY <1>1, <1>2 DEF SetInv, SetShape
<1>5. PICK k \in Nat : k > 0 /\ c = v * k
  BY <1>1, RowsOK DEF RowOK
\* The vector that is stored when w numbers of the row are there.
<1>6. ASSUME NEW w \in Nat, w + v <= c, NEW at, at = start + w, Filled(noiseSet, kernel, at),
             DOMAIN noiseSet' = (at .. at + v - 1) \cup DOMAIN noiseSet,
             \A s \in DOMAIN noiseSet' : s \notin at .. at + v - 1 => noiseSet'[s] = noiseSet[s],
             \A s \in at .. at + v - 1 :
                 noiseSet'[s] = Sets!Noise(kernel, <<x[s - at], y[s - at], job.start[3] + w + (s - at)>>)
      PROVE  /\ DOMAIN noiseSet' = Sets!Slots(Sets!maxIndex)
             /\ Filled(noiseSet', kernel, at + v)
  <2>1. at \in Nat /\ at + v <= Sets!maxIndex
    BY <1>2, <1>3, <1>6
  <2>2. ASSUME NEW s \in at .. at + v - 1
        PROVE  noiseSet'[s] = Sets!Noise(kernel, Sets!Point(s))
    <3>1. PICK l \in Nat : l = s - at /\ l < v
      BY <1>2, <2>1
    <3>2. PICK r \in Nat : r = w + l /\ r < c
      BY <1>2, <1>6, <3>1
    <3>3. s = start + r /\ l \in Sets!Lanes
      BY <1>2, <1>3, <1>6, <3>1, <3>2 DEF Sets!Lanes
    <3>4. x[l] = job.start[1] + ix /\ y[l] = job.start[2] + iy
      BY <1>1, <3>3 DEF RowOK
    <3>5. job.start[3] + w + l = job.start[3] + r
      BY <1>2, <1>6, <3>1, <3>2
    <3>6. noiseSet'[s] = Sets!Noise(kernel, <<x[l], y[l], job.start[3] + w + l>>)
      BY <1>6, <3>1
    <3>7. LaneAt(job.start[1] + ix, job.start[2] + iy, job.start[3] + r, start + r)
      BY <1>1, <1>2, <3>2, LaneInRow
    <3>8. Sets!Point(s) = <<job.start[1] + ix, job.start[2] + iy, job.start[3] + r>>
      BY <1>1, <3>3, <3>7, LanePoint
    <3> QED BY <3>4, <3>5, <3>6, <3>8
  <2> HIDE DEF start, v
  <2>3. \A s \in at .. at + v - 1 :
            s < Sets!maxIndex => noiseSet'[s] = Sets!Noise(kernel, Sets!Point(s))
    BY <2>2
  <2>4. v \in Nat /\ Sets!maxIndex \in Nat
    BY <1>2
  <2>5. DOMAIN noiseSet' = Sets!Slots(Sets!maxIndex)
    BY <1>1, <1>4, <1>6, <2>1, <2>4, StoreOK, SMTT(20)
  <2>6. Filled(noiseSet', kernel, at + v)
    BY <1>1, <1>4, <1>6, <2>1, <2>3, <2>4, StoreOK
  <2> QED BY <2>5, <2>6
<1> HIDE DEF start
<1>7. CASE Sets!FirstOfRow
  <2>1. /\ pc = "row" /\ pc' = "rest" /\ iz' = v /\ index = start
        /\ UNCHANGED <<job, kernel, x, y, z, ix, iy, index, vectorSet>>
        /\ z = [l \in Sets!Lanes |-> job.start[3] + l]
        /\ Filled(noiseSet, kernel, start)
    BY <1>7 DEF Sets!FirstOfRow, SetInv, RowStarts, start
  <2>2. /\ DOMAIN noiseSet' = (start .. start + v - 1) \cup DOMAIN noiseSet
        /\ \A s \in DOMAIN noiseSet' : s \notin start .. start + v - 1 => noiseSet'[s] = noiseSet[s]
        /\ \A s \in start .. start + v - 1 :
              noiseSet'[s] = Sets!Noise(kernel, <<x[s - start], y[s - start], z[s - start]>>)
    BY <1>7, <2>1 DEF Sets!FirstOfRow, Sets!Store, Sets!Lane
  <2>3. ASSUME NEW s \in start .. start + v - 1
        PROVE  z[s - start] = job.start[3] + 0 + (s - start)
    <3>1. PICK l \in Nat : l = s - start /\ l < v
      BY <1>2, <1>3
    <3>2. z[l] = job.start[3] + l
      BY <1>2, <2>1, <3>1 DEF Sets!Lanes
    <3> QED BY <1>2, <3>1, <3>2
  <2>4. \A s \in start .. start + v - 1 : noiseSet'[s] =
            Sets!Noise(kernel, <<x[s - start], y[s - start], job.start[3] + 0 + (s - start)>>)
    BY <2>2, <2>3
  <2>5. /\ DOMAIN noiseSet' = Sets!Slots(Sets!maxIndex)
        /\ Filled(noiseSet', kernel, start + v)
    <3>1. start + 0 = start /\ 0 + v <= c /\ 0 \in Nat
      BY <1>2, <1>3
    <3> QED BY <1>6, <2>1, <2>2, <2>4, <3>1
  <2>6. SetShape'
    BY <1>1, <1>2, <2>1, <2>5, SettingsStay DEF SetShape, Sets!Slots
  <2>7. RowOK'
    BY <1>1, <2>1, SettingsStay DEF RowOK
  <2>8. z' = [l \in Sets!Lanes |-> job.start[3] + (iz' - v) + l]
    <3>1. \A l \in Sets!Lanes : job.start[3] + (iz' - v) + l = job.start[3] + l
      BY <1>2, <2>1 DEF Sets!Lanes
    <3> QED BY <2>1, <3>1
  <2>9. iz' = v * 0 + v /\ index' = (ix' * b + iy') * c + iz' - v
    BY <1>2, <1>3, <2>1 DEF start
  <2>10. Filled(noiseSet, kernel, index + v)'
    <3>1. index' + v' = start + v
      BY <1>1, <2>1, SettingsStay
    <3>2. Filled(noiseSet', kernel', index' + v')
      BY <1>1, <2>5, <3>1
    <3> QED BY <1>1, <3>2, SettingsStay, PointsStay DEF Filled, Sets!Noise
  <2>11. RowGoesOn'
    BY <1>1, <1>2, <2>1, <2>7, <2>8, <2>9, <2>10, SettingsStay DEF RowGoesOn
  <2> QED BY <2>1, <2>6, <2>11
           DEF SetInv, RowStarts, VectorsGoOn, PointsMade, PointsGoOn, SetIsFilled
<1>8. CASE Sets!RestOfRow
  <2>1. /\ pc = "rest" /\ pc' = "rest" /\ iz < c /\ iz' = iz + v /\ index' = index + v
        /\ UNCHANGED <<job, kernel, x, y, ix, iy, vectorSet>>
        /\ z = [l \in Sets!Lanes |-> job.start[3] + (iz - v) + l]
        /\ z' = [l \in Sets!Lanes |-> z[l] + v]
        /\ index = (ix * b + iy) * c + iz - v
        /\ iz \in Nat /\ Filled(noiseSet, kernel, index + v)
    BY <1>8 DEF Sets!RestOfRow, SetInv, RowGoesOn
  <2>2. PICK m \in Nat : iz = v * m + v
    BY <2>1 DEF SetInv, RowGoesOn
  <2>3. iz + v <= c /\ iz = v * (m + 1)
    <3>1. iz = v * (m + 1)
      BY <1>2, <2>2
    <3> HIDE DEF v, c
    <3>2. v * (m + 1) < v * k /\ m + 1 \in Nat
      BY <1>5, <2>1, <3>1
    <3>3. v * (m + 1) + v <= v * k
      BY <1>2, <1>5, <3>2, NextMultiple
    <3> QED BY <1>5, <3>1, <3>3
  <2>4. index + v = start + iz /\ index' = start + iz
    BY <1>2, <1>3, <2>1 DEF start
  <2> DEFINE at == index'
  <2>5. /\ DOMAIN noiseSet' = (at .. at + v - 1) \cup DOMAIN noiseSet
        /\ \A s \in DOMAIN noiseSet' : s \notin at .. at + v - 1 => noiseSet'[s] = noiseSet[s]
        /\ \A s \in at .. at + v - 1 :
              noiseSet'[s] = Sets!Noise(kernel, <<x[s - at], y[s - at], z'[s - at]>>)
    BY <1>8, <2>1 DEF Sets!RestOfRow, Sets!Store
  <2>6. ASSUME NEW s \in at .. at + v - 1
        PROVE  z'[s - at] = job.start[3] + iz + (s - at)
    <3>1. PICK l \in Nat : l = s - at /\ l < v
      BY <1>2, <1>3, <2>1, <2>4
    <3>2. z'[l] = job.start[3] + (iz - v) + l + v
      BY <1>2, <2>1, <3>1 DEF Sets!Lanes
    <3> QED BY <1>2, <2>1, <3>1, <3>2
  <2>7. \A s \in at .. at + v - 1 : noiseSet'[s] =
            Sets!Noise(kernel, <<x[s - at], y[s - at], job.start[3] + iz + (s - at)>>)
    BY <2>5, <2>6
  <2>8. /\ DOMAIN noiseSet' = Sets!Slots(Sets!maxIndex)
        /\ Filled(noiseSet', kernel, at + v)
    <3>1. Filled(noiseSet, kernel, at) /\ at = start + iz
      BY <2>1, <2>4
    <3> HIDE DEF at
    <3> QED BY <1>6, <2>1, <2>3, <2>5, <2>7, <3>1
  <2>9. SetShape'
    BY <1>1, <1>2, <2>1, <2>8, SettingsStay DEF SetShape, Sets!Slots
  <2>10. RowOK'
    BY <1>1, <2>1, SettingsStay DEF RowOK
  <2>11. z' = [l \in Sets!Lanes |-> job.start[3] + (iz' - v) + l]
    <3>1. ASSUME NEW l \in Sets!Lanes
          PROVE  job.start[3] + (iz - v) + l + v = job.start[3] + (iz' - v) + l
      <4>1. l \in Int
        BY <1>2 DEF Sets!Lanes
      <4>2. job.start[3] \in Int /\ iz \in Int /\ v \in Int /\ iz' = iz + v
        BY <1>2, <2>1
      <4> HIDE DEF v
      <4> QED BY <4>1, <4>2
    <3>2. z' = [l \in Sets!Lanes |-> job.start[3] + (iz - v) + l + v]
      BY <2>1
    <3> QED BY <3>1, <3>2
  <2>12. /\ iz' = v * (m + 1) + v /\ m + 1 \in Nat /\ iz' \in Nat /\ iz' <= c
         /\ index' = (ix' * b + iy') * c + iz' - v
    BY <1>2, <1>3, <2>1, <2>3, <2>4 DEF start
  <2>13. Filled(noiseSet, kernel, index + v)'
    <3>1. Filled(noiseSet', kernel', index' + v')
      BY <1>1, <2>8, SettingsStay
    <3> QED BY <1>1, <3>1, SettingsStay, PointsStay DEF Filled, Sets!Noise
  <2>14. RowGoesOn'
    BY <1>1, <1>2, <2>1, <2>10, <2>11, <2>12, <2>13, SettingsStay DEF RowGoesOn
  <2> QED BY <2>1, <2>9, <2>14
           DEF SetInv, RowStarts, VectorsGoOn, PointsMade, PointsGoOn, SetIsFilled
<1>9. CASE Sets!NextRow
  <2>1. /\ pc = "rest" /\ iz = c /\ index' = index + v
        /\ UNCHANGED <<job, kernel, iz, vectorSet, noiseSet>>
        /\ z' = Sets!zBase
        /\ index = start + iz - v
        /\ Filled(noiseSet, kernel, index + v)
    <3>1. /\ pc = "rest" /\ iz >= c /\ index' = index + v
          /\ UNCHANGED <<job, kernel, iz, vectorSet, noiseSet>>
          /\ z' = Sets!zBase
      BY <1>9 DEF Sets!NextRow
    <3>2. /\ iz \in Nat /\ iz <= c /\ index = start + iz - v
          /\ Filled(noiseSet, kernel, index + v)
      BY <3>1 DEF SetInv, RowGoesOn, start
    <3>3. iz = c
      BY <1>2, <3>1, <3>2
    <3> QED BY <3>1, <3>2, <3>3
  <2>2. index' = start + c /\ index + v = index'
    BY <1>2, <1>3, <2>1
  <2>3. Filled(noiseSet, kernel, index)'
    <3>1. Filled(noiseSet', kernel', index')
      BY <1>1, <2>1, <2>2
    <3> QED BY <1>1, <3>1, SettingsStay, PointsStay DEF Filled, Sets!Noise
  <2>4. z' = [l \in Sets!Lanes |-> job.start[3] + l]
    BY <2>1 DEF Sets!zBase
  <2>5. SetShape' /\ pc' \in {"row", "done"}
    BY <1>1, <1>2, <1>4, <1>9, <2>1, SettingsStay DEF SetShape, Sets!Slots, Sets!NextRow
  <2>6. CASE iy + 1 < b
    <3>1. /\ iy' = iy + 1 /\ y' = [l \in Sets!Lanes |-> y[l] + 1]
          /\ pc' = "row" /\ ix' = ix /\ x' = x
      BY <1>2, <2>6, <1>9 DEF Sets!NextRow
    <3>2. y' = [l \in Sets!Lanes |-> job.start[2] + iy']
      <4>1. \A l \in Sets!Lanes : y[l] + 1 = job.start[2] + iy'
        BY <1>1, <1>2, <3>1 DEF RowOK
      <4> QED BY <3>1, <4>1
    <3>3. RowOK'
      BY <1>1, <1>2, <2>6, <3>1, <3>2, SettingsStay DEF RowOK
    <3>4. index' = (ix' * b + iy') * c
      BY <1>1, <1>2, <2>2, <3>1, RowsBefore DEF start
    <3>5. RowStarts'
      BY <1>1, <2>3, <2>4, <3>3, <3>4, SettingsStay DEF RowStarts
    <3> QED BY <2>5, <3>1, <3>5
             DEF SetInv, RowGoesOn, VectorsGoOn, PointsMade, PointsGoOn, SetIsFilled
  <2>7. CASE iy + 1 >= b
    <3>1. /\ iy' = 0 /\ y' = Sets!yBase
          /\ ix' = ix + 1 /\ x' = [l \in Sets!Lanes |-> x[l] + 1]
          /\ pc' = IF ix' < Sets!xSize THEN "row" ELSE "done"
      BY <1>2, <2>7, <1>9 DEF Sets!NextRow
    <3>2. iy + 1 = b
      BY <1>2, <2>7
    <3>3. CASE ix' < Sets!xSize
      <4>1. x' = [l \in Sets!Lanes |-> job.start[1] + ix']
        <5>1. \A l \in Sets!Lanes : x[l] + 1 = job.start[1] + ix'
          BY <1>1, <1>2, <3>1 DEF RowOK
        <5> QED BY <3>1, <5>1
      <4>2. y' = [l \in Sets!Lanes |-> job.start[2] + iy']
        BY <1>2, <3>1 DEF Sets!yBase, Sets!AllLanes
      <4>3. RowOK'
        BY <1>1, <1>2, <3>1, <3>3, <4>1, <4>2, SettingsStay DEF RowOK
      <4>4. index' = (ix' * b + iy') * c
        BY <1>1, <1>2, <2>2, <3>1, <3>2, RowsBefore DEF start
      <4>5. RowStarts'
        BY <1>1, <2>3, <2>4, <4>3, <4>4, SettingsStay DEF RowStarts
      <4> QED BY <2>5, <3>1, <3>3, <4>5
               DEF SetInv, RowGoesOn, VectorsGoOn, PointsMade, PointsGoOn, SetIsFilled
    <3>4. CASE ~(ix' < Sets!xSize)
      <4>1. ix + 1 = Sets!xSize /\ pc' = "done"
        BY <1>2, <3>1, <3>4
      <4>2. index' = Sets!maxIndex
        <5>1. (ix * b + iy) * c + c = Sets!maxIndex
          BY <1>1, <1>2, <3>2, <4>1, RowsBefore
        <5> QED BY <2>2, <5>1 DEF start
      <4>3. Filled(noiseSet, kernel, Sets!maxIndex)'
        BY <1>1, <2>3, <4>2, SettingsStay DEF Filled
      <4>4. SetIsFilled'
        BY <1>1, <4>3, SettingsStay DEF SetIsFilled, RestIsStored
      <4> QED BY <2>5, <4>1, <4>4
               DEF SetInv, RowStarts, RowGoesOn, VectorsGoOn, PointsMade, PointsGoOn
    <3> QED BY <3>3, <3>4
  <2> QED BY <1>2, <2>6, <2>7
<1> QED BY <1>7, <1>8, <1>9

\* One vector of lanes, stored at its place.
LEMMA LanesStored ==
    ASSUME job \in Jobs, NEW n \in Nat, NEW count \in Nat, count <= Sets!VECTOR_SIZE,
           index \in Nat, index + count <= n, DOMAIN noiseSet = Sets!Slots(n),
           \A l \in Sets!Lanes : LaneAt(x[l], y[l], z[l], index + l),
           Filled(noiseSet, kernel, index),
           Sets!Store(index, count, LAMBDA l : Sets!Noise(kernel, Sets!Lane(l)))
    PROVE  /\ DOMAIN noiseSet' = Sets!Slots(n)
           /\ Filled(noiseSet', kernel, index + count)
<1>1. /\ DOMAIN noiseSet' = (index .. index + count - 1) \cup DOMAIN noiseSet
      /\ \A s \in DOMAIN noiseSet' : s \notin index .. index + count - 1 => noiseSet'[s] = noiseSet[s]
      /\ \A s \in index .. index + count - 1 :
            noiseSet'[s] = Sets!Noise(kernel, <<x[s - index], y[s - index], z[s - index]>>)
  BY DEF Sets!Store, Sets!Lane
<1>2. ASSUME NEW s \in index .. index + count - 1
      PROVE  noiseSet'[s] = Sets!Noise(kernel, Sets!Point(s))
  <2>1. Sets!VECTOR_SIZE \in Nat
    BY SizesOK
  <2>2. PICK l \in Nat : l = s - index /\ l < count /\ index + l = s
    OBVIOUS
  <2>3. l \in Sets!Lanes
    BY <2>1, <2>2 DEF Sets!Lanes
  <2>4. LaneAt(x[l], y[l], z[l], s)
    BY <2>2, <2>3
  <2>5. Sets!Point(s) = <<x[l], y[l], z[l]>>
    BY <2>4, LanePoint
  <2> QED BY <1>1, <2>2, <2>5
<1>3. \A s \in index .. index + count - 1 :
          s < Sets!maxIndex => noiseSet'[s] = Sets!Noise(kernel, Sets!Point(s))
  BY <1>2
<1>4. DOMAIN noiseSet' = Sets!Slots(n)
  BY <1>1 DEF Sets!Slots
<1>5. Filled(noiseSet', kernel, index + count)
  BY <1>1, <1>3, StoreOK
<1> QED BY <1>4, <1>5

LEMMA SetVectorsOK == SetInv /\ (Sets!StoreVector \/ Sets!StoreLast) => SetInv'
<1> SUFFICES ASSUME SetInv, Sets!StoreVector \/ Sets!StoreLast PROVE SetInv'
  OBVIOUS
<1> DEFINE v == Sets!VECTOR_SIZE
           n == Sets!AlignedSize(Sets!maxIndex)
<1>1. /\ job' = job /\ job \in Jobs /\ kernel' = kernel /\ vectorSet' = vectorSet
      /\ pc = "vector" /\ index < Sets!maxIndex /\ Filled(noiseSet, kernel, index) /\ ~job.vectors
      /\ \A l \in Sets!Lanes : LaneAt(x[l], y[l], z[l], index + l)
  BY DEF SetInv, SetShape, VectorsGoOn, Sets!StoreVector, Sets!StoreLast
<1>2. PICK m \in Nat : index = v * m
  BY <1>1 DEF SetInv, VectorsGoOn
<1>3. /\ v \in Nat /\ v > 0 /\ Sets!maxIndex \in Nat /\ Sets!ySize \in Nat /\ Sets!ySize > 0
      /\ Sets!zSize \in Nat /\ Sets!zSize > 0
      /\ job.start[1] \in Int /\ job.start[2] \in Int /\ job.start[3] \in Int
      /\ n \in Nat /\ n >= Sets!maxIndex /\ (~job.aligned => n = Sets!maxIndex)
  BY <1>1, SizesOK, MaxIndexOK, AlignedOK
<1>4. index \in Nat /\ v * (m + 1) = index + v
  <2> HIDE DEF v
  <2> QED BY <1>2, <1>3
<1>5. DOMAIN noiseSet = Sets!Slots(n)
  BY <1>1 DEF SetInv, SetShape
<1>6. CASE Sets!StoreVector
  <2>1. /\ pc' = "vector" /\ index < Sets!maxIndex - v /\ index' = index + v
        /\ Sets!Store(index, v, LAMBDA l : Sets!Noise(kernel, Sets!Lane(l)))
    BY <1>1, <1>6 DEF Sets!StoreVector
  <2>2. DOMAIN noiseSet' = Sets!Slots(n) /\ Filled(noiseSet', kernel, index + v)
    <3>1. index + v <= n /\ v <= Sets!VECTOR_SIZE
      BY <1>3, <1>4, <2>1
    <3> HIDE DEF v, n
    <3> QED BY <1>1, <1>3, <1>4, <1>5, <2>1, <3>1, LanesStored
  <2>3. SetShape'
    BY <1>1, <2>1, <2>2, SettingsStay DEF SetShape, Sets!Slots
  <2>4. ASSUME NEW l \in Sets!Lanes
        PROVE  LaneAt(x'[l], y'[l], z'[l], index' + l)
    <3> DEFINE p1 == x[l]
               p2 == y[l]
               p3 == z[l] + v
               q == Sets!AxisReset(<<p1, p2, p3>>, 0)
    <3>1. LaneAt(x[l], y[l], z[l], index + l)
      BY <1>1
    <3>2. x'[l] = q[1] /\ y'[l] = q[2] /\ z'[l] = q[3]
      BY <1>6 DEF Sets!StoreVector, Sets!SetLanes
    <3>3. /\ p1 \in Int /\ p2 \in Int /\ p3 \in Int /\ p2 - job.start[2] \in 0 .. Sets!ySize - 1
          /\ p3 - job.start[3] >= 0
          /\ p3 - job.start[3] + 0 * Sets!zSize < Sets!VECTOR_SIZE + Sets!zSize
      BY <1>3, <3>1 DEF LaneAt, InRanges
    <3>4. Pos(p1, p2, p3) = index' + l
      <4>1. /\ ((x[l] - job.start[1]) * Sets!ySize + (y[l] - job.start[2])) * Sets!zSize
                  + (z[l] - job.start[3]) = index + l
            /\ x[l] \in Int /\ y[l] \in Int /\ z[l] \in Int
        BY <3>1 DEF LaneAt, Pos
      <4> DEFINE u == ((x[l] - job.start[1]) * Sets!ySize + (y[l] - job.start[2])) * Sets!zSize
      <4>2. u \in Int /\ Pos(p1, p2, p3) = u + (p3 - job.start[3]) /\ l \in Int
        BY <1>3, <4>1 DEF Pos, Sets!Lanes
      <4>3. u + (z[l] - job.start[3]) = index + l
        BY <4>1
      <4>4. p3 - job.start[3] = (z[l] - job.start[3]) + v /\ z[l] - job.start[3] \in Int
        BY <1>3, <4>1
      <4>5. index' = index + v /\ index \in Int /\ v \in Int
        BY <1>3, <1>4, <2>1
      <4>6. u + ((z[l] - job.start[3]) + v) = (index + v) + l
        <5> DEFINE h == z[l] - job.start[3]
        <5>1. u + h = index + l /\ u \in Int /\ h \in Int /\ l \in Int
          BY <4>2, <4>3, <4>4
        <5> HIDE DEF u, v, h
        <5>2. u + (h + v) = (index + v) + l
          BY <4>5, <5>1
        <5> QED BY <5>2 DEF h
      <4> HIDE DEF u
      <4> QED BY <4>2, <4>4, <4>5, <4>6, Zenon
    <3> HIDE DEF p1, p2, p3
    <3>5. PICK q1, q2, q3 \in Int : /\ q = <<q1, q2, q3>>
                                    /\ Pos(q1, q2, q3) = Pos(p1, p2, p3) /\ InRanges(q2, q3)
      BY <1>1, <3>3, AxisResetOK
    <3> QED BY <3>2, <3>4, <3>5 DEF LaneAt
  <2>5. \A l \in Sets!Lanes' : (LaneAt(x[l], y[l], z[l], index + l))'
    BY <1>1, <2>4, SettingsStay DEF LaneAt, Pos, InRanges
  <2>6. index' < Sets!maxIndex' /\ \E k \in Nat : index' = Sets!VECTOR_SIZE' * k
    BY <1>1, <1>3, <1>4, <2>1, SettingsStay
  <2>7. Filled(noiseSet, kernel, index)'
    BY <1>1, <2>1, <2>2, SettingsStay, PointsStay DEF Filled, Sets!Noise
  <2>8. VectorsGoOn'
    BY <2>5, <2>6, <2>7 DEF VectorsGoOn
  <2> QED BY <2>1, <2>3, <2>8
           DEF SetInv, RowStarts, RowGoesOn, PointsMade, PointsGoOn, SetIsFilled
<1>7. CASE Sets!StoreLast
  <2> DEFINE count == Sets!LastCount
  <2>1. /\ pc' = "done" /\ index >= Sets!maxIndex - v
        /\ Sets!Store(index, count, LAMBDA l : Sets!Noise(kernel, Sets!Lane(l)))
        /\ UNCHANGED <<ix, iy, iz, index>>
    BY <1>7 DEF Sets!StoreLast, Sets!counters
  <2>2. count \in Nat /\ count <= v /\ index + count <= n /\ index + count >= Sets!maxIndex
    <3>1. CASE job.aligned
      <4>1. v * m + v <= n
        BY <1>1, <1>2, <3>1, VectorFits
      <4>2. count = v
        BY <3>1 DEF Sets!LastCount
      <4> HIDE DEF v, n, count
      <4> QED BY <1>2, <1>3, <1>4, <2>1, <4>1, <4>2
    <3>2. CASE ~job.aligned
      <4>1. count = Sets!maxIndex - index
        BY <3>2 DEF Sets!LastCount
      <4> QED BY <1>1, <1>3, <1>4, <2>1, <4>1
    <3> QED BY <3>1, <3>2
  <2>3. DOMAIN noiseSet' = Sets!Slots(n) /\ Filled(noiseSet', kernel, index + count)
    <3> HIDE DEF count, n
    <3> QED BY <1>1, <1>3, <1>4, <1>5, <2>1, <2>2, LanesStored
  <2>4. SetShape'
    BY <1>1, <2>1, <2>3, SettingsStay DEF SetShape, Sets!Slots
  <2>5. Filled(noiseSet', kernel, Sets!maxIndex)
    <3> HIDE DEF count
    <3> QED BY <1>3, <1>4, <2>2, <2>3 DEF Filled
  <2>6. Filled(noiseSet, kernel, Sets!maxIndex)'
    BY <1>1, <2>5, SettingsStay, PointsStay DEF Filled, Sets!Noise
  <2>7. SetIsFilled'
    BY <1>1, <2>6, SettingsStay DEF SetIsFilled, RestIsStored
  <2> QED BY <2>1, <2>4, <2>7
           DEF SetInv, RowStarts, RowGoesOn, VectorsGoOn, PointsMade, PointsGoOn
<1> QED BY <1>6, <1>7

LEMMA SetBuildersOK == SetInv /\ Sets!FillNoiseSet => SetInv'
BY SetBuilderOK
   DEF Sets!FillNoiseSet, Sets!FillSet, Sets!FillFractalSet, Sets!FillWhiteNoiseSet,
       Sets!FillCellularSet

LEMMA VectorSetBuilderOK ==
    ASSUME SetInv, NEW f, Sets!VectorSetBuilder(Sets!Scaled(f)) PROVE SetInv'
<1>1. /\ job' = job /\ job \in Jobs /\ pc = "fill" /\ pc' = "vectorset" /\ job.vectors
      /\ kernel' = Sets!Scaled(f) /\ vectorSet' = vectorSet /\ noiseSet' = noiseSet
      /\ index' = 0 /\ index = 0
  BY DEF SetInv, SetShape, Sets!VectorSetBuilder, Sets!counters
<1>2. Sets!VECTOR_SIZE \in Nat /\ Sets!VECTOR_SIZE > 0 /\ Sets!maxIndex \in Nat
  BY <1>1, SizesOK, MaxIndexOK
<1>3. SetShape'
  BY <1>1, SettingsStay DEF SetInv, SetShape, Sets!Slots
<1>4. PointsMade'
  BY <1>1, SettingsStay, PointsStay DEF SetInv, PointsMade
<1>5. PointsGoOn'
  <2>1. kernel' = [f |-> kernel'.f, scaled |-> TRUE, perturb |-> job'.perturb]
    BY <1>1 DEF Sets!Scaled
  <2>2. index' = Sets!VECTOR_SIZE' * 0
    BY <1>1, <1>2, SettingsStay
  <2>3. ~job.aligned => index' <= Sets!loopMax'
    <3> DEFINE v == Sets!VECTOR_SIZE
               q == Sets!maxIndex \div v
    <3>1. v \in Nat /\ v > 0 /\ q \in Nat
      BY <1>2
    <3>2. ~job.aligned => Sets!loopMax = v * q
      BY DEF Sets!loopMax
    <3> HIDE DEF v, q
    <3>3. v * q >= 0
      BY <3>1
    <3> QED BY <1>1, <3>2, <3>3, SettingsStay
  <2>4. Filled(noiseSet, kernel, index)'
    BY <1>1 DEF Filled
  <2> QED BY <1>1, <2>1, <2>2, <2>3, <2>4 DEF PointsGoOn
<1> QED
  BY <1>1, <1>3, <1>4, <1>5 DEF SetInv, RowStarts, RowGoesOn, VectorsGoOn, SetIsFilled

LEMMA VectorSetBuildersOK == SetInv /\ Sets!FillNoiseSetOfPoints => SetInv'
BY VectorSetBuilderOK
   DEF Sets!FillNoiseSetOfPoints, Sets!FillSetOfPoints, Sets!FillFractalSetOfPoints,
       Sets!FillCellularSetOfPoints

\* The points of a vector set are those of the box, moved by its start.
LEMMA FromSetOK ==
    ASSUME SetInv, pc = "vectorset", job.vectors, NEW s \in Nat, s < Sets!maxIndex
    PROVE  Sets!FromSet(s) = Sets!Point(s)
<1> DEFINE b == Sets!ySize
           c == Sets!zSize
           p == BoxPoint(s)
<1>1. vectorSet[s] = p
  BY DEF SetInv, PointsMade
<1>2. /\ b \in Nat /\ b > 0 /\ c \in Nat /\ c > 0
      /\ job.start[1] \in Int /\ job.start[2] \in Int /\ job.start[3] \in Int
  BY SizesOK DEF SetInv, SetShape
<1>3. s \div (b * c) \in Nat /\ (s \div c) % b \in Nat /\ s % c \in Nat
  <2> HIDE DEF b, c
  <2>1. b * c \in Nat /\ b * c > 0
    BY <1>2
  <2> DEFINE d == b * c
  <2>2. d \in Nat /\ d > 0
    BY <2>1
  <2> HIDE DEF d
  <2>3. s \div d \in Nat
    BY <2>2
  <2>4. s \div c \in Nat /\ s % c \in Nat
    BY <1>2
  <2>5. (s \div c) % b \in Nat
    BY <1>2, <2>4
  <2> QED BY <2>3, <2>4, <2>5 DEF d
<1>4. p = <<s \div (b * c), (s \div c) % b, s % c>>
  BY DEF BoxPoint
<1>5. p \in Nat \X Nat \X Nat
  BY <1>3, <1>4
<1> DEFINE e1 == s \div (b * c)
           e2 == (s \div c) % b
           e3 == s % c
<1>6. Sets!Point(s) = <<job.start[1] + e1, job.start[2] + e2, job.start[3] + e3>>
  BY DEF Sets!Point
<1>7. vectorSet[s] # Uninit
  BY <1>1, <1>5, UninitAssumption
<1>8. Sets!FromSet(s) = [a \in 1 .. 3 |-> vectorSet[s][a] + job.start[a]]
  BY <1>7 DEF Sets!FromSet
<1>9. p = <<e1, e2, e3>> /\ e1 \in Nat /\ e2 \in Nat /\ e3 \in Nat
  BY <1>3, <1>4
<1> HIDE DEF p, e1, e2, e3
<1>10. [a \in 1 .. 3 |-> p[a] + job.start[a]] = <<job.start[1] + e1, job.start[2] + e2, job.start[3] + e3>>
  <2>1. 1 .. 3 = {1, 2, 3}
    OBVIOUS
  <2>2. p[1] + job.start[1] = job.start[1] + e1 /\ p[2] + job.start[2] = job.start[2] + e2
        /\ p[3] + job.start[3] = job.start[3] + e3
    BY <1>2, <1>9
  <2>3. \A a \in 1 .. 3 : p[a] + job.start[a] =
             <<job.start[1] + e1, job.start[2] + e2, job.start[3] + e3>>[a]
    BY <2>2
  <2> QED BY <2>1, <2>3
<1> QED BY <1>1, <1>6, <1>8, <1>10

\* The vectors of an unaligned set end before its end, by less than a vector.
LEMMA LoopMaxOK ==
    ASSUME job \in Jobs
    PROVE  /\ Sets!loopMax \in Nat /\ Sets!loopMax <= Sets!maxIndex
           /\ Sets!maxIndex < Sets!loopMax + Sets!VECTOR_SIZE
           /\ job.aligned => Sets!loopMax = Sets!maxIndex
           /\ ~job.aligned => \E q \in Nat : Sets!loopMax = Sets!VECTOR_SIZE * q
<1> DEFINE v == Sets!VECTOR_SIZE
           n == Sets!maxIndex
           q == n \div v
<1>1. v \in Nat /\ v > 0 /\ n \in Nat
  BY SizesOK, MaxIndexOK
<1>2. Sets!loopMax = IF job.aligned THEN n ELSE v * q
  BY DEF Sets!loopMax
<1>3. q \in Nat /\ n = v * q + (n % v) /\ n % v \in 0 .. v - 1
  <2> HIDE DEF v, n
  <2> QED BY <1>1
<1> HIDE DEF v, n, q
<1>4. v * q \in Nat
  BY <1>1, <1>3
<1>5. v * q <= n /\ n < v * q + v /\ n < n + v
  BY <1>1, <1>3, <1>4
<1> QED BY <1>1, <1>2, <1>3, <1>4, <1>5 DEF v, n

\* A vector of points that starts in front of them lies in the set.
LEMMA PointsFit ==
    ASSUME SetInv, pc = "vectorset", index < Sets!loopMax
    PROVE  /\ index + Sets!VECTOR_SIZE <= Sets!AlignedSize(Sets!maxIndex)
           /\ ~job.aligned => index + Sets!VECTOR_SIZE <= Sets!loopMax
<1> DEFINE v == Sets!VECTOR_SIZE
           n == Sets!AlignedSize(Sets!maxIndex)
<1>1. job \in Jobs
  BY DEF SetInv, SetShape
<1>2. PICK m \in Nat : index = v * m
  BY DEF SetInv, PointsGoOn
<1>3. /\ v \in Nat /\ v > 0 /\ Sets!maxIndex \in Nat /\ n \in Nat
      /\ ~job.aligned => n = Sets!maxIndex
      /\ Sets!loopMax \in Nat /\ Sets!loopMax <= Sets!maxIndex
      /\ job.aligned => Sets!loopMax = Sets!maxIndex
  BY <1>1, SizesOK, MaxIndexOK, AlignedOK, LoopMaxOK
<1>4. CASE job.aligned
  <2>1. v * m + v <= n
    BY <1>1, <1>2, <1>3, <1>4, VectorFits
  <2> HIDE DEF v, n
  <2> QED BY <1>2, <1>4, <2>1 DEF v, n
<1>5. CASE ~job.aligned
  <2>1. PICK q \in Nat : Sets!loopMax = v * q
    BY <1>1, <1>5, LoopMaxOK
  <2> HIDE DEF v, n
  <2>2. v * m + v <= v * q
    BY <1>2, <1>3, <2>1, NextMultiple
  <2>3. v * m \in Nat
    BY <1>3
  <2> QED BY <1>2, <1>3, <1>5, <2>1, <2>2, <2>3 DEF v, n
<1> QED BY <1>4, <1>5

LEMMA SetPointsOK == SetInv /\ (Sets!StoreFromSet \/ Sets!SafeLast) => SetInv'
<1> SUFFICES ASSUME SetInv, Sets!StoreFromSet \/ Sets!SafeLast PROVE SetInv'
  OBVIOUS
<1> DEFINE v == Sets!VECTOR_SIZE
           n == Sets!AlignedSize(Sets!maxIndex)
<1>1. /\ job' = job /\ job \in Jobs /\ kernel' = kernel /\ vectorSet' = vectorSet
      /\ pc = "vectorset" /\ job.vectors /\ Filled(noiseSet, kernel, index)
      /\ ~job.aligned => index <= Sets!loopMax
      /\ kernel = [f |-> kernel.f, scaled |-> TRUE, perturb |-> job.perturb]
  BY DEF SetInv, SetShape, PointsGoOn, Sets!StoreFromSet, Sets!SafeLast
<1>2. PICK m \in Nat : index = v * m
  BY <1>1 DEF SetInv, PointsGoOn
<1>3. /\ v \in Nat /\ v > 0 /\ Sets!maxIndex \in Nat
      /\ n \in Nat /\ n >= Sets!maxIndex /\ (~job.aligned => n = Sets!maxIndex)
  BY <1>1, SizesOK, MaxIndexOK, AlignedOK
<1>4. index \in Nat /\ v * (m + 1) = index + v
  <2> HIDE DEF v
  <2> QED BY <1>2, <1>3
<1>5. DOMAIN noiseSet = Sets!Slots(n)
  BY <1>1 DEF SetInv, SetShape
<1>6. /\ job.aligned => Sets!loopMax = Sets!maxIndex
      /\ Sets!loopMax \in Nat /\ Sets!loopMax <= Sets!maxIndex
  BY <1>1, LoopMaxOK
<1>7. CASE Sets!StoreFromSet
  <2>1. /\ pc' = "vectorset" /\ index < Sets!loopMax /\ index' = index + v
        /\ DOMAIN noiseSet' = (index .. index + v - 1) \cup DOMAIN noiseSet
        /\ \A s \in DOMAIN noiseSet' : s \notin index .. index + v - 1 => noiseSet'[s] = noiseSet[s]
        /\ \A s \in index .. index + v - 1 :
              noiseSet'[s] = Sets!Noise(kernel, Sets!FromSet(index + (s - index)))
    BY <1>1, <1>7 DEF Sets!StoreFromSet, Sets!Store
  <2>2. ASSUME NEW s \in index .. index + v - 1, s < Sets!maxIndex
        PROVE  noiseSet'[s] = Sets!Noise(kernel, Sets!Point(s))
    <3>1. index + (s - index) = s /\ s \in Nat
      BY <1>4
    <3>2. Sets!FromSet(s) = Sets!Point(s)
      BY <1>1, <2>2, <3>1, FromSetOK
    <3> QED BY <2>1, <3>1, <3>2
  <2>3. index + v <= n /\ (~job.aligned => index + v <= Sets!loopMax)
    BY <1>1, <2>1, PointsFit
  <2>4. DOMAIN noiseSet' = Sets!Slots(n)
    <3> HIDE DEF v, n
    <3> QED BY <1>3, <1>4, <1>5, <2>1, <2>3 DEF Sets!Slots
  <2>5. Filled(noiseSet', kernel, index + v)
    <3> HIDE DEF v, n
    <3>1. \A s \in index .. index + v - 1 :
              s < Sets!maxIndex => noiseSet'[s] = Sets!Noise(kernel, Sets!Point(s))
      BY <2>2
    <3> QED BY <1>1, <1>3, <1>4, <1>5, <2>1, <2>3, <3>1, StoreOK
  <2>6. SetShape'
    BY <1>1, <2>1, <2>4, SettingsStay DEF SetShape, Sets!Slots
  <2>7. Filled(noiseSet, kernel, index)'
    BY <1>1, <2>1, <2>5, SettingsStay, PointsStay DEF Filled, Sets!Noise
  <2>8. \E k \in Nat : index' = Sets!VECTOR_SIZE' * k
    BY <1>1, <1>4, <2>1, SettingsStay
  <2>9. PointsGoOn'
    BY <1>1, <2>1, <2>3, <2>7, <2>8, SettingsStay DEF PointsGoOn
  <2>10. PointsMade'
    BY <1>1, SettingsStay, PointsStay DEF SetInv, PointsMade
  <2> QED BY <2>1, <2>6, <2>9, <2>10
           DEF SetInv, RowStarts, RowGoesOn, VectorsGoOn, SetIsFilled
<1>8. CASE Sets!SafeLast
  <2>1. pc' = "done" /\ index >= Sets!loopMax
    BY <1>8 DEF Sets!SafeLast
  <2>2. CASE ~Sets!HasRest
    <3>1. noiseSet' = noiseSet /\ index >= Sets!maxIndex
      BY <1>6, <1>8, <2>1, <2>2 DEF Sets!SafeLast, Sets!HasRest
    <3>2. Filled(noiseSet, kernel, Sets!maxIndex)
      BY <1>1, <1>3, <1>4, <3>1 DEF Filled
    <3>3. Filled(noiseSet, kernel, Sets!maxIndex)'
      BY <1>1, <3>1, <3>2, SettingsStay, PointsStay DEF Filled, Sets!Noise
    <3>4. SetShape'
      BY <1>1, <1>5, <2>1, <3>1, SettingsStay DEF SetShape, Sets!Slots
    <3>5. SetIsFilled'
      BY <1>1, <2>2, <3>3, SettingsStay DEF SetIsFilled, RestIsStored
    <3> QED BY <2>1, <3>4, <3>5
             DEF SetInv, RowStarts, RowGoesOn, VectorsGoOn, PointsMade, PointsGoOn
  <2>3. CASE Sets!HasRest
    <3> DEFINE count == Sets!maxIndex - Sets!loopMax
               rest == Sets!OfRest(kernel)
    <3>1. ~job.aligned /\ index = Sets!loopMax /\ count \in Nat /\ index + count = Sets!maxIndex
      BY <1>1, <1>3, <1>4, <1>6, <2>1, <2>3 DEF Sets!HasRest
    <3> HIDE DEF count, rest
    <3>2. /\ DOMAIN noiseSet' = (index .. index + count - 1) \cup DOMAIN noiseSet
          /\ \A s \in DOMAIN noiseSet' : s \notin index .. index + count - 1 => noiseSet'[s] = noiseSet[s]
          /\ \A s \in index .. index + count - 1 :
                noiseSet'[s] = Sets!Noise(rest, Sets!FromSet(index + (s - index)))
      BY <1>8, <2>3 DEF Sets!SafeLast, Sets!Store, count, rest
    <3>3. DOMAIN noiseSet' = Sets!Slots(n)
      <4> HIDE DEF n
      <4> QED BY <1>3, <1>4, <1>5, <2>3, <3>1, <3>2 DEF Sets!Slots
    <3>4. ASSUME NEW s \in Nat, Sets!loopMax <= s, s < Sets!maxIndex
          PROVE  noiseSet'[s] = Sets!Noise(rest, Sets!Point(s))
      <4>1. index + (s - index) = s /\ s \in index .. index + count - 1
        BY <1>3, <1>4, <3>1, <3>4
      <4>2. Sets!FromSet(s) = Sets!Point(s)
        BY <1>1, <3>4, FromSetOK
      <4> QED BY <3>2, <4>1, <4>2
    <3>5. Filled(noiseSet', kernel, Sets!loopMax)
      <4> SUFFICES ASSUME NEW s \in Nat, s < index, s < Sets!maxIndex
                   PROVE  noiseSet'[s] = Sets!Noise(kernel, Sets!Point(s))
        BY <3>1 DEF Filled
      <4>1. s \in DOMAIN noiseSet' /\ s \notin index .. index + count - 1
        <5> HIDE DEF n
        <5> QED BY <1>3, <1>4, <3>3 DEF Sets!Slots
      <4>2. noiseSet[s] = Sets!Noise(kernel, Sets!Point(s))
        BY <1>1 DEF Filled
      <4> QED BY <3>2, <4>1, <4>2
    <3>6. SetIsFilled'
      <4>1. RestIsStored' /\ Sets!loopMax' = Sets!loopMax /\ Sets!maxIndex' = Sets!maxIndex
        BY <1>1, <2>3, SettingsStay DEF RestIsStored
      <4>2. Filled(noiseSet, kernel, Sets!loopMax)'
        BY <1>1, <3>5, SettingsStay, PointsStay DEF Filled, Sets!Noise
      <4>3. \A s \in Nat : Sets!loopMax <= s /\ s < Sets!maxIndex =>
               noiseSet'[s] = Sets!Noise(Sets!OfRest(kernel), Sets!Point(s))
        BY <3>4 DEF rest
      <4>4. \A s \in Nat : (Sets!loopMax <= s /\ s < Sets!maxIndex =>
               noiseSet[s] = Sets!Noise(Sets!OfRest(kernel), Sets!Point(s)))'
        BY <1>1, <4>1, <4>3, PointsStay DEF Sets!Noise, Sets!OfRest
      <4> QED BY <4>1, <4>2, <4>4 DEF SetIsFilled
    <3>7. SetShape'
      BY <1>1, <2>1, <3>3, SettingsStay DEF SetShape, Sets!Slots
    <3> QED BY <2>1, <3>6, <3>7
             DEF SetInv, RowStarts, RowGoesOn, VectorsGoOn, PointsMade, PointsGoOn
  <2> QED BY <2>2, <2>3
<1> QED BY <1>7, <1>8

LEMMA SetNextOK == SetInv /\ [Sets!Next]_(Sets!vars) => SetInv'
<1> SUFFICES ASSUME SetInv, [Sets!Next]_(Sets!vars) PROVE SetInv'
  OBVIOUS
<1>1. CASE UNCHANGED Sets!vars
  <2>1. /\ job' = job /\ pc' = pc /\ kernel' = kernel /\ x' = x /\ y' = y /\ z' = z
        /\ ix' = ix /\ iy' = iy /\ iz' = iz /\ index' = index /\ vectorSet' = vectorSet
        /\ noiseSet' = noiseSet
    BY <1>1 DEF Sets!vars
  <2>2. SetShape'
    BY <2>1, SettingsStay DEF SetInv, SetShape, Sets!Slots
  <2>3. \A k, kn : Filled(noiseSet, kn, k)' <=> Filled(noiseSet, kn, k)
    BY <2>1, SettingsStay, PointsStay DEF Filled, Sets!Noise
  <2>4. RowOK' <=> RowOK
    BY <2>1, SettingsStay DEF RowOK
  <2>5. RowStarts' /\ RowGoesOn'
    BY <2>1, <2>3, <2>4, SettingsStay DEF SetInv, RowStarts, RowGoesOn, Filled
  <2>6. VectorsGoOn'
    BY <2>1, SettingsStay, PointsStay DEF SetInv, VectorsGoOn, Filled, LaneAt, InRanges, Pos, Sets!Noise
  <2>7. PointsMade' /\ PointsGoOn' /\ SetIsFilled'
    BY <2>1, SettingsStay, PointsStay
       DEF SetInv, PointsMade, PointsGoOn, SetIsFilled, Filled, Sets!Noise, Sets!OfRest
  <2> QED BY <2>2, <2>5, <2>6, <2>7 DEF SetInv
<1>2. CASE Sets!Next
  BY <1>2, SetGetOK, SetBuildersOK, VectorSetBuildersOK, SetRowsOK, SetVectorsOK, SetPointsOK
     DEF Sets!Next
<1> QED BY <1>1, <1>2

LEMMA SetIsSafe == SetInv => Sets!StoresInSet
BY DEF SetInv, SetShape, Sets!StoresInSet

LEMMA SetIsNoise == SetInv => Sets!SetHoldsNoise
<1> SUFFICES ASSUME SetInv, pc = "done", NEW s \in Sets!Slots(Sets!maxIndex)
             PROVE  noiseSet[s] = Sets!Noise(IF RestIsStored /\ s >= Sets!loopMax
                                             THEN Sets!OfRest(kernel) ELSE kernel, Sets!Point(s))
  BY DEF Sets!SetHoldsNoise, RestIsStored
<1>1. job \in Jobs /\ Sets!maxIndex \in Nat /\ Sets!loopMax \in Nat
  BY MaxIndexOK, LoopMaxOK DEF SetInv, SetShape
<1>2. s \in Nat /\ s < Sets!maxIndex
  BY <1>1 DEF Sets!Slots
<1>3. CASE RestIsStored /\ s >= Sets!loopMax
  BY <1>1, <1>2, <1>3 DEF SetInv, SetIsFilled
<1>4. CASE RestIsStored /\ ~(s >= Sets!loopMax)
  BY <1>1, <1>2, <1>4 DEF SetInv, SetIsFilled, Filled
<1>5. CASE ~RestIsStored
  BY <1>2, <1>5 DEF SetInv, SetIsFilled, Filled
<1> QED BY <1>3, <1>4, <1>5

LEMMA SetLoadsInit == Sets!Init => Sets!LoadsInSet
BY DEF Sets!Init, Sets!LoadsInSet

\* Only the load of the rest reaches behind the points.
LEMMA SetLoadsOK ==
    SetInv /\ Sets!LoadsInSet /\ [Sets!Next]_(Sets!vars) => Sets!LoadsInSet'
<1> SUFFICES ASSUME SetInv, Sets!LoadsInSet, [Sets!Next]_(Sets!vars) PROVE Sets!LoadsInSet'
  OBVIOUS
<1> DEFINE v == Sets!VECTOR_SIZE
           n == Sets!AlignedSize(Sets!maxIndex)
<1>1. job' = job /\ job \in Jobs
  BY DEF SetInv, SetShape, Sets!vars, Sets!Next, Sets!GetNoiseSet, Sets!FillVectorSet,
         Sets!FillNoiseSet, Sets!FillSet, Sets!FillFractalSet, Sets!FillWhiteNoiseSet,
         Sets!FillCellularSet, Sets!SetBuilder, Sets!FillNoiseSetOfPoints, Sets!FillSetOfPoints,
         Sets!FillFractalSetOfPoints, Sets!FillCellularSetOfPoints, Sets!VectorSetBuilder,
         Sets!FirstOfRow, Sets!RestOfRow, Sets!NextRow, Sets!StoreVector, Sets!StoreLast,
         Sets!StoreFromSet, Sets!SafeLast
<1>2. /\ v \in Nat /\ Sets!maxIndex \in Nat /\ n \in Nat /\ Sets!loopMax \in Nat
      /\ ~job.aligned => n = Sets!maxIndex
      /\ Sets!maxIndex < Sets!loopMax + v
  BY <1>1, SizesOK, MaxIndexOK, AlignedOK, LoopMaxOK
<1>3. ASSUME behind' = 0, ~(pc' = "done" /\ RestIsStored) PROVE Sets!LoadsInSet'
  BY <1>1, <1>3, SettingsStay DEF Sets!LoadsInSet, RestIsStored
<1>4. ASSUME pc # "done" PROVE behind = 0
  BY <1>4 DEF Sets!LoadsInSet
<1>5. CASE Sets!GetNoiseSet \/ Sets!FillVectorSet
  BY <1>3, <1>4, <1>5 DEF Sets!GetNoiseSet, Sets!FillVectorSet
<1>6. CASE Sets!FillNoiseSet \/ Sets!FillNoiseSetOfPoints
  <2>1. pc = "fill" /\ pc' # "done" /\ behind' = behind
    BY <1>6
       DEF Sets!FillNoiseSet, Sets!FillSet, Sets!FillFractalSet, Sets!FillWhiteNoiseSet,
           Sets!FillCellularSet, Sets!SetBuilder, Sets!FillNoiseSetOfPoints,
           Sets!FillSetOfPoints, Sets!FillFractalSetOfPoints, Sets!FillCellularSetOfPoints,
           Sets!VectorSetBuilder
  <2> QED BY <1>3, <1>4, <2>1
<1>7. CASE Sets!FirstOfRow \/ Sets!RestOfRow \/ Sets!NextRow \/ Sets!StoreVector \/ Sets!StoreLast
  <2>1. pc \in {"row", "rest", "vector"} /\ behind' = behind
    BY <1>7 DEF Sets!FirstOfRow, Sets!RestOfRow, Sets!NextRow, Sets!StoreVector, Sets!StoreLast
  <2>2. ~RestIsStored
    BY <2>1 DEF SetInv, SetShape, RestIsStored
  <2> QED BY <1>3, <1>4, <2>1, <2>2
<1>8. CASE Sets!StoreFromSet
  <2>1. /\ pc = "vectorset" /\ pc' = pc /\ index < Sets!loopMax
        /\ behind' = IF index + v > n THEN index + v - n ELSE 0
    BY <1>8 DEF Sets!StoreFromSet, Sets!Load
  <2>2. index + v <= n /\ index \in Nat
    <3>1. PICK m \in Nat : index = v * m
      BY <2>1 DEF SetInv, PointsGoOn
    <3>2. index \in Nat
      <4> HIDE DEF v
      <4> QED BY <1>2, <3>1
    <3> QED BY <2>1, <3>2, PointsFit
  <2>3. behind' = 0
    <3> HIDE DEF v, n
    <3> QED BY <1>2, <2>1, <2>2
  <2> QED BY <1>3, <2>1, <2>3
<1>9. CASE Sets!SafeLast
  <2>1. pc = "vectorset" /\ pc' = "done" /\ index >= Sets!loopMax
    BY <1>9 DEF Sets!SafeLast
  <2>2. CASE ~Sets!HasRest
    <3>1. behind' = 0
      BY <1>4, <1>9, <2>1, <2>2 DEF Sets!SafeLast
    <3> QED BY <1>3, <2>2, <3>1 DEF RestIsStored
  <2>3. CASE Sets!HasRest
    <3>1. job.vectors /\ index <= Sets!loopMax /\ ~job.aligned
      BY <2>1, <2>3 DEF SetInv, PointsGoOn, Sets!HasRest
    <3>2. PICK m \in Nat : index = v * m
      BY <2>1 DEF SetInv, PointsGoOn
    <3>3. index \in Nat
      <4> HIDE DEF v
      <4> QED BY <1>2, <3>2
    <3>4. behind' = IF index + v > n THEN index + v - n ELSE 0
      BY <1>9, <2>3 DEF Sets!SafeLast, Sets!Load
    <3>5. behind' = Sets!loopMax + v - Sets!maxIndex
      <4> HIDE DEF v, n
      <4> QED BY <1>2, <2>1, <3>1, <3>3, <3>4
    <3>6. RestIsStored
      BY <2>3, <3>1 DEF RestIsStored
    <3> QED BY <1>1, <2>1, <3>5, <3>6, SettingsStay DEF Sets!LoadsInSet, RestIsStored
  <2> QED BY <2>2, <2>3
<1>10. CASE UNCHANGED Sets!vars
  BY <1>1, <1>10, SettingsStay DEF Sets!vars, Sets!LoadsInSet, RestIsStored
<1> QED
  BY <1>5, <1>6, <1>7, <1>8, <1>9, <1>10 DEF Sets!Next

-----------------------------------------------------------------------------
(***************************************************************************)
(* SampledNoise.  The cells that were visited and the numbers below        *)
(* localCount are the points that are there, each with its own place.      *)
(***************************************************************************)
Sample == Samples!sampleSize

LEMMA SampleSizesOK ==
    ASSUME job \in SampleJobs
    PROVE  /\ Sample \in Nat \ {0} /\ job.vectorSize \in Nat \ {0}
           /\ \A a \in 1 .. 3 :
                 /\ job.size[a] \in Nat \ {0} /\ job.start[a] \in Int
                 /\ Samples!Offset(a) \in 0 .. Sample - 1
                 /\ Samples!sizeSample[a] = (job.size[a] + Samples!Offset(a) + Sample - 1) \div Sample + 1
                 /\ Samples!sizeSample[a] \in Nat /\ Samples!sizeSample[a] > 1
<1>1. /\ Sample \in Nat \ {0} /\ job.vectorSize \in Nat \ {0}
      /\ \A a \in 1 .. 3 : job.size[a] \in Nat \ {0} /\ job.start[a] \in Int
  BY SampleJobsAssumption DEF Sample, Samples!sampleSize
<1>2. ASSUME NEW a \in 1 .. 3 PROVE Samples!Offset(a) \in 0 .. Sample - 1
  <2> DEFINE S == Sample
             r == job.start[a] % S
  <2>1. S \in Nat \ {0} /\ job.start[a] \in Int
    BY <1>1
  <2> HIDE DEF S
  <2>2. r \in 0 .. S - 1
    BY <2>1
  <2> HIDE DEF r
  <2>3. (S - r) % S \in 0 .. S - 1
    BY <2>1, <2>2
  <2> QED BY <2>1, <2>3 DEF Samples!Offset, Sample, S, r
<1>3. ASSUME NEW a \in 1 .. 3
      PROVE  /\ Samples!sizeSample[a] = (job.size[a] + Samples!Offset(a) + Sample - 1) \div Sample + 1
             /\ Samples!sizeSample[a] \in Nat /\ Samples!sizeSample[a] > 1
  <2> DEFINE w == job.size[a] + Samples!Offset(a) + Sample - 1
             S == Sample
  <2>1. Samples!sizeSample[a] = w \div S + 1
    BY DEF Samples!sizeSample, Samples!ceil, Sample, Samples!Axes
  <2>2. S \in Nat \ {0} /\ w \in Nat /\ w >= S
    BY <1>1, <1>2
  <2> HIDE DEF w, S
  <2>3. w \div S \in Nat /\ w \div S >= 1
    <3>1. w \div S \in Nat /\ w = (w \div S) * S + (w % S) /\ w % S < S
      BY <2>2
    <3> QED BY <2>2, <3>1
  <2> QED BY <2>1, <2>3 DEF w, S
<1> QED BY <1>1, <1>2, <1>3

\* The place a point is interpolated for.
PlaceOf(p1, p2, p3) ==
    [a \in 1 .. 3 |-> 2 * (job.start[a] + <<p1, p2, p3>>[a] + Samples!Shift(a))
                        + IF job.vectors THEN 0 ELSE 1]

SampleAt(s) ==
    [a \in 1 .. 3 |->
        IF job.vectors THEN 2 * (Sample * Samples!PointOf(s)[a] + job.start[a]) - 1
        ELSE 2 * Sample * (job.start[a] \div Sample + Samples!PointOf(s)[a])]

\* The points of the set that are in cells in front of this one, or in front
\* of the next vector of it.
CellOf(a, p) == (p + Samples!Offset(a)) \div Sample
LocalOf(a, p) == (p + Samples!Offset(a)) % Sample
NumberOf(p1, p2, p3) ==
    (LocalOf(1, p1) * Sample + LocalOf(2, p2)) * Sample + LocalOf(3, p3)

InCell(p1, p2, p3) == CellOf(1, p1) = x /\ CellOf(2, p2) = y /\ CellOf(3, p3) = z

Visited(p1, p2, p3) ==
    \/ CellOf(1, p1) < x
    \/ CellOf(1, p1) = x /\ CellOf(2, p2) < y
    \/ CellOf(1, p1) = x /\ CellOf(2, p2) = y /\ CellOf(3, p3) < z
    \/ InCell(p1, p2, p3) /\ NumberOf(p1, p2, p3) < localCount

IsPoint(p1, p2, p3) == /\ p1 \in Samples!Slots(job.size[1]) /\ p2 \in Samples!Slots(job.size[2])
                       /\ p3 \in Samples!Slots(job.size[3])

PointStored(p1, p2, p3) == noiseSet[Samples!At(job.size, p1, p2, p3)] = PlaceOf(p1, p2, p3)

SampleShape ==
    /\ job \in SampleJobs /\ pc \in {"sample", "cell", "done"}
    /\ x \in Nat /\ y \in Nat /\ z \in Nat /\ localCount \in Nat
    /\ pc # "sample" => DOMAIN noiseSet = Samples!Slots(Samples!Count(job.size))
    /\ pc = "sample" => x = 0 /\ y = 0 /\ z = 0 /\ localCount = 0
    /\ pc = "cell" => x + 1 < Samples!sizeSample[1] /\ y + 1 < Samples!sizeSample[2]
                      /\ z + 1 < Samples!sizeSample[3]

SampleMade ==
    pc = "cell" => sample = [s \in Samples!Slots(Samples!Count(Samples!sizeSample)) |-> SampleAt(s)]

PointsStored ==
    pc \in {"cell", "done"} =>
        \A p1, p2, p3 : IsPoint(p1, p2, p3) /\ (pc = "cell" => Visited(p1, p2, p3))
                        => PointStored(p1, p2, p3)

SampleInv == SampleShape /\ SampleMade /\ PointsStored

\* Three coordinates in range have a number of their own in a grid.
LEMMA AtOK ==
    ASSUME NEW size, NEW p1 \in Nat, NEW p2 \in Nat, NEW p3 \in Nat,
           size[1] \in Nat, size[2] \in Nat, size[3] \in Nat,
           p1 < size[1], p2 < size[2], p3 < size[3]
    PROVE  /\ Samples!At(size, p1, p2, p3) \in Samples!Slots(Samples!Count(size))
           /\ IsNumber(Samples!At(size, p1, p2, p3), size[2], size[3], p1, p2, p3)
<1> DEFINE a == size[1]
           b == size[2]
           c == size[3]
           u == p1 * b + p2
           ab == a * b
<1>1. Samples!At(size, p1, p2, p3) = u * c + p3 /\ Samples!Count(size) = ab * c
  BY DEF Samples!At, Samples!Count
<1>2. a \in Nat /\ b \in Nat \ {0} /\ c \in Nat \ {0} /\ p1 < a /\ p2 < b /\ p3 < c
  OBVIOUS
<1>3. IsNumber(Samples!At(size, p1, p2, p3), b, c, p1, p2, p3)
  BY <1>1, <1>2 DEF IsNumber
<1> HIDE DEF a, b, c
<1>4. u \in Nat /\ ab \in Nat /\ u + 1 <= ab
  <2>1. (a - (p1 + 1)) * b >= 0 /\ (a - (p1 + 1)) * b = a * b - p1 * b - b
    BY <1>2
  <2>2. a * b \in Nat /\ p1 * b \in Nat
    BY <1>2
  <2> QED BY <1>2, <2>1, <2>2
<1> HIDE DEF u, ab
<1>5. (ab - (u + 1)) * c >= 0 /\ (ab - (u + 1)) * c = ab * c - u * c - c
  BY <1>2, <1>4
<1>6. ab * c \in Nat /\ u * c \in Nat
  BY <1>2, <1>4
<1>7. u * c + p3 \in 0 .. ab * c - 1
  BY <1>2, <1>5, <1>6
<1> QED BY <1>1, <1>3, <1>7 DEF Samples!Slots, a, b, c

LEMMA AtInjective ==
    ASSUME NEW size, NEW p1, NEW p2, NEW p3, NEW q1, NEW q2, NEW q3,
           IsNumber(Samples!At(size, p1, p2, p3), size[2], size[3], p1, p2, p3),
           IsNumber(Samples!At(size, q1, q2, q3), size[2], size[3], q1, q2, q3),
           Samples!At(size, p1, p2, p3) = Samples!At(size, q1, q2, q3)
    PROVE  p1 = q1 /\ p2 = q2 /\ p3 = q3
<1> DEFINE s == Samples!At(size, p1, p2, p3)
<1>1. s \div (size[2] * size[3]) = p1 /\ (s \div size[3]) % size[2] = p2 /\ s % size[3] = p3
  BY DigitsOf
<1>2. s \div (size[2] * size[3]) = q1 /\ (s \div size[3]) % size[2] = q2 /\ s % size[3] = q3
  BY DigitsOf
<1> QED BY <1>1, <1>2

LEMMA SampleInitOK == Samples!Init => SampleInv
BY DEF Samples!Init, SampleInv, SampleShape, SampleMade, PointsStored

\* Where a point of the set is: in which cell, and where in the cell.
LEMMA PointOK ==
    ASSUME job \in SampleJobs, NEW a \in 1 .. 3, NEW p \in Samples!Slots(job.size[a])
    PROVE  /\ CellOf(a, p) \in Nat /\ CellOf(a, p) + 1 < Samples!sizeSample[a]
           /\ LocalOf(a, p) \in 0 .. Sample - 1
           /\ p = CellOf(a, p) * Sample - Samples!Offset(a) + LocalOf(a, p)
<1> DEFINE S == Sample
           n == job.size[a]
           o == Samples!Offset(a)
           q == CellOf(a, p)
           w == n + o + S - 1
<1>1. /\ S \in Nat \ {0} /\ n \in Nat \ {0} /\ o \in 0 .. S - 1 /\ p \in 0 .. n - 1
      /\ Samples!sizeSample[a] = w \div S + 1
  BY SampleSizesOK DEF Samples!Slots
<1>2. q = (p + o) \div S /\ LocalOf(a, p) = (p + o) % S
  BY DEF CellOf, LocalOf
<1> HIDE DEF S, n, o, q
<1>3. /\ q \in Nat /\ LocalOf(a, p) \in 0 .. S - 1 /\ p + o = q * S + LocalOf(a, p)
  BY <1>1, <1>2
<1>4. w \div S \in Int /\ w = (w \div S) * S + (w % S) /\ w % S \in 0 .. S - 1 /\ w >= p + o + S
  BY <1>1
<1>5. q < w \div S
  <2> DEFINE d == w \div S
  <2>1. d * S > q * S
    <3>1. d * S \in Int /\ q * S \in Int
      BY <1>1, <1>3, <1>4
    <3> HIDE DEF d, w
    <3>2. w = d * S + (w % S) /\ w % S \in 0 .. S - 1 /\ w >= p + o + S
      BY <1>4 DEF d
    <3> QED BY <1>1, <1>3, <3>1, <3>2
  <2>2. d \in Int
    BY <1>4
  <2> HIDE DEF d
  <2>3. d <= q => (q - d) * S >= 0 /\ (q - d) * S = q * S - d * S
    BY <1>1, <1>3, <2>2
  <2>4. d * S \in Int /\ q * S \in Int
    BY <1>1, <1>3, <2>2
  <2>5. q < d
    BY <1>3, <2>1, <2>2, <2>3, <2>4
  <2> QED BY <2>5 DEF d
<1>6. p = q * S - o + LocalOf(a, p)
  <2>1. q * S \in Int /\ p \in Int /\ o \in Int /\ LocalOf(a, p) \in Int
    BY <1>1, <1>3
  <2> QED BY <1>3, <2>1
<1> QED BY <1>1, <1>3, <1>4, <1>5, <1>6 DEF S, o, q

LEMMA NumberOK ==
    ASSUME job \in SampleJobs, NEW p1, NEW p2, NEW p3, IsPoint(p1, p2, p3)
    PROVE  /\ NumberOf(p1, p2, p3) \in Nat
           /\ NumberOf(p1, p2, p3) < Samples!localCountMax
           /\ IsNumber(NumberOf(p1, p2, p3), Sample, Sample,
                       LocalOf(1, p1), LocalOf(2, p2), LocalOf(3, p3))
<1> DEFINE S == Sample
           q1 == LocalOf(1, p1)
           q2 == LocalOf(2, p2)
           q3 == LocalOf(3, p3)
           u == q1 * S + q2
           SS == S * S
<1>1. S \in Nat \ {0} /\ q1 \in 0 .. S - 1 /\ q2 \in 0 .. S - 1 /\ q3 \in 0 .. S - 1
  BY SampleSizesOK, PointOK DEF IsPoint
<1>2. NumberOf(p1, p2, p3) = u * S + q3 /\ Samples!localCountMax = SS * S
  BY DEF NumberOf, Samples!localCountMax, Sample
<1> HIDE DEF S, q1, q2, q3
<1>3. u \in Nat /\ SS \in Nat /\ u + 1 <= SS
  <2>1. (S - (q1 + 1)) * S >= 0 /\ (S - (q1 + 1)) * S = S * S - q1 * S - S
    BY <1>1
  <2>2. S * S \in Nat /\ q1 * S \in Nat
    BY <1>1
  <2> QED BY <1>1, <2>1, <2>2
<1>4. IsNumber(u * S + q3, S, S, q1, q2, q3)
  BY <1>1 DEF IsNumber
<1> HIDE DEF u, SS
<1>5. (SS - (u + 1)) * S >= 0 /\ (SS - (u + 1)) * S = SS * S - u * S - S
  BY <1>1, <1>3
<1>6. SS * S \in Nat /\ u * S \in Nat
  BY <1>1, <1>3
<1>7. u * S + q3 \in Nat /\ u * S + q3 < SS * S
  BY <1>1, <1>5, <1>6
<1> QED BY <1>2, <1>4, <1>7 DEF S, q1, q2, q3

LEMMA SampleSettingsStay ==
    ASSUME job' = job
    PROVE  /\ Sample' = Sample /\ Samples!sizeSample' = Samples!sizeSample
           /\ Samples!localCountMax' = Samples!localCountMax
           /\ \A s : SampleAt(s)' = SampleAt(s)
           /\ \A p1, p2, p3 : /\ IsPoint(p1, p2, p3)' <=> IsPoint(p1, p2, p3)
                              /\ PlaceOf(p1, p2, p3)' = PlaceOf(p1, p2, p3)
                              /\ Samples!At(job'.size, p1, p2, p3) = Samples!At(job.size, p1, p2, p3)
                              /\ NumberOf(p1, p2, p3)' = NumberOf(p1, p2, p3)
           /\ \A a, p : CellOf(a, p)' = CellOf(a, p)
<1>1. Sample' = Sample /\ Samples!localCountMax' = Samples!localCountMax
  BY DEF Sample, Samples!sampleSize, Samples!localCountMax
<1>2. \A a : Samples!Offset(a)' = Samples!Offset(a)
  BY DEF Samples!Offset, Samples!sampleSize
<1>3. Samples!sizeSample' = Samples!sizeSample
  BY <1>2 DEF Samples!sizeSample, Samples!ceil, Samples!sampleSize
<1>4. \A s : SampleAt(s)' = SampleAt(s)
  BY <1>1, <1>3 DEF SampleAt, Samples!PointOf
<1>5. \A p1, p2, p3 : /\ IsPoint(p1, p2, p3)' <=> IsPoint(p1, p2, p3)
                      /\ PlaceOf(p1, p2, p3)' = PlaceOf(p1, p2, p3)
                      /\ Samples!At(job'.size, p1, p2, p3) = Samples!At(job.size, p1, p2, p3)
  <2>1. \A a : Samples!Shift(a)' = Samples!Shift(a)
    BY <1>2 DEF Samples!Shift, Samples!sampleSize
  <2> QED BY <2>1 DEF IsPoint, PlaceOf, Samples!Slots, Samples!At
<1>6. /\ \A p1, p2, p3 : NumberOf(p1, p2, p3)' = NumberOf(p1, p2, p3)
      /\ \A a, p : CellOf(a, p)' = CellOf(a, p)
  BY <1>1, <1>2 DEF NumberOf, LocalOf, CellOf
<1> QED BY <1>1, <1>3, <1>4, <1>5, <1>6

LEMMA SampleMakeOK == SampleInv /\ (Samples!SampleBox \/ Samples!SampleVectorSet) => SampleInv'
<1> SUFFICES ASSUME SampleInv, Samples!SampleBox \/ Samples!SampleVectorSet PROVE SampleInv'
  OBVIOUS
<1>1. /\ job' = job /\ job \in SampleJobs /\ pc' = "cell"
      /\ x' = 0 /\ y' = 0 /\ z' = 0 /\ localCount' = 0
      /\ noiseSet' = [s \in Samples!Slots(Samples!Count(job.size)) |-> Uninit]
  BY DEF SampleInv, SampleShape, Samples!SampleBox, Samples!SampleVectorSet
<1>2. sample' = [s \in Samples!Slots(Samples!Count(Samples!sizeSample)) |-> SampleAt(s)]
  BY DEF Samples!SampleBox, Samples!SampleVectorSet, SampleAt, Sample, Samples!Axes
<1>3. SampleShape'
  <2>1. /\ 0 + 1 < Samples!sizeSample[1] /\ 0 + 1 < Samples!sizeSample[2]
        /\ 0 + 1 < Samples!sizeSample[3]
    BY <1>1, SampleSizesOK
  <2>2. DOMAIN noiseSet' = Samples!Slots(Samples!Count(job'.size))
    BY <1>1
  <2> QED BY <1>1, <2>1, <2>2, SampleSettingsStay DEF SampleShape, Samples!Slots, Samples!Count
<1>4. SampleMade'
  BY <1>1, <1>2, SampleSettingsStay DEF SampleMade, Samples!Slots, Samples!Count
<1>5. PointsStored'
  <2>1. ASSUME NEW p1, NEW p2, NEW p3, IsPoint(p1, p2, p3), Visited(p1, p2, p3)'
        PROVE  FALSE
    <3>1. CellOf(1, p1) \in Nat /\ CellOf(2, p2) \in Nat /\ CellOf(3, p3) \in Nat
      BY <1>1, <2>1, PointOK DEF IsPoint
    <3>2. NumberOf(p1, p2, p3) \in Nat
      BY <1>1, <2>1, NumberOK
    <3> QED BY <1>1, <2>1, <3>1, <3>2, SampleSettingsStay DEF Visited, InCell
  <2> QED BY <1>1, <2>1, SampleSettingsStay DEF PointsStored
<1> QED BY <1>3, <1>4, <1>5 DEF SampleInv

LEMMA NextCellOK == SampleInv /\ Samples!NextCell => SampleInv'
<1> SUFFICES ASSUME SampleInv, Samples!NextCell PROVE SampleInv'
  OBVIOUS
<1>1. /\ job' = job /\ job \in SampleJobs /\ pc = "cell" /\ pc' \in {"cell", "done"}
      /\ sample' = sample /\ noiseSet' = noiseSet
      /\ localCount >= Samples!localCountMax /\ localCount' = 0
      /\ x \in Nat /\ y \in Nat /\ z \in Nat /\ localCount \in Nat
      /\ x + 1 < Samples!sizeSample[1] /\ y + 1 < Samples!sizeSample[2]
      /\ z + 1 < Samples!sizeSample[3]
      /\ DOMAIN noiseSet = Samples!Slots(Samples!Count(job.size))
  BY DEF SampleInv, SampleShape, Samples!NextCell
<1>2. \A a \in 1 .. 3 : Samples!sizeSample[a] \in Nat /\ Samples!sizeSample[a] > 1
  BY <1>1, SampleSizesOK
<1> DEFINE n1 == Samples!sizeSample[1]
           n2 == Samples!sizeSample[2]
           n3 == Samples!sizeSample[3]
<1>3. \/ z + 2 < n3 /\ z' = z + 1 /\ y' = y /\ x' = x /\ pc' = "cell"
      \/ z + 2 = n3 /\ z' = 0 /\ y + 2 < n2 /\ y' = y + 1 /\ x' = x /\ pc' = "cell"
      \/ /\ z + 2 = n3 /\ z' = 0 /\ y + 2 = n2 /\ y' = 0 /\ x' = x + 1
         /\ pc' = IF x + 2 < n1 THEN "cell" ELSE "done"
  BY <1>1, <1>2 DEF Samples!NextCell
<1>4. SampleShape'
  <2>1. /\ x' \in Nat /\ y' \in Nat /\ z' \in Nat
        /\ pc' = "cell" => x' + 1 < n1 /\ y' + 1 < n2 /\ z' + 1 < n3
    BY <1>1, <1>2, <1>3
  <2> QED BY <1>1, <2>1, SampleSettingsStay DEF SampleShape, Samples!Slots, Samples!Count
<1>5. SampleMade'
  BY <1>1, SampleSettingsStay DEF SampleInv, SampleMade, Samples!Slots, Samples!Count
<1>6. ASSUME NEW p1, NEW p2, NEW p3, IsPoint(p1, p2, p3), pc' = "cell" => Visited(p1, p2, p3)'
      PROVE  Visited(p1, p2, p3)
  <2> DEFINE q1 == CellOf(1, p1)
             q2 == CellOf(2, p2)
             q3 == CellOf(3, p3)
             num == NumberOf(p1, p2, p3)
  <2>1. /\ q1 \in Nat /\ q1 + 1 < n1 /\ q2 \in Nat /\ q2 + 1 < n2 /\ q3 \in Nat /\ q3 + 1 < n3
    BY <1>1, <1>6, PointOK DEF IsPoint
  <2>2. num \in Nat /\ num < localCount
    <3>1. num \in Nat /\ num < Samples!localCountMax
      BY <1>1, <1>6, NumberOK
    <3>2. Samples!localCountMax \in Nat
      BY <1>1, SampleSizesOK DEF Samples!localCountMax, Sample
    <3> QED BY <1>1, <3>1, <3>2
  <2>3. pc' = "cell" => \/ q1 < x'
                        \/ q1 = x' /\ q2 < y'
                        \/ q1 = x' /\ q2 = y' /\ q3 < z'
                        \/ q1 = x' /\ q2 = y' /\ q3 = z' /\ num < localCount'
    BY <1>1, <1>6, SampleSettingsStay DEF Visited, InCell
  <2>4. /\ pc' = "cell" \/ x + 2 >= n1
        /\ n1 \in Nat /\ n2 \in Nat /\ n3 \in Nat
    BY <1>1, <1>2, <1>3
  <2> HIDE DEF q1, q2, q3, num, n1, n2, n3
  <2>5. \/ q1 < x
        \/ q1 = x /\ q2 < y
        \/ q1 = x /\ q2 = y /\ q3 < z
        \/ q1 = x /\ q2 = y /\ q3 = z
    <3>1. CASE z + 2 < n3 /\ z' = z + 1 /\ y' = y /\ x' = x /\ pc' = "cell"
      BY <1>1, <2>1, <2>2, <2>3, <3>1
    <3>2. CASE z + 2 = n3 /\ z' = 0 /\ y + 2 < n2 /\ y' = y + 1 /\ x' = x /\ pc' = "cell"
      BY <1>1, <2>1, <2>2, <2>3, <2>4, <3>2
    <3>3. CASE /\ z + 2 = n3 /\ z' = 0 /\ y + 2 = n2 /\ y' = 0 /\ x' = x + 1
               /\ pc' = IF x + 2 < n1 THEN "cell" ELSE "done"
      BY <1>1, <2>1, <2>2, <2>3, <2>4, <3>3
    <3> QED BY <1>3, <3>1, <3>2, <3>3 DEF n1, n2, n3
  <2> QED BY <2>2, <2>5 DEF Visited, InCell, q1, q2, q3, num
<1>7. PointsStored'
  <2> SUFFICES ASSUME NEW p1, NEW p2, NEW p3, IsPoint(p1, p2, p3),
                      pc' = "cell" => Visited(p1, p2, p3)'
               PROVE  PointStored(p1, p2, p3)'
    BY <1>1, SampleSettingsStay DEF PointsStored
  <2>1. PointStored(p1, p2, p3)
    BY <1>1, <1>6 DEF SampleInv, PointsStored
  <2> QED BY <1>1, <2>1, SampleSettingsStay DEF PointStored
<1> QED BY <1>4, <1>5, <1>7 DEF SampleInv

\* The noise at a corner of the cell was evaluated at the corner's own place.
LEMMA CornerOK ==
    ASSUME SampleInv, pc = "cell", NEW u \in 0 .. 1
    PROVE  sample[Samples!At(Samples!sizeSample, x + u, y + u, z + u)] =
               [a \in 1 .. 3 |->
                   IF job.vectors THEN 2 * (Sample * (Samples!Corner[a] + u) + job.start[a]) - 1
                   ELSE 2 * Sample * (job.start[a] \div Sample + (Samples!Corner[a] + u))]
<1> DEFINE n == Samples!sizeSample
           s == Samples!At(n, x + u, y + u, z + u)
<1>1. /\ job \in SampleJobs /\ x \in Nat /\ y \in Nat /\ z \in Nat
      /\ x + 1 < n[1] /\ y + 1 < n[2] /\ z + 1 < n[3]
  BY DEF SampleInv, SampleShape
<1>2. n[1] \in Nat /\ n[2] \in Nat /\ n[3] \in Nat
  BY <1>1, SampleSizesOK
<1>3. /\ x + u \in Nat /\ y + u \in Nat /\ z + u \in Nat
      /\ x + u < n[1] /\ y + u < n[2] /\ z + u < n[3]
  BY <1>1, <1>2
<1> HIDE DEF n
<1>4. s \in Samples!Slots(Samples!Count(n)) /\ IsNumber(s, n[2], n[3], x + u, y + u, z + u)
  BY <1>2, <1>3, AtOK
<1>5. Samples!PointOf(s) = <<x + u, y + u, z + u>>
  BY <1>4, DigitsOf DEF Samples!PointOf, n
<1>6. sample[s] = SampleAt(s)
  BY <1>4 DEF SampleInv, SampleMade, n
<1>7. \A a \in 1 .. 3 : Samples!PointOf(s)[a] = Samples!Corner[a] + u
  BY <1>5 DEF Samples!Corner
<1> HIDE DEF s
<1>8. SampleAt(s) = [a \in 1 .. 3 |->
                   IF job.vectors THEN 2 * (Sample * (Samples!Corner[a] + u) + job.start[a]) - 1
                   ELSE 2 * Sample * (job.start[a] \div Sample + (Samples!Corner[a] + u))]
  BY <1>7 DEF SampleAt
<1> QED BY <1>6, <1>8 DEF s, n

LEMMA LocalOK ==
    ASSUME job \in SampleJobs, localCount \in Nat, NEW l \in 0 .. job.vectorSize - 1
    PROVE  /\ \A a \in 1 .. 3 : Samples!Local(l)[a] \in 0 .. Sample - 1
           /\ Samples!Local(l) = <<((localCount + l) \div (Sample * Sample)) % Sample,
                                   ((localCount + l) \div Sample) % Sample,
                                   (localCount + l) % Sample>>
<1> DEFINE S == Sample
           SS == S * S
           n == localCount + l
<1>1. S \in Nat \ {0} /\ n \in Nat
  BY SampleSizesOK
<1>2. Samples!Local(l) = <<(n \div SS) % S, (n \div S) % S, n % S>>
  BY DEF Samples!Local, Sample
<1> HIDE DEF S, n
<1>3. SS \in Nat \ {0}
  BY <1>1
<1> HIDE DEF SS
<1>4. n \div SS \in Nat /\ n \div S \in Nat
  BY <1>1, <1>3
<1>5. (n \div SS) % S \in 0 .. S - 1 /\ (n \div S) % S \in 0 .. S - 1 /\ n % S \in 0 .. S - 1
  BY <1>1, <1>4
<1> QED BY <1>2, <1>5 DEF S, SS, n

\* Half a unit is the middle between two points.
LEMMA InterpolatedOK ==
    ASSUME SampleInv, pc = "cell", NEW l \in 0 .. job.vectorSize - 1
    PROVE  Samples!Interpolated(l) =
               PlaceOf(Samples!Place(l)[1], Samples!Place(l)[2], Samples!Place(l)[3])
<1> DEFINE S == Sample
           near == sample[Samples!At(Samples!sizeSample, x, y, z)]
           far == sample[Samples!At(Samples!sizeSample, x + 1, y + 1, z + 1)]
<1>1. /\ job \in SampleJobs /\ localCount \in Nat /\ x \in Nat /\ y \in Nat /\ z \in Nat
  BY DEF SampleInv, SampleShape
<1>2. /\ S \in Nat \ {0}
      /\ \A a \in 1 .. 3 : job.start[a] \in Int /\ Samples!Offset(a) \in Int
      /\ \A a \in 1 .. 3 : Samples!Local(l)[a] \in 0 .. S - 1
      /\ \A a \in 1 .. 3 : Samples!Corner[a] \in Nat
  BY <1>1, SampleSizesOK, LocalOK DEF Samples!Corner
<1>3. /\ near = [a \in 1 .. 3 |->
            IF job.vectors THEN 2 * (S * (Samples!Corner[a] + 0) + job.start[a]) - 1
            ELSE 2 * S * (job.start[a] \div S + (Samples!Corner[a] + 0))]
      /\ far = [a \in 1 .. 3 |->
            IF job.vectors THEN 2 * (S * (Samples!Corner[a] + 1) + job.start[a]) - 1
            ELSE 2 * S * (job.start[a] \div S + (Samples!Corner[a] + 1))]
  <2>1. x + 0 = x /\ y + 0 = y /\ z + 0 = z /\ 0 \in 0 .. 1 /\ 1 \in 0 .. 1
    BY <1>1
  <2> QED BY <2>1, CornerOK
<1>4. Samples!Interpolated(l) =
          [a \in 1 .. 3 |-> near[a] + ((far[a] - near[a]) * (2 * Samples!Local(l)[a] + 1)) \div (2 * S)]
  BY DEF Samples!Interpolated, Samples!Axes, Sample
<1>5. ASSUME NEW a \in 1 .. 3
      PROVE  near[a] + ((far[a] - near[a]) * (2 * Samples!Local(l)[a] + 1)) \div (2 * S) =
             2 * (job.start[a] + Samples!Place(l)[a] + Samples!Shift(a))
               + IF job.vectors THEN 0 ELSE 1
  <2> DEFINE c == Samples!Corner[a]
             g == Samples!Local(l)[a]
             o == Samples!Offset(a)
             t == job.start[a]
             e == Samples!Shift(a)
             w == 2 * g + 1
             h == 2 * S
  <2>1. /\ c \in Nat /\ g \in Nat /\ o \in Int /\ t \in Int /\ S \in Nat \ {0}
        /\ w \in Int /\ h \in Nat \ {0}
    BY <1>2
  <2>2. Samples!Place(l)[a] = c * S - o + g
    BY DEF Samples!Place, Samples!Axes, Sample
  <2>3. /\ near[a] = IF job.vectors THEN 2 * (S * (c + 0) + t) - 1 ELSE 2 * S * (t \div S + (c + 0))
        /\ far[a] = IF job.vectors THEN 2 * (S * (c + 1) + t) - 1 ELSE 2 * S * (t \div S + (c + 1))
    BY <1>3
  <2>4. IF job.vectors THEN o = 0 /\ e = 0 ELSE e = o - (t % S)
    BY DEF Samples!Shift, Samples!Offset, Sample
  <2> HIDE DEF near, far, S, c, g, o, t, e, w, h
  <2>5. t \div S \in Int /\ t = (t \div S) * S + (t % S)
    BY <2>1
  <2> DEFINE d == t \div S
  <2>6. d \in Int /\ t = d * S + (t % S)
    BY <2>5
  <2> HIDE DEF d
  <2>7. far[a] - near[a] = h
    <3>1. CASE job.vectors
      <4>1. S * (c + 1) = S * c + S /\ S * (c + 0) = S * c /\ S * c \in Int
        BY <2>1
      <4> QED BY <2>1, <2>3, <3>1, <4>1 DEF h
    <3>2. CASE ~job.vectors
      <4>1. 2 * S * (d + (c + 1)) - 2 * S * (d + (c + 0)) = 2 * S
        BY <2>1, <2>6
      <4> QED BY <2>3, <3>2, <4>1 DEF h, d
    <3> QED BY <3>1, <3>2
  <2>8. (h * w) \div h = w
    <3> DEFINE r == 0
    <3>1. h * w = w * h + r /\ r \in 0 .. h - 1
      BY <2>1
    <3> HIDE DEF r
    <3>2. (w * h + r) \div h = w
      BY <2>1, <3>1, DivMod
    <3> QED BY <3>1, <3>2
  <2>9. near[a] + w = 2 * (t + (c * S - o + g) + e) + IF job.vectors THEN 0 ELSE 1
    <3>1. CASE job.vectors
      <4>1. near[a] = 2 * (S * c + t) - 1
        <5>1. c + 0 = c
          BY <2>1
        <5> QED BY <2>3, <3>1, <5>1
      <4>2. S * c = c * S /\ S * c \in Int /\ o = 0 /\ e = 0
        BY <2>1, <2>4, <3>1
      <4> QED BY <2>1, <3>1, <4>1, <4>2 DEF w
    <3>2. CASE ~job.vectors
      <4>1. near[a] = 2 * S * (d + c)
        <5>1. c + 0 = c
          BY <2>1
        <5> QED BY <2>3, <3>2, <5>1 DEF d
      <4>2. 2 * S * (d + c) = 2 * (d * S) + 2 * (c * S) /\ d * S \in Int /\ c * S \in Int
        BY <2>1, <2>6
      <4>3. t - o + e = d * S /\ e \in Int
        <5> DEFINE r == t % S
                   u == d * S
        <5>1. r \in Int /\ u \in Int
          BY <2>1, <2>6
        <5>2. e = o - r /\ t = u + r
          BY <2>4, <2>6, <3>2
        <5> HIDE DEF r, u
        <5>3. t - o + e = u /\ e \in Int
          BY <2>1, <5>1, <5>2
        <5> QED BY <5>3 DEF u
      <4> QED BY <2>1, <3>2, <4>1, <4>2, <4>3 DEF w
    <3> QED BY <3>1, <3>2
  <2>10. near[a] + ((far[a] - near[a]) * w) \div h = near[a] + w
    BY <2>7, <2>8
  <2> QED BY <2>2, <2>9, <2>10 DEF w, g, h, t, e
<1>6. PlaceOf(Samples!Place(l)[1], Samples!Place(l)[2], Samples!Place(l)[3]) =
          [a \in 1 .. 3 |-> 2 * (job.start[a] + Samples!Place(l)[a] + Samples!Shift(a))
                              + IF job.vectors THEN 0 ELSE 1]
  <2>1. \A a \in 1 .. 3 :
            <<Samples!Place(l)[1], Samples!Place(l)[2], Samples!Place(l)[3]>>[a] = Samples!Place(l)[a]
    OBVIOUS
  <2> QED BY <2>1 DEF PlaceOf
<1> HIDE DEF near, far
<1> QED BY <1>4, <1>5, <1>6

\* A lane in the set has one of its slots, and the slot is of no other point.
LEMMA SlotOK ==
    ASSUME job \in SampleJobs, NEW l, Samples!InSet(Samples!Place(l)), x \in Nat, y \in Nat, z \in Nat,
           \A a \in 1 .. 3 : Samples!Local(l)[a] \in Int
    PROVE  /\ Samples!Slot(l) \in Samples!Slots(Samples!Count(job.size))
           /\ \A p1, p2, p3 :
                 IsPoint(p1, p2, p3) /\ Samples!At(job.size, p1, p2, p3) = Samples!Slot(l)
                 => /\ p1 = Samples!Place(l)[1] /\ p2 = Samples!Place(l)[2] /\ p3 = Samples!Place(l)[3]
<1> DEFINE q1 == Samples!Place(l)[1]
           q2 == Samples!Place(l)[2]
           q3 == Samples!Place(l)[3]
           size == job.size
<1>1. size[1] \in Nat /\ size[2] \in Nat /\ size[3] \in Nat
  BY SampleSizesOK
<1>2. \A a \in 1 .. 3 : Samples!Place(l)[a] \in Int
  <2> SUFFICES ASSUME NEW a \in 1 .. 3 PROVE Samples!Place(l)[a] \in Int
    OBVIOUS
  <2> DEFINE c == Samples!Corner[a]
             S == Sample
             o == Samples!Offset(a)
             g == Samples!Local(l)[a]
  <2>1. Samples!Place(l)[a] = c * S - o + g
    BY DEF Samples!Place, Samples!Axes, Sample
  <2>2. c \in Nat /\ S \in Nat /\ o \in Int /\ g \in Int
    BY SampleSizesOK DEF Samples!Corner
  <2> HIDE DEF c, S, o, g
  <2>3. c * S \in Int
    BY <2>2
  <2> QED BY <2>1, <2>2, <2>3
<1>3. /\ q1 \in Nat /\ q2 \in Nat /\ q3 \in Nat /\ q1 < size[1] /\ q2 < size[2] /\ q3 < size[3]
  BY <1>2 DEF Samples!InSet, Samples!Axes
<1>4. Samples!Slot(l) = Samples!At(size, q1, q2, q3)
  BY DEF Samples!Slot
<1> HIDE DEF q1, q2, q3, size
<1>5. /\ Samples!At(size, q1, q2, q3) \in Samples!Slots(Samples!Count(size))
      /\ IsNumber(Samples!At(size, q1, q2, q3), size[2], size[3], q1, q2, q3)
  BY <1>1, <1>3, AtOK
<1>6. ASSUME NEW p1, NEW p2, NEW p3, IsPoint(p1, p2, p3),
             Samples!At(size, p1, p2, p3) = Samples!At(size, q1, q2, q3)
      PROVE  p1 = q1 /\ p2 = q2 /\ p3 = q3
  <2>1. /\ p1 \in Nat /\ p2 \in Nat /\ p3 \in Nat /\ p1 < size[1] /\ p2 < size[2] /\ p3 < size[3]
    BY <1>1, <1>6 DEF IsPoint, Samples!Slots, size
  <2>2. IsNumber(Samples!At(size, p1, p2, p3), size[2], size[3], p1, p2, p3)
    BY <1>1, <2>1, AtOK
  <2> QED BY <1>5, <1>6, <2>2, AtInjective
<1> QED BY <1>4, <1>5, <1>6 DEF q1, q2, q3, size

\* The lane of a point in the cell.
LEMMA LaneOfPoint ==
    ASSUME job \in SampleJobs, localCount \in Nat, x \in Nat, y \in Nat, z \in Nat,
           NEW p1, NEW p2, NEW p3, IsPoint(p1, p2, p3), InCell(p1, p2, p3),
           NEW l \in 0 .. job.vectorSize - 1, localCount + l = NumberOf(p1, p2, p3)
    PROVE  /\ Samples!Place(l)[1] = p1 /\ Samples!Place(l)[2] = p2 /\ Samples!Place(l)[3] = p3
           /\ Samples!InSet(Samples!Place(l))
           /\ Samples!Slot(l) = Samples!At(job.size, p1, p2, p3)
<1> DEFINE n == NumberOf(p1, p2, p3)
<1>1. IsNumber(n, Sample, Sample, LocalOf(1, p1), LocalOf(2, p2), LocalOf(3, p3))
  BY NumberOK
<1>2. /\ n \div (Sample * Sample) = LocalOf(1, p1) /\ (n \div Sample) % Sample = LocalOf(2, p2)
      /\ n % Sample = LocalOf(3, p3)
  BY <1>1, DigitsOf
<1>3. Samples!Local(l) = <<(n \div (Sample * Sample)) % Sample, (n \div Sample) % Sample, n % Sample>>
  BY LocalOK
<1>4. /\ p1 \in Samples!Slots(job.size[1]) /\ p2 \in Samples!Slots(job.size[2])
      /\ p3 \in Samples!Slots(job.size[3])
  BY DEF IsPoint
<1>5. Sample \in Nat \ {0} /\ LocalOf(1, p1) \in 0 .. Sample - 1
      /\ \A a \in 1 .. 3 : job.size[a] \in Nat
  BY <1>4, SampleSizesOK, PointOK
<1>6. LocalOf(1, p1) % Sample = LocalOf(1, p1)
  <2> DEFINE S == Sample
             r == LocalOf(1, p1)
  <2>1. S \in Nat \ {0} /\ r \in 0 .. S - 1
    BY <1>5
  <2> HIDE DEF S, r
  <2>2. r % S = r
    BY <2>1
  <2> QED BY <2>2 DEF S, r
<1> HIDE DEF n
<1>7. /\ Samples!Local(l)[1] = LocalOf(1, p1) /\ Samples!Local(l)[2] = LocalOf(2, p2)
      /\ Samples!Local(l)[3] = LocalOf(3, p3)
  BY <1>2, <1>3, <1>6
<1>8. /\ p1 = CellOf(1, p1) * Sample - Samples!Offset(1) + LocalOf(1, p1)
      /\ p2 = CellOf(2, p2) * Sample - Samples!Offset(2) + LocalOf(2, p2)
      /\ p3 = CellOf(3, p3) * Sample - Samples!Offset(3) + LocalOf(3, p3)
  BY <1>4, PointOK
<1>9. /\ Samples!Place(l)[1] = x * Sample - Samples!Offset(1) + LocalOf(1, p1)
      /\ Samples!Place(l)[2] = y * Sample - Samples!Offset(2) + LocalOf(2, p2)
      /\ Samples!Place(l)[3] = z * Sample - Samples!Offset(3) + LocalOf(3, p3)
  BY <1>7 DEF Samples!Place, Samples!Axes, Samples!Corner, Sample
<1>10. Samples!Place(l)[1] = p1 /\ Samples!Place(l)[2] = p2 /\ Samples!Place(l)[3] = p3
  BY <1>8, <1>9 DEF InCell
<1>11. Samples!InSet(Samples!Place(l))
  BY <1>4, <1>5, <1>10 DEF Samples!InSet, Samples!Axes, Samples!Slots
<1> QED BY <1>10, <1>11 DEF Samples!Slot

LEMMA SampleVectorOK == SampleInv /\ Samples!SampleVector => SampleInv'
<1> SUFFICES ASSUME SampleInv, Samples!SampleVector PROVE SampleInv'
  OBVIOUS
<1> DEFINE stored == {l \in 0 .. job.vectorSize - 1 : Samples!InSet(Samples!Place(l))}
           slots == Samples!Slots(Samples!Count(job.size))
<1>1. /\ job' = job /\ job \in SampleJobs /\ pc = "cell" /\ pc' = "cell"
      /\ x' = x /\ y' = y /\ z' = z /\ sample' = sample
      /\ localCount' = localCount + job.vectorSize
      /\ x \in Nat /\ y \in Nat /\ z \in Nat /\ localCount \in Nat
      /\ x + 1 < Samples!sizeSample[1] /\ y + 1 < Samples!sizeSample[2]
      /\ z + 1 < Samples!sizeSample[3]
      /\ DOMAIN noiseSet = slots
  BY DEF SampleInv, SampleShape, Samples!SampleVector
<1>2. noiseSet' = [s \in {Samples!Slot(l) : l \in stored} \cup DOMAIN noiseSet |->
          IF \E l \in stored : Samples!Slot(l) = s
          THEN Samples!Interpolated(CHOOSE l \in stored : Samples!Slot(l) = s) ELSE noiseSet[s]]
  BY DEF Samples!SampleVector
<1>3. job.vectorSize \in Nat
  BY <1>1, SampleSizesOK
<1>4. ASSUME NEW l \in stored
      PROVE  /\ Samples!Slot(l) \in slots
             /\ \A p1, p2, p3 :
                   IsPoint(p1, p2, p3) /\ Samples!At(job.size, p1, p2, p3) = Samples!Slot(l)
                   => /\ p1 = Samples!Place(l)[1] /\ p2 = Samples!Place(l)[2]
                      /\ p3 = Samples!Place(l)[3]
  <2>1. l \in 0 .. job.vectorSize - 1 /\ Samples!InSet(Samples!Place(l))
    OBVIOUS
  <2>2. \A a \in 1 .. 3 : Samples!Local(l)[a] \in Int
    BY <1>1, <2>1, SampleSizesOK, LocalOK
  <2> HIDE DEF stored
  <2> QED BY <1>1, <2>1, <2>2, SlotOK
<1> HIDE DEF stored
<1>5. DOMAIN noiseSet' = slots
  BY <1>1, <1>2, <1>4
<1>6. SampleShape'
  BY <1>1, <1>3, <1>5, SampleSettingsStay DEF SampleShape, Samples!Slots, Samples!Count
<1>7. SampleMade'
  BY <1>1, SampleSettingsStay DEF SampleInv, SampleMade, Samples!Slots, Samples!Count
<1>8. PointsStored'
  <2> SUFFICES ASSUME NEW p1, NEW p2, NEW p3, IsPoint(p1, p2, p3),
                      Visited(p1, p2, p3)'
               PROVE  noiseSet'[Samples!At(job.size, p1, p2, p3)] = PlaceOf(p1, p2, p3)
    BY <1>1, SampleSettingsStay DEF PointsStored, PointStored
  <2> DEFINE s == Samples!At(job.size, p1, p2, p3)
  <2>1. s \in slots
    <3>1. /\ p1 \in Nat /\ p2 \in Nat /\ p3 \in Nat
          /\ job.size[1] \in Nat /\ job.size[2] \in Nat /\ job.size[3] \in Nat
          /\ p1 < job.size[1] /\ p2 < job.size[2] /\ p3 < job.size[3]
      <4>1. job.size[1] \in Nat /\ job.size[2] \in Nat /\ job.size[3] \in Nat
        BY <1>1, SampleSizesOK
      <4> QED BY <4>1 DEF IsPoint, Samples!Slots
    <3> QED BY <3>1, AtOK
  <2>2. CASE \E l \in stored : Samples!Slot(l) = s
    <3> DEFINE m == CHOOSE l \in stored : Samples!Slot(l) = s
    <3>1. m \in stored /\ Samples!Slot(m) = s
      BY <2>2
    <3>2. noiseSet'[s] = Samples!Interpolated(m)
      BY <1>1, <1>2, <2>1, <2>2
    <3> HIDE DEF m
    <3>3. p1 = Samples!Place(m)[1] /\ p2 = Samples!Place(m)[2] /\ p3 = Samples!Place(m)[3]
      BY <1>4, <3>1
    <3>4. m \in 0 .. job.vectorSize - 1
      BY <3>1 DEF stored
    <3>5. Samples!Interpolated(m) =
              PlaceOf(Samples!Place(m)[1], Samples!Place(m)[2], Samples!Place(m)[3])
      BY <1>1, <3>4, InterpolatedOK
    <3> QED BY <3>2, <3>3, <3>5
  <2>3. CASE ~\E l \in stored : Samples!Slot(l) = s
    <3>1. Visited(p1, p2, p3)
      <4> SUFFICES ASSUME ~Visited(p1, p2, p3) PROVE FALSE
        OBVIOUS
      <4>1. /\ InCell(p1, p2, p3) /\ NumberOf(p1, p2, p3) < localCount + job.vectorSize
            /\ ~(NumberOf(p1, p2, p3) < localCount)
        BY <1>1, SampleSettingsStay DEF Visited, InCell
      <4>2. NumberOf(p1, p2, p3) \in Nat
        BY <1>1, NumberOK
      <4>3. PICK l \in 0 .. job.vectorSize - 1 : localCount + l = NumberOf(p1, p2, p3)
        <5> DEFINE l == NumberOf(p1, p2, p3) - localCount
        <5>1. l \in 0 .. job.vectorSize - 1 /\ localCount + l = NumberOf(p1, p2, p3)
          BY <1>1, <1>3, <4>1, <4>2
        <5> QED BY <5>1
      <4>4. Samples!InSet(Samples!Place(l)) /\ Samples!Slot(l) = s
        BY <1>1, <4>1, <4>3, LaneOfPoint
      <4>5. l \in stored
        BY <4>3, <4>4 DEF stored
      <4> QED BY <2>3, <4>4, <4>5
    <3>2. noiseSet[s] = PlaceOf(p1, p2, p3)
      BY <1>1, <3>1 DEF SampleInv, PointsStored, PointStored
    <3>3. noiseSet'[s] = noiseSet[s]
      BY <1>1, <1>2, <2>1, <2>3
    <3> QED BY <3>2, <3>3
  <2> QED BY <2>2, <2>3
<1> QED BY <1>6, <1>7, <1>8 DEF SampleInv

LEMMA SampleNextOK == SampleInv /\ [Samples!Next]_(Samples!vars) => SampleInv'
<1> SUFFICES ASSUME SampleInv, [Samples!Next]_(Samples!vars) PROVE SampleInv'
  OBVIOUS
<1>1. CASE UNCHANGED Samples!vars
  <2>1. /\ job' = job /\ pc' = pc /\ x' = x /\ y' = y /\ z' = z /\ localCount' = localCount
        /\ sample' = sample /\ noiseSet' = noiseSet
    BY <1>1 DEF Samples!vars
  <2>2. SampleShape'
    BY <2>1, SampleSettingsStay DEF SampleInv, SampleShape, Samples!Slots, Samples!Count
  <2>3. SampleMade'
    BY <2>1, SampleSettingsStay DEF SampleInv, SampleMade, Samples!Slots, Samples!Count
  <2>4. PointsStored'
    <3>1. \A p1, p2, p3 : /\ Visited(p1, p2, p3)' <=> Visited(p1, p2, p3)
                          /\ PointStored(p1, p2, p3)' <=> PointStored(p1, p2, p3)
      BY <2>1, SampleSettingsStay DEF Visited, InCell, PointStored
    <3> QED BY <2>1, <3>1, SampleSettingsStay DEF SampleInv, PointsStored
  <2> QED BY <2>2, <2>3, <2>4 DEF SampleInv
<1>2. CASE Samples!Next
  BY <1>2, SampleMakeOK, SampleVectorOK, NextCellOK DEF Samples!Next
<1> QED BY <1>1, <1>2

LEMMA SampleIsSafe == SampleInv => Samples!CornersExist
BY DEF SampleInv, SampleShape, Samples!CornersExist

LEMMA SampleIsNoise == SampleInv => Samples!SampledAtPoint
<1> SUFFICES ASSUME SampleInv, pc = "done",
                    NEW p1 \in Samples!Slots(job.size[1]), NEW p2 \in Samples!Slots(job.size[2]),
                    NEW p3 \in Samples!Slots(job.size[3])
             PROVE  noiseSet[Samples!At(job.size, p1, p2, p3)] =
                        [a \in Samples!Axes |-> 2 * (job.start[a] + <<p1, p2, p3>>[a] + Samples!Shift(a))
                                                 + IF job.vectors THEN 0 ELSE 1]
  BY DEF Samples!SampledAtPoint
<1>1. PointStored(p1, p2, p3)
  BY DEF SampleInv, PointsStored, IsPoint
<1> QED BY <1>1 DEF PointStored, PlaceOf, Samples!Axes

-----------------------------------------------------------------------------
(***************************************************************************)
(* Sums over finite sets, by the recursion that Total folds with.          *)
(***************************************************************************)
LEMMA SubsetInduction ==
    ASSUME NEW D, IsFiniteSet(D), NEW T \in SUBSET SUBSET D,
           \A s \in SUBSET D : (\A u \in SUBSET s : u # s => u \in T) => s \in T
    PROVE  T = SUBSET D
<1> DEFINE R == StrictSubsetOrdering(D)
           rest == (SUBSET D) \ T
<1> SUFFICES ASSUME rest # {} PROVE FALSE
  OBVIOUS
<1>1. IsWellFoundedOn(R, SUBSET D)
  <2>1. FiniteSubsetsOf(D) = SUBSET D
    BY FS_FiniteSubsetsOfFinite
  <2>2. IsWellFoundedOn(StrictSubsetOrdering(D), FiniteSubsetsOf(D))
    BY FS_StrictSubsetOrderingWellFounded
  <2> QED BY <2>1, <2>2
<1>2. rest \subseteq SUBSET D
  OBVIOUS
<1>3. \E s \in rest : \A u \in rest : <<u, s>> \notin R
  <2> HIDE DEF R, rest
  <2> QED BY <1>1, <1>2, WFMin
<1>4. PICK s \in rest : \A u \in rest : <<u, s>> \notin R
  BY <1>3
<1>5. \A u \in SUBSET s : u # s => u \in T
  BY <1>4 DEF StrictSubsetOrdering
<1> QED BY <1>4, <1>5

Some(s) == CHOOSE e \in s : TRUE
Others(s) == s \ {Some(s)}

LEMMA SomeOne == ASSUME NEW s, s # {}
                 PROVE  Some(s) \in s /\ Others(s) \subseteq s /\ Some(s) \notin Others(s)
BY DEF Some, Others

\* g is the sum of f over each of the sets.
SumsOver(f, sets, g) ==
    g = [s \in sets |-> IF s = {} THEN 0 ELSE f[Some(s)] + g[Others(s)]]

AllSums(f, D, g) == SumsOver(f, SUBSET D, g)

LEMMA SumsExist == ASSUME NEW f, NEW D, IsFiniteSet(D) PROVE \E g : AllSums(f, D, g)
<1> DEFINE Sized(n) == {s \in SUBSET D : Cardinality(s) <= n}
           T == {n \in Nat : \E g : SumsOver(f, Sized(n), g)}
<1>1. \A s \in SUBSET D : /\ IsFiniteSet(s) /\ Cardinality(s) \in Nat
                          /\ Cardinality(s) = 0 <=> s = {}
                          /\ Cardinality(s) <= Cardinality(D)
                          /\ s # {} => Others(s) \in SUBSET D /\ Cardinality(Others(s)) = Cardinality(s) - 1
  BY FS_Subset, FS_CardinalityType, FS_EmptySet, FS_RemoveElement, SomeOne DEF Others
<1>2. 0 \in T
  <2> DEFINE g == [s \in Sized(0) |-> 0]
  <2>1. \A s \in Sized(0) : s = {}
    BY <1>1
  <2>2. SumsOver(f, Sized(0), g)
    BY <2>1 DEF SumsOver
  <2> QED BY <2>2
<1>3. ASSUME NEW n \in Nat, n \in T PROVE n + 1 \in T
  <2>1. PICK g : SumsOver(f, Sized(n), g)
    BY <1>3
  <2> DEFINE h == [s \in Sized(n + 1) |-> IF s = {} THEN 0 ELSE f[Some(s)] + g[Others(s)]]
  <2>2. \A s \in Sized(n) : s \in Sized(n + 1) /\ h[s] = g[s]
    BY <2>1, <1>1 DEF SumsOver
  <2>3. \A s \in Sized(n + 1) : s # {} => Others(s) \in Sized(n)
    BY <1>1
  <2>4. SumsOver(f, Sized(n + 1), h)
    <3> HIDE DEF Sized
    <3>1. \A s \in Sized(n + 1) :
              h[s] = IF s = {} THEN 0 ELSE f[Some(s)] + h[Others(s)]
      BY <2>2, <2>3
    <3>2. h = [s \in Sized(n + 1) |-> h[s]]
      OBVIOUS
    <3> HIDE DEF h
    <3> QED BY <3>1, <3>2 DEF SumsOver
  <2> HIDE DEF h, Sized
  <2> QED BY <2>4
<1>4. Cardinality(D) \in T
  <2> HIDE DEF T
  <2>1. Nat \subseteq T
    BY <1>2, <1>3, Induction
  <2> QED BY <2>1, FS_CardinalityType
<1>5. Sized(Cardinality(D)) = SUBSET D
  BY <1>1
<1> HIDE DEF Sized
<1> QED BY <1>4, <1>5 DEF AllSums

LEMMA TotalSums ==
    ASSUME NEW D, NEW S, NEW f \in [D -> S], IsFiniteSet(D)
    PROVE  \E g : AllSums(f, D, g) /\ Lattice!Total(f) = g[D]
<1> DEFINE g == CHOOSE g : g = [s \in SUBSET DOMAIN f |->
                    IF s = {} THEN 0
                    ELSE f[CHOOSE e \in s : TRUE] + g[s \ {CHOOSE e \in s : TRUE}]]
<1>1. \E h : AllSums(f, D, h)
  BY SumsExist
<1>0. DOMAIN f = D
  OBVIOUS
<1>2. AllSums(f, D, g)
  <2>1. \E h : h = [s \in SUBSET DOMAIN f |->
                    IF s = {} THEN 0
                    ELSE f[CHOOSE e \in s : TRUE] + h[s \ {CHOOSE e \in s : TRUE}]]
    BY <1>0, <1>1 DEF AllSums, SumsOver, Some, Others
  <2>2. g = [s \in SUBSET DOMAIN f |->
                    IF s = {} THEN 0
                    ELSE f[CHOOSE e \in s : TRUE] + g[s \ {CHOOSE e \in s : TRUE}]]
    BY <2>1, Zenon
  <2> HIDE DEF g
  <2> QED BY <1>0, <2>2 DEF AllSums, SumsOver, Some, Others
<1>3. Lattice!Total(f) = g[D]
  BY DEF Lattice!Total, Lattice!FoldFunction, Lattice!FoldFunctionOnSet, Lattice!MapThenFoldSet
<1> HIDE DEF g
<1> QED BY <1>2, <1>3

LEMMA SumStep ==
    ASSUME NEW f, NEW D, NEW g, AllSums(f, D, g)
    PROVE  /\ g[{}] = 0
           /\ \A s \in SUBSET D : s # {} => g[s] = f[Some(s)] + g[Others(s)]
<1>1. \A s \in SUBSET D : g[s] = IF s = {} THEN 0 ELSE f[Some(s)] + g[Others(s)]
  BY DEF AllSums, SumsOver
<1>2. {} \in SUBSET D
  OBVIOUS
<1> QED BY <1>1, <1>2

LEMMA SumsAreInt ==
    ASSUME NEW D, IsFiniteSet(D), NEW f \in [D -> Int], NEW g, AllSums(f, D, g)
    PROVE  \A s \in SUBSET D : g[s] \in Int
<1> DEFINE T == {s \in SUBSET D : g[s] \in Int}
<1>1. ASSUME NEW s \in SUBSET D, \A u \in SUBSET s : u # s => u \in T PROVE s \in T
  <2>1. CASE s = {}
    BY <2>1, SumStep
  <2>2. CASE s # {}
    <3>1. Others(s) \in T /\ Some(s) \in D
      BY <1>1, <2>2, SomeOne
    <3> QED BY <2>2, <3>1, SumStep
  <2> QED BY <2>1, <2>2
<1>2. T \in SUBSET SUBSET D
  OBVIOUS
<1> HIDE DEF T
<1>3. T = SUBSET D
  BY <1>1, <1>2, SubsetInduction
<1> QED BY <1>3 DEF T

(* Any element may be added last. *)
Without(s, e) == s \ {e}

LEMMA SumSplit ==
    ASSUME NEW D, IsFiniteSet(D), NEW f \in [D -> Int], NEW g, AllSums(f, D, g)
    PROVE  \A s \in SUBSET D : \A e \in s : g[s] = f[e] + g[Without(s, e)]
<1> DEFINE T == {s \in SUBSET D : \A e \in s : g[s] = f[e] + g[Without(s, e)]}
<1>1. ASSUME NEW s \in SUBSET D, \A u \in SUBSET s : u # s => u \in T PROVE s \in T
  <2> SUFFICES ASSUME NEW e \in s PROVE g[s] = f[e] + g[Without(s, e)]
    OBVIOUS
  <2> DEFINE d == Some(s)
  <2>1. d \in s /\ g[s] = f[d] + g[Without(s, d)]
    <3>1. s # {} /\ s \in SUBSET D
      OBVIOUS
    <3>2. d \in s /\ Others(s) = Without(s, d)
      BY <3>1, SomeOne DEF Others, Without
    <3>3. g[s] = f[d] + g[Others(s)]
      BY <3>1, SumStep
    <3> QED BY <3>2, <3>3
  <2> HIDE DEF d
  <2>2. CASE e = d
    BY <2>1, <2>2
  <2>3. CASE e # d
    <3> DEFINE w == Without(Without(s, d), e)
    <3>1. Without(s, d) \in T /\ Without(s, e) \in T
      BY <1>1, <2>1 DEF Without
    <3>2. e \in Without(s, d) /\ d \in Without(s, e) /\ Without(Without(s, e), d) = w /\ w \in SUBSET D
      BY <2>1, <2>3 DEF Without
    <3> HIDE DEF w
    <3>3. g[Without(s, d)] = f[e] + g[w]
      BY <3>1, <3>2 DEF w
    <3>4. g[Without(s, e)] = f[d] + g[w]
      BY <3>1, <3>2
    <3>5. f[e] \in Int /\ f[d] \in Int /\ g[w] \in Int
      BY <2>1, <3>2, SumsAreInt
    <3> QED BY <2>1, <3>3, <3>4, <3>5
  <2> QED BY <2>2, <2>3
<1>2. T \in SUBSET SUBSET D
  OBVIOUS
<1> HIDE DEF T
<1>3. T = SUBSET D
  BY <1>1, <1>2, SubsetInduction
<1> QED BY <1>3 DEF T

LEMMA TotalIsInt ==
    ASSUME NEW D, IsFiniteSet(D), NEW f \in [D -> Int] PROVE Lattice!Total(f) \in Int
<1>1. PICK g : AllSums(f, D, g) /\ Lattice!Total(f) = g[D]
  BY TotalSums
<1> QED BY <1>1, SumsAreInt

(* A sum of one. *)
LEMMA TotalOfOne == ASSUME NEW p PROVE Lattice!Total([q \in {p} |-> 1]) = 1
<1> DEFINE f == [q \in {p} |-> 1]
<1>1. IsFiniteSet({p}) /\ f \in [{p} -> Int]
  BY FS_Singleton
<1> HIDE DEF f
<1>2. PICK g : AllSums(f, {p}, g) /\ Lattice!Total(f) = g[{p}]
  BY <1>1, TotalSums
<1>3. Some({p}) = p /\ Others({p}) = {}
  BY SomeOne DEF Others
<1>4. g[{p}] = f[p] + g[{}] /\ g[{}] = 0
  <2>1. {p} \in SUBSET {p} /\ {p} # {}
    OBVIOUS
  <2>2. g[{}] = 0
    BY <1>2, SumStep
  <2>3. \A s \in SUBSET {p} : s # {} => g[s] = f[Some(s)] + g[Others(s)]
    BY <1>2, SumStep
  <2> QED BY <1>3, <2>1, <2>2, <2>3
<1>5. f[p] = 1
  BY DEF f
<1> QED BY <1>2, <1>4, <1>5 DEF f

(* Sums are linear. *)
LEMMA TotalLinear ==
    ASSUME NEW D, IsFiniteSet(D), NEW a \in [D -> Int], NEW b \in [D -> Int],
           NEW m \in Int, NEW n \in Int
    PROVE  Lattice!Total([p \in D |-> m * a[p] + n * b[p]])
               = m * Lattice!Total(a) + n * Lattice!Total(b)
<1> DEFINE c == [p \in D |-> m * a[p] + n * b[p]]
<1>0. c \in [D -> Int] /\ \A p \in D : c[p] = m * a[p] + n * b[p]
  OBVIOUS
<1> HIDE DEF c
<1>1. PICK g : AllSums(a, D, g) /\ Lattice!Total(a) = g[D]
  BY TotalSums
<1>2. PICK h : AllSums(b, D, h) /\ Lattice!Total(b) = h[D]
  BY TotalSums
<1>3. PICK k : AllSums(c, D, k) /\ Lattice!Total(c) = k[D]
  BY <1>0, TotalSums
<1>4. \A s \in SUBSET D : g[s] \in Int /\ h[s] \in Int
  BY <1>1, <1>2, SumsAreInt
<1> DEFINE T == {s \in SUBSET D : k[s] = m * g[s] + n * h[s]}
<1>5. ASSUME NEW s \in SUBSET D, \A u \in SUBSET s : u # s => u \in T PROVE s \in T
  <2>1. CASE s = {}
    <3>1. k[s] = 0 /\ g[s] = 0 /\ h[s] = 0
      BY <1>1, <1>2, <1>3, <2>1, SumStep
    <3> QED BY <3>1
  <2>2. CASE s # {}
    <3> DEFINE e == Some(s)
               r == Others(s)
    <3>1. r \in SUBSET D /\ k[r] = m * g[r] + n * h[r] /\ e \in D
      BY <1>5, <2>2, SomeOne
    <3>2. k[s] = c[e] + k[r] /\ g[s] = a[e] + g[r] /\ h[s] = b[e] + h[r]
      BY <1>1, <1>2, <1>3, <2>2, SumStep
    <3> HIDE DEF e, r
    <3>3. c[e] = m * a[e] + n * b[e] /\ a[e] \in Int /\ b[e] \in Int
      BY <1>0, <3>1
    <3>4. g[r] \in Int /\ h[r] \in Int
      BY <1>4, <3>1
    <3>5. k[s] = m * (a[e] + g[r]) + n * (b[e] + h[r])
      BY <3>1, <3>2, <3>3, <3>4
    <3> QED BY <3>2, <3>5
  <2> QED BY <2>1, <2>2
<1>6. T \in SUBSET SUBSET D
  OBVIOUS
<1> HIDE DEF T
<1>7. T = SUBSET D
  BY <1>5, <1>6, SubsetInduction
<1>8. k[D] = m * g[D] + n * h[D]
  BY <1>7 DEF T
<1> QED BY <1>1, <1>2, <1>3, <1>8 DEF c

(* A sum grows with what is added. *)
LEMMA TotalGrows ==
    ASSUME NEW D, IsFiniteSet(D), NEW a \in [D -> Int], NEW b \in [D -> Int],
           \A p \in D : a[p] <= b[p]
    PROVE  Lattice!Total(a) <= Lattice!Total(b)
<1>1. PICK g : AllSums(a, D, g) /\ Lattice!Total(a) = g[D]
  BY TotalSums
<1>2. PICK h : AllSums(b, D, h) /\ Lattice!Total(b) = h[D]
  BY TotalSums
<1>4. \A s \in SUBSET D : g[s] \in Int /\ h[s] \in Int
  BY <1>1, <1>2, SumsAreInt
<1> DEFINE T == {s \in SUBSET D : g[s] <= h[s]}
<1>5. ASSUME NEW s \in SUBSET D, \A u \in SUBSET s : u # s => u \in T PROVE s \in T
  <2>1. CASE s = {}
    <3>1. g[s] = 0 /\ h[s] = 0
      BY <1>1, <1>2, <2>1, SumStep
    <3> QED BY <3>1
  <2>2. CASE s # {}
    <3> DEFINE e == Some(s)
               r == Others(s)
    <3>1. r \in SUBSET D /\ g[r] <= h[r] /\ e \in D
      BY <1>5, <2>2, SomeOne
    <3>2. g[s] = a[e] + g[r] /\ h[s] = b[e] + h[r]
      BY <1>1, <1>2, <2>2, SumStep
    <3> HIDE DEF e, r
    <3>3. a[e] \in Int /\ b[e] \in Int /\ a[e] <= b[e] /\ g[r] \in Int /\ h[r] \in Int
      BY <1>4, <3>1
    <3> QED BY <3>1, <3>2, <3>3
  <2> QED BY <2>1, <2>2
<1>6. T \in SUBSET SUBSET D
  OBVIOUS
<1> HIDE DEF T
<1>7. T = SUBSET D
  BY <1>5, <1>6, SubsetInduction
<1>8. g[D] <= h[D]
  BY <1>7 DEF T
<1> QED BY <1>1, <1>2, <1>8

(* Points that have no weight add nothing. *)
LEMMA TotalExtends ==
    ASSUME NEW D, IsFiniteSet(D), NEW A \in SUBSET D, NEW a \in [A -> Int]
    PROVE  /\ [p \in D |-> Lattice!Weight(a, p)] \in [D -> Int]
           /\ Lattice!Total([p \in D |-> Lattice!Weight(a, p)]) = Lattice!Total(a)
<1> DEFINE b == [p \in D |-> Lattice!Weight(a, p)]
<1>0. b \in [D -> Int] /\ \A p \in D : b[p] = IF p \in A THEN a[p] ELSE 0
  BY DEF Lattice!Weight
<1> HIDE DEF b
<1>a. IsFiniteSet(A)
  BY FS_Subset
<1>1. PICK g : AllSums(a, A, g) /\ Lattice!Total(a) = g[A]
  BY <1>a, TotalSums
<1>2. PICK h : AllSums(b, D, h) /\ Lattice!Total(b) = h[D]
  BY <1>0, TotalSums
<1>3. \A s \in SUBSET A : g[s] \in Int
  BY <1>1, <1>a, SumsAreInt
<1>4. \A s \in SUBSET A : \A e \in s : g[s] = a[e] + g[Without(s, e)]
  BY <1>1, <1>a, SumSplit
<1> DEFINE T == {s \in SUBSET D : h[s] = g[s \cap A]}
<1>5. ASSUME NEW s \in SUBSET D, \A u \in SUBSET s : u # s => u \in T PROVE s \in T
  <2>1. CASE s = {}
    <3>1. s \cap A = {} /\ s \cap A \in SUBSET A
      BY <2>1
    <3>2. h[s] = 0
      BY <1>2, <2>1, SumStep
    <3>3. g[s \cap A] = 0
      BY <1>1, <3>1, SumStep
    <3> QED BY <3>1, <3>2, <3>3
  <2>2. CASE s # {}
    <3> DEFINE e == Some(s)
               r == Others(s)
    <3>1. r = s \ {e} /\ e \in s /\ h[r] = g[r \cap A] /\ h[s] = b[e] + h[r]
      <4>1. r = s \ {e} /\ e \in s
        BY <2>2, SomeOne DEF Others
      <4>2. h[s] = b[e] + h[r]
        BY <1>2, <2>2, SumStep
      <4>3. r \in T
        BY <1>5, <4>1
      <4> QED BY <4>1, <4>2, <4>3
    <3> HIDE DEF e, r
    <3>2. CASE e \in A
      <4>1. e \in s \cap A /\ s \cap A \in SUBSET A /\ Without(s \cap A, e) = r \cap A
        BY <3>1, <3>2 DEF Without
      <4>2. g[s \cap A] = a[e] + g[r \cap A]
        BY <1>4, <4>1
      <4> QED BY <1>0, <3>1, <3>2, <4>2
    <3>3. CASE e \notin A
      <4> DEFINE u == s \cap A
                 v == r \cap A
      <4>1. u = v /\ v \in SUBSET A
        BY <3>1, <3>3
      <4>2. h[s] = b[e] + g[v] /\ b[e] = 0
        BY <1>0, <3>1, <3>3
      <4> HIDE DEF u, v
      <4>3. g[v] \in Int
        BY <1>3, <4>1
      <4>4. h[s] = g[u]
        BY <4>1, <4>2, <4>3
      <4> QED BY <4>4 DEF u
    <3> QED BY <3>2, <3>3
  <2> QED BY <2>1, <2>2
<1>6. T \in SUBSET SUBSET D
  OBVIOUS
<1> HIDE DEF T
<1>7. T = SUBSET D
  BY <1>5, <1>6, SubsetInduction
<1>8. h[D] = g[D \cap A] /\ D \cap A = A
  BY <1>7 DEF T
<1> QED BY <1>0, <1>1, <1>2, <1>8 DEF b

-----------------------------------------------------------------------------
(***************************************************************************)
(* LatticeNoise.                                                           *)
(***************************************************************************)
\* What Coord gives a weight to.
Key(hash, p) ==
    IF hash = "Val" THEN p ELSE <<p, [a \in DOMAIN p |-> place[a] - Lattice!Quarters * p[a]]>>

LEMMA CoordIsOne ==
    ASSUME NEW hash, NEW p
    PROVE  /\ Lattice!Coord(hash, p) \in [{Key(hash, p)} -> Int]
           /\ Lattice!Coord(hash, p)[Key(hash, p)] = 1
           /\ IsFiniteSet({Key(hash, p)})
           /\ Lattice!Total(Lattice!Coord(hash, p)) = 1
<1>1. Lattice!Coord(hash, p) = [q \in {Key(hash, p)} |-> 1]
  BY DEF Lattice!Coord, Lattice!ValCoord, Lattice!GradCoord, Key
<1> QED BY <1>1, TotalOfOne, FS_Singleton

LEMMA KeysDiffer ==
    ASSUME NEW hash, NEW p, NEW q, Key(hash, p) = Key(hash, q) PROVE p = q
BY DEF Key

AbsOf(f) == [p \in DOMAIN f |-> Lattice!Abs(f[p])]

LEMMA AbsOfOK == ASSUME NEW D, NEW f \in [D -> Int]
                 PROVE  AbsOf(f) \in [D -> Int] /\ \A p \in D : AbsOf(f)[p] = Lattice!Abs(f[p])
BY DEF AbsOf, Lattice!Abs

LEMMA AbsOfProduct == ASSUME NEW m \in Int, NEW n \in Int
                      PROVE  /\ Lattice!Abs(m) \in Nat
                             /\ Lattice!Abs(m * n) = Lattice!Abs(m) * Lattice!Abs(n)
<1>1. CASE m >= 0 /\ n >= 0
  <2>1. m * n >= 0
    BY <1>1
  <2> QED BY <1>1, <2>1 DEF Lattice!Abs
<1>2. CASE m < 0 /\ n >= 0
  <2>1. m * n <= 0 /\ (-m) * n = -(m * n)
    BY <1>2
  <2> QED BY <1>2, <2>1 DEF Lattice!Abs
<1>3. CASE m >= 0 /\ n < 0
  <2>1. m * n <= 0 /\ m * (-n) = -(m * n)
    BY <1>3
  <2> QED BY <1>3, <2>1 DEF Lattice!Abs
<1>4. CASE m < 0 /\ n < 0
  <2>1. m * n >= 0 /\ (-m) * (-n) = m * n
    BY <1>4
  <2> QED BY <1>4, <2>1 DEF Lattice!Abs
<1> QED BY <1>1, <1>2, <1>3, <1>4

(* Two sums that have no point in common, put together. *)
Apart(A, B) == A \cap B = {}

Mix(a, b, m, n) ==
    [p \in DOMAIN a \cup DOMAIN b |-> m * Lattice!Weight(a, p) + n * Lattice!Weight(b, p)]

Combined(m, u, n, v) == m * u + n * v

LEMMA MixAt ==
    ASSUME NEW A, NEW B, Apart(A, B), NEW a \in [A -> Int], NEW b \in [B -> Int],
           NEW m \in Int, NEW n \in Int, NEW p
    PROVE  /\ p \in A => Mix(a, b, m, n)[p] = m * a[p]
           /\ p \in B => Mix(a, b, m, n)[p] = n * b[p]
<1>1. CASE p \in A
  <2>1. Mix(a, b, m, n)[p] = m * a[p] + n * 0 /\ p \notin B
    BY <1>1 DEF Mix, Lattice!Weight, Apart
  <2> QED BY <1>1, <2>1
<1>2. CASE p \in B
  <2>1. Mix(a, b, m, n)[p] = m * 0 + n * b[p] /\ p \notin A
    BY <1>2 DEF Mix, Lattice!Weight, Apart
  <2> QED BY <1>2, <2>1
<1> QED BY <1>1, <1>2

LEMMA MixTotal ==
    ASSUME NEW A, NEW B, IsFiniteSet(A), IsFiniteSet(B), Apart(A, B),
           NEW a \in [A -> Int], NEW b \in [B -> Int], NEW m \in Int, NEW n \in Int
    PROVE  /\ Mix(a, b, m, n) \in [A \cup B -> Int] /\ IsFiniteSet(A \cup B)
           /\ Lattice!Total(Mix(a, b, m, n)) = Combined(m, Lattice!Total(a), n, Lattice!Total(b))
<1> DEFINE D == A \cup B
           a1 == [p \in D |-> Lattice!Weight(a, p)]
           b1 == [p \in D |-> Lattice!Weight(b, p)]
<1>1. IsFiniteSet(D) /\ A \in SUBSET D /\ B \in SUBSET D
  BY FS_Union
<1>2. Mix(a, b, m, n) = [p \in D |-> m * a1[p] + n * b1[p]]
  BY DEF Mix
<1> HIDE DEF D
<1>5. a1 \in [D -> Int] /\ Lattice!Total(a1) = Lattice!Total(a)
      /\ b1 \in [D -> Int] /\ Lattice!Total(b1) = Lattice!Total(b)
  BY <1>1, TotalExtends
<1> HIDE DEF a1, b1
<1>6. Lattice!Total(Mix(a, b, m, n)) = Combined(m, Lattice!Total(a), n, Lattice!Total(b))
  BY <1>1, <1>2, <1>5, TotalLinear DEF Combined
<1>7. Mix(a, b, m, n) \in [D -> Int]
  BY <1>2, <1>5
<1> QED BY <1>1, <1>6, <1>7 DEF D

LEMMA MixOfAbs ==
    ASSUME NEW A, NEW B, IsFiniteSet(A), IsFiniteSet(B), Apart(A, B),
           NEW a \in [A -> Int], NEW b \in [B -> Int], NEW m \in Int, NEW n \in Int
    PROVE  Lattice!Total(AbsOf(Mix(a, b, m, n)))
               = Combined(Lattice!Abs(m), Lattice!Total(AbsOf(a)), Lattice!Abs(n), Lattice!Total(AbsOf(b)))
<1> DEFINE f == AbsOf(Mix(a, b, m, n))
           g == Mix(AbsOf(a), AbsOf(b), Lattice!Abs(m), Lattice!Abs(n))
<1>1. AbsOf(a) \in [A -> Int] /\ AbsOf(b) \in [B -> Int]
      /\ (\A p \in A : AbsOf(a)[p] = Lattice!Abs(a[p]))
      /\ (\A p \in B : AbsOf(b)[p] = Lattice!Abs(b[p]))
  BY AbsOfOK
<1>2. Lattice!Abs(m) \in Int /\ Lattice!Abs(n) \in Int
  BY DEF Lattice!Abs
<1>3. Mix(a, b, m, n) \in [A \cup B -> Int]
  BY MixTotal
<1>4. /\ g \in [A \cup B -> Int]
      /\ Lattice!Total(g) = Combined(Lattice!Abs(m), Lattice!Total(AbsOf(a)),
                                     Lattice!Abs(n), Lattice!Total(AbsOf(b)))
  BY <1>1, <1>2, MixTotal
<1>5. /\ f \in [A \cup B -> Int]
      /\ \A p \in A \cup B : f[p] = Lattice!Abs(Mix(a, b, m, n)[p])
  BY <1>3, AbsOfOK
<1> HIDE DEF f, g
<1>6. \A p \in A : f[p] = g[p]
  <2> SUFFICES ASSUME NEW p \in A PROVE f[p] = g[p]
    OBVIOUS
  <2>1. a[p] \in Int /\ f[p] = Lattice!Abs(m * a[p])
    BY <1>5, MixAt
  <2>2. g[p] = Lattice!Abs(m) * Lattice!Abs(a[p])
    BY <1>1, <1>2, MixAt DEF g
  <2> QED BY <2>1, <2>2, AbsOfProduct
<1>7. \A p \in B : f[p] = g[p]
  <2> SUFFICES ASSUME NEW p \in B PROVE f[p] = g[p]
    OBVIOUS
  <2>1. b[p] \in Int /\ f[p] = Lattice!Abs(n * b[p])
    BY <1>5, MixAt
  <2>2. g[p] = Lattice!Abs(n) * Lattice!Abs(b[p])
    BY <1>1, <1>2, MixAt DEF g
  <2> QED BY <2>1, <2>2, AbsOfProduct
<1>8. f = g
  BY <1>4, <1>5, <1>6, <1>7
<1> QED BY <1>4, <1>8 DEF f

LEMMA LerpIsMix == \A a, b, t : Lattice!Lerp(a, b, t) = Mix(a, b, Lattice!Unit - t, t)
BY DEF Lattice!Lerp, Mix

\* The weights that CubicLerp gives, from the point before the cell on.
CubicPart(t, e) == CASE e = -1 -> -(t * t * t) + 8 * t * t - 16 * t
                     [] e = 0  -> t * t * t - 8 * t * t + Lattice!CubicUnit
                     [] e = 1  -> -(t * t * t) + 4 * t * t + 16 * t
                     [] e = 2  -> t * t * t - 4 * t * t

LEMMA CubicParts ==
    ASSUME NEW t \in 0 .. 4
    PROVE  /\ t = 0 => CubicPart(t, -1) = 0 /\ CubicPart(t, 0) = 64
                       /\ CubicPart(t, 1) = 0 /\ CubicPart(t, 2) = 0
           /\ t = 1 => CubicPart(t, -1) = -9 /\ CubicPart(t, 0) = 57
                       /\ CubicPart(t, 1) = 19 /\ CubicPart(t, 2) = -3
           /\ t = 2 => CubicPart(t, -1) = -8 /\ CubicPart(t, 0) = 40
                       /\ CubicPart(t, 1) = 40 /\ CubicPart(t, 2) = -8
           /\ t = 3 => CubicPart(t, -1) = -3 /\ CubicPart(t, 0) = 19
                       /\ CubicPart(t, 1) = 57 /\ CubicPart(t, 2) = -9
           /\ t = 4 => CubicPart(t, -1) = 0 /\ CubicPart(t, 0) = 0
                       /\ CubicPart(t, 1) = 64 /\ CubicPart(t, 2) = 0
<1>1. CASE t = 0 BY <1>1 DEF CubicPart, Lattice!CubicUnit
<1>2. CASE t = 1 BY <1>2 DEF CubicPart, Lattice!CubicUnit
<1>3. CASE t = 2 BY <1>3 DEF CubicPart, Lattice!CubicUnit
<1>4. CASE t = 3 BY <1>4 DEF CubicPart, Lattice!CubicUnit
<1>5. CASE t = 4 BY <1>5 DEF CubicPart, Lattice!CubicUnit
<1> QED BY <1>1, <1>2, <1>3, <1>4, <1>5

LEMMA CubicLerpIsMix ==
    ASSUME NEW a, NEW b, NEW c, NEW d, NEW t \in 0 .. 4,
           a \in [DOMAIN a -> Int], b \in [DOMAIN b -> Int],
           c \in [DOMAIN c -> Int], d \in [DOMAIN d -> Int],
           Apart(DOMAIN a \cup DOMAIN b, DOMAIN c \cup DOMAIN d)
    PROVE  Lattice!CubicLerp(a, b, c, d, t)
               = Mix(Mix(a, b, CubicPart(t, -1), CubicPart(t, 0)),
                     Mix(c, d, CubicPart(t, 1), CubicPart(t, 2)), 1, 1)
<1> DEFINE A == DOMAIN a
           B == DOMAIN b
           C == DOMAIN c
           D == DOMAIN d
           P == CubicPart(t, -1)
           Q == CubicPart(t, 0)
           R == CubicPart(t, 1)
           S == CubicPart(t, 2)
           W(f, p) == Lattice!Weight(f, p)
           all == (A \cup B) \cup (C \cup D)
<1>1. Lattice!CubicLerp(a, b, c, d, t)
          = [p \in A \cup B \cup C \cup D |-> P * W(a, p) + Q * W(b, p) + R * W(c, p) + S * W(d, p)]
  BY DEF Lattice!CubicLerp, CubicPart
<1>2. P \in Int /\ Q \in Int /\ R \in Int /\ S \in Int
  BY CubicParts
<1>3. \A p : W(a, p) \in Int /\ W(b, p) \in Int /\ W(c, p) \in Int /\ W(d, p) \in Int
             /\ (p \notin A => W(a, p) = 0) /\ (p \notin B => W(b, p) = 0)
             /\ (p \notin C => W(c, p) = 0) /\ (p \notin D => W(d, p) = 0)
  BY DEF Lattice!Weight
<1> HIDE DEF P, Q, R, S
<1>4. \A p : W(Mix(a, b, P, Q), p) = IF p \in A \cup B THEN P * W(a, p) + Q * W(b, p) ELSE 0
  BY DEF Mix, Lattice!Weight
<1>5. \A p : W(Mix(c, d, R, S), p) = IF p \in C \cup D THEN R * W(c, p) + S * W(d, p) ELSE 0
  BY DEF Mix, Lattice!Weight
<1>6. Mix(Mix(a, b, P, Q), Mix(c, d, R, S), 1, 1)
          = [p \in all |-> 1 * W(Mix(a, b, P, Q), p) + 1 * W(Mix(c, d, R, S), p)]
  BY DEF Mix
<1> HIDE DEF W
<1>7. \A p \in all : P * W(a, p) + Q * W(b, p) + R * W(c, p) + S * W(d, p)
                     = 1 * W(Mix(a, b, P, Q), p) + 1 * W(Mix(c, d, R, S), p)
  <2> SUFFICES ASSUME NEW p \in all
               PROVE  P * W(a, p) + Q * W(b, p) + R * W(c, p) + S * W(d, p)
                      = 1 * W(Mix(a, b, P, Q), p) + 1 * W(Mix(c, d, R, S), p)
    OBVIOUS
  <2>1. CASE p \in A \cup B
    <3>1. W(c, p) = 0 /\ W(d, p) = 0 /\ W(Mix(c, d, R, S), p) = 0
          /\ W(Mix(a, b, P, Q), p) = P * W(a, p) + Q * W(b, p)
      BY <1>3, <1>4, <1>5, <2>1 DEF Apart
    <3> QED BY <1>2, <1>3, <3>1
  <2>2. CASE p \in C \cup D
    <3>1. W(a, p) = 0 /\ W(b, p) = 0 /\ W(Mix(a, b, P, Q), p) = 0
          /\ W(Mix(c, d, R, S), p) = R * W(c, p) + S * W(d, p)
      BY <1>3, <1>4, <1>5, <2>2 DEF Apart
    <3> QED BY <1>2, <1>3, <3>1
  <2> QED BY <2>1, <2>2
<1>8. A \cup B \cup C \cup D = all
  OBVIOUS
<1> HIDE DEF all
<1>9. Lattice!CubicLerp(a, b, c, d, t) = Mix(Mix(a, b, P, Q), Mix(c, d, R, S), 1, 1)
  BY <1>1, <1>6, <1>7, <1>8
<1> QED BY <1>9 DEF P, Q, R, S

\* What Lerp (or else CubicLerp) takes the sums from, the weights it gives
\* them, what these add up to, and what they do without their signs at most.
Near(how, m) == IF how = "cubic" THEN m - 1 .. m + 2 ELSE m .. m + 1
Part(how, t, e) == IF how = "cubic" THEN CubicPart(t, e) ELSE IF e = 0 THEN Lattice!Unit - t ELSE t
Full(how) == IF how = "cubic" THEN 4 ELSE Lattice!Unit
One(how) == IF how = "cubic" THEN Lattice!CubicUnit ELSE Lattice!Unit
MostPart(how) == IF how = "cubic" THEN 96 ELSE Lattice!Unit

Layer(how, sums, m, t) ==
    IF how = "cubic" THEN Lattice!CubicLerp(sums[m - 1], sums[m], sums[m + 1], sums[m + 2], t)
             ELSE Lattice!Lerp(sums[m], sums[m + 1], t)

\* A sum of the points K, its total, and the bound of it without the signs.
Blended(f, K, W, X) ==
    f \in [K -> Int] /\ IsFiniteSet(K) /\ Lattice!Total(f) = W /\ Lattice!Total(AbsOf(f)) <= X

\* The sums of a layer have no point in common.
Layered(how, m, keys, sums, W, X) ==
    /\ \A n \in Near(how, m) : Blended(sums[n], keys[n], W, X)
    /\ \A n, o \in Near(how, m) : n # o => Apart(keys[n], keys[o])

\* A layer has the points of its sums, each with its part of their weights.
Laid(how, m, t, keys, sums, W, X) ==
    /\ Blended(Layer(how, sums, m, t), UNION {keys[n] : n \in Near(how, m)},
               One(how) * W, MostPart(how) * X)
    /\ \A n \in Near(how, m) : \A p \in keys[n] :
          Layer(how, sums, m, t)[p] = Part(how, t, n - m) * sums[n][p]

LEMMA NearIs ==
    ASSUME NEW m \in Int
    PROVE  /\ Near("lerp", m) = {m, m + 1}
           /\ Near("cubic", m) = {m - 1, m, m + 1, m + 2}
BY DEF Near

LEMMA TotalsAreInt ==
    ASSUME NEW f, NEW K, IsFiniteSet(K), f \in [K -> Int]
    PROVE  Lattice!Total(f) \in Int /\ Lattice!Total(AbsOf(f)) \in Int
BY AbsOfOK, TotalIsInt

LEMMA LerpLayerOK ==
    ASSUME NEW m \in Int, NEW t \in 0 .. 1024, NEW keys, NEW sums, NEW W \in Int, NEW X \in Nat,
           Layered("lerp", m, keys, sums, W, X)
    PROVE  Laid("lerp", m, t, keys, sums, W, X)
<1> DEFINE a == sums[m]
           b == sums[m + 1]
           A == keys[m]
           B == keys[m + 1]
           f == Mix(a, b, 1024 - t, t)
<1>1. /\ Blended(a, A, W, X) /\ Blended(b, B, W, X) /\ Apart(A, B)
  BY DEF Layered, Near
<1>2. Layer("lerp", sums, m, t) = f
  BY LerpIsMix DEF Layer, Lattice!Unit
<1> HIDE DEF a, b, A, B, f
<1>3. /\ a \in [A -> Int] /\ IsFiniteSet(A) /\ Lattice!Total(a) = W
      /\ b \in [B -> Int] /\ IsFiniteSet(B) /\ Lattice!Total(b) = W
      /\ Lattice!Total(AbsOf(a)) <= X /\ Lattice!Total(AbsOf(b)) <= X
  BY <1>1 DEF Blended
<1>4. Lattice!Total(AbsOf(a)) \in Int /\ Lattice!Total(AbsOf(b)) \in Int
  BY <1>3, TotalsAreInt
<1>5. 1024 - t \in Int /\ t \in Int /\ Lattice!Abs(1024 - t) = 1024 - t /\ Lattice!Abs(t) = t
  BY DEF Lattice!Abs
<1>6. f \in [A \cup B -> Int] /\ IsFiniteSet(A \cup B)
      /\ Lattice!Total(f) = Combined(1024 - t, W, t, W)
  BY <1>1, <1>3, <1>5, MixTotal DEF f
<1>7. Lattice!Total(AbsOf(f)) = Combined(1024 - t, Lattice!Total(AbsOf(a)), t, Lattice!Total(AbsOf(b)))
  BY <1>1, <1>3, <1>5, MixOfAbs DEF f
<1>8. Combined(1024 - t, W, t, W) = 1024 * W
  BY DEF Combined
<1>9. Combined(1024 - t, Lattice!Total(AbsOf(a)), t, Lattice!Total(AbsOf(b))) <= 1024 * X
  <2> DEFINE u == Lattice!Total(AbsOf(a))
             v == Lattice!Total(AbsOf(b))
  <2>1. u \in Int /\ v \in Int /\ u <= X /\ v <= X
    BY <1>3, <1>4
  <2> HIDE DEF u, v
  <2>2. (1024 - t) * (X - u) >= 0 /\ t * (X - v) >= 0
    BY <2>1
  <2>3. (1024 - t) * u + t * v <= 1024 * X
    BY <2>1, <2>2
  <2> QED BY <2>3 DEF Combined, u, v
<1>10. Blended(f, A \cup B, 1024 * W, 1024 * X)
  BY <1>6, <1>7, <1>8, <1>9 DEF Blended
<1>11. ASSUME NEW n \in Near("lerp", m), NEW p \in keys[n]
       PROVE  f[p] = Part("lerp", t, n - m) * sums[n][p]
  <2>1. CASE n = m
    <3>1. f[p] = (1024 - t) * a[p]
      BY <1>1, <1>3, <1>5, <1>11, <2>1, MixAt DEF f, A
    <3> QED BY <2>1, <3>1 DEF Part, Lattice!Unit, a
  <2>2. CASE n = m + 1
    <3>1. f[p] = t * b[p]
      BY <1>1, <1>3, <1>5, <1>11, <2>2, MixAt DEF f, B
    <3> QED BY <2>2, <3>1 DEF Part, b
  <2> QED BY <2>1, <2>2, <1>11, NearIs
<1>12. UNION {keys[n] : n \in Near("lerp", m)} = A \cup B
  BY NearIs DEF A, B
<1>13. One("lerp") = 1024 /\ MostPart("lerp") = 1024
  BY DEF One, MostPart, Lattice!Unit
<1>14. Blended(Layer("lerp", sums, m, t), UNION {keys[n] : n \in Near("lerp", m)},
               One("lerp") * W, MostPart("lerp") * X)
  <2> DEFINE U == UNION {keys[n] : n \in Near("lerp", m)}
             V == A \cup B
  <2>1. U = V
    BY <1>12
  <2>2. Blended(f, V, 1024 * W, 1024 * X)
    BY <1>10
  <2> HIDE DEF U, V
  <2> QED BY <1>2, <1>13, <2>1, <2>2 DEF U
<1>15. \A n \in Near("lerp", m) : \A p \in keys[n] :
           Layer("lerp", sums, m, t)[p] = Part("lerp", t, n - m) * sums[n][p]
  BY <1>2, <1>11
<1> QED BY <1>14, <1>15 DEF Laid

LEMMA CubicLayerOK ==
    ASSUME NEW m \in Int, NEW t \in 0 .. 4, NEW keys, NEW sums, NEW W \in Int, NEW X \in Nat,
           Layered("cubic", m, keys, sums, W, X)
    PROVE  Laid("cubic", m, t, keys, sums, W, X)
<1> DEFINE a == sums[m - 1]
           b == sums[m]
           c == sums[m + 1]
           d == sums[m + 2]
           A == keys[m - 1]
           B == keys[m]
           C == keys[m + 1]
           D == keys[m + 2]
           P == CubicPart(t, -1)
           Q == CubicPart(t, 0)
           R == CubicPart(t, 1)
           S == CubicPart(t, 2)
           f == Mix(a, b, P, Q)
           g == Mix(c, d, R, S)
           h == Mix(f, g, 1, 1)
<1>1. /\ Blended(a, A, W, X) /\ Blended(b, B, W, X) /\ Blended(c, C, W, X) /\ Blended(d, D, W, X)
      /\ Apart(A, B) /\ Apart(C, D) /\ Apart(A, C) /\ Apart(A, D) /\ Apart(B, C) /\ Apart(B, D)
  BY DEF Layered, Near
<1>2. P \in Int /\ Q \in Int /\ R \in Int /\ S \in Int
  BY CubicParts
<1>a. Layer("cubic", sums, m, t) = Lattice!CubicLerp(a, b, c, d, t)
  BY DEF Layer
<1>b. Part("cubic", t, -1) = P /\ Part("cubic", t, 0) = Q /\ Part("cubic", t, 1) = R /\ Part("cubic", t, 2) = S
  BY DEF Part
<1> HIDE DEF a, b, c, d, A, B, C, D
<1>3. /\ a \in [A -> Int] /\ IsFiniteSet(A) /\ Lattice!Total(a) = W /\ Lattice!Total(AbsOf(a)) <= X
      /\ b \in [B -> Int] /\ IsFiniteSet(B) /\ Lattice!Total(b) = W /\ Lattice!Total(AbsOf(b)) <= X
      /\ c \in [C -> Int] /\ IsFiniteSet(C) /\ Lattice!Total(c) = W /\ Lattice!Total(AbsOf(c)) <= X
      /\ d \in [D -> Int] /\ IsFiniteSet(D) /\ Lattice!Total(d) = W /\ Lattice!Total(AbsOf(d)) <= X
  BY <1>1 DEF Blended
<1>4. Apart(A \cup B, C \cup D)
  BY <1>1 DEF Apart
<1>c. Apart(A, B) /\ a \in [A -> Int] /\ IsFiniteSet(A) /\ b \in [B -> Int] /\ IsFiniteSet(B)
  BY <1>1, <1>3
<1>d. Apart(C, D) /\ c \in [C -> Int] /\ IsFiniteSet(C) /\ d \in [D -> Int] /\ IsFiniteSet(D)
  BY <1>1, <1>3
<1>5. Layer("cubic", sums, m, t) = h
  BY <1>3, <1>4, <1>a, CubicLerpIsMix DEF f, g, h, P, Q, R, S
<1>6. /\ Lattice!Total(AbsOf(a)) \in Int /\ Lattice!Total(AbsOf(b)) \in Int
      /\ Lattice!Total(AbsOf(c)) \in Int /\ Lattice!Total(AbsOf(d)) \in Int
  BY <1>3, TotalsAreInt
<1> HIDE DEF P, Q, R, S, f, g, h
<1>7. f \in [A \cup B -> Int] /\ IsFiniteSet(A \cup B) /\ Lattice!Total(f) = Combined(P, W, Q, W)
  <2>1. Lattice!Total(f) = Combined(P, Lattice!Total(a), Q, Lattice!Total(b))
        /\ f \in [A \cup B -> Int] /\ IsFiniteSet(A \cup B)
    BY <1>2, <1>c, MixTotal DEF f
  <2> QED BY <1>3, <2>1
<1>8. g \in [C \cup D -> Int] /\ IsFiniteSet(C \cup D) /\ Lattice!Total(g) = Combined(R, W, S, W)
  <2>1. Lattice!Total(g) = Combined(R, Lattice!Total(c), S, Lattice!Total(d))
        /\ g \in [C \cup D -> Int] /\ IsFiniteSet(C \cup D)
    BY <1>2, <1>d, MixTotal DEF g
  <2> QED BY <1>3, <2>1
<1>9. h \in [(A \cup B) \cup (C \cup D) -> Int] /\ IsFiniteSet((A \cup B) \cup (C \cup D))
      /\ Lattice!Total(h) = Combined(1, Lattice!Total(f), 1, Lattice!Total(g))
  BY <1>4, <1>7, <1>8, MixTotal DEF h
<1>10. Lattice!Total(AbsOf(f)) = Combined(Lattice!Abs(P), Lattice!Total(AbsOf(a)),
                                          Lattice!Abs(Q), Lattice!Total(AbsOf(b)))
  BY <1>2, <1>c, MixOfAbs DEF f
<1>11. Lattice!Total(AbsOf(g)) = Combined(Lattice!Abs(R), Lattice!Total(AbsOf(c)),
                                          Lattice!Abs(S), Lattice!Total(AbsOf(d)))
  BY <1>2, <1>d, MixOfAbs DEF g
<1>12. Lattice!Total(AbsOf(h)) = Combined(1, Lattice!Total(AbsOf(f)), 1, Lattice!Total(AbsOf(g)))
  <2>1. Lattice!Abs(1) = 1
    BY DEF Lattice!Abs
  <2> QED BY <1>4, <1>7, <1>8, <2>1, MixOfAbs DEF h
<1>13. Lattice!Total(h) = 64 * W
  <2>1. P + Q + R + S = 64
    BY CubicParts DEF P, Q, R, S
  <2>2. (P * W + Q * W) + (R * W + S * W) = (P + Q + R + S) * W
    BY <1>2
  <2>3. Lattice!Total(h) = (P * W + Q * W) + (R * W + S * W)
    BY <1>2, <1>7, <1>8, <1>9 DEF Combined
  <2> QED BY <2>1, <2>2, <2>3
<1>14. Lattice!Total(AbsOf(h)) <= 96 * X
  <2> DEFINE u == Lattice!Total(AbsOf(a))
             v == Lattice!Total(AbsOf(b))
             w == Lattice!Total(AbsOf(c))
             o == Lattice!Total(AbsOf(d))
             P1 == Lattice!Abs(P)
             Q1 == Lattice!Abs(Q)
             R1 == Lattice!Abs(R)
             S1 == Lattice!Abs(S)
  <2>1. u \in Int /\ v \in Int /\ w \in Int /\ o \in Int /\ u <= X /\ v <= X /\ w <= X /\ o <= X
    BY <1>3, <1>6
  <2>2. P1 \in Nat /\ Q1 \in Nat /\ R1 \in Nat /\ S1 \in Nat /\ P1 + Q1 + R1 + S1 <= 96
    BY CubicParts DEF P, Q, R, S, Lattice!Abs
  <2>3. Lattice!Total(AbsOf(h)) = Combined(1, Combined(P1, u, Q1, v), 1, Combined(R1, w, S1, o))
    BY <1>10, <1>11, <1>12
  <2> HIDE DEF u, v, w, o, P1, Q1, R1, S1
  <2>4. P1 * (X - u) >= 0 /\ Q1 * (X - v) >= 0 /\ R1 * (X - w) >= 0 /\ S1 * (X - o) >= 0
        /\ (96 - (P1 + Q1 + R1 + S1)) * X >= 0
    BY <2>1, <2>2
  <2>5. (P1 * u + Q1 * v) + (R1 * w + S1 * o) <= 96 * X
    BY <2>1, <2>2, <2>4
  <2> QED BY <2>1, <2>2, <2>3, <2>5 DEF Combined
<1>15. Blended(h, (A \cup B) \cup (C \cup D), 64 * W, 96 * X)
  BY <1>9, <1>13, <1>14 DEF Blended
<1>16. ASSUME NEW n \in Near("cubic", m), NEW p \in keys[n]
       PROVE  h[p] = Part("cubic", t, n - m) * sums[n][p]
  <2>a. \A e : /\ e \in A \cup B => h[e] = 1 * f[e]
               /\ e \in C \cup D => h[e] = 1 * g[e]
    BY <1>4, <1>7, <1>8, MixAt DEF h
  <2>b. /\ p \in A \cup B => h[p] = f[p]
        /\ p \in C \cup D => h[p] = g[p]
    BY <1>7, <1>8, <2>a
  <2>1. CASE n = m - 1
    <3>1. p \in A /\ f[p] = P * a[p]
      BY <1>1, <1>2, <1>3, <1>16, <2>1, MixAt DEF f, A
    <3>2. n - m = -1
      BY <2>1
    <3> QED BY <1>b, <2>1, <2>b, <3>1, <3>2 DEF a
  <2>2. CASE n = m
    <3>1. p \in B /\ f[p] = Q * b[p]
      BY <1>1, <1>2, <1>3, <1>16, <2>2, MixAt DEF f, B
    <3>2. n - m = 0
      BY <2>2
    <3> QED BY <1>b, <2>2, <2>b, <3>1, <3>2 DEF b
  <2>3. CASE n = m + 1
    <3>1. p \in C /\ g[p] = R * c[p]
      BY <1>1, <1>2, <1>3, <1>16, <2>3, MixAt DEF g, C
    <3>2. n - m = 1
      BY <2>3
    <3> QED BY <1>b, <2>3, <2>b, <3>1, <3>2 DEF c
  <2>4. CASE n = m + 2
    <3>1. p \in D /\ g[p] = S * d[p]
      BY <1>1, <1>2, <1>3, <1>16, <2>4, MixAt DEF g, D
    <3>2. n - m = 2
      BY <2>4
    <3> QED BY <1>b, <2>4, <2>b, <3>1, <3>2 DEF d
  <2> QED BY <2>1, <2>2, <2>3, <2>4, <1>16, NearIs
<1>17. UNION {keys[n] : n \in Near("cubic", m)} = (A \cup B) \cup (C \cup D)
  BY NearIs DEF A, B, C, D
<1>18. One("cubic") = 64 /\ MostPart("cubic") = 96
  BY DEF One, MostPart, Lattice!CubicUnit
<1>19. Blended(Layer("cubic", sums, m, t), UNION {keys[n] : n \in Near("cubic", m)},
               One("cubic") * W, MostPart("cubic") * X)
  BY <1>5, <1>15, <1>17, <1>18
<1>20. \A n \in Near("cubic", m) : \A p \in keys[n] :
           Layer("cubic", sums, m, t)[p] = Part("cubic", t, n - m) * sums[n][p]
  BY <1>5, <1>16
<1> QED BY <1>19, <1>20 DEF Laid

LEMMA LayerOK ==
    ASSUME NEW how \in {"lerp", "cubic"}, NEW m \in Int, NEW t \in 0 .. Full(how), NEW keys, NEW sums,
           NEW W \in Int, NEW X \in Nat, Layered(how, m, keys, sums, W, X)
    PROVE  Laid(how, m, t, keys, sums, W, X)
<1>1. CASE how = "lerp"
  <2>1. t \in 0 .. 1024
    BY <1>1 DEF Full, Lattice!Unit
  <2>2. Layered("lerp", m, keys, sums, W, X)
    BY <1>1
  <2>3. Laid("lerp", m, t, keys, sums, W, X)
    BY <2>1, <2>2, LerpLayerOK, ZenonT(60)
  <2> QED BY <1>1, <2>3
<1>2. CASE how = "cubic"
  <2>1. t \in 0 .. 4
    BY <1>2 DEF Full
  <2>2. Layered("cubic", m, keys, sums, W, X)
    BY <1>2
  <2>3. Laid("cubic", m, t, keys, sums, W, X)
    BY <2>1, <2>2, CubicLayerOK
  <2> QED BY <1>2, <2>3
<1> QED BY <1>1, <1>2

Hows == {"lerp", "cubic"}

\* The nested layers, in two and in three dimensions.
Line2(how, hash, c, s, q) ==
    Layer(how, [p \in Near(how, c[1]) |-> Lattice!Coord(hash, <<p, q>>)], c[1], s[1])
Blend2(how, hash, c, s) ==
    Layer(how, [q \in Near(how, c[2]) |-> Line2(how, hash, c, s, q)], c[2], s[2])

Line3(how, hash, c, s, q, r) ==
    Layer(how, [p \in Near(how, c[1]) |-> Lattice!Coord(hash, <<p, q, r>>)], c[1], s[1])
Plane3(how, hash, c, s, r) ==
    Layer(how, [q \in Near(how, c[2]) |-> Line3(how, hash, c, s, q, r)], c[2], s[2])
Blend3(how, hash, c, s) ==
    Layer(how, [r \in Near(how, c[3]) |-> Plane3(how, hash, c, s, r)], c[3], s[3])

LEMMA BlendsAreLayers ==
    ASSUME NEW c \in [1 .. 3 -> Int]
    PROVE  /\ \A hash, s : /\ Lattice!Blend2(hash, c, s) = Blend2("lerp", hash, c, s)
                           /\ Lattice!Blend3(hash, c, s) = Blend3("lerp", hash, c, s)
           /\ \A s : /\ Lattice!Cubic2(c, s) = Blend2("cubic", "Val", c, s)
                     /\ Lattice!Cubic3(c, s) = Blend3("cubic", "Val", c, s)
<1>1. /\ c[1] \in Int /\ c[2] \in Int /\ c[3] \in Int
  OBVIOUS
<1>2. ASSUME NEW hash, NEW s PROVE Lattice!Blend2(hash, c, s) = Blend2("lerp", hash, c, s)
  <2>1. \A q : Line2("lerp", hash, c, s, q) =
                   Lattice!Lerp(Lattice!Coord(hash, <<c[1], q>>), Lattice!Coord(hash, <<c[1] + 1, q>>), s[1])
    BY <1>1 DEF Line2, Layer, Near
  <2>2. Blend2("lerp", hash, c, s) =
            Lattice!Lerp(Line2("lerp", hash, c, s, c[2]), Line2("lerp", hash, c, s, c[2] + 1), s[2])
    BY <1>1 DEF Blend2, Layer, Near
  <2> QED BY <2>1, <2>2 DEF Lattice!Blend2
<1>3. ASSUME NEW hash, NEW s PROVE Lattice!Blend3(hash, c, s) = Blend3("lerp", hash, c, s)
  <2>1. \A q, r : Line3("lerp", hash, c, s, q, r) =
                   Lattice!Lerp(Lattice!Coord(hash, <<c[1], q, r>>), Lattice!Coord(hash, <<c[1] + 1, q, r>>), s[1])
    BY <1>1 DEF Line3, Layer, Near
  <2>2. \A r : Plane3("lerp", hash, c, s, r) =
            Lattice!Lerp(Line3("lerp", hash, c, s, c[2], r), Line3("lerp", hash, c, s, c[2] + 1, r), s[2])
    BY <1>1 DEF Plane3, Layer, Near
  <2>3. Blend3("lerp", hash, c, s) =
            Lattice!Lerp(Plane3("lerp", hash, c, s, c[3]), Plane3("lerp", hash, c, s, c[3] + 1), s[3])
    BY <1>1 DEF Blend3, Layer, Near
  <2> QED BY <2>1, <2>2, <2>3 DEF Lattice!Blend3
<1>4. ASSUME NEW s PROVE Lattice!Cubic2(c, s) = Blend2("cubic", "Val", c, s)
  <2>0. \A p : Lattice!Coord("Val", p) = Lattice!ValCoord(p)
    BY DEF Lattice!Coord
  <2>1. \A q : Line2("cubic", "Val", c, s, q) =
            Lattice!CubicLerp(Lattice!ValCoord(<<c[1] - 1, q>>), Lattice!ValCoord(<<c[1], q>>),
                              Lattice!ValCoord(<<c[1] + 1, q>>), Lattice!ValCoord(<<c[1] + 2, q>>), s[1])
    BY <1>1, <2>0 DEF Line2, Layer, Near
  <2>2. Blend2("cubic", "Val", c, s) =
            Lattice!CubicLerp(Line2("cubic", "Val", c, s, c[2] - 1), Line2("cubic", "Val", c, s, c[2]),
                Line2("cubic", "Val", c, s, c[2] + 1), Line2("cubic", "Val", c, s, c[2] + 2), s[2])
    BY <1>1 DEF Blend2, Layer, Near
  <2> QED BY <2>1, <2>2 DEF Lattice!Cubic2
<1>5. ASSUME NEW s PROVE Lattice!Cubic3(c, s) = Blend3("cubic", "Val", c, s)
  <2>0. \A p : Lattice!Coord("Val", p) = Lattice!ValCoord(p)
    BY DEF Lattice!Coord
  <2> DEFINE L(q, r) ==
            Lattice!CubicLerp(Lattice!ValCoord(<<c[1] - 1, q, r>>), Lattice!ValCoord(<<c[1], q, r>>),
                Lattice!ValCoord(<<c[1] + 1, q, r>>), Lattice!ValCoord(<<c[1] + 2, q, r>>), s[1])
             A(r) == Lattice!CubicLerp(L(c[2] - 1, r), L(c[2], r), L(c[2] + 1, r), L(c[2] + 2, r), s[2])
  <2>4. Lattice!Cubic3(c, s) =
            Lattice!CubicLerp(A(c[3] - 1), A(c[3]), A(c[3] + 1), A(c[3] + 2), s[3])
    BY Zenon DEF Lattice!Cubic3
  <2>1. \A q, r : Line3("cubic", "Val", c, s, q, r) = L(q, r)
    BY <1>1, <2>0 DEF Line3, Layer, Near
  <2> HIDE DEF L
  <2>2. \A r : Plane3("cubic", "Val", c, s, r) =
            Lattice!CubicLerp(Line3("cubic", "Val", c, s, c[2] - 1, r), Line3("cubic", "Val", c, s, c[2], r),
                Line3("cubic", "Val", c, s, c[2] + 1, r), Line3("cubic", "Val", c, s, c[2] + 2, r), s[2])
    BY <1>1 DEF Plane3, Layer, Near
  <2>3. Blend3("cubic", "Val", c, s) =
            Lattice!CubicLerp(Plane3("cubic", "Val", c, s, c[3] - 1), Plane3("cubic", "Val", c, s, c[3]),
                Plane3("cubic", "Val", c, s, c[3] + 1), Plane3("cubic", "Val", c, s, c[3] + 2), s[3])
    BY <1>1 DEF Blend3, Layer, Near
  <2>5. \A r : Plane3("cubic", "Val", c, s, r) = A(r)
    BY <2>1, <2>2
  <2> HIDE DEF A
  <2> QED BY <2>3, <2>4, <2>5
<1> QED BY <1>2, <1>3, <1>4, <1>5

LEMMA NearAreInt == ASSUME NEW how \in Hows, NEW m \in Int PROVE Near(how, m) \subseteq Int
BY NearIs DEF Hows

LEMMA PartsAreInt ==
    ASSUME NEW how \in Hows, NEW t \in 0 .. Full(how), NEW m \in Int, NEW n \in Near(how, m)
    PROVE  Part(how, t, n - m) \in Int
<1>1. CASE how = "lerp"
  BY <1>1 DEF Part, Full, Lattice!Unit
<1>2. CASE how = "cubic"
  <2>1. n - m \in {-1, 0, 1, 2} /\ t \in 0 .. 4
    BY <1>2, NearIs DEF Full
  <2> QED BY <1>2, <2>1, CubicParts DEF Part
<1> QED BY <1>1, <1>2 DEF Hows

LEMMA BoundsAreInt ==
    ASSUME NEW how \in Hows
    PROVE  /\ One(how) \in Int /\ MostPart(how) \in Nat
           /\ One(how) * (One(how) * 1) \in Int /\ MostPart(how) * (MostPart(how) * 1) \in Nat
BY DEF Hows, One, MostPart, Lattice!Unit, Lattice!CubicUnit

LEMMA CoordBlended ==
    ASSUME NEW hash, NEW p
    PROVE  /\ Blended(Lattice!Coord(hash, p), {Key(hash, p)}, 1, 1)
           /\ Lattice!Coord(hash, p)[Key(hash, p)] = 1
<1> DEFINE f == Lattice!Coord(hash, p)
<1>1. f = [q \in {Key(hash, p)} |-> 1]
  BY DEF Lattice!Coord, Lattice!ValCoord, Lattice!GradCoord, Key
<1>2. AbsOf(f) = f
  BY <1>1 DEF AbsOf, Lattice!Abs
<1>3. f \in [{Key(hash, p)} -> Int] /\ f[Key(hash, p)] = 1
  BY <1>1
<1> QED BY <1>2, <1>3, CoordIsOne DEF Blended

\* The points of the cell (and those around it).
Keys1(how, hash, c, q) == {Key(hash, <<p, q>>) : p \in Near(how, c[1])}
Keys2(how, hash, c) == UNION {Keys1(how, hash, c, q) : q \in Near(how, c[2])}

(* In two dimensions: the points of the cell (and those around it), each with
   the product of its parts along the axes. *)
LEMMA Line2OK ==
    ASSUME NEW how \in Hows, NEW hash, NEW c \in [1 .. 3 -> Int], NEW s \in [1 .. 3 -> 0 .. Full(how)],
           NEW q \in Int
    PROVE  /\ Blended(Line2(how, hash, c, s, q), {Key(hash, <<p, q>>) : p \in Near(how, c[1])},
                      One(how) * 1, MostPart(how) * 1)
           /\ \A p \in Near(how, c[1]) :
                 Line2(how, hash, c, s, q)[Key(hash, <<p, q>>)] = Part(how, s[1], p - c[1]) * 1
<1> DEFINE N == Near(how, c[1])
           keys == [p \in N |-> {Key(hash, <<p, q>>)}]
           sums == [p \in N |-> Lattice!Coord(hash, <<p, q>>)]
<1>1. \A p \in N : Blended(sums[p], keys[p], 1, 1) /\ sums[p][Key(hash, <<p, q>>)] = 1
  BY CoordBlended
<1>2. \A p, o \in N : p # o => Apart(keys[p], keys[o])
  BY KeysDiffer DEF Apart
<1>3. Layered(how, c[1], keys, sums, 1, 1)
  BY <1>1, <1>2 DEF Layered
<1>4. Line2(how, hash, c, s, q) = Layer(how, sums, c[1], s[1])
  BY DEF Line2
<1>5. UNION {keys[p] : p \in N} = {Key(hash, <<p, q>>) : p \in N}
  OBVIOUS
<1>6. \A p \in N : Key(hash, <<p, q>>) \in keys[p]
  OBVIOUS
<1> HIDE DEF keys, sums
<1>7. Laid(how, c[1], s[1], keys, sums, 1, 1)
  BY <1>3, LayerOK DEF Hows
<1> QED BY <1>1, <1>4, <1>5, <1>6, <1>7 DEF Laid

LEMMA Blend2OK ==
    ASSUME NEW how \in Hows, NEW hash, NEW c \in [1 .. 3 -> Int], NEW s \in [1 .. 3 -> 0 .. Full(how)]
    PROVE  /\ Blended(Blend2(how, hash, c, s),
                      Keys2(how, hash, c),
                      One(how) * (One(how) * 1), MostPart(how) * (MostPart(how) * 1))
           /\ \A p \in Near(how, c[1]), q \in Near(how, c[2]) :
                 Blend2(how, hash, c, s)[Key(hash, <<p, q>>)]
                     = Part(how, s[2], q - c[2]) * (Part(how, s[1], p - c[1]) * 1)
<1> DEFINE N == Near(how, c[2])
           keys == [q \in N |-> Keys1(how, hash, c, q)]
           sums == [q \in N |-> Line2(how, hash, c, s, q)]
<1>1. N \subseteq Int
  BY NearAreInt
<1>2. \A q \in N : /\ Blended(sums[q], keys[q], One(how) * 1, MostPart(how) * 1)
                   /\ \A p \in Near(how, c[1]) : sums[q][Key(hash, <<p, q>>)] = Part(how, s[1], p - c[1]) * 1
  BY <1>1, Line2OK DEF Keys1
<1>3. \A q, o \in N : q # o => Apart(keys[q], keys[o])
  BY KeysDiffer DEF Apart, Keys1
<1>4. Layered(how, c[2], keys, sums, One(how) * 1, MostPart(how) * 1)
  BY <1>2, <1>3 DEF Layered
<1>5. Blend2(how, hash, c, s) = Layer(how, sums, c[2], s[2])
  BY DEF Blend2
<1>6. UNION {keys[q] : q \in N} = Keys2(how, hash, c)
  BY DEF Keys2
<1>7. \A q \in N : \A p \in Near(how, c[1]) : Key(hash, <<p, q>>) \in keys[q]
  BY DEF Keys1
<1> HIDE DEF keys, sums
<1>8. Laid(how, c[2], s[2], keys, sums, One(how) * 1, MostPart(how) * 1)
  BY <1>4, LayerOK, BoundsAreInt DEF Hows
<1>9. Blended(Blend2(how, hash, c, s),
              Keys2(how, hash, c),
              One(how) * (One(how) * 1), MostPart(how) * (MostPart(how) * 1))
  BY <1>5, <1>6, <1>8 DEF Laid
<1>10. ASSUME NEW p \in Near(how, c[1]), NEW q \in Near(how, c[2])
       PROVE  Blend2(how, hash, c, s)[Key(hash, <<p, q>>)]
                  = Part(how, s[2], q - c[2]) * (Part(how, s[1], p - c[1]) * 1)
  <2>1. Blend2(how, hash, c, s)[Key(hash, <<p, q>>)]
            = Part(how, s[2], q - c[2]) * sums[q][Key(hash, <<p, q>>)]
    BY <1>5, <1>7, <1>8 DEF Laid
  <2> QED BY <1>2, <2>1
<1> QED BY <1>9, <1>10

\* In three dimensions.
Keys3Line(how, hash, c, q, r) == {Key(hash, <<p, q, r>>) : p \in Near(how, c[1])}
Keys3Plane(how, hash, c, r) == UNION {Keys3Line(how, hash, c, q, r) : q \in Near(how, c[2])}
Keys3(how, hash, c) == UNION {Keys3Plane(how, hash, c, r) : r \in Near(how, c[3])}

LEMMA Line3OK ==
    ASSUME NEW how \in Hows, NEW hash, NEW c \in [1 .. 3 -> Int], NEW s \in [1 .. 3 -> 0 .. Full(how)],
           NEW q \in Int, NEW r \in Int
    PROVE  /\ Blended(Line3(how, hash, c, s, q, r), Keys3Line(how, hash, c, q, r),
                      One(how) * 1, MostPart(how) * 1)
           /\ \A p \in Near(how, c[1]) :
                 Line3(how, hash, c, s, q, r)[Key(hash, <<p, q, r>>)] = Part(how, s[1], p - c[1]) * 1
<1> DEFINE N == Near(how, c[1])
           keys == [p \in N |-> {Key(hash, <<p, q, r>>)}]
           sums == [p \in N |-> Lattice!Coord(hash, <<p, q, r>>)]
<1>1. \A p \in N : Blended(sums[p], keys[p], 1, 1) /\ sums[p][Key(hash, <<p, q, r>>)] = 1
  BY CoordBlended
<1>2. \A p, o \in N : p # o => Apart(keys[p], keys[o])
  BY KeysDiffer DEF Apart
<1>3. Layered(how, c[1], keys, sums, 1, 1)
  BY <1>1, <1>2 DEF Layered
<1>4. Line3(how, hash, c, s, q, r) = Layer(how, sums, c[1], s[1])
  BY DEF Line3
<1>5. UNION {keys[p] : p \in N} = Keys3Line(how, hash, c, q, r)
  BY DEF Keys3Line
<1>6. \A p \in N : Key(hash, <<p, q, r>>) \in keys[p]
  OBVIOUS
<1> HIDE DEF keys, sums
<1>7. Laid(how, c[1], s[1], keys, sums, 1, 1)
  BY <1>3, LayerOK DEF Hows
<1> QED BY <1>1, <1>4, <1>5, <1>6, <1>7 DEF Laid

LEMMA Plane3OK ==
    ASSUME NEW how \in Hows, NEW hash, NEW c \in [1 .. 3 -> Int], NEW s \in [1 .. 3 -> 0 .. Full(how)],
           NEW r \in Int
    PROVE  /\ Blended(Plane3(how, hash, c, s, r), Keys3Plane(how, hash, c, r),
                      One(how) * (One(how) * 1), MostPart(how) * (MostPart(how) * 1))
           /\ \A p \in Near(how, c[1]), q \in Near(how, c[2]) :
                 Plane3(how, hash, c, s, r)[Key(hash, <<p, q, r>>)]
                     = Part(how, s[2], q - c[2]) * (Part(how, s[1], p - c[1]) * 1)
<1> DEFINE N == Near(how, c[2])
           keys == [q \in N |-> Keys3Line(how, hash, c, q, r)]
           sums == [q \in N |-> Line3(how, hash, c, s, q, r)]
<1>1. N \subseteq Int
  BY NearAreInt
<1>2. \A q \in N : /\ Blended(sums[q], keys[q], One(how) * 1, MostPart(how) * 1)
                   /\ \A p \in Near(how, c[1]) : sums[q][Key(hash, <<p, q, r>>)] = Part(how, s[1], p - c[1]) * 1
  <2> SUFFICES ASSUME NEW q \in N
               PROVE  /\ Blended(sums[q], keys[q], One(how) * 1, MostPart(how) * 1)
                      /\ \A p \in Near(how, c[1]) :
                            sums[q][Key(hash, <<p, q, r>>)] = Part(how, s[1], p - c[1]) * 1
    OBVIOUS
  <2>1. q \in Int /\ sums[q] = Line3(how, hash, c, s, q, r) /\ keys[q] = Keys3Line(how, hash, c, q, r)
    BY <1>1
  <2> HIDE DEF sums, keys, N
  <2>2. Blended(Line3(how, hash, c, s, q, r), Keys3Line(how, hash, c, q, r),
                One(how) * 1, MostPart(how) * 1)
    BY <2>1, Line3OK
  <2>3. \A p \in Near(how, c[1]) :
            Line3(how, hash, c, s, q, r)[Key(hash, <<p, q, r>>)] = Part(how, s[1], p - c[1]) * 1
    BY <2>1, Line3OK
  <2> QED BY <2>1, <2>2, <2>3
<1>3. \A q, o \in N : q # o => Apart(keys[q], keys[o])
  BY KeysDiffer DEF Apart, Keys3Line
<1>4. Layered(how, c[2], keys, sums, One(how) * 1, MostPart(how) * 1)
  BY <1>2, <1>3 DEF Layered
<1>5. Plane3(how, hash, c, s, r) = Layer(how, sums, c[2], s[2])
  BY DEF Plane3
<1>6. UNION {keys[q] : q \in N} = Keys3Plane(how, hash, c, r)
  BY DEF Keys3Plane
<1>7. \A q \in N : \A p \in Near(how, c[1]) : Key(hash, <<p, q, r>>) \in keys[q]
  BY DEF Keys3Line
<1> HIDE DEF keys, sums
<1>8. Laid(how, c[2], s[2], keys, sums, One(how) * 1, MostPart(how) * 1)
  BY <1>4, LayerOK, BoundsAreInt DEF Hows
<1>9. Blended(Plane3(how, hash, c, s, r), Keys3Plane(how, hash, c, r),
              One(how) * (One(how) * 1), MostPart(how) * (MostPart(how) * 1))
  BY <1>5, <1>6, <1>8 DEF Laid
<1>10. ASSUME NEW p \in Near(how, c[1]), NEW q \in Near(how, c[2])
       PROVE  Plane3(how, hash, c, s, r)[Key(hash, <<p, q, r>>)]
                  = Part(how, s[2], q - c[2]) * (Part(how, s[1], p - c[1]) * 1)
  <2>1. Plane3(how, hash, c, s, r)[Key(hash, <<p, q, r>>)]
            = Part(how, s[2], q - c[2]) * sums[q][Key(hash, <<p, q, r>>)]
    BY <1>5, <1>7, <1>8 DEF Laid
  <2> QED BY <1>2, <2>1
<1> QED BY <1>9, <1>10

LEMMA Blend3OK ==
    ASSUME NEW how \in Hows, NEW hash, NEW c \in [1 .. 3 -> Int], NEW s \in [1 .. 3 -> 0 .. Full(how)]
    PROVE  /\ Blended(Blend3(how, hash, c, s), Keys3(how, hash, c),
                      One(how) * (One(how) * (One(how) * 1)),
                      MostPart(how) * (MostPart(how) * (MostPart(how) * 1)))
           /\ \A p \in Near(how, c[1]), q \in Near(how, c[2]), r \in Near(how, c[3]) :
                 Blend3(how, hash, c, s)[Key(hash, <<p, q, r>>)]
                     = Part(how, s[3], r - c[3]) * (Part(how, s[2], q - c[2]) * (Part(how, s[1], p - c[1]) * 1))
<1> DEFINE N == Near(how, c[3])
           keys == [r \in N |-> Keys3Plane(how, hash, c, r)]
           sums == [r \in N |-> Plane3(how, hash, c, s, r)]
           W == One(how) * (One(how) * 1)
           X == MostPart(how) * (MostPart(how) * 1)
<1>1. N \subseteq Int
  BY NearAreInt
<1>2. \A r \in N : /\ Blended(sums[r], keys[r], W, X)
                   /\ \A p \in Near(how, c[1]), q \in Near(how, c[2]) :
                         sums[r][Key(hash, <<p, q, r>>)]
                             = Part(how, s[2], q - c[2]) * (Part(how, s[1], p - c[1]) * 1)
  BY <1>1, Plane3OK
<1>3. \A r, o \in N : r # o => Apart(keys[r], keys[o])
  <2> SUFFICES ASSUME NEW r \in N, NEW o \in N, r # o, NEW k \in keys[r], k \in keys[o] PROVE FALSE
    BY DEF Apart
  <2>1. PICK p \in Near(how, c[1]), q \in Near(how, c[2]) : k = Key(hash, <<p, q, r>>)
    BY DEF Keys3Plane, Keys3Line
  <2>2. PICK u \in Near(how, c[1]), v \in Near(how, c[2]) : k = Key(hash, <<u, v, o>>)
    BY DEF Keys3Plane, Keys3Line
  <2>3. <<p, q, r>> = <<u, v, o>>
    BY <2>1, <2>2, KeysDiffer
  <2> QED BY <2>3
<1> HIDE DEF W, X
<1>4. Layered(how, c[3], keys, sums, W, X)
  BY <1>2, <1>3 DEF Layered
<1>5. Blend3(how, hash, c, s) = Layer(how, sums, c[3], s[3])
  BY DEF Blend3
<1>6. UNION {keys[r] : r \in N} = Keys3(how, hash, c)
  BY DEF Keys3
<1>7. \A r \in N : \A p \in Near(how, c[1]), q \in Near(how, c[2]) : Key(hash, <<p, q, r>>) \in keys[r]
  BY DEF Keys3Plane, Keys3Line
<1> HIDE DEF keys, sums
<1>8. Laid(how, c[3], s[3], keys, sums, W, X)
  BY <1>4, LayerOK, BoundsAreInt DEF Hows, W, X
<1>9. Blended(Blend3(how, hash, c, s), Keys3(how, hash, c), One(how) * W, MostPart(how) * X)
  BY <1>5, <1>6, <1>8 DEF Laid
<1>10. ASSUME NEW p \in Near(how, c[1]), NEW q \in Near(how, c[2]), NEW r \in Near(how, c[3])
       PROVE  Blend3(how, hash, c, s)[Key(hash, <<p, q, r>>)]
                  = Part(how, s[3], r - c[3]) * (Part(how, s[2], q - c[2]) * (Part(how, s[1], p - c[1]) * 1))
  <2>1. Blend3(how, hash, c, s)[Key(hash, <<p, q, r>>)]
            = Part(how, s[3], r - c[3]) * sums[r][Key(hash, <<p, q, r>>)]
    BY <1>5, <1>7, <1>8 DEF Laid
  <2> QED BY <1>2, <2>1
<1> QED BY <1>9, <1>10 DEF W, X

\* c is the corner of a cell around the place and s how far it is within it;
\* a place at the border of its cell is not within it at all, or wholly.
Fits(how, c, s) ==
    /\ c \in [1 .. 3 -> Int] /\ s \in [1 .. 3 -> 0 .. Full(how)]
    /\ \A a \in 1 .. 3 : /\ place[a] - 4 * c[a] \in 0 .. 4
                         /\ place[a] - 4 * c[a] = 0 => s[a] = 0
                         /\ place[a] - 4 * c[a] = 4 => s[a] = Full(how)

LatticeShape == /\ pc \in {"call", "done"} /\ place \in [1 .. 3 -> Int]
                /\ interp \in {"Linear", "Hermite", "Quintic"}

LEMMA FloorOK ==
    ASSUME NEW f \in Int
    PROVE  /\ Lattice!FastFloor(f) \in Int /\ f - 4 * Lattice!FastFloor(f) \in 0 .. 4
           /\ Lattice!Floor(f) \in Int /\ f - 4 * Lattice!Floor(f) \in 0 .. 3
           /\ \/ Lattice!FastFloor(f) = Lattice!Floor(f)
              \/ Lattice!FastFloor(f) = Lattice!Floor(f) - 1 /\ f - 4 * Lattice!Floor(f) = 0
<1>1. CASE f >= 0
  BY <1>1 DEF Lattice!FastFloor, Lattice!Floor, Lattice!Quarters
<1>2. CASE f < 0
  BY <1>2 DEF Lattice!FastFloor, Lattice!Floor, Lattice!Quarters
<1> QED BY <1>1, <1>2

LEMMA QuinticOK ==
    ASSUME NEW t \in 0 .. 4
    PROVE  /\ Lattice!InterpQuinticFunc(t) \in 0 .. 1024
           /\ t = 0 => Lattice!InterpQuinticFunc(t) = 0
           /\ t = 4 => Lattice!InterpQuinticFunc(t) = 1024
<1>1. CASE t = 0 BY <1>1 DEF Lattice!InterpQuinticFunc
<1>2. CASE t = 1 BY <1>2 DEF Lattice!InterpQuinticFunc
<1>3. CASE t = 2 BY <1>3 DEF Lattice!InterpQuinticFunc
<1>4. CASE t = 3 BY <1>4 DEF Lattice!InterpQuinticFunc
<1>5. CASE t = 4 BY <1>5 DEF Lattice!InterpQuinticFunc
<1> QED BY <1>1, <1>2, <1>3, <1>4, <1>5

LEMMA InterpOK ==
    ASSUME LatticeShape, NEW t \in 0 .. 4
    PROVE  /\ Lattice!Interp(t) \in 0 .. 1024
           /\ t = 0 => Lattice!Interp(t) = 0
           /\ t = 4 => Lattice!Interp(t) = 1024
           /\ interp = "Quintic" => Lattice!Interp(t) = Lattice!InterpQuinticFunc(t)
<1>1. CASE interp = "Linear"
  BY <1>1 DEF Lattice!Interp
<1>2. CASE interp = "Hermite"
  <2> DEFINE h == Lattice!InterpHermiteFunc(t)
  <2>1. h \in 0 .. 1024 /\ (t = 0 => h = 0) /\ (t = 4 => h = 1024)
    <3>1. CASE t = 0 BY <3>1 DEF Lattice!InterpHermiteFunc
    <3>2. CASE t = 1 BY <3>2 DEF Lattice!InterpHermiteFunc
    <3>3. CASE t = 2 BY <3>3 DEF Lattice!InterpHermiteFunc
    <3>4. CASE t = 3 BY <3>4 DEF Lattice!InterpHermiteFunc
    <3>5. CASE t = 4 BY <3>5 DEF Lattice!InterpHermiteFunc
    <3> QED BY <3>1, <3>2, <3>3, <3>4, <3>5
  <2> QED BY <1>2, <2>1 DEF Lattice!Interp
<1>3. CASE interp = "Quintic"
  BY <1>3, QuinticOK DEF Lattice!Interp
<1> QED BY <1>1, <1>2, <1>3 DEF LatticeShape

LEMMA CellsFit ==
    ASSUME LatticeShape
    PROVE  /\ Fits("lerp", Lattice!Cell, Lattice!Interpolated)
           /\ Fits("cubic", Lattice!Cell, Lattice!Within)
           /\ Fits("lerp", Lattice!SIMDCell, Lattice!SIMDInterpolated)
           /\ Fits("cubic", Lattice!SIMDCell, Lattice!SIMDWithin)
<1> USE DEF Lattice!Quarters
<1>1. DOMAIN place = 1 .. 3 /\ \A a \in 1 .. 3 : place[a] \in Int
  BY DEF LatticeShape
<1>2. /\ Lattice!Cell \in [1 .. 3 -> Int] /\ Lattice!Within \in [1 .. 3 -> 0 .. 4]
      /\ \A a \in 1 .. 3 : Lattice!Within[a] = place[a] - 4 * Lattice!Cell[a]
  BY <1>1, FloorOK DEF Lattice!Cell, Lattice!Within
<1>3. /\ Lattice!SIMDCell \in [1 .. 3 -> Int] /\ Lattice!SIMDWithin \in [1 .. 3 -> 0 .. 3]
      /\ \A a \in 1 .. 3 : Lattice!SIMDWithin[a] = place[a] - 4 * Lattice!SIMDCell[a]
  BY <1>1, FloorOK DEF Lattice!SIMDCell, Lattice!SIMDWithin
<1>4. /\ Lattice!Interpolated \in [1 .. 3 -> 0 .. 1024]
      /\ \A a \in 1 .. 3 : /\ Lattice!Within[a] = 0 => Lattice!Interpolated[a] = 0
                           /\ Lattice!Within[a] = 4 => Lattice!Interpolated[a] = 1024
  <2>1. DOMAIN Lattice!Interpolated = 1 .. 3 /\ Lattice!Interpolated = [a \in 1 .. 3 |-> Lattice!Interpolated[a]]
        /\ \A a \in 1 .. 3 : Lattice!Interpolated[a] = Lattice!Interp(Lattice!Within[a])
    BY <1>1 DEF Lattice!Interpolated
  <2>2. \A a \in 1 .. 3 : Lattice!Within[a] \in 0 .. 4
    BY <1>2
  <2>3. \A a \in 1 .. 3 : /\ Lattice!Interpolated[a] \in 0 .. 1024
                          /\ Lattice!Within[a] = 0 => Lattice!Interpolated[a] = 0
                          /\ Lattice!Within[a] = 4 => Lattice!Interpolated[a] = 1024
    <3> SUFFICES ASSUME NEW a \in 1 .. 3
                 PROVE  /\ Lattice!Interpolated[a] \in 0 .. 1024
                        /\ Lattice!Within[a] = 0 => Lattice!Interpolated[a] = 0
                        /\ Lattice!Within[a] = 4 => Lattice!Interpolated[a] = 1024
      OBVIOUS
    <3> DEFINE t == Lattice!Within[a]
    <3>1. t \in 0 .. 4 /\ Lattice!Interpolated[a] = Lattice!Interp(t)
      BY <2>1, <2>2
    <3> HIDE DEF t
    <3>2. /\ Lattice!Interp(t) \in 0 .. 1024 /\ (t = 0 => Lattice!Interp(t) = 0)
          /\ (t = 4 => Lattice!Interp(t) = 1024)
      BY <3>1, InterpOK
    <3> QED BY <3>1, <3>2 DEF t
  <2> QED BY <2>1, <2>3
<1>5. /\ Lattice!SIMDInterpolated \in [1 .. 3 -> 0 .. 1024]
      /\ \A a \in 1 .. 3 : Lattice!SIMDWithin[a] = 0 => Lattice!SIMDInterpolated[a] = 0
  <2>1. DOMAIN Lattice!SIMDInterpolated = 1 .. 3
        /\ Lattice!SIMDInterpolated = [a \in 1 .. 3 |-> Lattice!SIMDInterpolated[a]]
        /\ \A a \in 1 .. 3 : Lattice!SIMDInterpolated[a] = Lattice!InterpQuinticFunc(Lattice!SIMDWithin[a])
    BY <1>1 DEF Lattice!SIMDInterpolated
  <2>2. \A a \in 1 .. 3 : Lattice!SIMDWithin[a] \in 0 .. 4
    BY <1>3
  <2>3. \A a \in 1 .. 3 : /\ Lattice!SIMDInterpolated[a] \in 0 .. 1024
                          /\ Lattice!SIMDWithin[a] = 0 => Lattice!SIMDInterpolated[a] = 0
    <3> SUFFICES ASSUME NEW a \in 1 .. 3
                 PROVE  /\ Lattice!SIMDInterpolated[a] \in 0 .. 1024
                        /\ Lattice!SIMDWithin[a] = 0 => Lattice!SIMDInterpolated[a] = 0
      OBVIOUS
    <3> DEFINE t == Lattice!SIMDWithin[a]
    <3>1. t \in 0 .. 4 /\ Lattice!SIMDInterpolated[a] = Lattice!InterpQuinticFunc(t)
      BY <2>1, <2>2
    <3> HIDE DEF t
    <3>2. /\ Lattice!InterpQuinticFunc(t) \in 0 .. 1024
          /\ (t = 0 => Lattice!InterpQuinticFunc(t) = 0)
      BY <3>1, QuinticOK
    <3> QED BY <3>1, <3>2 DEF t
  <2> QED BY <2>1, <2>3
<1>6. Full("lerp") = 1024 /\ Full("cubic") = 4
  BY DEF Full, Lattice!Unit
<1>a. 0 .. 1024 = 0 .. Full("lerp")
  BY <1>6
<1>7. Fits("lerp", Lattice!Cell, Lattice!Interpolated)
  <2>1. Lattice!Interpolated \in [1 .. 3 -> 0 .. Full("lerp")]
    BY <1>4, <1>a
  <2>2. \A a \in 1 .. 3 : /\ place[a] - 4 * Lattice!Cell[a] \in 0 .. 4
                          /\ place[a] - 4 * Lattice!Cell[a] = 0 => Lattice!Interpolated[a] = 0
                          /\ place[a] - 4 * Lattice!Cell[a] = 4 => Lattice!Interpolated[a] = Full("lerp")
    BY <1>2, <1>4, <1>6
  <2> QED BY <1>2, <2>1, <2>2 DEF Fits
<1>8. Fits("cubic", Lattice!Cell, Lattice!Within)
  BY <1>2, <1>6 DEF Fits
<1>9. Fits("lerp", Lattice!SIMDCell, Lattice!SIMDInterpolated)
  <2>1. Lattice!SIMDInterpolated \in [1 .. 3 -> 0 .. Full("lerp")]
    BY <1>5, <1>a
  <2>2. \A a \in 1 .. 3 : /\ place[a] - 4 * Lattice!SIMDCell[a] \in 0 .. 3
                          /\ place[a] - 4 * Lattice!SIMDCell[a] = 0 => Lattice!SIMDInterpolated[a] = 0
    BY <1>3, <1>5
  <2>3. \A a \in 1 .. 3 : /\ place[a] - 4 * Lattice!SIMDCell[a] \in 0 .. 4
                          /\ place[a] - 4 * Lattice!SIMDCell[a] # 4
    BY <2>2
  <2> QED BY <1>3, <2>1, <2>2, <2>3 DEF Fits
<1>10. Fits("cubic", Lattice!SIMDCell, Lattice!SIMDWithin)
  BY <1>3, <1>6 DEF Fits
<1> QED BY <1>7, <1>8, <1>9, <1>10

(* Along an axis: a point with a part is one of the cell's; where the place is
   whole it is the place itself. *)
LEMMA AxisMeets ==
    ASSUME NEW how \in Hows, NEW f \in Int, NEW m \in Int, NEW t \in 0 .. Full(how),
           f - 4 * m \in 0 .. 4, f - 4 * m = 0 => t = 0, f - 4 * m = 4 => t = Full(how),
           NEW n \in Near(how, m), Part(how, t, n - m) # 0
    PROVE  /\ f % 4 = 0 => n = f \div 4
           /\ how = "lerp" => Lattice!Abs(f - 4 * n) <= 4 /\ (f % 4 = 0 => f - 4 * n = 0)
           /\ how = "lerp" => Part(how, t, n - m) > 0
<1>1. CASE how = "lerp"
  <2>1. n = m \/ n = m + 1
    BY <1>1, NearIs
  <2>2. /\ n = m => t # 1024 /\ Part(how, t, n - m) = 1024 - t
        /\ n = m + 1 => t # 0 /\ Part(how, t, n - m) = t
    BY <1>1, <2>1 DEF Part, Lattice!Unit
  <2>3. t \in 0 .. 1024 /\ (f - 4 * m = 4 => t = 1024)
    BY <1>1 DEF Full, Lattice!Unit
  <2>4. f % 4 = 0 => n = f \div 4
    BY <2>1, <2>2, <2>3
  <2>5. Lattice!Abs(f - 4 * n) <= 4 /\ (f % 4 = 0 => f - 4 * n = 0)
    BY <2>1, <2>2, <2>3, <2>4 DEF Lattice!Abs
  <2> QED BY <2>1, <2>2, <2>3, <2>4, <2>5
<1>2. CASE how = "cubic"
  <2>1. n = m - 1 \/ n = m \/ n = m + 1 \/ n = m + 2
    BY <1>2, NearIs
  <2>2. t \in 0 .. 4 /\ (f - 4 * m = 4 => t = 4)
    BY <1>2 DEF Full
  <2>3. n - m \in {-1, 0, 1, 2} /\ CubicPart(t, n - m) # 0
    BY <1>2, <2>1 DEF Part
  <2>4. (t = 0 => n = m) /\ (t = 4 => n = m + 1)
    <3>1. (t = 0 => n - m = 0) /\ (t = 4 => n - m = 1)
      BY <2>2, <2>3, CubicParts
    <3> QED BY <2>1, <3>1
  <2>5. f % 4 = 0 => n = f \div 4
    BY <2>2, <2>4
  <2> QED BY <1>2, <2>5
<1> QED BY <1>1, <1>2 DEF Hows

(* A cell may be taken for the one before it when the place is at its border. *)
LEMMA AxisAgrees ==
    ASSUME NEW how \in Hows, NEW m \in Int, NEW t \in 0 .. Full(how), NEW m2, NEW t2,
           \/ m2 = m /\ t2 = t
           \/ m2 = m - 1 /\ t = 0 /\ t2 = Full(how),
           NEW n \in Near(how, m), Part(how, t, n - m) # 0
    PROVE  n \in Near(how, m2) /\ Part(how, t2, n - m2) = Part(how, t, n - m)
<1>1. CASE m2 = m /\ t2 = t
  BY <1>1
<1>2. CASE m2 = m - 1 /\ t = 0 /\ t2 = Full(how)
  <2>1. CASE how = "lerp"
    BY <1>2, <2>1, NearIs DEF Part, Full, Lattice!Unit
  <2>2. CASE how = "cubic"
    <3>1. n = m - 1 \/ n = m \/ n = m + 1 \/ n = m + 2
      BY <2>2, NearIs
    <3>2. n - m \in {-1, 0, 1, 2} /\ CubicPart(0, n - m) # 0
      BY <1>2, <2>2, <3>1 DEF Part
    <3>3. n - m = 0
      BY <3>2, CubicParts
    <3>4. n = m /\ n - m2 = 1
      BY <1>2, <3>1, <3>3
    <3>5. n \in Near("cubic", m2)
      BY <1>2, <3>4, NearIs
    <3> QED BY <1>2, <2>2, <3>3, <3>4, <3>5, CubicParts DEF Part, Full
  <2> QED BY <2>1, <2>2 DEF Hows
<1> QED BY <1>1, <1>2

BlendOf(how, hash, d, c, s) == IF d = 2 THEN Blend2(how, hash, c, s) ELSE Blend3(how, hash, c, s)

\* A point that has a part of the weight along each axis.
Touches(how, d, c, s, pt) ==
    /\ pt \in Seq(Int) /\ DOMAIN pt = 1 .. d
    /\ \A a \in 1 .. d : pt[a] \in Near(how, c[a]) /\ Part(how, s[a], pt[a] - c[a]) # 0

LEMMA ProductOfParts ==
    ASSUME NEW u \in Int, NEW v \in Int, NEW w \in Int
    PROVE  /\ v * (u * 1) \in Int /\ w * (v * (u * 1)) \in Int
           /\ v * (u * 1) # 0 => u # 0 /\ v # 0
           /\ w * (v * (u * 1)) # 0 => u # 0 /\ v # 0 /\ w # 0
           /\ u > 0 /\ v > 0 => v * (u * 1) > 0
           /\ u > 0 /\ v > 0 /\ w > 0 => w * (v * (u * 1)) > 0
<1> DEFINE m == v * (u * 1)
<1>1. m \in Int /\ (m # 0 => u # 0 /\ v # 0) /\ (u > 0 /\ v > 0 => m > 0)
  OBVIOUS
<1> HIDE DEF m
<1>2. w * m \in Int /\ (w * m # 0 => w # 0 /\ m # 0) /\ (w > 0 /\ m > 0 => w * m > 0)
  BY <1>1
<1> QED BY <1>1, <1>2 DEF m

LEMMA PointsTouch ==
    ASSUME NEW how \in Hows, NEW hash, NEW d \in {2, 3}, NEW c, NEW s, Fits(how, c, s),
           place \in [1 .. 3 -> Int],
           NEW k \in DOMAIN BlendOf(how, hash, d, c, s), BlendOf(how, hash, d, c, s)[k] # 0
    PROVE  \E pt : k = Key(hash, pt) /\ Touches(how, d, c, s, pt)
<1>1. c \in [1 .. 3 -> Int] /\ s \in [1 .. 3 -> 0 .. Full(how)]
  BY DEF Fits
<1>2. c[1] \in Int /\ c[2] \in Int /\ c[3] \in Int
      /\ s[1] \in 0 .. Full(how) /\ s[2] \in 0 .. Full(how) /\ s[3] \in 0 .. Full(how)
  BY <1>1
<1>3. CASE d = 2
  <2>1. Blend2(how, hash, c, s) \in [Keys2(how, hash, c) -> Int]
    BY <1>1, Blend2OK DEF Blended
  <2>2. k \in Keys2(how, hash, c) /\ Blend2(how, hash, c, s)[k] # 0
    BY <1>3, <2>1 DEF BlendOf
  <2>3. PICK p \in Near(how, c[1]), q \in Near(how, c[2]) : k = Key(hash, <<p, q>>)
    BY <2>2 DEF Keys2, Keys1
  <2> DEFINE u == Part(how, s[1], p - c[1])
             v == Part(how, s[2], q - c[2])
  <2>4. Blend2(how, hash, c, s)[k] = v * (u * 1)
    BY <1>1, <2>3, Blend2OK
  <2>5. u \in Int /\ v \in Int
    BY <1>2, PartsAreInt
  <2>6. u # 0 /\ v # 0
    <3> HIDE DEF u, v
    <3> QED BY <2>2, <2>4, <2>5, ProductOfParts
  <2>b. p \in Int /\ q \in Int
    BY <1>2, NearAreInt
  <2>7. Touches(how, 2, c, s, <<p, q>>)
    BY <2>6, <2>b DEF Touches
  <2> QED BY <1>3, <2>3, <2>7
<1>4. CASE d = 3
  <2>1. Blend3(how, hash, c, s) \in [Keys3(how, hash, c) -> Int]
    BY <1>1, Blend3OK DEF Blended
  <2>2. k \in Keys3(how, hash, c) /\ Blend3(how, hash, c, s)[k] # 0
    BY <1>4, <2>1 DEF BlendOf
  <2>a. PICK r \in Near(how, c[3]) : k \in Keys3Plane(how, hash, c, r)
    BY <2>2 DEF Keys3
  <2>b. PICK q \in Near(how, c[2]) : k \in Keys3Line(how, hash, c, q, r)
    BY <2>a DEF Keys3Plane
  <2>3. PICK p \in Near(how, c[1]) : k = Key(hash, <<p, q, r>>)
    BY <2>b DEF Keys3Line
  <2> DEFINE u == Part(how, s[1], p - c[1])
             v == Part(how, s[2], q - c[2])
             w == Part(how, s[3], r - c[3])
  <2>4. Blend3(how, hash, c, s)[k] = w * (v * (u * 1))
    BY <1>1, <2>3, Blend3OK
  <2>5. u \in Int /\ v \in Int /\ w \in Int
    BY <1>2, PartsAreInt
  <2>6. u # 0 /\ v # 0 /\ w # 0
    <3> HIDE DEF u, v, w
    <3> QED BY <2>2, <2>4, <2>5, ProductOfParts
  <2>c. p \in Int /\ q \in Int /\ r \in Int
    BY <1>2, NearAreInt
  <2>7. Touches(how, 3, c, s, <<p, q, r>>)
    BY <2>6, <2>c DEF Touches
  <2> QED BY <1>4, <2>3, <2>7
<1> QED BY <1>3, <1>4

(* The weight of such a point. *)
ProductOf(how, d, c, s, pt) ==
    IF d = 2 THEN Part(how, s[2], pt[2] - c[2]) * (Part(how, s[1], pt[1] - c[1]) * 1)
    ELSE Part(how, s[3], pt[3] - c[3]) *
             (Part(how, s[2], pt[2] - c[2]) * (Part(how, s[1], pt[1] - c[1]) * 1))

LEMMA TouchedWeight ==
    ASSUME NEW how \in Hows, NEW hash, NEW d \in {2, 3}, NEW c, NEW s, Fits(how, c, s),
           place \in [1 .. 3 -> Int], NEW pt, Touches(how, d, c, s, pt)
    PROVE  /\ Key(hash, pt) \in DOMAIN BlendOf(how, hash, d, c, s)
           /\ BlendOf(how, hash, d, c, s)[Key(hash, pt)] = ProductOf(how, d, c, s, pt)
<1>1. c \in [1 .. 3 -> Int] /\ s \in [1 .. 3 -> 0 .. Full(how)]
  BY DEF Fits
<1>2. CASE d = 2
  <2>1. pt = <<pt[1], pt[2]>> /\ pt[1] \in Near(how, c[1]) /\ pt[2] \in Near(how, c[2])
    BY <1>2 DEF Touches
  <2>2. Blend2(how, hash, c, s) \in [Keys2(how, hash, c) -> Int]
    BY <1>1, Blend2OK DEF Blended
  <2>3. Key(hash, pt) \in Keys2(how, hash, c)
    BY <2>1 DEF Keys2, Keys1
  <2> DEFINE p == pt[1]
             q == pt[2]
  <2>a. p \in Near(how, c[1]) /\ q \in Near(how, c[2])
    BY <2>1
  <2> HIDE DEF p, q
  <2>4. Blend2(how, hash, c, s)[Key(hash, <<p, q>>)] = Part(how, s[2], q - c[2]) * (Part(how, s[1], p - c[1]) * 1)
    BY <1>1, <2>a, Blend2OK
  <2>5. BlendOf(how, hash, d, c, s) = Blend2(how, hash, c, s)
    BY <1>2 DEF BlendOf
  <2>6. Key(hash, pt) \in DOMAIN BlendOf(how, hash, d, c, s)
    BY <2>2, <2>3, <2>5
  <2>7. pt = <<p, q>> /\ pt[1] = p /\ pt[2] = q
    BY <2>1 DEF p, q
  <2> QED BY <1>2, <2>4, <2>5, <2>6, <2>7 DEF ProductOf
<1>3. CASE d = 3
  <2>1. pt = <<pt[1], pt[2], pt[3]>>
        /\ pt[1] \in Near(how, c[1]) /\ pt[2] \in Near(how, c[2]) /\ pt[3] \in Near(how, c[3])
    BY <1>3 DEF Touches
  <2>2. Blend3(how, hash, c, s) \in [Keys3(how, hash, c) -> Int]
    BY <1>1, Blend3OK DEF Blended
  <2>3. Key(hash, pt) \in Keys3(how, hash, c)
    BY <2>1 DEF Keys3, Keys3Plane, Keys3Line
  <2> DEFINE p == pt[1]
             q == pt[2]
             r == pt[3]
  <2>a. p \in Near(how, c[1]) /\ q \in Near(how, c[2]) /\ r \in Near(how, c[3])
    BY <2>1
  <2> HIDE DEF p, q, r
  <2>4. Blend3(how, hash, c, s)[Key(hash, <<p, q, r>>)]
            = Part(how, s[3], r - c[3]) * (Part(how, s[2], q - c[2]) * (Part(how, s[1], p - c[1]) * 1))
    BY <1>1, <2>a, Blend3OK
  <2>5. BlendOf(how, hash, d, c, s) = Blend3(how, hash, c, s)
    BY <1>3 DEF BlendOf
  <2>6. Key(hash, pt) \in DOMAIN BlendOf(how, hash, d, c, s)
    BY <2>2, <2>3, <2>5
  <2>7. pt = <<p, q, r>> /\ pt[1] = p /\ pt[2] = q /\ pt[3] = r
    BY <2>1 DEF p, q, r
  <2> QED BY <1>3, <2>4, <2>5, <2>6, <2>7 DEF ProductOf
<1> QED BY <1>2, <1>3

Returned(names, d, blend) == kernel[1] \in names /\ kernel[2] = d /\ weights = blend

LatticeInv ==
    /\ LatticeShape
    /\ pc = "done" =>
          \/ Returned({"Value", "Perturb"}, 3, Lattice!Blend3("Val", Lattice!Cell, Lattice!Interpolated))
          \/ Returned({"Value", "Perturb"}, 2, Lattice!Blend2("Val", Lattice!Cell, Lattice!Interpolated))
          \/ Returned({"Perlin"}, 3, Lattice!Blend3("Grad", Lattice!Cell, Lattice!Interpolated))
          \/ Returned({"Perlin"}, 2, Lattice!Blend2("Grad", Lattice!Cell, Lattice!Interpolated))
          \/ Returned({"Cubic"}, 3, Lattice!Cubic3(Lattice!Cell, Lattice!Within))
          \/ Returned({"Cubic"}, 2, Lattice!Cubic2(Lattice!Cell, Lattice!Within))
          \/ Returned({"SIMD Value", "SIMD Perturb"}, 3,
                      Lattice!Blend3("Val", Lattice!SIMDCell, Lattice!SIMDInterpolated))
          \/ Returned({"SIMD Perlin"}, 3,
                      Lattice!Blend3("Grad", Lattice!SIMDCell, Lattice!SIMDInterpolated))
          \/ Returned({"SIMD Cubic"}, 3, Lattice!Cubic3(Lattice!SIMDCell, Lattice!SIMDWithin))

LEMMA LatticeInitOK == Lattice!Init => LatticeInv
BY PlacesAssumption DEF Lattice!Init, LatticeInv, LatticeShape

(* Nothing of a blend depends on what a return changes. *)
LEMMA BlendsStay ==
    ASSUME UNCHANGED <<interp, place>>
    PROVE  /\ UNCHANGED <<Lattice!Cell, Lattice!Within, Lattice!Interpolated>>
           /\ UNCHANGED <<Lattice!SIMDCell, Lattice!SIMDWithin, Lattice!SIMDInterpolated>>
           /\ \A hash, c, s : /\ Lattice!Blend2(hash, c, s)' = Lattice!Blend2(hash, c, s)
                              /\ Lattice!Blend3(hash, c, s)' = Lattice!Blend3(hash, c, s)
<1>1. UNCHANGED <<Lattice!Cell, Lattice!SIMDCell>>
  BY DEF Lattice!Cell, Lattice!SIMDCell
<1>2. UNCHANGED <<Lattice!Within, Lattice!SIMDWithin>>
  BY <1>1 DEF Lattice!Within, Lattice!SIMDWithin
<1>3. UNCHANGED Lattice!SIMDInterpolated
  BY <1>2 DEF Lattice!SIMDInterpolated
<1>4. UNCHANGED Lattice!Interpolated
  BY <1>2 DEF Lattice!Interpolated, Lattice!Interp
<1>5. \A hash, p : Lattice!Coord(hash, p)' = Lattice!Coord(hash, p)
  BY DEF Lattice!Coord, Lattice!ValCoord, Lattice!GradCoord
<1>6. ASSUME NEW hash, NEW c, NEW s
      PROVE  /\ Lattice!Blend2(hash, c, s)' = Lattice!Blend2(hash, c, s)
             /\ Lattice!Blend3(hash, c, s)' = Lattice!Blend3(hash, c, s)
  BY <1>5 DEF Lattice!Blend2, Lattice!Blend3
<1> QED BY <1>1, <1>2, <1>3, <1>4, <1>6

LEMMA LatticeNextOK == LatticeInv /\ [Lattice!Next]_(Lattice!vars) => LatticeInv'
<1> SUFFICES ASSUME LatticeInv, [Lattice!Next]_(Lattice!vars) PROVE LatticeInv'
  OBVIOUS
<1>1. UNCHANGED <<interp, place>>
  BY DEF Lattice!Next, Lattice!vars, Lattice!SingleValue3D, Lattice!SinglePerlin3D, Lattice!SingleCubic3D,
         Lattice!SingleGradientPerturb3D, Lattice!SingleValue2D, Lattice!SinglePerlin2D,
         Lattice!SingleCubic2D, Lattice!SingleGradientPerturb2D, Lattice!ValueSingle,
         Lattice!PerlinSingle, Lattice!CubicSingle, Lattice!GradientPerturbSingle, Lattice!Return
<1>2. /\ UNCHANGED <<Lattice!Cell, Lattice!Within, Lattice!Interpolated>>
      /\ UNCHANGED <<Lattice!SIMDCell, Lattice!SIMDWithin, Lattice!SIMDInterpolated>>
      /\ \A hash, c, s : /\ Lattice!Blend2(hash, c, s)' = Lattice!Blend2(hash, c, s)
                         /\ Lattice!Blend3(hash, c, s)' = Lattice!Blend3(hash, c, s)
  BY <1>1, BlendsStay
<1>3. CASE UNCHANGED Lattice!vars
  BY <1>1, <1>2, <1>3 DEF LatticeInv, LatticeShape, Returned, Lattice!vars
<1>4. CASE Lattice!Next
  <2>1. LatticeShape' /\ pc' = "done"
    BY <1>1, <1>4
    DEF LatticeInv, LatticeShape, Lattice!Next, Lattice!SingleValue3D, Lattice!SinglePerlin3D, Lattice!SingleCubic3D,
         Lattice!SingleGradientPerturb3D, Lattice!SingleValue2D, Lattice!SinglePerlin2D,
         Lattice!SingleCubic2D, Lattice!SingleGradientPerturb2D, Lattice!ValueSingle,
         Lattice!PerlinSingle, Lattice!CubicSingle, Lattice!GradientPerturbSingle, Lattice!Return
  <2> USE DEF LatticeInv, Returned, Lattice!Return
  <2>2. CASE Lattice!SingleValue3D \/ Lattice!SingleGradientPerturb3D
    <3>1. kernel'[1] \in {"Value", "Perturb"} /\ kernel'[2] = 3 /\ weights' = Lattice!Blend3("Val", Lattice!Cell, Lattice!Interpolated)
      <4>1. CASE Lattice!SingleValue3D
        BY <4>1 DEF Lattice!SingleValue3D
      <4>2. CASE Lattice!SingleGradientPerturb3D
        BY <4>2 DEF Lattice!SingleGradientPerturb3D
      <4> QED BY <2>2, <4>1, <4>2
    <3>2. Returned({"Value", "Perturb"}, 3, Lattice!Blend3("Val", Lattice!Cell, Lattice!Interpolated))'
      BY <1>2, <3>1
    <3> QED BY <2>1, <3>2
  <2>3. CASE Lattice!SingleValue2D \/ Lattice!SingleGradientPerturb2D
    <3>1. kernel'[1] \in {"Value", "Perturb"} /\ kernel'[2] = 2 /\ weights' = Lattice!Blend2("Val", Lattice!Cell, Lattice!Interpolated)
      <4>1. CASE Lattice!SingleValue2D
        BY <4>1 DEF Lattice!SingleValue2D
      <4>2. CASE Lattice!SingleGradientPerturb2D
        BY <4>2 DEF Lattice!SingleGradientPerturb2D
      <4> QED BY <2>3, <4>1, <4>2
    <3>2. Returned({"Value", "Perturb"}, 2, Lattice!Blend2("Val", Lattice!Cell, Lattice!Interpolated))'
      BY <1>2, <3>1
    <3> QED BY <2>1, <3>2
  <2>4. CASE Lattice!SinglePerlin3D
    BY <1>2, <2>1, <2>4 DEF Lattice!SinglePerlin3D
  <2>5. CASE Lattice!SinglePerlin2D
    BY <1>2, <2>1, <2>5 DEF Lattice!SinglePerlin2D
  <2>6. CASE Lattice!SingleCubic3D
    BY <1>2, <2>1, <2>6 DEF Lattice!SingleCubic3D
  <2>7. CASE Lattice!SingleCubic2D
    BY <1>2, <2>1, <2>7 DEF Lattice!SingleCubic2D
  <2>8. CASE Lattice!ValueSingle \/ Lattice!GradientPerturbSingle
    <3>1. kernel'[1] \in {"SIMD Value", "SIMD Perturb"} /\ kernel'[2] = 3 /\ weights' = Lattice!Blend3("Val", Lattice!SIMDCell, Lattice!SIMDInterpolated)
      <4>1. CASE Lattice!ValueSingle
        BY <4>1 DEF Lattice!ValueSingle
      <4>2. CASE Lattice!GradientPerturbSingle
        BY <4>2 DEF Lattice!GradientPerturbSingle
      <4> QED BY <2>8, <4>1, <4>2
    <3>2. Returned({"SIMD Value", "SIMD Perturb"}, 3, Lattice!Blend3("Val", Lattice!SIMDCell, Lattice!SIMDInterpolated))'
      BY <1>2, <3>1
    <3> QED BY <2>1, <3>2
  <2>9. CASE Lattice!PerlinSingle
    BY <1>2, <2>1, <2>9 DEF Lattice!PerlinSingle
  <2>10. CASE Lattice!CubicSingle
    BY <1>2, <2>1, <2>10 DEF Lattice!CubicSingle
  <2> QED BY <1>4, <2>2, <2>3, <2>4, <2>5, <2>6, <2>7, <2>8, <2>9, <2>10 DEF Lattice!Next
<1> QED BY <1>3, <1>4

-----------------------------------------------------------------------------
\* How the kernel blends, and what.
How == IF Lattice!IsCubic THEN "cubic" ELSE "lerp"
Hash == IF Lattice!IsPerlin THEN "Grad" ELSE "Val"

Around(c, s) ==
    Fits(How, c, s) /\ kernel[2] \in {2, 3} /\ weights = BlendOf(How, Hash, kernel[2], c, s)

SIMDKernel == kernel[1] \in {"SIMD Value", "SIMD Perturb", "SIMD Perlin", "SIMD Cubic"}

(* What was returned is the blend of a cell around the place. *)
LEMMA ReturnedBlend ==
    ASSUME LatticeInv, pc = "done"
    PROVE  /\ \E c, s : Around(c, s)
           /\ SIMDKernel => kernel[2] = 3
           /\ SIMDKernel /\ ~Lattice!IsCubic => Around(Lattice!SIMDCell, Lattice!SIMDInterpolated)
           /\ SIMDKernel /\ Lattice!IsCubic => Around(Lattice!SIMDCell, Lattice!SIMDWithin)
<1>1. LatticeShape
  BY DEF LatticeInv
<1>2. /\ Fits("lerp", Lattice!Cell, Lattice!Interpolated)
      /\ Fits("cubic", Lattice!Cell, Lattice!Within)
      /\ Fits("lerp", Lattice!SIMDCell, Lattice!SIMDInterpolated)
      /\ Fits("cubic", Lattice!SIMDCell, Lattice!SIMDWithin)
  BY <1>1, CellsFit
<1>3. Lattice!Cell \in [1 .. 3 -> Int] /\ Lattice!SIMDCell \in [1 .. 3 -> Int]
  BY <1>2 DEF Fits
<1>4. \A c \in {Lattice!Cell, Lattice!SIMDCell} :
        /\ \A hash, s : /\ Lattice!Blend2(hash, c, s) = BlendOf("lerp", hash, 2, c, s)
                        /\ Lattice!Blend3(hash, c, s) = BlendOf("lerp", hash, 3, c, s)
        /\ \A s : /\ Lattice!Cubic2(c, s) = BlendOf("cubic", "Val", 2, c, s)
                  /\ Lattice!Cubic3(c, s) = BlendOf("cubic", "Val", 3, c, s)
  BY <1>3, BlendsAreLayers DEF BlendOf
<1>5. CASE kernel[1] \in {"Value", "Perturb", "Perlin"}
  <2>1. How = "lerp" /\ ~SIMDKernel
    BY <1>5 DEF How, SIMDKernel, Lattice!IsCubic
  <2>2. Hash = IF kernel[1] = "Perlin" THEN "Grad" ELSE "Val"
    BY <1>5 DEF Hash, Lattice!IsPerlin
  <2>3. Around(Lattice!Cell, Lattice!Interpolated)
    <3>1. kernel[2] \in {2, 3}
          /\ weights = IF kernel[2] = 2 THEN Lattice!Blend2(Hash, Lattice!Cell, Lattice!Interpolated)
                       ELSE Lattice!Blend3(Hash, Lattice!Cell, Lattice!Interpolated)
      <4>1. CASE kernel[1] \in {"Value", "Perturb"}
        <5>1. \/ kernel[2] = 3 /\ weights = Lattice!Blend3("Val", Lattice!Cell, Lattice!Interpolated)
              \/ kernel[2] = 2 /\ weights = Lattice!Blend2("Val", Lattice!Cell, Lattice!Interpolated)
          BY <4>1 DEF LatticeInv, Returned
        <5>2. Hash = "Val"
          BY <2>2, <4>1
        <5> QED BY <5>1, <5>2
      <4>2. CASE kernel[1] = "Perlin"
        <5>1. \/ kernel[2] = 3 /\ weights = Lattice!Blend3("Grad", Lattice!Cell, Lattice!Interpolated)
              \/ kernel[2] = 2 /\ weights = Lattice!Blend2("Grad", Lattice!Cell, Lattice!Interpolated)
          BY <4>2 DEF LatticeInv, Returned
        <5>2. Hash = "Grad"
          BY <2>2, <4>2
        <5> QED BY <5>1, <5>2
      <4> QED BY <1>5, <4>1, <4>2
    <3>2. weights = BlendOf("lerp", Hash, kernel[2], Lattice!Cell, Lattice!Interpolated)
      <4>1. CASE kernel[2] = 2
        BY <1>4, <3>1, <4>1
      <4>2. CASE kernel[2] = 3
        BY <1>4, <3>1, <4>2
      <4> QED BY <3>1, <4>1, <4>2
    <3> QED BY <1>2, <2>1, <3>1, <3>2 DEF Around
  <2> QED BY <2>1, <2>3
<1>6. CASE kernel[1] = "Cubic"
  <2>1. How = "cubic" /\ Hash = "Val" /\ ~SIMDKernel
    BY <1>6 DEF How, Hash, SIMDKernel, Lattice!IsCubic, Lattice!IsPerlin
  <2>3. Around(Lattice!Cell, Lattice!Within)
    <3>1. kernel[2] \in {2, 3}
          /\ weights = IF kernel[2] = 2 THEN Lattice!Cubic2(Lattice!Cell, Lattice!Within)
                       ELSE Lattice!Cubic3(Lattice!Cell, Lattice!Within)
      BY <1>6 DEF LatticeInv, Returned
    <3>2. weights = BlendOf("cubic", "Val", kernel[2], Lattice!Cell, Lattice!Within)
      <4>1. CASE kernel[2] = 2
        BY <1>4, <3>1, <4>1
      <4>2. CASE kernel[2] = 3
        BY <1>4, <3>1, <4>2
      <4> QED BY <3>1, <4>1, <4>2
    <3> QED BY <1>2, <2>1, <3>1, <3>2 DEF Around
  <2> QED BY <2>1, <2>3
<1>7. CASE kernel[1] \in {"SIMD Value", "SIMD Perturb", "SIMD Perlin"}
  <2>1. How = "lerp" /\ ~Lattice!IsCubic
    BY <1>7 DEF How, Lattice!IsCubic
  <2>2. Hash = IF kernel[1] = "SIMD Perlin" THEN "Grad" ELSE "Val"
    BY <1>7 DEF Hash, Lattice!IsPerlin
  <2>3. Around(Lattice!SIMDCell, Lattice!SIMDInterpolated) /\ kernel[2] = 3
    <3>1. kernel[2] = 3 /\ weights = Lattice!Blend3(Hash, Lattice!SIMDCell, Lattice!SIMDInterpolated)
      BY <1>7, <2>2 DEF LatticeInv, Returned
    <3> QED BY <1>2, <1>4, <2>1, <3>1 DEF Around
  <2> QED BY <2>1, <2>3
<1>8. CASE kernel[1] = "SIMD Cubic"
  <2>1. How = "cubic" /\ Hash = "Val" /\ Lattice!IsCubic
    BY <1>8 DEF How, Hash, Lattice!IsCubic, Lattice!IsPerlin
  <2>3. Around(Lattice!SIMDCell, Lattice!SIMDWithin) /\ kernel[2] = 3
    BY <1>2, <1>4, <1>8, <2>1 DEF Around, LatticeInv, Returned
  <2> QED BY <2>1, <2>3
<1> QED BY <1>5, <1>6, <1>7, <1>8 DEF LatticeInv, Returned

(* A point that counts is that of a corner that touches the place. *)
LEMMA CountingTouches ==
    ASSUME LatticeInv, NEW c, NEW s, Around(c, s), NEW k \in Lattice!Counting
    PROVE  \E pt : /\ k = Key(Hash, pt) /\ Touches(How, kernel[2], c, s, pt)
                   /\ Lattice!Point(k) = pt
                   /\ Lattice!IsPerlin =>
                         \A a \in 1 .. kernel[2] : k[2][a] = place[a] - 4 * pt[a]
<1>1. How \in Hows /\ kernel[2] \in {2, 3} /\ Fits(How, c, s) /\ place \in [1 .. 3 -> Int]
  BY DEF How, Hows, Around, LatticeInv, LatticeShape
<1>2. k \in DOMAIN weights /\ weights[k] # 0 /\ weights = BlendOf(How, Hash, kernel[2], c, s)
  BY DEF Lattice!Counting, Around
<1>3. PICK pt : k = Key(Hash, pt) /\ Touches(How, kernel[2], c, s, pt)
  BY <1>1, <1>2, PointsTouch
<1>4. DOMAIN pt = 1 .. kernel[2]
  BY <1>3 DEF Touches
<1>5. Lattice!Point(k) = pt
  BY <1>3, Zenon DEF Hash, Key, Lattice!Point
<1>6. ASSUME Lattice!IsPerlin, NEW a \in 1 .. kernel[2] PROVE k[2][a] = place[a] - 4 * pt[a]
  <2>1. k = <<pt, [b \in DOMAIN pt |-> place[b] - 4 * pt[b]]>>
    BY <1>3, <1>6 DEF Hash, Key, Lattice!Quarters
  <2> QED BY <1>4, <2>1
<1>7. Lattice!IsPerlin => \A a \in 1 .. kernel[2] : k[2][a] = place[a] - 4 * pt[a]
  BY <1>6
<1> QED BY <1>3, <1>5, <1>7

(* What AxisMeets says of each axis of such a point. *)
LEMMA TouchedAxes ==
    ASSUME LatticeInv, NEW c, NEW s, Around(c, s), NEW pt, Touches(How, kernel[2], c, s, pt),
           NEW a \in 1 .. kernel[2]
    PROVE  /\ place[a] % 4 = 0 => pt[a] = place[a] \div 4
           /\ How = "lerp" => Lattice!Abs(place[a] - 4 * pt[a]) <= 4
                              /\ (place[a] % 4 = 0 => place[a] - 4 * pt[a] = 0)
           /\ How = "lerp" => Part(How, s[a], pt[a] - c[a]) > 0
           /\ Part(How, s[a], pt[a] - c[a]) \in Int
<1>a. How \in Hows /\ place \in [1 .. 3 -> Int] /\ kernel[2] \in {2, 3} /\ Fits(How, c, s)
  BY DEF How, Hows, Around, LatticeInv, LatticeShape
<1>b. a \in 1 .. 3
  BY <1>a
<1>1. How \in Hows /\ a \in 1 .. 3 /\ place \in [1 .. 3 -> Int]
      /\ c \in [1 .. 3 -> Int] /\ s \in [1 .. 3 -> 0 .. Full(How)]
  BY <1>a, <1>b DEF Fits
<1>2. place[a] \in Int /\ c[a] \in Int /\ s[a] \in 0 .. Full(How)
  BY <1>1
<1>3. /\ place[a] - 4 * c[a] \in 0 .. 4
      /\ place[a] - 4 * c[a] = 0 => s[a] = 0
      /\ place[a] - 4 * c[a] = 4 => s[a] = Full(How)
  BY <1>a, <1>1 DEF Fits
<1>4. pt[a] \in Near(How, c[a]) /\ Part(How, s[a], pt[a] - c[a]) # 0
  BY DEF Touches
<1>5. Part(How, s[a], pt[a] - c[a]) \in Int
  BY <1>1, <1>2, <1>4, PartsAreInt
<1> DEFINE f == place[a]
           m == c[a]
           t == s[a]
           n == pt[a]
<1> HIDE DEF f, m, t, n
<1> QED BY <1>1, <1>2, <1>3, <1>4, <1>5, AxisMeets, SMTT(20) DEF f, m, t, n

LEMMA LatticeMeets == LatticeInv => Lattice!CellsMeet
<1> SUFFICES ASSUME LatticeInv, pc = "done" PROVE Lattice!CellsMeet
  BY DEF Lattice!CellsMeet
<1> USE DEF Lattice!Quarters, Lattice!Dimensions
<1>1. PICK c, s : Around(c, s)
  BY ReturnedBlend
<1>2. ASSUME NEW k \in Lattice!Counting, NEW a \in 1 .. kernel[2]
      PROVE  /\ place[a] % 4 = 0 => Lattice!Point(k)[a] = place[a] \div 4
             /\ Lattice!IsPerlin => Lattice!Abs(k[2][a]) <= 4 /\ (place[a] % 4 = 0 => k[2][a] = 0)
  <2>1. PICK pt : /\ Touches(How, kernel[2], c, s, pt) /\ Lattice!Point(k) = pt
                  /\ Lattice!IsPerlin => \A b \in 1 .. kernel[2] : k[2][b] = place[b] - 4 * pt[b]
    BY <1>1, CountingTouches
  <2>2. /\ place[a] % 4 = 0 => pt[a] = place[a] \div 4
        /\ How = "lerp" => Lattice!Abs(place[a] - 4 * pt[a]) <= 4
                              /\ (place[a] % 4 = 0 => place[a] - 4 * pt[a] = 0)
    BY <1>1, <2>1, TouchedAxes
  <2>3. Lattice!IsPerlin => How = "lerp"
    BY DEF How, Lattice!IsPerlin, Lattice!IsCubic
  <2> QED BY <2>1, <2>2, <2>3
<1> QED BY <1>2 DEF Lattice!CellsMeet

LEMMA LatticeRange == LatticeInv => Lattice!BlendInRange
<1> SUFFICES ASSUME LatticeInv, pc = "done" PROVE Lattice!BlendInRange
  BY DEF Lattice!BlendInRange
<1>1. PICK c, s : Around(c, s)
  BY ReturnedBlend
<1>2. How \in Hows /\ kernel[2] \in {2, 3} /\ place \in [1 .. 3 -> Int]
      /\ c \in [1 .. 3 -> Int] /\ s \in [1 .. 3 -> 0 .. Full(How)]
  BY <1>1 DEF How, Hows, Around, Fits, LatticeInv, LatticeShape
<1>3. weights = BlendOf(How, Hash, kernel[2], c, s)
  BY <1>1 DEF Around
<1> DEFINE T == Lattice!Total(AbsOf(weights))
<1>4. /\ kernel[2] = 2 => Lattice!Total(weights) = One(How) * (One(How) * 1)
                          /\ T \in Int /\ T <= MostPart(How) * (MostPart(How) * 1)
      /\ kernel[2] = 3 => Lattice!Total(weights) = One(How) * (One(How) * (One(How) * 1))
                          /\ T \in Int /\ T <= MostPart(How) * (MostPart(How) * (MostPart(How) * 1))
  <2>1. CASE kernel[2] = 2
    <3>1. weights = Blend2(How, Hash, c, s)
      BY <1>3, <2>1 DEF BlendOf
    <3>2. Blended(weights, Keys2(How, Hash, c), One(How) * (One(How) * 1), MostPart(How) * (MostPart(How) * 1))
      BY <1>2, <3>1, Blend2OK
    <3> QED BY <2>1, <3>2, TotalsAreInt DEF Blended
  <2>2. CASE kernel[2] = 3
    <3>1. weights = Blend3(How, Hash, c, s)
      BY <1>3, <2>2 DEF BlendOf
    <3>2. Blended(weights, Keys3(How, Hash, c), One(How) * (One(How) * (One(How) * 1)),
                  MostPart(How) * (MostPart(How) * (MostPart(How) * 1)))
      BY <1>2, <3>1, Blend3OK
    <3> QED BY <2>2, <3>2, TotalsAreInt DEF Blended
  <2> QED BY <1>2, <2>1, <2>2
<1>5. Lattice!Total([p \in DOMAIN weights |-> Lattice!Abs(weights[p])]) = T
  BY DEF AbsOf
<1> HIDE DEF T
<1>6. Lattice!IsCubic => One(How) = 64 /\ MostPart(How) = 96
  BY DEF How, One, MostPart, Lattice!CubicUnit
<1>7. ~Lattice!IsCubic => How = "lerp" /\ One(How) = 1024
  BY DEF How, One, Lattice!Unit
<1>8. Lattice!Total(weights) = Lattice!Scale
  BY <1>2, <1>4, <1>6, <1>7
  DEF Lattice!Scale, Lattice!ForEachAxis, Lattice!Dimensions, Lattice!Unit, Lattice!CubicUnit
<1>9. ASSUME Lattice!IsCubic PROVE Lattice!ForEachAxis(2) * T <= Lattice!ForEachAxis(3) * Lattice!Scale
  <2>1. CASE kernel[2] = 2
    <3>1. T \in Int /\ T <= 9216
      BY <1>4, <1>6, <1>9, <2>1
    <3>2. Lattice!ForEachAxis(2) = 4 /\ Lattice!ForEachAxis(3) = 9 /\ Lattice!Scale = 4096
      BY <1>9, <2>1 DEF Lattice!Scale, Lattice!ForEachAxis, Lattice!Dimensions, Lattice!CubicUnit
    <3> QED BY <3>1, <3>2
  <2>2. CASE kernel[2] = 3
    <3>1. T \in Int /\ T <= 884736
      BY <1>4, <1>6, <1>9, <2>2
    <3>2. Lattice!ForEachAxis(2) = 8 /\ Lattice!ForEachAxis(3) = 27 /\ Lattice!Scale = 262144
      BY <1>9, <2>2 DEF Lattice!Scale, Lattice!ForEachAxis, Lattice!Dimensions, Lattice!CubicUnit
    <3> QED BY <3>1, <3>2
  <2> QED BY <1>2, <2>1, <2>2
<1>10. ASSUME ~Lattice!IsCubic, NEW k \in Lattice!Counting PROVE weights[k] > 0
  <2>1. PICK pt : k = Key(Hash, pt) /\ Touches(How, kernel[2], c, s, pt)
    BY <1>1, CountingTouches
  <2> DEFINE u == Part(How, s[1], pt[1] - c[1])
             v == Part(How, s[2], pt[2] - c[2])
             w == Part(How, s[3], pt[3] - c[3])
  <2>2. /\ kernel[2] = 2 => weights[k] = v * (u * 1)
        /\ kernel[2] = 3 => weights[k] = w * (v * (u * 1))
    <3>1. Fits(How, c, s)
      BY <1>1 DEF Around
    <3>2. BlendOf(How, Hash, kernel[2], c, s)[Key(Hash, pt)] = ProductOf(How, kernel[2], c, s, pt)
      BY <1>2, <2>1, <3>1, TouchedWeight
    <3>3. weights[k] = ProductOf(How, kernel[2], c, s, pt)
      BY <1>3, <2>1, <3>2
    <3> QED BY <3>3 DEF ProductOf
  <2>3. \A a \in 1 .. kernel[2] :
           Part(How, s[a], pt[a] - c[a]) > 0 /\ Part(How, s[a], pt[a] - c[a]) \in Int
    BY <1>1, <1>7, <1>10, <2>1, TouchedAxes
  <2>4. u > 0 /\ u \in Int /\ v > 0 /\ v \in Int /\ (kernel[2] = 3 => w > 0 /\ w \in Int)
    BY <1>2, <2>3
  <2> HIDE DEF u, v, w
  <2>5. CASE kernel[2] = 2
    BY <2>2, <2>4, <2>5, ProductOfParts
  <2>6. CASE kernel[2] = 3
    BY <2>2, <2>4, <2>6, ProductOfParts
  <2> QED BY <1>2, <2>5, <2>6
<1> QED BY <1>5, <1>8, <1>9, <1>10 DEF Lattice!BlendInRange

\* The cell that FastNoiseSIMD takes, and the one that FastNoise takes.
CellsOf(how, c, s, c2, s2) ==
    /\ c = Lattice!SIMDCell /\ c2 = Lattice!Cell
    /\ IF how = "lerp" THEN s = Lattice!SIMDInterpolated /\ s2 = Lattice!Interpolated
       ELSE s = Lattice!SIMDWithin /\ s2 = Lattice!Within

(* A point that touches a place touches it from the other library's cell too,
   with the same parts. *)
LEMMA CellsAgree ==
    ASSUME LatticeShape, NEW how \in Hows, how = "lerp" => interp = "Quintic",
           NEW c, NEW s, NEW c2, NEW s2,
           CellsOf(how, c, s, c2, s2),
           NEW pt, Touches(how, 3, c, s, pt)
    PROVE  Touches(how, 3, c2, s2, pt) /\ ProductOf(how, 3, c2, s2, pt) = ProductOf(how, 3, c, s, pt)
<1>0. place \in [1 .. 3 -> Int]
  BY DEF LatticeShape
<1> USE DEF CellsOf
<1>1. Fits(how, c, s)
  BY CellsFit DEF Hows
<1>2. ASSUME NEW a \in 1 .. 3
      PROVE  \/ c2[a] = c[a] /\ s2[a] = s[a]
             \/ c2[a] = c[a] - 1 /\ s[a] = 0 /\ s2[a] = Full(how)
  <2> DEFINE f == place[a]
             t == f - 4 * Lattice!Floor(f)
             t2 == f - 4 * Lattice!FastFloor(f)
  <2>1. /\ Lattice!SIMDCell[a] = Lattice!Floor(f) /\ Lattice!Cell[a] = Lattice!FastFloor(f)
        /\ Lattice!SIMDWithin[a] = t /\ Lattice!Within[a] = t2
        /\ Lattice!SIMDInterpolated[a] = Lattice!InterpQuinticFunc(t)
        /\ Lattice!Interpolated[a] = Lattice!Interp(t2)
    <3>1. Lattice!SIMDCell[a] = Lattice!Floor(f) /\ Lattice!Cell[a] = Lattice!FastFloor(f)
      BY <1>0 DEF Lattice!SIMDCell, Lattice!Cell
    <3>2. Lattice!SIMDWithin[a] = t /\ Lattice!Within[a] = t2
      BY <1>0, <3>1 DEF Lattice!SIMDWithin, Lattice!Within, Lattice!Quarters
    <3>3. Lattice!SIMDInterpolated[a] = Lattice!InterpQuinticFunc(t)
      BY <1>0, <3>2 DEF Lattice!SIMDInterpolated
    <3>4. Lattice!Interpolated[a] = Lattice!Interp(t2)
      BY <1>0, <3>2 DEF Lattice!Interpolated
    <3> QED BY <3>1, <3>2, <3>3, <3>4
  <2>2. f \in Int
    BY <1>0
  <2>3. /\ Lattice!FastFloor(f) \in Int /\ t2 \in 0 .. 4 /\ Lattice!Floor(f) \in Int /\ t \in 0 .. 3
        /\ \/ Lattice!FastFloor(f) = Lattice!Floor(f)
           \/ Lattice!FastFloor(f) = Lattice!Floor(f) - 1 /\ t = 0
    BY <2>2, FloorOK
  <2>4. CASE Lattice!FastFloor(f) = Lattice!Floor(f)
    <3>1. t2 = t
      BY <2>4
    <3>2. how = "lerp" => Lattice!Interp(t2) = Lattice!InterpQuinticFunc(t)
      BY <2>3, <3>1, InterpOK
    <3> QED BY <2>1, <2>4, <3>1, <3>2
  <2>5. CASE Lattice!FastFloor(f) = Lattice!Floor(f) - 1 /\ t = 0
    <3>1. t2 = 4
      BY <2>2, <2>3, <2>5
    <3>2. Lattice!Interp(4) = 1024 /\ Lattice!InterpQuinticFunc(0) = 0
      BY InterpOK, QuinticOK
    <3>3. s[a] = 0 /\ s2[a] = Full(how)
      <4>1. CASE how = "lerp"
        BY <2>1, <2>5, <3>1, <3>2, <4>1 DEF Full, Lattice!Unit
      <4>2. CASE how = "cubic"
        BY <2>1, <2>5, <3>1, <4>2 DEF Full
      <4> QED BY <4>1, <4>2 DEF Hows
    <3> QED BY <2>1, <2>5, <3>3
  <2> QED BY <2>3, <2>4, <2>5
<1>3. c \in [1 .. 3 -> Int] /\ s \in [1 .. 3 -> 0 .. Full(how)]
  BY <1>1 DEF Fits
<1>4. ASSUME NEW a \in 1 .. 3
      PROVE  pt[a] \in Near(how, c2[a]) /\ Part(how, s2[a], pt[a] - c2[a]) = Part(how, s[a], pt[a] - c[a])
  <2> DEFINE m == c[a]
             t == s[a]
             m2 == c2[a]
             t2 == s2[a]
             n == pt[a]
  <2>1. m \in Int /\ t \in 0 .. Full(how)
    BY <1>3
  <2>2. n \in Near(how, m) /\ Part(how, t, n - m) # 0
    BY DEF Touches
  <2>3. (m2 = m /\ t2 = t) \/ (m2 = m - 1 /\ t = 0 /\ t2 = Full(how))
    BY <1>2
  <2> HIDE DEF m, t, m2, t2, n
  <2>4. n \in Near(how, m2) /\ Part(how, t2, n - m2) = Part(how, t, n - m)
    BY <2>1, <2>2, <2>3, AxisAgrees
  <2> QED BY <2>4 DEF m, t, m2, t2, n
<1>5. Touches(how, 3, c2, s2, pt)
  BY <1>4 DEF Touches
<1>6. ProductOf(how, 3, c2, s2, pt) = ProductOf(how, 3, c, s, pt)
  BY <1>4 DEF ProductOf
<1> QED BY <1>5, <1>6

Same(f) == \A p \in Lattice!Counting : p \in DOMAIN f /\ f[p] = weights[p]

LEMMA SameBlend ==
    ASSUME LatticeInv, NEW c, NEW s, Around(c, s), kernel[2] = 3,
           NEW c2, NEW s2, Fits(How, c2, s2),
           \A pt : Touches(How, 3, c, s, pt) =>
               Touches(How, 3, c2, s2, pt) /\ ProductOf(How, 3, c2, s2, pt) = ProductOf(How, 3, c, s, pt)
    PROVE  Same(Blend3(How, Hash, c2, s2))
<1> SUFFICES ASSUME NEW k \in Lattice!Counting
             PROVE  LET f == Blend3(How, Hash, c2, s2) IN k \in DOMAIN f /\ f[k] = weights[k]
  BY DEF Same
<1>1. How \in Hows /\ Fits(How, c, s) /\ place \in [1 .. 3 -> Int] /\ weights = BlendOf(How, Hash, 3, c, s)
  BY DEF How, Hows, Around, LatticeInv, LatticeShape
<1>2. PICK pt : k = Key(Hash, pt) /\ Touches(How, 3, c, s, pt)
  BY CountingTouches
<1>3. weights[k] = ProductOf(How, 3, c, s, pt)
  BY <1>1, <1>2, TouchedWeight
<1>4. /\ k \in DOMAIN BlendOf(How, Hash, 3, c2, s2)
      /\ BlendOf(How, Hash, 3, c2, s2)[k] = ProductOf(How, 3, c2, s2, pt)
  BY <1>1, <1>2, TouchedWeight
<1>5. BlendOf(How, Hash, 3, c2, s2) = Blend3(How, Hash, c2, s2)
  BY DEF BlendOf
<1>6. ProductOf(How, 3, c2, s2, pt) = ProductOf(How, 3, c, s, pt)
  BY <1>2
<1> QED BY <1>3, <1>4, <1>5, <1>6

LEMMA LatticeAgrees == LatticeInv => Lattice!LibrariesAgree
<1> SUFFICES ASSUME LatticeInv, pc = "done" PROVE Lattice!LibrariesAgree
  BY DEF Lattice!LibrariesAgree
<1>0. LatticeShape /\ How \in Hows
  BY DEF LatticeInv, How, Hows
<1>1. Fits("lerp", Lattice!Cell, Lattice!Interpolated) /\ Fits("cubic", Lattice!Cell, Lattice!Within)
  BY <1>0, CellsFit
<1>2. Lattice!Cell \in [1 .. 3 -> Int]
  BY <1>1 DEF Fits
<1>3. ASSUME kernel[1] \in {"SIMD Value", "SIMD Perturb", "SIMD Perlin"}, interp = "Quintic"
      PROVE  Same(Lattice!Blend3(Hash, Lattice!Cell, Lattice!Interpolated))
  <2>1. How = "lerp" /\ SIMDKernel /\ ~Lattice!IsCubic
    BY <1>3 DEF How, SIMDKernel, Lattice!IsCubic
  <2>2. Around(Lattice!SIMDCell, Lattice!SIMDInterpolated) /\ kernel[2] = 3
    BY <2>1, ReturnedBlend
  <2>3. ASSUME NEW pt, Touches(How, 3, Lattice!SIMDCell, Lattice!SIMDInterpolated, pt)
        PROVE  /\ Touches(How, 3, Lattice!Cell, Lattice!Interpolated, pt)
               /\ ProductOf(How, 3, Lattice!Cell, Lattice!Interpolated, pt)
                      = ProductOf(How, 3, Lattice!SIMDCell, Lattice!SIMDInterpolated, pt)
    <3>1. CellsOf(How, Lattice!SIMDCell, Lattice!SIMDInterpolated, Lattice!Cell, Lattice!Interpolated)
      BY <2>1 DEF CellsOf
    <3> QED BY <1>0, <1>3, <2>3, <3>1, CellsAgree
  <2>4. Same(Blend3(How, Hash, Lattice!Cell, Lattice!Interpolated))
    BY <1>1, <2>1, <2>2, <2>3, SameBlend
  <2> QED BY <1>2, <2>1, <2>4, BlendsAreLayers
<1>4. ASSUME kernel[1] = "SIMD Cubic"
      PROVE  Same(Lattice!Cubic3(Lattice!Cell, Lattice!Within))
  <2>1. How = "cubic" /\ Hash = "Val" /\ SIMDKernel /\ Lattice!IsCubic
    BY <1>4 DEF How, Hash, SIMDKernel, Lattice!IsCubic, Lattice!IsPerlin
  <2>2. Around(Lattice!SIMDCell, Lattice!SIMDWithin) /\ kernel[2] = 3
    BY <2>1, ReturnedBlend
  <2>3. ASSUME NEW pt, Touches(How, 3, Lattice!SIMDCell, Lattice!SIMDWithin, pt)
        PROVE  /\ Touches(How, 3, Lattice!Cell, Lattice!Within, pt)
               /\ ProductOf(How, 3, Lattice!Cell, Lattice!Within, pt)
                      = ProductOf(How, 3, Lattice!SIMDCell, Lattice!SIMDWithin, pt)
    <3>1. CellsOf(How, Lattice!SIMDCell, Lattice!SIMDWithin, Lattice!Cell, Lattice!Within)
      BY <2>1 DEF CellsOf
    <3> QED BY <1>0, <2>1, <2>3, <3>1, CellsAgree
  <2>4. Same(Blend3(How, Hash, Lattice!Cell, Lattice!Within))
    BY <1>1, <2>1, <2>2, <2>3, SameBlend
  <2> QED BY <1>2, <2>1, <2>4, BlendsAreLayers
<1>5. /\ kernel[1] \in {"SIMD Value", "SIMD Perturb"} => Hash = "Val"
      /\ kernel[1] = "SIMD Perlin" => Hash = "Grad"
  BY DEF Hash, Lattice!IsPerlin
<1>6. /\ kernel[1] \in {"SIMD Value", "SIMD Perturb"} /\ interp = "Quintic" =>
            Same(Lattice!Blend3("Val", Lattice!Cell, Lattice!Interpolated))
      /\ kernel[1] = "SIMD Perlin" /\ interp = "Quintic" =>
            Same(Lattice!Blend3("Grad", Lattice!Cell, Lattice!Interpolated))
      /\ kernel[1] = "SIMD Cubic" => Same(Lattice!Cubic3(Lattice!Cell, Lattice!Within))
  BY <1>3, <1>4, <1>5
<1> QED BY <1>6 DEF Lattice!LibrariesAgree, Same

-----------------------------------------------------------------------------
(***************************************************************************)
(* SimplexNoise.                                                           *)
(***************************************************************************)
\* What the comparisons give, and the axes from a largest coordinate on.
Orders ==
    {<<0, 4, 3, 2, 1>>, <<1, 3, 4, 2, 1>>, <<3, 3, 2, 4, 1>>, <<7, 3, 2, 1, 4>>,
     <<8, 4, 2, 3, 1>>, <<10, 2, 4, 3, 1>>, <<11, 2, 3, 4, 1>>, <<15, 2, 3, 1, 4>>,
     <<24, 4, 2, 1, 3>>, <<26, 2, 4, 1, 3>>, <<30, 2, 1, 4, 3>>, <<31, 2, 1, 3, 4>>,
     <<32, 4, 3, 1, 2>>, <<33, 3, 4, 1, 2>>, <<37, 3, 1, 4, 2>>, <<39, 3, 1, 2, 4>>,
     <<48, 4, 1, 3, 2>>, <<52, 1, 4, 3, 2>>, <<53, 1, 3, 4, 2>>, <<55, 1, 3, 2, 4>>,
     <<56, 4, 1, 2, 3>>, <<60, 1, 4, 2, 3>>, <<62, 1, 2, 4, 3>>, <<63, 1, 2, 3, 4>>}

\* No two of the axes are the same, and the place falls from one to the next.
Falling2(j, k) == {j, k} = 1 .. 2 /\ j # k /\ place[j] >= place[k]
Falling3(j, k, l) == /\ {j, k, l} = 1 .. 3 /\ Cardinality({j, k}) = 2
                     /\ place[j] >= place[k] /\ place[k] >= place[l]
Falling4(j, k, l, m) == /\ {j, k, l, m} = 1 .. 4
                        /\ Cardinality({j, k}) = 2 /\ Cardinality({j, k, l}) = 3
                        /\ place[j] >= place[k] /\ place[k] >= place[l] /\ place[l] >= place[m]

LEMMA CardinalitiesOf ==
    ASSUME NEW j, NEW k, NEW l, j # k, j # l, k # l
    PROVE  /\ Cardinality({}) = 0 /\ Cardinality({j}) = 1 /\ Cardinality({j, k}) = 2
           /\ Cardinality({j, k, l}) = 3
<1>1. Cardinality({}) = 0 /\ IsFiniteSet({j}) /\ Cardinality({j}) = 1
  BY FS_EmptySet, FS_Singleton
<1>2. IsFiniteSet({j} \cup {k}) /\ Cardinality({j} \cup {k}) = 1 + 1
  BY <1>1, FS_AddElement
<1>3. {j} \cup {k} = {j, k}
  OBVIOUS
<1>4. Cardinality({j, k} \cup {l}) = 1 + 1 + 1
  BY <1>2, <1>3, FS_AddElement
<1>5. {j, k} \cup {l} = {j, k, l}
  OBVIOUS
<1> QED BY <1>1, <1>2, <1>3, <1>4, <1>5

LEMMA TableOK ==
    \A o \in Orders : LET row == Simplex!SIMPLEX_4D[o[1] + 1]
                      IN  row[o[2]] = 3 /\ row[o[3]] = 2 /\ row[o[4]] = 1 /\ row[o[5]] = 0
BY DEF Orders, Simplex!SIMPLEX_4D, Simplex!Zero

Code == (IF place[1] > place[2] THEN 32 ELSE 0) + (IF place[1] > place[3] THEN 16 ELSE 0)
        + (IF place[2] > place[3] THEN 8 ELSE 0) + (IF place[1] > place[4] THEN 4 ELSE 0)
        + (IF place[2] > place[4] THEN 2 ELSE 0) + (IF place[3] > place[4] THEN 1 ELSE 0)

LEMMA CodeOK ==
    ASSUME place \in [1 .. 4 -> Int]
    PROVE  \E o \in Orders :
              /\ o[1] = Code /\ place[o[2]] >= place[o[3]] /\ place[o[3]] >= place[o[4]]
              /\ place[o[4]] >= place[o[5]]
<1> DEFINE p == place[1]
           q == place[2]
           r == place[3]
           s == place[4]
<1>1. p \in Int /\ q \in Int /\ r \in Int /\ s \in Int
  OBVIOUS
<1> QED BY <1>1 DEF Orders, Code

\* In four dimensions the table has the corners; in two and three the code.
LEMMA Between4DOK ==
    ASSUME place \in [1 .. 4 -> Int]
    PROVE  \E j, k, l, m : Falling4(j, k, l, m) /\ Simplex!Between4D = <<{j}, {j, k}, {j, k, l}>>
<1>1. PICK o \in Orders :
         /\ o[1] = Code /\ place[o[2]] >= place[o[3]] /\ place[o[3]] >= place[o[4]]
         /\ place[o[4]] >= place[o[5]]
  BY CodeOK
<1> DEFINE j == o[2]
           k == o[3]
           l == o[4]
           m == o[5]
           row == Simplex!SIMPLEX_4D[Code + 1]
           ranked(n) == {a \in 1 .. 4 : row[a] >= n}
<1>2. row[j] = 3 /\ row[k] = 2 /\ row[l] = 1 /\ row[m] = 0
  BY <1>1, TableOK
<1>3. {j, k, l, m} = 1 .. 4 /\ j # k /\ j # l /\ k # l
  BY DEF Orders
<1>4. Simplex!Between4D = <<ranked(3), ranked(2), ranked(1)>>
  BY DEF Simplex!Between4D, Code, Simplex!x0, Simplex!y0, Simplex!z0, Simplex!w0
<1> HIDE DEF j, k, l, m, row
<1>a. 1 .. 4 = {j, k, l, m} /\ j \in 1 .. 4 /\ k \in 1 .. 4 /\ l \in 1 .. 4
  BY <1>3
<1>b. ranked(3) = {j}
  BY <1>2, <1>a
<1>c. ranked(2) = {j, k}
  BY <1>2, <1>a
<1>d. ranked(1) = {j, k, l}
  BY <1>2, <1>a
<1>5. ranked(3) = {j} /\ ranked(2) = {j, k} /\ ranked(1) = {j, k, l}
  BY <1>b, <1>c, <1>d
<1>6. Cardinality({j, k}) = 2 /\ Cardinality({j, k, l}) = 3
  BY <1>3, CardinalitiesOf
<1>7. place[j] >= place[k] /\ place[k] >= place[l] /\ place[l] >= place[m]
  BY <1>1 DEF j, k, l, m
<1> QED BY <1>3, <1>4, <1>5, <1>6, <1>7 DEF Falling4

LEMMA Between3DOK ==
    ASSUME place \in [1 .. 4 -> Int]
    PROVE  \E j, k, l : Falling3(j, k, l) /\ Simplex!Between3D = <<{j}, {j, k}>>
<1> DEFINE p == place[1]
           q == place[2]
           r == place[3]
<1>1. p \in Int /\ q \in Int /\ r \in Int
  OBVIOUS
<1>2. ASSUME NEW j \in 1 .. 3, NEW k \in 1 .. 3, NEW l \in 1 .. 3, j # k, j # l, k # l,
             place[j] >= place[k], place[k] >= place[l]
      PROVE  Falling3(j, k, l)
  <2>1. {j, k, l} = 1 .. 3
    BY <1>2
  <2> QED BY <1>2, <2>1, CardinalitiesOf DEF Falling3
<1> USE DEF Simplex!Between3D, Simplex!x0, Simplex!y0, Simplex!z0
<1>3. CASE p >= q /\ q >= r
  <2>1. Simplex!Between3D = <<{1}, {1, 2}>>
    BY <1>1, <1>3
  <2> QED BY <1>1, <1>2, <1>3, <2>1
<1>4. CASE p >= q /\ q < r /\ p >= r
  <2>1. Simplex!Between3D = <<{1}, {1, 3}>>
    BY <1>1, <1>4
  <2> QED BY <1>1, <1>2, <1>4, <2>1
<1>5. CASE p >= q /\ q < r /\ p < r
  <2>1. Simplex!Between3D = <<{3}, {3, 1}>>
    BY <1>1, <1>5
  <2> QED BY <1>1, <1>2, <1>5, <2>1
<1>6. CASE p < q /\ q < r
  <2>1. Simplex!Between3D = <<{3}, {3, 2}>>
    BY <1>1, <1>6
  <2> QED BY <1>1, <1>2, <1>6, <2>1
<1>7. CASE p < q /\ q >= r /\ p < r
  <2>1. Simplex!Between3D = <<{2}, {2, 3}>>
    BY <1>1, <1>7
  <2> QED BY <1>1, <1>2, <1>7, <2>1
<1>8. CASE p < q /\ q >= r /\ p >= r
  <2>1. Simplex!Between3D = <<{2}, {2, 1}>>
    BY <1>1, <1>8
  <2> QED BY <1>1, <1>2, <1>8, <2>1
<1> QED BY <1>1, <1>3, <1>4, <1>5, <1>6, <1>7, <1>8

LEMMA Between2DOK ==
    ASSUME place \in [1 .. 4 -> Int]
    PROVE  \E j, k : Falling2(j, k) /\ Simplex!Between2D = <<{j}>>
<1>1. place[1] \in Int /\ place[2] \in Int
  OBVIOUS
<1>2. {1, 2} = 1 .. 2 /\ {2, 1} = 1 .. 2
  OBVIOUS
<1>3. CASE place[1] > place[2]
  <2>1. Falling2(1, 2) /\ Simplex!Between2D = <<{1}>>
    BY <1>1, <1>2, <1>3 DEF Falling2, Simplex!Between2D, Simplex!x0, Simplex!y0
  <2> QED BY <2>1
<1>4. CASE place[1] <= place[2]
  <2>1. Falling2(2, 1) /\ Simplex!Between2D = <<{2}>>
    BY <1>1, <1>2, <1>4 DEF Falling2, Simplex!Between2D, Simplex!x0, Simplex!y0
  <2> QED BY <2>1
<1> QED BY <1>1, <1>3, <1>4

(* The masks of FastNoiseSIMD choose the corners that FastNoise chooses. *)
LEMMA MasksOK ==
    ASSUME place \in [1 .. 4 -> Int]
    PROVE  Simplex!BetweenSIMD = Simplex!Between3D
<1> DEFINE p == place[1]
           q == place[2]
           r == place[3]
           lone(a) == <<p >= q /\ p >= r, ~(p >= q) /\ q >= r, ~(p >= r) /\ ~(q >= r)>>[a]
           both(a) == <<p >= q \/ p >= r, ~(p >= q) \/ q >= r, ~(p >= r /\ q >= r)>>[a]
           A == {a \in 1 .. 3 : lone(a)}
           B == {a \in 1 .. 3 : both(a)}
<1>1. p \in Int /\ q \in Int /\ r \in Int
  OBVIOUS
<1>2. Simplex!BetweenSIMD = <<A, B>>
  BY DEF Simplex!BetweenSIMD, Simplex!x0, Simplex!y0, Simplex!z0
<1>3. /\ 1 \in A <=> p >= q /\ p >= r
      /\ 2 \in A <=> ~(p >= q) /\ q >= r
      /\ 3 \in A <=> ~(p >= r) /\ ~(q >= r)
      /\ A \subseteq 1 .. 3
  <2>1. /\ lone(1) <=> p >= q /\ p >= r
        /\ lone(2) <=> ~(p >= q) /\ q >= r
        /\ lone(3) <=> ~(p >= r) /\ ~(q >= r)
    BY Zenon
  <2> HIDE DEF lone
  <2> QED BY <2>1, SMTT(20)
<1>4. /\ 1 \in B <=> p >= q \/ p >= r
      /\ 2 \in B <=> ~(p >= q) \/ q >= r
      /\ 3 \in B <=> ~(p >= r /\ q >= r)
      /\ B \subseteq 1 .. 3
  <2>1. /\ both(1) <=> p >= q \/ p >= r
        /\ both(2) <=> ~(p >= q) \/ q >= r
        /\ both(3) <=> ~(p >= r /\ q >= r)
    BY Zenon
  <2> HIDE DEF both
  <2> QED BY <2>1, SMTT(20)
<1> DEFINE F == Simplex!Between3D[1]
           G == Simplex!Between3D[2]
<1>5. Simplex!Between3D = <<F, G>>
  BY <1>1 DEF Simplex!Between3D, Simplex!x0, Simplex!y0, Simplex!z0
<1>6. /\ 1 \in F <=> p >= q /\ p >= r
      /\ 2 \in F <=> ~(p >= q) /\ q >= r
      /\ 3 \in F <=> ~(p >= r) /\ ~(q >= r)
      /\ F \subseteq 1 .. 3
  BY <1>1 DEF Simplex!Between3D, Simplex!x0, Simplex!y0, Simplex!z0
<1>7. /\ 1 \in G <=> p >= q \/ p >= r
      /\ 2 \in G <=> ~(p >= q) \/ q >= r
      /\ 3 \in G <=> ~(p >= r /\ q >= r)
      /\ G \subseteq 1 .. 3
  BY <1>1 DEF Simplex!Between3D, Simplex!x0, Simplex!y0, Simplex!z0
<1> HIDE DEF A, B, F, G
<1>8. 1 .. 3 = {1, 2, 3}
  OBVIOUS
<1>9. A = F
  <2>1. \A a \in {1, 2, 3} : a \in A <=> a \in F
    BY <1>3, <1>6
  <2>2. A \subseteq {1, 2, 3} /\ F \subseteq {1, 2, 3}
    BY <1>3, <1>6, <1>8
  <2>3. A = {a \in {1, 2, 3} : a \in A} /\ F = {a \in {1, 2, 3} : a \in F}
    BY <2>2
  <2> QED BY <2>1, <2>3
<1>10. B = G
  <2>1. \A a \in {1, 2, 3} : a \in B <=> a \in G
    BY <1>4, <1>7
  <2>2. B \subseteq {1, 2, 3} /\ G \subseteq {1, 2, 3}
    BY <1>4, <1>7, <1>8
  <2>3. B = {a \in {1, 2, 3} : a \in B} /\ G = {a \in {1, 2, 3} : a \in G}
    BY <2>2
  <2> QED BY <2>1, <2>3
<1> QED BY <1>2, <1>5, <1>9, <1>10

\* The corners that each kernel returns; none of them depends on what a
\* return changes.
SimplexShape == pc \in {"call", "done"} /\ place \in [1 .. 4 -> Int]

Cornered(name, d, between) ==
    kernel = <<name, d>> /\ corners = <<{}>> \o between \o <<1 .. d>>

SimplexInv ==
    /\ SimplexShape
    /\ pc = "done" => \/ Cornered("Simplex", 2, Simplex!Between2D)
                      \/ Cornered("Simplex", 3, Simplex!Between3D)
                      \/ Cornered("Simplex", 4, Simplex!Between4D)
                      \/ Cornered("SIMD Simplex", 3, Simplex!BetweenSIMD)

LEMMA SimplexInitOK == Simplex!Init => SimplexInv
BY PlacesAssumption DEF Simplex!Init, SimplexInv, SimplexShape

LEMMA SimplexNextOK == SimplexInv /\ [Simplex!Next]_(Simplex!vars) => SimplexInv'
<1> SUFFICES ASSUME SimplexInv, [Simplex!Next]_(Simplex!vars) PROVE SimplexInv'
  OBVIOUS
<1> USE DEF Simplex!Return
<1>1. UNCHANGED place
  BY DEF Simplex!Next, Simplex!vars, Simplex!SingleSimplex2D, Simplex!SingleSimplex3D,
         Simplex!SingleSimplex4D, Simplex!SimplexSingle
<1>2. UNCHANGED <<Simplex!Between2D, Simplex!Between3D, Simplex!Between4D, Simplex!BetweenSIMD>>
  <2>1. UNCHANGED <<Simplex!x0, Simplex!y0, Simplex!z0, Simplex!w0>>
    BY <1>1 DEF Simplex!x0, Simplex!y0, Simplex!z0, Simplex!w0
  <2>2. UNCHANGED Simplex!Between2D /\ UNCHANGED Simplex!Between3D
    BY <2>1 DEF Simplex!Between2D, Simplex!Between3D
  <2>3. UNCHANGED Simplex!Between4D
    BY <2>1 DEF Simplex!Between4D
  <2>4. UNCHANGED Simplex!BetweenSIMD
    BY <2>1 DEF Simplex!BetweenSIMD
  <2> QED BY <2>2, <2>3, <2>4
<1>3. CASE UNCHANGED Simplex!vars
  BY <1>1, <1>2, <1>3 DEF SimplexInv, SimplexShape, Cornered, Simplex!vars
<1>4. CASE Simplex!Next
  <2>1. SimplexShape'
    BY <1>1, <1>4 DEF SimplexInv, SimplexShape, Simplex!Next, Simplex!SingleSimplex2D,
         Simplex!SingleSimplex3D, Simplex!SingleSimplex4D, Simplex!SimplexSingle
  <2> USE DEF SimplexInv, Cornered
  <2>2. CASE Simplex!SingleSimplex2D
    BY <1>2, <2>1, <2>2 DEF Simplex!SingleSimplex2D
  <2>3. CASE Simplex!SingleSimplex3D
    BY <1>2, <2>1, <2>3 DEF Simplex!SingleSimplex3D
  <2>4. CASE Simplex!SingleSimplex4D
    BY <1>2, <2>1, <2>4 DEF Simplex!SingleSimplex4D
  <2>5. CASE Simplex!SimplexSingle
    BY <1>2, <2>1, <2>5 DEF Simplex!SimplexSingle
  <2> QED BY <1>4, <2>2, <2>3, <2>4, <2>5 DEF Simplex!Next
<1> QED BY <1>3, <1>4

\* A simplex in d dimensions around the place.
IsSimplex(d, list) ==
    /\ Len(list) = d + 1
    /\ \A k \in 1 .. Len(list) :
          /\ Cardinality(list[k]) = k - 1
          /\ k > 1 => list[k - 1] \subseteq list[k]
          /\ \A a \in list[k], b \in (1 .. d) \ list[k] : place[a] >= place[b]

LEMMA CardinalityTo == ASSUME NEW n \in Nat PROVE Cardinality(1 .. n) = n
<1>1. Cardinality(1 .. n) = IF 1 > n THEN 0 ELSE n - 1 + 1
  BY FS_Interval
<1> QED BY <1>1

LEMMA Concatenated ==
    ASSUME NEW S, NEW s \in Seq(S), NEW t \in Seq(S)
    PROVE  /\ s \o t \in Seq(S) /\ Len(s \o t) = Len(s) + Len(t)
           /\ \A n \in 1 .. Len(s) + Len(t) :
                 (s \o t)[n] = IF n <= Len(s) THEN s[n] ELSE t[n - Len(s)]
OBVIOUS

(* What Return puts around the corners in between. *)
LEMMA Enclosed ==
    ASSUME NEW S, NEW list \in Seq(S), NEW A \in S, NEW B \in S
    PROVE  LET u == <<A>> \o list \o <<B>>
           IN  /\ u \in Seq(S) /\ Len(u) = Len(list) + 2 /\ u[1] = A /\ u[Len(list) + 2] = B
               /\ \A n \in 1 .. Len(list) : u[n + 1] = list[n]
<1> DEFINE head == <<A>>
           tail == <<B>>
           v == head \o list
           u == v \o tail
<1>1. head \in Seq(S) /\ Len(head) = 1 /\ head[1] = A /\ tail \in Seq(S) /\ Len(tail) = 1 /\ tail[1] = B
      /\ Len(list) \in Nat
  OBVIOUS
<1> HIDE DEF head, tail
<1>2. /\ v \in Seq(S) /\ Len(v) = 1 + Len(list)
      /\ \A n \in 1 .. 1 + Len(list) : v[n] = IF n <= 1 THEN head[n] ELSE list[n - 1]
  <2>1. /\ head \o list \in Seq(S) /\ Len(head \o list) = Len(head) + Len(list)
        /\ \A n \in 1 .. Len(head) + Len(list) :
              (head \o list)[n] = IF n <= Len(head) THEN head[n] ELSE list[n - Len(head)]
    BY <1>1, Concatenated
  <2> QED BY <1>1, <2>1
<1> HIDE DEF v
<1>3. /\ u \in Seq(S) /\ Len(u) = Len(list) + 2
      /\ \A n \in 1 .. Len(list) + 2 : u[n] = IF n <= 1 + Len(list) THEN v[n] ELSE tail[n - (1 + Len(list))]
  <2>1. /\ v \o tail \in Seq(S) /\ Len(v \o tail) = Len(v) + Len(tail)
        /\ \A n \in 1 .. Len(v) + Len(tail) :
              (v \o tail)[n] = IF n <= Len(v) THEN v[n] ELSE tail[n - Len(v)]
    BY <1>1, <1>2, Concatenated
  <2>2. Len(v) + Len(tail) = Len(list) + 2 /\ Len(v) = 1 + Len(list)
    BY <1>1, <1>2
  <2> QED BY <2>1, <2>2
<1> HIDE DEF u
<1>4. u[1] = A
  BY <1>1, <1>2, <1>3
<1>5. u[Len(list) + 2] = B
  BY <1>1, <1>3
<1>6. ASSUME NEW n \in 1 .. Len(list) PROVE u[n + 1] = list[n]
  <2>1. u[n + 1] = v[n + 1]
    BY <1>1, <1>3
  <2>2. v[n + 1] = list[n]
    BY <1>1, <1>2
  <2> QED BY <2>1, <2>2
<1> QED BY <1>3, <1>4, <1>5, <1>6 DEF u, v, head, tail

LEMMA Enclosed1 ==
    ASSUME NEW A \in SUBSET Int, NEW B \in SUBSET Int, NEW C \in SUBSET Int
    PROVE  <<A>> \o <<B>> \o <<C>> = <<A, B, C>>
<1> DEFINE u == <<A>> \o <<B>> \o <<C>>
<1>1. <<B>> \in Seq(SUBSET Int) /\ Len(<<B>>) = 1
  OBVIOUS
<1>2. u \in Seq(SUBSET Int) /\ Len(u) = 3 /\ u[1] = A /\ u[3] = C /\ u[2] = B
  <2>1. /\ u \in Seq(SUBSET Int) /\ Len(u) = 1 + 2 /\ u[1] = A /\ u[1 + 2] = C
        /\ \A n \in 1 .. 1 : u[n + 1] = <<B>>[n]
    BY <1>1, Enclosed
  <2> HIDE DEF u
  <2> QED BY <2>1
<1> HIDE DEF u
<1>3. u = <<A, B, C>>
  BY <1>2
<1> QED BY <1>3 DEF u

LEMMA Enclosed2 ==
    ASSUME NEW A \in SUBSET Int, NEW B \in SUBSET Int, NEW C \in SUBSET Int, NEW D \in SUBSET Int
    PROVE  <<A>> \o <<B, C>> \o <<D>> = <<A, B, C, D>>
<1> DEFINE u == <<A>> \o <<B, C>> \o <<D>>
<1>1. <<B, C>> \in Seq(SUBSET Int) /\ Len(<<B, C>>) = 2
  OBVIOUS
<1>2. u \in Seq(SUBSET Int) /\ Len(u) = 4 /\ u[1] = A /\ u[4] = D /\ u[2] = B /\ u[3] = C
  <2>1. /\ u \in Seq(SUBSET Int) /\ Len(u) = 2 + 2 /\ u[1] = A /\ u[2 + 2] = D
        /\ \A n \in 1 .. 2 : u[n + 1] = <<B, C>>[n]
    BY <1>1, Enclosed
  <2> HIDE DEF u
  <2> QED BY <2>1
<1> HIDE DEF u
<1>3. u = <<A, B, C, D>>
  BY <1>2
<1> QED BY <1>3 DEF u

LEMMA Enclosed3 ==
    ASSUME NEW A \in SUBSET Int, NEW B \in SUBSET Int, NEW C \in SUBSET Int, NEW D \in SUBSET Int,
           NEW E \in SUBSET Int
    PROVE  <<A>> \o <<B, C, D>> \o <<E>> = <<A, B, C, D, E>>
<1> DEFINE u == <<A>> \o <<B, C, D>> \o <<E>>
<1>1. <<B, C, D>> \in Seq(SUBSET Int) /\ Len(<<B, C, D>>) = 3
  OBVIOUS
<1>2. u \in Seq(SUBSET Int) /\ Len(u) = 5 /\ u[1] = A /\ u[5] = E /\ u[2] = B /\ u[3] = C /\ u[4] = D
  <2>1. /\ u \in Seq(SUBSET Int) /\ Len(u) = 3 + 2 /\ u[1] = A /\ u[3 + 2] = E
        /\ \A n \in 1 .. 3 : u[n + 1] = <<B, C, D>>[n]
    BY <1>1, Enclosed
  <2> HIDE DEF u
  <2> QED BY <2>1
<1> HIDE DEF u
<1>3. u = <<A, B, C, D, E>>
  BY <1>2
<1> QED BY <1>3 DEF u

LEMMA SimplexOf2 ==
    ASSUME place \in [1 .. 4 -> Int], NEW j, NEW k, Falling2(j, k)
    PROVE  IsSimplex(2, <<{}, {j}, 1 .. 2>>)
<1>1. {j, k} = 1 .. 2 /\ j # k /\ place[j] >= place[k]
  BY DEF Falling2
<1>2. Cardinality({}) = 0 /\ Cardinality({j}) = 1 /\ Cardinality(1 .. 2) = 2
  BY FS_EmptySet, FS_Singleton, CardinalityTo
<1> DEFINE list == <<{}, {j}, 1 .. 2>>
<1>3. ASSUME NEW n \in 1 .. 3
      PROVE  /\ Cardinality(list[n]) = n - 1
             /\ n > 1 => list[n - 1] \subseteq list[n]
             /\ \A a \in list[n], b \in (1 .. 2) \ list[n] : place[a] >= place[b]
  <2>1. CASE n = 1 BY <1>2, <2>1
  <2>2. CASE n = 2 BY <1>1, <1>2, <2>2
  <2>3. CASE n = 3
    <3>1. list[n] = 1 .. 2 /\ list[n - 1] \subseteq 1 .. 2 /\ (1 .. 2) \ list[n] = {}
      BY <1>1, <2>3
    <3>2. Cardinality(list[n]) = n - 1
      BY <1>2, <2>3, <3>1
    <3> HIDE DEF list
    <3>3. list[n - 1] \subseteq list[n]
      BY <3>1
    <3>4. \A b : b \notin (1 .. 2) \ list[n]
      BY <3>1
    <3> QED BY <3>2, <3>3, <3>4
  <2> HIDE DEF list
  <2> QED BY <2>1, <2>2, <2>3
<1>4. Len(list) = 2 + 1 /\ 1 .. Len(list) = 1 .. 3
  OBVIOUS
<1> HIDE DEF list
<1>5. IsSimplex(2, list)
  BY <1>3, <1>4 DEF IsSimplex
<1> QED BY <1>5 DEF list

LEMMA SimplexOf3 ==
    ASSUME place \in [1 .. 4 -> Int], NEW j, NEW k, NEW l, Falling3(j, k, l)
    PROVE  IsSimplex(3, <<{}, {j}, {j, k}, 1 .. 3>>)
<1>1. /\ {j, k, l} = 1 .. 3 /\ place[j] >= place[k] /\ place[k] >= place[l]
      /\ place[j] \in Int /\ place[k] \in Int /\ place[l] \in Int
  BY DEF Falling3
<1>2. /\ Cardinality({}) = 0 /\ Cardinality({j}) = 1 /\ Cardinality({j, k}) = 2
      /\ Cardinality(1 .. 3) = 3
  BY FS_EmptySet, FS_Singleton, CardinalityTo DEF Falling3
<1> DEFINE list == <<{}, {j}, {j, k}, 1 .. 3>>
<1>3. ASSUME NEW n \in 1 .. 4
      PROVE  /\ Cardinality(list[n]) = n - 1
             /\ n > 1 => list[n - 1] \subseteq list[n]
             /\ \A a \in list[n], b \in (1 .. 3) \ list[n] : place[a] >= place[b]
  <2>1. CASE n = 1 BY <1>2, <2>1
  <2>2. CASE n = 2 BY <1>1, <1>2, <2>2
  <2>3. CASE n = 3 BY <1>1, <1>2, <2>3
  <2>4. CASE n = 4
    <3>1. list[n] = 1 .. 3 /\ list[n - 1] \subseteq 1 .. 3 /\ (1 .. 3) \ list[n] = {}
      BY <1>1, <2>4
    <3>2. Cardinality(list[n]) = n - 1
      BY <1>2, <2>4, <3>1
    <3> HIDE DEF list
    <3>3. list[n - 1] \subseteq list[n]
      BY <3>1
    <3>4. \A b : b \notin (1 .. 3) \ list[n]
      BY <3>1
    <3> QED BY <3>2, <3>3, <3>4
  <2> HIDE DEF list
  <2> QED BY <2>1, <2>2, <2>3, <2>4
<1>4. Len(list) = 3 + 1 /\ 1 .. Len(list) = 1 .. 4
  OBVIOUS
<1> HIDE DEF list
<1>5. IsSimplex(3, list)
  BY <1>3, <1>4 DEF IsSimplex
<1> QED BY <1>5 DEF list

LEMMA SimplexOf4 ==
    ASSUME place \in [1 .. 4 -> Int], NEW j, NEW k, NEW l, NEW m, Falling4(j, k, l, m)
    PROVE  IsSimplex(4, <<{}, {j}, {j, k}, {j, k, l}, 1 .. 4>>)
<1>1. /\ {j, k, l, m} = 1 .. 4 /\ place[j] >= place[k] /\ place[k] >= place[l] /\ place[l] >= place[m]
      /\ place[j] \in Int /\ place[k] \in Int /\ place[l] \in Int /\ place[m] \in Int
  BY DEF Falling4
<1>2. /\ Cardinality({}) = 0 /\ Cardinality({j}) = 1 /\ Cardinality({j, k}) = 2
      /\ Cardinality({j, k, l}) = 3 /\ Cardinality(1 .. 4) = 4
  BY FS_EmptySet, FS_Singleton, CardinalityTo DEF Falling4
<1> DEFINE list == <<{}, {j}, {j, k}, {j, k, l}, 1 .. 4>>
<1>3. ASSUME NEW n \in 1 .. 5
      PROVE  /\ Cardinality(list[n]) = n - 1
             /\ n > 1 => list[n - 1] \subseteq list[n]
             /\ \A a \in list[n], b \in (1 .. 4) \ list[n] : place[a] >= place[b]
  <2>1. CASE n = 1 BY <1>2, <2>1
  <2>2. CASE n = 2 BY <1>1, <1>2, <2>2
  <2>3. CASE n = 3 BY <1>1, <1>2, <2>3
  <2>4. CASE n = 4 BY <1>1, <1>2, <2>4
  <2>5. CASE n = 5
    <3>1. list[n] = 1 .. 4 /\ list[n - 1] \subseteq 1 .. 4 /\ (1 .. 4) \ list[n] = {}
      BY <1>1, <2>5
    <3>2. Cardinality(list[n]) = n - 1
      BY <1>2, <2>5, <3>1
    <3> HIDE DEF list
    <3>3. list[n - 1] \subseteq list[n]
      BY <3>1
    <3>4. \A b : b \notin (1 .. 4) \ list[n]
      BY <3>1
    <3> QED BY <3>2, <3>3, <3>4
  <2> HIDE DEF list
  <2> QED BY <2>1, <2>2, <2>3, <2>4, <2>5
<1>4. Len(list) = 4 + 1 /\ 1 .. Len(list) = 1 .. 5
  OBVIOUS
<1> HIDE DEF list
<1>5. IsSimplex(4, list)
  BY <1>3, <1>4 DEF IsSimplex
<1> QED BY <1>5 DEF list

(* SimplexNoise brings in the module of Cardinality once more. *)
LEMMA SameCardinality == ASSUME NEW S PROVE Simplex!Cardinality(S) = Cardinality(S)
BY DEF Cardinality, Simplex!Cardinality

LEMMA SimplexesOK == SimplexInv => Simplex!CornersOfSimplex
<1> SUFFICES ASSUME SimplexInv, pc = "done" PROVE Simplex!CornersOfSimplex
  BY DEF Simplex!CornersOfSimplex
<1>1. place \in [1 .. 4 -> Int]
  BY DEF SimplexInv, SimplexShape
<1>2. ASSUME Cornered("Simplex", 2, Simplex!Between2D) PROVE IsSimplex(kernel[2], corners) /\ kernel[1] # "SIMD Simplex"
  <2>1. PICK j, k : Falling2(j, k) /\ Simplex!Between2D = <<{j}>>
    BY <1>1, Between2DOK
  <2>2. <<{}>> \o <<{j}>> \o <<1 .. 2>> = <<{}, {j}, 1 .. 2>>
    BY <2>1, Enclosed1 DEF Falling2
  <2>3. IsSimplex(2, <<{}, {j}, 1 .. 2>>)
    BY <1>1, <2>1, SimplexOf2
  <2>4. IsSimplex(kernel[2], corners) /\ kernel[1] # "SIMD Simplex"
    BY <1>2, <2>1, <2>2, <2>3 DEF Cornered
  <2> QED BY <2>4
<1>3. IsSimplex(3, <<{}>> \o Simplex!Between3D \o <<1 .. 3>>)
  <2>1. PICK j, k, l : Falling3(j, k, l) /\ Simplex!Between3D = <<{j}, {j, k}>>
    BY <1>1, Between3DOK
  <2>2. <<{}>> \o <<{j}, {j, k}>> \o <<1 .. 3>> = <<{}, {j}, {j, k}, 1 .. 3>>
    BY <2>1, Enclosed2 DEF Falling3
  <2>3. IsSimplex(3, <<{}, {j}, {j, k}, 1 .. 3>>)
    BY <1>1, <2>1, SimplexOf3
  <2> QED BY <2>1, <2>2, <2>3
<1>4. ASSUME Cornered("Simplex", 3, Simplex!Between3D) PROVE IsSimplex(kernel[2], corners) /\ kernel[1] # "SIMD Simplex"
  BY <1>3, <1>4 DEF Cornered
<1>5. ASSUME Cornered("Simplex", 4, Simplex!Between4D) PROVE IsSimplex(kernel[2], corners) /\ kernel[1] # "SIMD Simplex"
  <2>1. PICK j, k, l, m : Falling4(j, k, l, m) /\ Simplex!Between4D = <<{j}, {j, k}, {j, k, l}>>
    BY <1>1, Between4DOK
  <2>2. <<{}>> \o <<{j}, {j, k}, {j, k, l}>> \o <<1 .. 4>> = <<{}, {j}, {j, k}, {j, k, l}, 1 .. 4>>
    BY <2>1, Enclosed3 DEF Falling4
  <2>3. IsSimplex(4, <<{}, {j}, {j, k}, {j, k, l}, 1 .. 4>>)
    BY <1>1, <2>1, SimplexOf4
  <2> QED BY <1>5, <2>1, <2>2, <2>3 DEF Cornered
<1>6. ASSUME Cornered("SIMD Simplex", 3, Simplex!BetweenSIMD)
      PROVE  IsSimplex(kernel[2], corners) /\ corners = <<{}>> \o Simplex!Between3D \o <<1 .. 3>>
  <2>1. corners = <<{}>> \o Simplex!Between3D \o <<1 .. 3>>
    BY <1>1, <1>6, MasksOK DEF Cornered
  <2> QED BY <1>3, <1>6, <2>1 DEF Cornered
<1>7. /\ IsSimplex(kernel[2], corners)
      /\ kernel[1] = "SIMD Simplex" => corners = <<{}>> \o Simplex!Between3D \o <<1 .. 3>>
  BY <1>2, <1>4, <1>5, <1>6 DEF SimplexInv
<1>8. /\ Len(corners) = kernel[2] + 1
      /\ \A k \in 1 .. Len(corners) :
            /\ Cardinality(corners[k]) = k - 1
            /\ k > 1 => corners[k - 1] \subseteq corners[k]
            /\ \A a \in corners[k], b \in (1 .. kernel[2]) \ corners[k] : place[a] >= place[b]
  BY <1>7, Zenon DEF IsSimplex
<1> QED BY <1>7, <1>8, SameCardinality, Zenon DEF Simplex!CornersOfSimplex

-----------------------------------------------------------------------------
\* The invariant of the module that moves.
NoiseInv == /\ subject = "set" => SetInv /\ Sets!LoadsInSet
            /\ subject = "sample" => SampleInv
            /\ subject = "level" => LevelInv
            /\ subject = "fractal" => FractalInv
            /\ subject = "lattice" => LatticeInv
            /\ subject = "simplex" => SimplexInv

LEMMA SubjectInit == MCInit => NoiseInv
BY SetInitOK, SetLoadsInit, SampleInitOK, LevelInitOK, FractalInitOK, LatticeInitOK, SimplexInitOK
   DEF MCInit, NoiseInv

LEMMA SubjectStep == NoiseInv /\ [MCNext]_MCvars => NoiseInv'
<1> SUFFICES ASSUME NoiseInv, [MCNext]_MCvars PROVE NoiseInv'
  OBVIOUS
<1>1. subject' = subject
  BY DEF MCNext, MCvars
<1>2. CASE subject = "set"
  <2>1. [Sets!Next]_(Sets!vars)
    BY <1>2 DEF MCNext, MCvars, gridVars, setVars, Sets!vars
  <2> QED BY <1>1, <1>2, <2>1, SetNextOK, SetLoadsOK DEF NoiseInv
<1>3. CASE subject = "sample"
  <2>1. [Samples!Next]_(Samples!vars)
    BY <1>3 DEF MCNext, MCvars, gridVars, sampleVars, Samples!vars
  <2> QED BY <1>1, <1>3, <2>1, SampleNextOK DEF NoiseInv
<1>4. CASE subject = "level"
  <2>1. [Levels!Next]_(Levels!vars)
    BY <1>4 DEF MCNext, MCvars, levelVars, Levels!vars
  <2> QED BY <1>1, <1>4, <2>1, LevelNextOK DEF NoiseInv
<1>5. CASE subject = "fractal"
  <2>1. [Fractals!Next]_(Fractals!vars)
    BY <1>5 DEF MCNext, MCvars, fractalVars, Fractals!vars, Fractals!settings, Fractals!perturbs,
                Fractals!loop
  <2> QED BY <1>1, <1>5, <2>1, FractalNextOK DEF NoiseInv
<1>6. CASE subject = "lattice"
  <2>1. [Lattice!Next]_(Lattice!vars)
    BY <1>6 DEF MCNext, MCvars, placeVars, latticeVars, Lattice!vars
  <2> QED BY <1>1, <1>6, <2>1, LatticeNextOK DEF NoiseInv
<1>7. CASE subject = "simplex"
  <2>1. [Simplex!Next]_(Simplex!vars)
    BY <1>7 DEF MCNext, MCvars, placeVars, Simplex!vars
  <2> QED BY <1>1, <1>7, <2>1, SimplexNextOK DEF NoiseInv
<1>8. CASE subject \notin {"set", "sample", "level", "fractal", "lattice", "simplex"}
  BY <1>1, <1>8 DEF NoiseInv
<1> QED BY <1>2, <1>3, <1>4, <1>5, <1>6, <1>7, <1>8

LEMMA NoiseInvariant == MCSpec => []NoiseInv
BY SubjectInit, SubjectStep, PTL DEF MCSpec

(* No vector is stored behind the end of a set, also the last one, which is
   stored whole, and none is loaded from behind its points, but for the rest of
   an unaligned vector set, whose load reads loopMax + VECTOR_SIZE - maxIndex
   numbers behind zSet; a set has room for the vectors of every object while it
   and they exist, is freed by the function of the level it was allocated at, and
   no instruction is used that the processor does not have; and the coarse grid
   has each corner that is read (FastNoiseSIMD.cpp 230-300 and 537-556,
   FastNoiseSIMD_internal.cpp 1070, 1391-1393 and 2152-2160).                *)
THEOREM AccessesKnown == MCSpec => []AccessesAreKnown
<1>1. NoiseInv => AccessesAreKnown
  BY SetIsSafe, SampleIsSafe, LevelsSafe DEF NoiseInv, AccessesAreKnown
<1> QED
  BY <1>1, NoiseInvariant, PTL

(* Whatever was set in whatever order, noise of one octave and fractal noise of
   type FBM and Billow stay between -1 and 1, for any number of octaves; a
   perturbation of FastNoise moves a position by no more than the amplitude that
   was set, and one of FastNoiseSIMD by no more than m_perturbAmp times the
   bounding of the perturbation over that of the noise (FastNoise.cpp 217-227,
   FastNoiseSIMD_internal.cpp 1091, 1273 and 1294, FastNoise.h:157).         *)
THEOREM FractalsInRange == MCSpec => []FractalInRange
<1>1. FractalInv => Fractals!FractalInRange /\ Fractals!WarpWithinReach
  BY DEF FractalInv, LoopOK, Fractals!FractalInRange, Fractals!WarpWithinReach
<1>2. NoiseInv => FractalInRange
  BY <1>1 DEF NoiseInv, FractalInRange
<1> QED
  BY <1>2, NoiseInvariant, PTL

(* At any place, in two and in three dimensions and in both libraries: noise
   that is blended from the points of a lattice is the same in the cells on
   both sides of where they meet; it keeps the range of the hash, cubic noise
   up to 1.5 along each axis; and both libraries blend the same points alike.
   And the corners that simplex noise comes from are those of a simplex that
   the place lies in, also where coordinates are equal (FastNoise.cpp 184-195,
   1096-1137, 1339-1398 and 1526, FastNoiseSIMD_internal.cpp 687-697 and
   877-887).                                                                 *)
THEOREM BlendsAreRight == MCSpec => []BlendIsRight
<1>1. LatticeInv => Lattice!CellsMeet /\ Lattice!BlendInRange /\ Lattice!LibrariesAgree
  BY LatticeMeets, LatticeRange, LatticeAgrees
<1>2. NoiseInv => BlendIsRight
  BY <1>1, SimplexesOK DEF NoiseInv, BlendIsRight
<1> QED
  BY <1>2, NoiseInvariant, PTL

(* However the rows and the vectors of any size fall in a box or a vector set of
   any size, each slot of a filled set holds the noise of its own grid point, which
   is perturbed as it was asked for but in the rest of an unaligned vector set; and
   each point of a sampled set is interpolated for its own place if it comes from
   a vector set, and for the place that is Shift further if it comes from a box
   (FastNoiseSIMD_internal.cpp 1162-1252, 1386-1428 and 2133-2413).          *)
THEOREM NoiseOfItsPoint == MCSpec => []SetHoldsNoise
<1>1. NoiseInv => SetHoldsNoise
  BY SetIsNoise, SampleIsNoise DEF NoiseInv, SetHoldsNoise
<1> QED
  BY <1>1, NoiseInvariant, PTL
=============================================================================
