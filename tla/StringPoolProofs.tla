-------------------------- MODULE StringPoolProofs --------------------------
(***************************************************************************)
(* Proofs about the string pools, for any characters, any strings that     *)
(* clients pass, any first sizes of buffer and index, any limit of memory. *)
(*                                                                         *)
(* The three pools have one invariant, TPool: the strings lie apart from   *)
(* each other and below the end of the data, the one at Top last (Placed); *)
(* the first cells are the empty string (Headed); garbage and strings      *)
(* together are no more than the data (Counted); and the cells of number j *)
(* are the image of a string str[j] (Content).  What a pool is to the      *)
(* client is str.  The pools differ in w, the cells that a string takes    *)
(* besides its characters: 1, or 2 with a length word.                     *)
(*                                                                         *)
(* The first part is about blocks of cells with any image; garbage         *)
(* collection puts each block where those of the lower numbers end, which  *)
(* is a cardinality.  The second part has strings for images; the others   *)
(* show that the functions of the three classes are these operations.      *)
(***************************************************************************)
EXTENDS MCContainers, FiniteSetsExt, FiniteSetTheorems, WellFoundedInduction, TLAPS

-----------------------------------------------------------------------------
(***************************************************************************)
(* The string pools: strings of a number of cells each, in one block.      *)
(***************************************************************************)
\* The cells of the strings js, where room tells how many each has.
CellsOf(room, js) == UNION {{j} \X (0 .. room[j] - 1) : j \in js}
CountOf(room, js) == Cardinality(CellsOf(room, js))

LEMMA RoomCells ==
    ASSUME NEW j, NEW r \in Nat
    PROVE  IsFiniteSet({j} \X (0 .. r - 1)) /\ Cardinality({j} \X (0 .. r - 1)) = r
<1>1. IsFiniteSet({j}) /\ Cardinality({j}) = 1
  BY FS_Singleton
<1>2. IsFiniteSet(0 .. r - 1) /\ Cardinality(0 .. r - 1) = r
  BY FS_Interval
<1>3. IsFiniteSet({j} \X (0 .. r - 1)) /\ Cardinality({j} \X (0 .. r - 1)) = 1 * r
  BY <1>1, <1>2, FS_Product
<1> QED BY <1>3

LEMMA CountOK ==
    ASSUME NEW js, IsFiniteSet(js), NEW room, \A j \in js : room[j] \in Nat
    PROVE  IsFiniteSet(CellsOf(room, js)) /\ CountOf(room, js) \in Nat
<1> DEFINE f == [j \in js |-> {j} \X (0 .. room[j] - 1)]
           T == {{j} \X (0 .. room[j] - 1) : j \in js}
<1>1. f \in Surjection(js, T)
  BY DEF Surjection
<1>2. IsFiniteSet(T)
  <2> HIDE DEF f, T
  <2> QED BY <1>1, FS_Surjection
<1>3. ASSUME NEW t \in T PROVE IsFiniteSet(t)
  <2>1. PICK j \in js : t = {j} \X (0 .. room[j] - 1)
    OBVIOUS
  <2>2. room[j] \in Nat
    OBVIOUS
  <2> HIDE DEF T
  <2> QED BY <2>1, <2>2, RoomCells
<1>4. IsFiniteSet(UNION T)
  <2> HIDE DEF T
  <2> QED BY <1>2, <1>3, FS_UNION
<1> QED BY <1>4, FS_CardinalityType DEF CellsOf, CountOf

(* One more string adds its cells. *)
LEMMA CountAdd ==
    ASSUME NEW js, IsFiniteSet(js), NEW i, i \notin js,
           NEW room, \A j \in js \cup {i} : room[j] \in Nat
    PROVE  CountOf(room, js \cup {i}) = CountOf(room, js) + room[i]
<1> DEFINE S == CellsOf(room, js)
           T == {i} \X (0 .. room[i] - 1)
<1>1. IsFiniteSet(S) /\ CountOf(room, js) = Cardinality(S) /\ Cardinality(S) \in Nat
  BY CountOK DEF CountOf
<1>2. room[i] \in Nat /\ IsFiniteSet(T) /\ Cardinality(T) = room[i]
  BY RoomCells
<1>3. CellsOf(room, js \cup {i}) = S \cup T
  BY DEF CellsOf
<1>4. S \cap T = {}
  BY DEF CellsOf
<1>5. Cardinality(S \cup T) = Cardinality(S) + Cardinality(T) - Cardinality(S \cap T)
  <2> HIDE DEF S, T
  <2> QED BY <1>1, <1>2, FS_Union
<1>6. Cardinality(S \cap T) = 0
  BY <1>4, FS_EmptySet
<1>7. CountOf(room, js \cup {i}) = Cardinality(S \cup T)
  BY <1>3 DEF CountOf
<1> HIDE DEF S, T
<1> QED BY <1>1, <1>2, <1>5, <1>6, <1>7

LEMMA CountSubset ==
    ASSUME NEW js, IsFiniteSet(js), NEW ks, ks \subseteq js,
           NEW room, \A j \in js : room[j] \in Nat
    PROVE  CountOf(room, ks) <= CountOf(room, js)
<1>1. CellsOf(room, ks) \subseteq CellsOf(room, js)
  BY DEF CellsOf
<1> QED BY <1>1, CountOK, FS_Subset DEF CountOf

LEMMA CountSame ==
    ASSUME NEW js, NEW room, NEW room2, \A j \in js : room[j] = room2[j]
    PROVE  CellsOf(room, js) = CellsOf(room2, js) /\ CountOf(room, js) = CountOf(room2, js)
<1>1. CellsOf(room, js) = CellsOf(room2, js)
  BY DEF CellsOf
<1> QED BY <1>1 DEF CountOf

(* A finite set of numbers has a greatest one. *)
LEMMA MaxIsGreatest ==
    ASSUME NEW N \in Nat, NEW S, S \subseteq 0 .. N - 1, S # {}
    PROVE  Max(S) \in S /\ \A j \in S : j <= Max(S)
<1> DEFINE R == OpToRel(<, Nat)
           T == {N - j : j \in S}
<1>1. PICK g \in T : \A t \in T : ~ (<<t, g>> \in R)
  <2>1. IsWellFoundedOn(R, Nat)
    BY NatLessThanWellFounded
  <2> HIDE DEF R
  <2>2. T \subseteq Nat
    <3>1. \A j \in S : N - j \in Nat
      OBVIOUS
    <3> QED BY <3>1
  <2>3. T # {}
    OBVIOUS
  <2> HIDE DEF T
  <2> QED BY <2>1, <2>2, <2>3, WFMin
<1>2. PICK k \in S : g = N - k
  OBVIOUS
<1>3. \A j \in S : j <= k
  <2> SUFFICES ASSUME NEW j \in S, j > k PROVE FALSE
    OBVIOUS
  <2>1. N - j \in T /\ N - j \in Nat /\ N - k \in Nat /\ N - j < N - k
    OBVIOUS
  <2>2. <<N - j, g>> \in R
    BY <1>2, <2>1 DEF OpToRel
  <2> QED BY <1>1, <2>1, <2>2
<1>4. \E k2 \in S : \A j \in S : k2 >= j
  BY <1>3
<1>5. Max(S) \in S /\ \A j \in S : Max(S) >= j
  BY <1>4 DEF Max
<1> QED BY <1>5

-----------------------------------------------------------------------------
\* A pool m with cells in V.  A string takes w cells besides its characters;
\* room tells how many cells each string has, img what is in them, and the
\* first w cells are the empty string, empty.
IsPool(m) == m = [Buffer |-> m.Buffer, BufferSize |-> m.BufferSize, Offsets |-> m.Offsets,
                  OffsetsSize |-> m.OffsetsSize, DataSize |-> m.DataSize,
                  GarbageSize |-> m.GarbageSize, Top |-> m.Top, Num |-> m.Num]

Used(m) == {i \in 0 .. m.Num - 1 : m.Offsets[i] # 0}

PoolShape(m, V) ==
    /\ IsPool(m)
    /\ m.BufferSize \in Nat /\ m.Buffer \in [0 .. m.BufferSize - 1 -> V]
    /\ m.OffsetsSize \in Nat /\ m.Offsets \in [0 .. m.OffsetsSize - 1 -> Nat]
    /\ m.Num \in Nat /\ m.Num <= m.OffsetsSize
    /\ m.DataSize \in Nat /\ m.GarbageSize \in Nat /\ m.Top \in Nat
    /\ m.DataSize <= m.BufferSize
    /\ \A i \in 0 .. m.OffsetsSize - 1 : i >= m.Num => m.Offsets[i] = 0

Headed(m, w, empty) ==
    m.BufferSize > 0 => m.BufferSize >= w /\ \A k \in 0 .. w - 1 : m.Buffer[k] = empty[k]

\* The strings lie apart below the end of the data, the one at Top last.
Placed(m, w, room) ==
    /\ \A i \in Used(m) : /\ room[i] \in Nat \ {0}
                          /\ w <= m.Offsets[i]
                          /\ m.Offsets[i] + room[i] <= m.DataSize
                          /\ m.Offsets[i] = m.Top => m.Offsets[i] + room[i] = m.DataSize
    /\ \A i, j \in Used(m) : i # j => \/ m.Offsets[i] + room[i] <= m.Offsets[j]
                                      \/ m.Offsets[j] + room[j] <= m.Offsets[i]

Content(m, room, img) ==
    \A i \in Used(m) : \A k \in 0 .. room[i] - 1 : m.Buffer[m.Offsets[i] + k] = img[i][k]

\* What is neither garbage nor a string is only waste.
Counted(m, w, room) ==
    IF m.DataSize = 0 THEN m.GarbageSize = 0
    ELSE m.GarbageSize + CountOf(room, Used(m)) + w <= m.DataSize

Layout(m, V, w, empty, room, img) ==
    PoolShape(m, V) /\ Headed(m, w, empty) /\ Placed(m, w, room) /\ Content(m, room, img)

PoolInv(m, V, w, empty, room, img) == Layout(m, V, w, empty, room, img) /\ Counted(m, w, room)

LEMMA UsedFinite == ASSUME NEW m, m.Num \in Nat PROVE IsFiniteSet(Used(m)) /\ Used(m) \subseteq 0 .. m.Num - 1
<1>1. IsFiniteSet(0 .. m.Num - 1)
  BY FS_Interval
<1> QED BY <1>1, FS_Subset DEF Used

LEMMA SameRooms ==
    ASSUME NEW m, NEW V, NEW w, NEW empty, NEW room, NEW img, NEW room2, NEW img2,
           PoolInv(m, V, w, empty, room, img),
           \A i \in Used(m) : room2[i] = room[i] /\ img2[i] = img[i]
    PROVE  PoolInv(m, V, w, empty, room2, img2)
<1>1. Placed(m, w, room2) /\ Content(m, room2, img2)
  BY DEF PoolInv, Layout, Placed, Content
<1>2. CountOf(room2, Used(m)) = CountOf(room, Used(m))
  BY CountSame
<1> QED BY <1>1, <1>2 DEF PoolInv, Layout, Counted

\* u is the pool m after im, of r cells, was put at p as string i.
PutIn(m, u, V, w, room, i, p, r, im) ==
    /\ IsPool(u) /\ u.Num = m.Num /\ u.OffsetsSize = m.OffsetsSize /\ u.BufferSize = m.BufferSize
    /\ u.Offsets = [m.Offsets EXCEPT ![i] = p]
    /\ u.Top \in Nat /\ u.DataSize \in Nat /\ u.GarbageSize \in Nat
    /\ u.DataSize <= m.BufferSize /\ w <= p /\ p + r <= u.DataSize
    /\ p = u.Top => p + r = u.DataSize
    /\ \A j \in Used(m) \ {i} : /\ p + r <= m.Offsets[j] \/ m.Offsets[j] + room[j] <= p
                                /\ m.Offsets[j] + room[j] <= u.DataSize
                                /\ m.Offsets[j] = u.Top => m.Offsets[j] + room[j] = u.DataSize
    /\ u.GarbageSize + CountOf(room, Used(m) \ {i}) + r + w <= u.DataSize
    /\ u.Buffer \in [0 .. m.BufferSize - 1 -> V]
    /\ \A k \in 0 .. r - 1 : u.Buffer[p + k] = im[k]
    /\ \A q \in 0 .. m.BufferSize - 1 : q < p \/ p + r <= q => u.Buffer[q] = m.Buffer[q]

LEMMA Within ==
    ASSUME NEW o \in Nat, NEW k \in Nat, NEW c \in Nat, NEW d \in Nat, NEW e \in Nat,
           k < c, o + c <= d, d <= e
    PROVE  /\ o + k \in 0 .. e - 1
           /\ \A p, r \in Nat : p + r <= o \/ o + c <= p => o + k < p \/ p + r <= o + k
OBVIOUS

LEMMA PutOK ==
    ASSUME NEW m, NEW V, NEW w \in Nat \ {0}, NEW empty, NEW room, NEW img,
           Layout(m, V, w, empty, room, img), DOMAIN room = 0 .. m.Num - 1, DOMAIN img = 0 .. m.Num - 1,
           NEW i \in 0 .. m.Num - 1, NEW p \in Nat, NEW r \in Nat \ {0}, NEW im, NEW u,
           PutIn(m, u, V, w, room, i, p, r, im)
    PROVE  PoolInv(u, V, w, empty, [room EXCEPT ![i] = r], [img EXCEPT ![i] = im])
<1> DEFINE room2 == [room EXCEPT ![i] = r]
           img2 == [img EXCEPT ![i] = im]
<1>1. /\ room2[i] = r /\ img2[i] = im
      /\ \A j \in (0 .. m.Num - 1) \ {i} : room2[j] = room[j] /\ img2[j] = img[j]
  OBVIOUS
<1>2. /\ m.Num \in Nat /\ m.OffsetsSize \in Nat /\ m.Num <= m.OffsetsSize /\ m.BufferSize \in Nat
      /\ m.Offsets \in [0 .. m.OffsetsSize - 1 -> Nat]
      /\ m.DataSize \in Nat
      /\ \A j \in 0 .. m.OffsetsSize - 1 : j >= m.Num => m.Offsets[j] = 0
      /\ \A j \in 0 .. m.Num - 1 : j \in 0 .. m.OffsetsSize - 1 /\ m.Offsets[j] \in Nat
  <2>1. /\ m.Num \in Nat /\ m.OffsetsSize \in Nat /\ m.Num <= m.OffsetsSize /\ m.BufferSize \in Nat
        /\ m.Offsets \in [0 .. m.OffsetsSize - 1 -> Nat]
        /\ m.DataSize \in Nat
        /\ \A j \in 0 .. m.OffsetsSize - 1 : j >= m.Num => m.Offsets[j] = 0
    BY DEF Layout, PoolShape
  <2>2. \A j \in 0 .. m.Num - 1 : j \in 0 .. m.OffsetsSize - 1
    BY <2>1
  <2> QED BY <2>1, <2>2
<1>3. /\ u.Offsets[i] = p /\ u.Num = m.Num
      /\ \A j \in (0 .. m.Num - 1) \ {i} : u.Offsets[j] = m.Offsets[j]
      /\ u.Offsets \in [0 .. m.OffsetsSize - 1 -> Nat]
      /\ \A j \in 0 .. m.OffsetsSize - 1 : j >= m.Num => u.Offsets[j] = 0
  <2>1. u.Offsets = [m.Offsets EXCEPT ![i] = p] /\ u.Num = m.Num
    BY DEF PutIn
  <2>2. i \in 0 .. m.OffsetsSize - 1 /\ ~ (i >= m.Num)
    BY <1>2
  <2>3. DOMAIN m.Offsets = 0 .. m.OffsetsSize - 1
    BY <1>2
  <2>4. \A j \in 0 .. m.OffsetsSize - 1 : u.Offsets[j] = IF j = i THEN p ELSE m.Offsets[j]
    BY <2>1, <2>3
  <2>5. u.Offsets \in [0 .. m.OffsetsSize - 1 -> Nat]
    BY <1>2, <2>1
  <2> QED BY <1>2, <2>1, <2>2, <2>4, <2>5
<1>4. p # 0 /\ p >= w
  BY DEF PutIn
<1>5. Used(u) = (Used(m) \ {i}) \cup {i} /\ Used(m) \subseteq 0 .. m.Num - 1
  BY <1>3, <1>4 DEF Used
<1>6. PoolShape(u, V)
  BY <1>2, <1>3 DEF PutIn, PoolShape
<1>7. Headed(u, w, empty)
  <2>1. \A k \in 0 .. w - 1 : m.BufferSize > 0 => m.BufferSize >= w /\ u.Buffer[k] = m.Buffer[k]
    BY <1>2, <1>4 DEF PutIn, Layout, Headed
  <2>2. u.BufferSize = m.BufferSize
    BY DEF PutIn
  <2> QED BY <2>1, <2>2 DEF Layout, Headed
<1> HIDE DEF room2, img2
<1>8. Placed(u, w, room2)
  <2>1. \A j \in Used(m) \ {i} : /\ room2[j] = room[j] /\ u.Offsets[j] = m.Offsets[j]
                                 /\ room[j] \in Nat \ {0} /\ w <= m.Offsets[j]
    BY <1>1, <1>3, <1>5 DEF Layout, Placed
  <2>2. \A j, k \in Used(m) : j # k => \/ m.Offsets[j] + room[j] <= m.Offsets[k]
                                       \/ m.Offsets[k] + room[k] <= m.Offsets[j]
    BY DEF Layout, Placed
  <2>3. /\ p + r <= u.DataSize
        /\ p = u.Top => p + r = u.DataSize
        /\ \A j \in Used(m) \ {i} : /\ p + r <= m.Offsets[j] \/ m.Offsets[j] + room[j] <= p
                                    /\ m.Offsets[j] + room[j] <= u.DataSize
                                    /\ m.Offsets[j] = u.Top => m.Offsets[j] + room[j] = u.DataSize
    BY DEF PutIn
  <2>4. ASSUME NEW j \in Used(u)
        PROVE  /\ room2[j] \in Nat \ {0}
               /\ w <= u.Offsets[j]
               /\ u.Offsets[j] + room2[j] <= u.DataSize
               /\ u.Offsets[j] = u.Top => u.Offsets[j] + room2[j] = u.DataSize
    <3>1. CASE j = i
      BY <1>1, <1>3, <1>4, <2>3, <3>1
    <3>2. CASE j # i
      BY <1>5, <2>1, <2>3, <2>4, <3>2
    <3> QED BY <3>1, <3>2
  <2>5. ASSUME NEW j \in Used(u), NEW k \in Used(u), j # k
        PROVE  u.Offsets[j] + room2[j] <= u.Offsets[k] \/ u.Offsets[k] + room2[k] <= u.Offsets[j]
    BY <1>1, <1>3, <1>5, <2>1, <2>2, <2>3, <2>5
  <2> QED BY <2>4, <2>5 DEF Placed
<1>9. Content(u, room2, img2)
  <2> SUFFICES ASSUME NEW j \in Used(u), NEW k \in 0 .. room2[j] - 1
               PROVE  u.Buffer[u.Offsets[j] + k] = img2[j][k]
    BY DEF Content
  <2>1. CASE j = i
    BY <1>1, <1>3, <2>1 DEF PutIn
  <2>2. CASE j # i
    <3>1. /\ j \in Used(m) /\ room2[j] = room[j] /\ img2[j] = img[j] /\ u.Offsets[j] = m.Offsets[j]
          /\ j \in 0 .. m.Num - 1
      BY <1>1, <1>3, <1>5, <2>2
    <3>2. /\ m.Buffer[m.Offsets[j] + k] = img[j][k] /\ room[j] \in Nat
          /\ m.Offsets[j] + room[j] <= m.DataSize /\ m.DataSize <= m.BufferSize
      BY <3>1 DEF Layout, Content, Placed, PoolShape
    <3>3. p + r <= m.Offsets[j] \/ m.Offsets[j] + room[j] <= p
      BY <2>2, <3>1 DEF PutIn
    <3>4. m.Offsets[j] \in Nat /\ k \in Nat /\ k < room[j]
      BY <1>2, <3>1, <3>2
    <3>5. /\ m.Offsets[j] + k \in 0 .. m.BufferSize - 1
          /\ m.Offsets[j] + k < p \/ p + r <= m.Offsets[j] + k
      BY <1>2, <3>2, <3>3, <3>4, Within
    <3>6. u.Buffer[m.Offsets[j] + k] = m.Buffer[m.Offsets[j] + k]
      BY <3>5 DEF PutIn
    <3> QED BY <3>1, <3>2, <3>6
  <2> QED BY <2>1, <2>2
<1>10. Counted(u, w, room2)
  <2>1. IsFiniteSet(Used(m) \ {i}) /\ \A j \in Used(m) \ {i} : room[j] \in Nat /\ room2[j] = room[j]
    BY <1>1, <1>2, <1>5, UsedFinite, FS_Subset DEF Layout, Placed
  <2>2. CountOf(room2, Used(u)) = CountOf(room2, Used(m) \ {i}) + r
    <3>1. i \notin Used(m) \ {i} /\ \A j \in (Used(m) \ {i}) \cup {i} : room2[j] \in Nat
      BY <1>1, <2>1
    <3> DEFINE js == Used(m) \ {i}
    <3>2. Used(u) = js \cup {i} /\ room2[i] = r
      BY <1>1, <1>5
    <3> HIDE DEF js
    <3>3. CountOf(room2, js \cup {i}) = CountOf(room2, js) + room2[i]
      <4>1. IsFiniteSet(js) /\ i \notin js /\ \A j \in js \cup {i} : room2[j] \in Nat
        BY <2>1, <3>1 DEF js
      <4> QED BY <4>1, CountAdd
    <3> QED BY <3>2, <3>3 DEF js
  <2>3. CountOf(room2, Used(m) \ {i}) = CountOf(room, Used(m) \ {i}) /\ CountOf(room, Used(m) \ {i}) \in Nat
    BY <2>1, CountSame, CountOK
  <2>4. /\ u.GarbageSize + CountOf(room, Used(m) \ {i}) + r + w <= u.DataSize
        /\ u.GarbageSize \in Nat /\ u.DataSize \in Nat
    BY DEF PutIn
  <2> QED BY <2>2, <2>3, <2>4 DEF Counted
<1> QED BY <1>6, <1>7, <1>8, <1>9, <1>10 DEF PoolInv, Layout, room2, img2

-----------------------------------------------------------------------------
\* Where garbage collection puts string i.
PlaceIn(m, w, room, i) == w + CountOf(room, {j \in Used(m) : j < i})

LEMMA PlacesApart ==
    ASSUME NEW m, m.Num \in Nat, NEW w \in Nat, NEW room, \A j \in Used(m) : room[j] \in Nat,
           NEW i \in Used(m)
    PROVE  /\ PlaceIn(m, w, room, i) \in Nat /\ w <= PlaceIn(m, w, room, i)
           /\ PlaceIn(m, w, room, i) + room[i] <= w + CountOf(room, Used(m))
           /\ \A k \in Used(m) : i < k => PlaceIn(m, w, room, i) + room[i] <= PlaceIn(m, w, room, k)
           /\ (\A k \in Used(m) : k <= i) =>
                 PlaceIn(m, w, room, i) + room[i] = w + CountOf(room, Used(m))
<1> DEFINE B(k) == {j \in Used(m) : j < k}
<1>1. IsFiniteSet(Used(m)) /\ Used(m) \subseteq 0 .. m.Num - 1
  BY UsedFinite
<1>2. \A k \in Used(m) : IsFiniteSet(B(k)) /\ B(k) \subseteq Used(m) /\ k \notin B(k)
  BY <1>1, FS_Subset
<1>3. IsFiniteSet(B(i)) /\ B(i) \subseteq Used(m) /\ i \notin B(i)
  BY <1>2
<1>4. CountOf(room, B(i)) \in Nat
  <2> HIDE DEF B
  <2> QED BY <1>3, CountOK
<1>5. CountOf(room, B(i) \cup {i}) = CountOf(room, B(i)) + room[i]
  <2> HIDE DEF B
  <2> QED BY <1>3, CountAdd
<1>6. CountOf(room, Used(m)) \in Nat
  BY <1>1, CountOK
<1>7. CountOf(room, B(i) \cup {i}) <= CountOf(room, Used(m))
  <2> HIDE DEF B
  <2> QED BY <1>1, <1>3, CountSubset
<1>8. ASSUME NEW k \in Used(m), i < k
      PROVE  CountOf(room, B(i) \cup {i}) <= CountOf(room, B(k)) /\ CountOf(room, B(k)) \in Nat
  <2>1. IsFiniteSet(B(k)) /\ B(k) \subseteq Used(m)
    BY <1>2
  <2>2. B(i) \cup {i} \subseteq B(k)
    BY <1>1, <1>8
  <2> HIDE DEF B
  <2> QED BY <2>1, <2>2, CountSubset, CountOK
<1>9. ASSUME \A k \in Used(m) : k <= i
      PROVE  CountOf(room, B(i) \cup {i}) = CountOf(room, Used(m))
  <2>1. B(i) \cup {i} = Used(m)
    BY <1>1, <1>9
  <2> QED BY <2>1
<1>10. \A k : PlaceIn(m, w, room, k) = w + CountOf(room, B(k))
  BY DEF PlaceIn
<1>11. room[i] \in Nat
  OBVIOUS
<1> HIDE DEF B
<1>12. \A k \in Used(m) : i < k => PlaceIn(m, w, room, i) + room[i] <= PlaceIn(m, w, room, k)
  <2> SUFFICES ASSUME NEW k \in Used(m), i < k
               PROVE  PlaceIn(m, w, room, i) + room[i] <= PlaceIn(m, w, room, k)
    OBVIOUS
  <2>1. /\ PlaceIn(m, w, room, i) = w + CountOf(room, B(i))
        /\ PlaceIn(m, w, room, k) = w + CountOf(room, B(k))
    BY <1>10
  <2>2. CountOf(room, B(i)) + room[i] <= CountOf(room, B(k)) /\ CountOf(room, B(k)) \in Nat
    BY <1>5, <1>8
  <2> QED BY <1>4, <1>11, <2>1, <2>2
<1>13. (\A k \in Used(m) : k <= i) => PlaceIn(m, w, room, i) + room[i] = w + CountOf(room, Used(m))
  BY <1>4, <1>5, <1>9, <1>10, <1>11
<1> QED BY <1>4, <1>5, <1>6, <1>7, <1>10, <1>11, <1>12, <1>13

\* u is the pool m after garbage collection.
Collected(m, u, V, w, empty, room) ==
    /\ IsPool(u) /\ u.Num = m.Num /\ u.OffsetsSize = m.OffsetsSize /\ u.GarbageSize = 0
    /\ u.Offsets = [j \in 0 .. m.OffsetsSize - 1 |->
                       IF j \in Used(m) THEN PlaceIn(m, w, room, j) ELSE 0]
    /\ u.DataSize = w + CountOf(room, Used(m))
    /\ u.Top = IF Used(m) = {} THEN w ELSE PlaceIn(m, w, room, Max(Used(m)))
    /\ u.BufferSize \in Nat /\ u.DataSize <= u.BufferSize
    /\ u.Buffer \in [0 .. u.BufferSize - 1 -> V]
    /\ \A k \in 0 .. w - 1 : u.Buffer[k] = empty[k]
    /\ \A i \in Used(m) : \A k \in 0 .. room[i] - 1 :
          u.Buffer[PlaceIn(m, w, room, i) + k] = m.Buffer[m.Offsets[i] + k]

LEMMA CollectOK ==
    ASSUME NEW m, NEW V, NEW w \in Nat \ {0}, NEW empty, NEW room, NEW img,
           Layout(m, V, w, empty, room, img), NEW u, Collected(m, u, V, w, empty, room)
    PROVE  PoolInv(u, V, w, empty, room, img) /\ Used(u) = Used(m)
<1>1. /\ m.Num \in Nat /\ m.OffsetsSize \in Nat /\ m.Num <= m.OffsetsSize
      /\ \A j \in Used(m) : room[j] \in Nat \ {0}
      /\ \A j \in Used(m) : room[j] \in Nat
  BY DEF Layout, PoolShape, Placed
<1>2. /\ IsFiniteSet(Used(m)) /\ Used(m) \subseteq 0 .. m.Num - 1
      /\ CountOf(room, Used(m)) \in Nat
  BY <1>1, UsedFinite, CountOK
<1>3. /\ IsPool(u) /\ u.Num = m.Num /\ u.OffsetsSize = m.OffsetsSize /\ u.GarbageSize = 0
      /\ u.DataSize = w + CountOf(room, Used(m))
      /\ u.BufferSize \in Nat /\ u.DataSize <= u.BufferSize
      /\ u.Buffer \in [0 .. u.BufferSize - 1 -> V]
  BY DEF Collected
<1>4. ASSUME NEW j \in Used(m)
      PROVE  /\ u.Offsets[j] = PlaceIn(m, w, room, j) /\ u.Offsets[j] \in Nat /\ w <= u.Offsets[j]
             /\ u.Offsets[j] + room[j] <= u.DataSize
  <2>1. j \in 0 .. m.OffsetsSize - 1
    BY <1>1, <1>2
  <2>2. u.Offsets[j] = PlaceIn(m, w, room, j)
    BY <2>1 DEF Collected
  <2>3. /\ PlaceIn(m, w, room, j) \in Nat /\ w <= PlaceIn(m, w, room, j)
        /\ PlaceIn(m, w, room, j) + room[j] <= w + CountOf(room, Used(m))
    BY <1>1, PlacesApart
  <2> QED BY <1>3, <2>2, <2>3
<1>5. \A j \in (0 .. m.OffsetsSize - 1) \ Used(m) : u.Offsets[j] = 0
  BY DEF Collected
<1>6. u.Offsets \in [0 .. m.OffsetsSize - 1 -> Nat]
  <2>1. \A j \in 0 .. m.OffsetsSize - 1 : u.Offsets[j] \in Nat
    BY <1>4, <1>5
  <2>2. u.Offsets = [j \in 0 .. m.OffsetsSize - 1 |-> u.Offsets[j]]
    BY DEF Collected
  <2> QED BY <2>1, <2>2
<1>7. Used(u) = Used(m)
  <2>1. \A j \in 0 .. m.Num - 1 : j \in 0 .. m.OffsetsSize - 1
    BY <1>1
  <2>2. \A j \in Used(m) : u.Offsets[j] # 0
    BY <1>4
  <2> QED BY <1>2, <1>3, <1>5, <2>1, <2>2 DEF Used
<1>8. u.Top \in Nat /\ \A j \in Used(m) : u.Offsets[j] = u.Top => u.Offsets[j] + room[j] = u.DataSize
  <2>1. CASE Used(m) = {}
    BY <2>1 DEF Collected
  <2>2. CASE Used(m) # {}
    <3> DEFINE g == Max(Used(m))
    <3>1. g \in Used(m) /\ \A j \in Used(m) : j <= g
      BY <1>1, <1>2, <2>2, MaxIsGreatest
    <3>2. u.Top = u.Offsets[g]
      BY <1>4, <2>2, <3>1 DEF Collected
    <3> HIDE DEF g
    <3>3. u.Offsets[g] + room[g] = u.DataSize
      <4>1. PlaceIn(m, w, room, g) + room[g] = w + CountOf(room, Used(m))
        BY <1>1, <3>1, PlacesApart
      <4> QED BY <1>3, <1>4, <3>1, <4>1
    <3>4. ASSUME NEW j \in Used(m), j # g PROVE u.Offsets[j] < u.Offsets[g]
      <4>1. j < g
        BY <1>2, <3>1, <3>4
      <4>2. PlaceIn(m, w, room, j) + room[j] <= PlaceIn(m, w, room, g)
        BY <1>1, <3>1, <4>1, PlacesApart
      <4> QED BY <1>1, <1>4, <3>1, <4>2
    <3>5. \A j \in Used(m) : u.Offsets[j] = u.Top => j = g
      BY <1>4, <3>1, <3>2, <3>4
    <3> QED BY <1>4, <3>1, <3>2, <3>3, <3>5
  <2> QED BY <2>1, <2>2
<1>9. ASSUME NEW i \in Used(m), NEW j \in Used(m), i # j
      PROVE  u.Offsets[i] + room[i] <= u.Offsets[j] \/ u.Offsets[j] + room[j] <= u.Offsets[i]
  <2>1. i < j \/ j < i
    BY <1>2, <1>9
  <2>2. /\ i < j => PlaceIn(m, w, room, i) + room[i] <= PlaceIn(m, w, room, j)
        /\ j < i => PlaceIn(m, w, room, j) + room[j] <= PlaceIn(m, w, room, i)
    BY <1>1, PlacesApart
  <2> QED BY <1>4, <2>1, <2>2
<1>10. PoolShape(u, V)
  <2>1. \A j \in 0 .. m.OffsetsSize - 1 : j >= m.Num => u.Offsets[j] = 0
    BY <1>1, <1>2, <1>5
  <2> QED BY <1>1, <1>2, <1>3, <1>6, <1>8, <2>1 DEF PoolShape
<1>11. Headed(u, w, empty)
  BY <1>2, <1>3 DEF Headed, Collected
<1>12. Placed(u, w, room)
  BY <1>1, <1>4, <1>7, <1>8, <1>9 DEF Placed
<1>13. Content(u, room, img)
  BY <1>4, <1>7 DEF Content, Collected, Layout
<1>14. Counted(u, w, room)
  BY <1>2, <1>3, <1>7 DEF Counted
<1> QED BY <1>7, <1>10, <1>11, <1>12, <1>13, <1>14 DEF PoolInv, Layout

-----------------------------------------------------------------------------
\* u differs from m in the cells p .. p + r - 1, which hold im.
WrittenAt(m, u, V, p, r, im) ==
    /\ u.Buffer \in [0 .. m.BufferSize - 1 -> V]
    /\ \A k \in 0 .. r - 1 : u.Buffer[p + k] = im[k]
    /\ \A q \in 0 .. m.BufferSize - 1 : q < p \/ p + r <= q => u.Buffer[q] = m.Buffer[q]

SameSizes(m, u) ==
    IsPool(u) /\ u.Num = m.Num /\ u.OffsetsSize = m.OffsetsSize /\ u.BufferSize = m.BufferSize

LEMMA CountWithout ==
    ASSUME NEW m, m.Num \in Nat, NEW room, \A j \in Used(m) : room[j] \in Nat, NEW i
    PROVE  /\ CountOf(room, Used(m) \ {i}) \in Nat /\ CountOf(room, Used(m)) \in Nat
           /\ i \in Used(m) => CountOf(room, Used(m)) = CountOf(room, Used(m) \ {i}) + room[i]
           /\ i \notin Used(m) => CountOf(room, Used(m)) = CountOf(room, Used(m) \ {i})
<1> DEFINE js == Used(m) \ {i}
<1>1. IsFiniteSet(Used(m)) /\ IsFiniteSet(js) /\ i \notin js
  BY UsedFinite, FS_Subset
<1>2. CountOf(room, js) \in Nat /\ CountOf(room, Used(m)) \in Nat
  BY <1>1, CountOK
<1>3. ASSUME i \in Used(m)
      PROVE  CountOf(room, Used(m)) = CountOf(room, Used(m) \ {i}) + room[i]
  <2>1. Used(m) = js \cup {i} /\ \A j \in js \cup {i} : room[j] \in Nat
    BY <1>3
  <2> HIDE DEF js
  <2>2. CountOf(room, js \cup {i}) = CountOf(room, js) + room[i]
    BY <1>1, <2>1, CountAdd
  <2> QED BY <1>2, <1>3, <2>1, <2>2 DEF js
<1>4. ASSUME i \notin Used(m)
      PROVE  CountOf(room, Used(m)) = CountOf(room, Used(m) \ {i})
  <2>1. Used(m) = js
    BY <1>4
  <2> QED BY <1>2, <1>4, <2>1
<1> QED BY <1>2, <1>3, <1>4

(* A block in front of another that ends where all blocks end. *)
LEMMA InFront ==
    ASSUME NEW o \in Nat, NEW c \in Nat \ {0}, NEW p \in Nat, NEW d \in Nat, NEW e \in Nat,
           p + d = e, o + c <= e, p + d <= o \/ o + c <= p
    PROVE  o + c <= p /\ o # p
OBVIOUS

LEMMA PoolFacts ==
    ASSUME NEW m, NEW V, NEW w, NEW empty, NEW room, NEW img, Layout(m, V, w, empty, room, img)
    PROVE  /\ m.Num \in Nat /\ m.OffsetsSize \in Nat /\ m.Num <= m.OffsetsSize
           /\ m.BufferSize \in Nat /\ m.DataSize \in Nat /\ m.GarbageSize \in Nat /\ m.Top \in Nat
           /\ m.DataSize <= m.BufferSize
           /\ m.Offsets \in [0 .. m.OffsetsSize - 1 -> Nat]
           /\ \A j \in 0 .. m.Num - 1 : j \in 0 .. m.OffsetsSize - 1 /\ m.Offsets[j] \in Nat
           /\ \A j \in Used(m) : /\ j \in 0 .. m.Num - 1 /\ m.Offsets[j] \in Nat
                                 /\ room[j] \in Nat \ {0} /\ room[j] \in Nat
                                 /\ w <= m.Offsets[j]
                                 /\ m.Offsets[j] + room[j] <= m.DataSize
                                 /\ m.Offsets[j] = m.Top => m.Offsets[j] + room[j] = m.DataSize
           /\ \A i, j \in Used(m) : i # j => \/ m.Offsets[i] + room[i] <= m.Offsets[j]
                                             \/ m.Offsets[j] + room[j] <= m.Offsets[i]
<1>1. /\ m.Num \in Nat /\ m.OffsetsSize \in Nat /\ m.Num <= m.OffsetsSize
      /\ m.BufferSize \in Nat /\ m.DataSize \in Nat /\ m.GarbageSize \in Nat /\ m.Top \in Nat
      /\ m.DataSize <= m.BufferSize
      /\ m.Offsets \in [0 .. m.OffsetsSize - 1 -> Nat]
  BY DEF Layout, PoolShape
<1>2. \A j \in 0 .. m.Num - 1 : j \in 0 .. m.OffsetsSize - 1
  BY <1>1
<1>3. \A j \in 0 .. m.Num - 1 : m.Offsets[j] \in Nat
  BY <1>1, <1>2
<1>4. Used(m) \subseteq 0 .. m.Num - 1
  BY DEF Used
<1>5. Placed(m, w, room)
  BY DEF Layout
<1>6. ASSUME NEW j \in Used(m)
      PROVE  /\ j \in 0 .. m.Num - 1 /\ m.Offsets[j] \in Nat
             /\ room[j] \in Nat \ {0} /\ room[j] \in Nat
             /\ w <= m.Offsets[j]
             /\ m.Offsets[j] + room[j] <= m.DataSize
             /\ m.Offsets[j] = m.Top => m.Offsets[j] + room[j] = m.DataSize
  BY <1>3, <1>4, <1>5 DEF Placed
<1>7. \A i, j \in Used(m) : i # j => \/ m.Offsets[i] + room[i] <= m.Offsets[j]
                                     \/ m.Offsets[j] + room[j] <= m.Offsets[i]
  BY <1>5 DEF Placed
<1> QED BY <1>1, <1>2, <1>3, <1>6, <1>7

(* The string at Top changes its length in its place. *)
PutAtTop(m, u, V, i, r, im) ==
    /\ m.Offsets[i] = m.Top /\ u.DataSize = m.Top + r /\ u.DataSize <= m.BufferSize
    /\ u.Offsets = m.Offsets /\ u.Top = m.Top /\ u.GarbageSize = m.GarbageSize
    /\ SameSizes(m, u) /\ WrittenAt(m, u, V, m.Top, r, im)

LEMMA TopPut ==
    ASSUME NEW m, NEW V, NEW w \in Nat \ {0}, NEW empty, NEW room, NEW img,
           PoolInv(m, V, w, empty, room, img), DOMAIN room = 0 .. m.Num - 1, DOMAIN img = 0 .. m.Num - 1,
           NEW i \in Used(m), NEW r \in Nat \ {0}, NEW im, NEW u, PutAtTop(m, u, V, i, r, im)
    PROVE  PoolInv(u, V, w, empty, [room EXCEPT ![i] = r], [img EXCEPT ![i] = im])
<1>0. Layout(m, V, w, empty, room, img)
  BY DEF PoolInv
<1> DEFINE p == m.Top
<1>1. /\ m.Num \in Nat /\ m.DataSize \in Nat /\ m.GarbageSize \in Nat /\ p \in Nat
      /\ \A j \in Used(m) : room[j] \in Nat
      /\ m.Offsets \in [0 .. m.OffsetsSize - 1 -> Nat]
  BY <1>0, PoolFacts
<1>2. room[i] \in Nat /\ w <= p /\ p + room[i] = m.DataSize /\ i \in 0 .. m.Num - 1 /\ m.Offsets[i] = p
  BY <1>0, PoolFacts DEF PutAtTop
<1>3. u.DataSize = p + r /\ u.DataSize <= m.BufferSize /\ u.Top = p /\ u.GarbageSize = m.GarbageSize
  BY DEF PutAtTop
<1>4. ASSUME NEW j \in Used(m) \ {i}
      PROVE  /\ m.Offsets[j] + room[j] <= p
             /\ m.Offsets[j] + room[j] <= u.DataSize
             /\ m.Offsets[j] # u.Top
  <2>1. /\ m.Offsets[j] \in Nat /\ room[j] \in Nat \ {0}
        /\ m.Offsets[j] + room[j] <= m.DataSize
        /\ m.Offsets[i] + room[i] <= m.Offsets[j] \/ m.Offsets[j] + room[j] <= m.Offsets[i]
    BY <1>0, PoolFacts
  <2>2. m.Offsets[j] + room[j] <= p /\ m.Offsets[j] # p
    BY <1>1, <1>2, <2>1, InFront
  <2> HIDE DEF p
  <2> QED BY <1>1, <1>3, <2>1, <2>2
<1>5. u.GarbageSize + CountOf(room, Used(m) \ {i}) + r + w <= u.DataSize
  <2>1. /\ CountOf(room, Used(m)) = CountOf(room, Used(m) \ {i}) + room[i]
        /\ CountOf(room, Used(m) \ {i}) \in Nat
    BY <1>1, CountWithout
  <2>2. m.DataSize = 0 \/ m.GarbageSize + CountOf(room, Used(m)) + w <= m.DataSize
    BY DEF PoolInv, Counted
  <2>3. room[i] # 0
    BY <1>0, PoolFacts
  <2> HIDE DEF p
  <2> QED BY <1>1, <1>2, <1>3, <2>1, <2>2, <2>3
<1>6. u.Offsets = [m.Offsets EXCEPT ![i] = p]
  BY <1>1, <1>2 DEF PutAtTop
<1>7. SameSizes(m, u) /\ WrittenAt(m, u, V, p, r, im)
  BY DEF PutAtTop
<1> HIDE DEF p
<1>8. PutIn(m, u, V, w, room, i, p, r, im)
  BY <1>1, <1>2, <1>3, <1>4, <1>5, <1>6, <1>7 DEF PutIn, WrittenAt, SameSizes
<1> QED BY <1>0, <1>1, <1>2, <1>8, PutOK

(* A string that is not at Top gets shorter in its place. *)
PutInPlace(m, u, V, room, i, r, im) ==
    /\ m.Offsets[i] # m.Top /\ u.GarbageSize = m.GarbageSize + room[i] - r
    /\ u.Offsets = m.Offsets /\ u.Top = m.Top /\ u.DataSize = m.DataSize
    /\ SameSizes(m, u) /\ WrittenAt(m, u, V, m.Offsets[i], r, im)

LEMMA InPlacePut ==
    ASSUME NEW m, NEW V, NEW w \in Nat \ {0}, NEW empty, NEW room, NEW img,
           PoolInv(m, V, w, empty, room, img), DOMAIN room = 0 .. m.Num - 1, DOMAIN img = 0 .. m.Num - 1,
           NEW i \in Used(m), NEW r \in Nat \ {0}, r <= room[i], NEW im, NEW u,
           PutInPlace(m, u, V, room, i, r, im)
    PROVE  PoolInv(u, V, w, empty, [room EXCEPT ![i] = r], [img EXCEPT ![i] = im])
<1>0. Layout(m, V, w, empty, room, img)
  BY DEF PoolInv
<1> DEFINE p == m.Offsets[i]
<1>1. /\ m.Num \in Nat /\ m.DataSize \in Nat /\ m.GarbageSize \in Nat /\ m.Top \in Nat
      /\ \A j \in Used(m) : room[j] \in Nat
      /\ m.Offsets \in [0 .. m.OffsetsSize - 1 -> Nat] /\ m.DataSize <= m.BufferSize
  BY <1>0, PoolFacts
<1>2. /\ room[i] \in Nat /\ p \in Nat /\ w <= p /\ p + room[i] <= m.DataSize /\ i \in 0 .. m.Num - 1
  BY <1>0, PoolFacts
<1>3. /\ u.DataSize = m.DataSize /\ u.Top = m.Top /\ p # u.Top
      /\ u.GarbageSize = m.GarbageSize + room[i] - r
  BY DEF PutInPlace
<1>4. ASSUME NEW j \in Used(m) \ {i}
      PROVE  /\ p + r <= m.Offsets[j] \/ m.Offsets[j] + room[j] <= p
             /\ m.Offsets[j] + room[j] <= u.DataSize
             /\ m.Offsets[j] = u.Top => m.Offsets[j] + room[j] = u.DataSize
  <2>1. /\ m.Offsets[j] \in Nat /\ room[j] \in Nat \ {0}
        /\ m.Offsets[j] + room[j] <= m.DataSize
        /\ m.Offsets[j] = m.Top => m.Offsets[j] + room[j] = m.DataSize
        /\ p + room[i] <= m.Offsets[j] \/ m.Offsets[j] + room[j] <= p
    BY <1>0, PoolFacts
  <2> HIDE DEF p
  <2>2. p + r <= p + room[i]
    BY <1>2
  <2>3. p + r <= m.Offsets[j] \/ m.Offsets[j] + room[j] <= p
    BY <1>2, <2>1, <2>2
  <2> QED BY <1>3, <2>1, <2>3
<1>5. u.GarbageSize \in Nat /\ u.GarbageSize + CountOf(room, Used(m) \ {i}) + r + w <= u.DataSize
  <2>1. /\ CountOf(room, Used(m)) = CountOf(room, Used(m) \ {i}) + room[i]
        /\ CountOf(room, Used(m) \ {i}) \in Nat
    BY <1>1, CountWithout
  <2>2. m.DataSize = 0 \/ m.GarbageSize + CountOf(room, Used(m)) + w <= m.DataSize
    BY DEF PoolInv, Counted
  <2>3. room[i] # 0
    BY <1>0, PoolFacts
  <2> HIDE DEF p
  <2> QED BY <1>1, <1>2, <1>3, <2>1, <2>2, <2>3
<1>6. u.Offsets = [m.Offsets EXCEPT ![i] = p]
  BY <1>1, <1>2 DEF PutInPlace
<1>7. SameSizes(m, u) /\ WrittenAt(m, u, V, p, r, im)
  BY DEF PutInPlace
<1> HIDE DEF p
<1>8. p + r <= u.DataSize
  BY <1>1, <1>2, <1>3
<1>9. PutIn(m, u, V, w, room, i, p, r, im)
  BY <1>1, <1>2, <1>3, <1>4, <1>5, <1>6, <1>7, <1>8 DEF PutIn, WrittenAt, SameSizes
<1> QED BY <1>0, <1>1, <1>2, <1>9, PutOK

(* A string goes to the end of the data. *)
PutAtEnd(m, u, V, w, room, i, r, im) ==
    /\ u.GarbageSize \in Nat
    /\ u.GarbageSize + CountOf(room, Used(m) \ {i}) + w <= m.DataSize
    /\ u.DataSize = m.DataSize + r /\ u.DataSize <= m.BufferSize
    /\ u.Offsets = [m.Offsets EXCEPT ![i] = m.DataSize] /\ u.Top = m.DataSize
    /\ SameSizes(m, u) /\ WrittenAt(m, u, V, m.DataSize, r, im)

LEMMA EndPut ==
    ASSUME NEW m, NEW V, NEW w \in Nat \ {0}, NEW empty, NEW room, NEW img,
           Layout(m, V, w, empty, room, img), DOMAIN room = 0 .. m.Num - 1, DOMAIN img = 0 .. m.Num - 1,
           NEW i \in 0 .. m.Num - 1, NEW r \in Nat \ {0}, NEW im, NEW u,
           PutAtEnd(m, u, V, w, room, i, r, im)
    PROVE  PoolInv(u, V, w, empty, [room EXCEPT ![i] = r], [img EXCEPT ![i] = im])
<1> DEFINE p == m.DataSize
<1>1. /\ m.Num \in Nat /\ p \in Nat
      /\ \A j \in Used(m) : room[j] \in Nat
  BY PoolFacts
<1>2. /\ u.GarbageSize \in Nat /\ u.GarbageSize + CountOf(room, Used(m) \ {i}) + w <= p
      /\ u.DataSize = p + r /\ u.DataSize <= m.BufferSize /\ u.Top = p
      /\ u.Offsets = [m.Offsets EXCEPT ![i] = p]
      /\ SameSizes(m, u) /\ WrittenAt(m, u, V, p, r, im)
  BY DEF PutAtEnd
<1>3. ASSUME NEW j \in Used(m) \ {i}
      PROVE  /\ m.Offsets[j] + room[j] <= p
             /\ m.Offsets[j] + room[j] <= u.DataSize
             /\ m.Offsets[j] # u.Top
  <2>1. /\ m.Offsets[j] \in Nat /\ room[j] \in Nat \ {0}
        /\ m.Offsets[j] + room[j] <= p
    BY PoolFacts
  <2> HIDE DEF p
  <2> QED BY <1>1, <1>2, <2>1
<1>4. w <= p /\ u.GarbageSize + CountOf(room, Used(m) \ {i}) + r + w <= u.DataSize
  <2>1. CountOf(room, Used(m) \ {i}) \in Nat
    BY <1>1, CountWithout
  <2> HIDE DEF p
  <2> QED BY <1>1, <1>2, <2>1
<1> HIDE DEF p
<1>5. PutIn(m, u, V, w, room, i, p, r, im)
  BY <1>1, <1>2, <1>3, <1>4 DEF PutIn, WrittenAt, SameSizes
<1> QED BY <1>1, <1>5, PutOK

(* A string is taken out. *)
TakenOut(m, u, room, i) ==
    /\ SameSizes(m, u) /\ u.Buffer = m.Buffer /\ u.Offsets = [m.Offsets EXCEPT ![i] = 0]
    /\ u.Top = m.Top /\ u.DataSize = m.DataSize /\ u.GarbageSize = m.GarbageSize + room[i]

LEMMA ErasePut ==
    ASSUME NEW m, NEW V, NEW w \in Nat \ {0}, NEW empty, NEW room, NEW img,
           PoolInv(m, V, w, empty, room, img), NEW i \in Used(m), NEW u, TakenOut(m, u, room, i)
    PROVE  PoolInv(u, V, w, empty, room, img) /\ Used(u) = Used(m) \ {i}
<1>0. Layout(m, V, w, empty, room, img)
  BY DEF PoolInv
<1>1. /\ m.Num \in Nat /\ m.OffsetsSize \in Nat /\ m.Num <= m.OffsetsSize
      /\ m.DataSize \in Nat /\ m.GarbageSize \in Nat
      /\ \A j \in Used(m) : room[j] \in Nat /\ j \in 0 .. m.Num - 1
      /\ room[i] \in Nat \ {0} /\ i \in 0 .. m.Num - 1 /\ i \in 0 .. m.OffsetsSize - 1
      /\ m.Offsets \in [0 .. m.OffsetsSize - 1 -> Nat]
      /\ m.Offsets[i] \in Nat /\ m.Offsets[i] + room[i] <= m.DataSize
  BY <1>0, PoolFacts
<1>2. /\ u.Offsets \in [0 .. m.OffsetsSize - 1 -> Nat]
      /\ \A j \in 0 .. m.OffsetsSize - 1 : u.Offsets[j] = IF j = i THEN 0 ELSE m.Offsets[j]
      /\ u.Num = m.Num
  BY <1>1 DEF TakenOut, SameSizes
<1>3. Used(u) = Used(m) \ {i}
  <2>1. \A j \in 0 .. m.Num - 1 : j \in 0 .. m.OffsetsSize - 1
    BY <1>1
  <2> QED BY <1>2, <2>1 DEF Used
<1>4. \A j \in Used(u) : j \in Used(m) /\ u.Offsets[j] = m.Offsets[j]
  <2>1. \A j \in Used(m) : j \in 0 .. m.OffsetsSize - 1
    BY <1>1
  <2> QED BY <1>2, <1>3, <2>1
<1>5. PoolShape(u, V)
  <2>1. \A j \in 0 .. m.OffsetsSize - 1 : j >= m.Num => u.Offsets[j] = 0
    <3>1. \A j \in 0 .. m.OffsetsSize - 1 : j >= m.Num => m.Offsets[j] = 0
      BY <1>0 DEF Layout, PoolShape
    <3> QED BY <1>2, <3>1
  <2>2. /\ IsPool(u) /\ u.Num = m.Num /\ u.OffsetsSize = m.OffsetsSize /\ u.BufferSize = m.BufferSize
        /\ u.Buffer = m.Buffer /\ u.Top = m.Top /\ u.DataSize = m.DataSize
    BY DEF TakenOut, SameSizes
  <2>3. u.GarbageSize \in Nat
    <3>1. u.GarbageSize = m.GarbageSize + room[i]
      BY DEF TakenOut
    <3> QED BY <1>1, <3>1
  <2>4. /\ m.BufferSize \in Nat /\ m.Buffer \in [0 .. m.BufferSize - 1 -> V]
        /\ m.Top \in Nat /\ m.DataSize <= m.BufferSize
    BY <1>0 DEF Layout, PoolShape
  <2>5. u.Offsets \in [0 .. u.OffsetsSize - 1 -> Nat]
    BY <1>2, <2>2
  <2>6. \A j \in 0 .. u.OffsetsSize - 1 : j >= u.Num => u.Offsets[j] = 0
    BY <2>1, <2>2
  <2> QED BY <1>1, <2>2, <2>3, <2>4, <2>5, <2>6 DEF PoolShape
<1>6. Headed(u, w, empty)
  BY <1>0 DEF Layout, Headed, TakenOut, SameSizes
<1>7. Placed(u, w, room)
  BY <1>0, <1>4 DEF Layout, Placed, TakenOut
<1>8. Content(u, room, img)
  BY <1>0, <1>4 DEF Layout, Content, TakenOut
<1>9. Counted(u, w, room)
  <2>1. CountOf(room, Used(m)) = CountOf(room, Used(m) \ {i}) + room[i]
        /\ CountOf(room, Used(m) \ {i}) \in Nat
    BY <1>1, CountWithout
  <2>2. m.GarbageSize + CountOf(room, Used(m)) + w <= m.DataSize
    BY <1>1 DEF PoolInv, Counted
  <2>3. u.DataSize = m.DataSize /\ u.GarbageSize = m.GarbageSize + room[i]
    BY DEF TakenOut
  <2> QED BY <1>1, <1>3, <2>1, <2>2, <2>3 DEF Counted
<1> QED BY <1>3, <1>5, <1>6, <1>7, <1>8, <1>9 DEF PoolInv, Layout

-----------------------------------------------------------------------------
\* A pool by its fields, and with some of them changed.
PoolOf(buf, bs, o, os, d, g, t, nn) ==
    [Buffer |-> buf, BufferSize |-> bs, Offsets |-> o, OffsetsSize |-> os, DataSize |-> d,
     GarbageSize |-> g, Top |-> t, Num |-> nn]

WithBuffer(m, buf) == [m EXCEPT !.Buffer = buf]
WithData(m, d) == [m EXCEPT !.DataSize = d]
WithGarbage(m, g) == [m EXCEPT !.GarbageSize = g]
WithLast(m, i, p, d) == [m EXCEPT !.Offsets[i] = p, !.Top = p, !.DataSize = d]

HasFields(m, buf, bs, o, os, d, g, t, nn) ==
    /\ IsPool(m)
    /\ m.Buffer = buf /\ m.BufferSize = bs /\ m.Offsets = o /\ m.OffsetsSize = os
    /\ m.DataSize = d /\ m.GarbageSize = g /\ m.Top = t /\ m.Num = nn

LEMMA FieldsOf ==
    ASSUME NEW buf, NEW bs, NEW o, NEW os, NEW d, NEW g, NEW t, NEW nn
    PROVE  HasFields(PoolOf(buf, bs, o, os, d, g, t, nn), buf, bs, o, os, d, g, t, nn)
BY DEF PoolOf, IsPool, HasFields

LEMMA ByFields ==
    ASSUME NEW m, IsPool(m)
    PROVE  m = PoolOf(m.Buffer, m.BufferSize, m.Offsets, m.OffsetsSize, m.DataSize,
                      m.GarbageSize, m.Top, m.Num)
BY DEF PoolOf, IsPool

LEMMA FieldsChanged ==
    ASSUME NEW m, IsPool(m), NEW buf, NEW d, NEW g, NEW i, NEW p
    PROVE  /\ HasFields(WithBuffer(m, buf), buf, m.BufferSize, m.Offsets, m.OffsetsSize, m.DataSize,
                        m.GarbageSize, m.Top, m.Num)
           /\ HasFields(WithData(m, d), m.Buffer, m.BufferSize, m.Offsets, m.OffsetsSize, d,
                        m.GarbageSize, m.Top, m.Num)
           /\ HasFields(WithGarbage(m, g), m.Buffer, m.BufferSize, m.Offsets, m.OffsetsSize,
                        m.DataSize, g, m.Top, m.Num)
           /\ HasFields(WithLast(m, i, p, d), m.Buffer, m.BufferSize, [m.Offsets EXCEPT ![i] = p],
                        m.OffsetsSize, d, m.GarbageSize, p, m.Num)
<1> DEFINE B == m.Buffer
           BS == m.BufferSize
           O == m.Offsets
           OS == m.OffsetsSize
           D == m.DataSize
           G == m.GarbageSize
           T == m.Top
           N == m.Num
<1>1. m = PoolOf(B, BS, O, OS, D, G, T, N)
  BY ByFields
<1> HIDE DEF B, BS, O, OS, D, G, T, N
<1>2. [m EXCEPT !.Buffer = buf] = PoolOf(buf, BS, O, OS, D, G, T, N)
  BY <1>1 DEF PoolOf
<1>3. [m EXCEPT !.DataSize = d] = PoolOf(B, BS, O, OS, d, G, T, N)
  BY <1>1 DEF PoolOf
<1>4. [m EXCEPT !.GarbageSize = g] = PoolOf(B, BS, O, OS, D, g, T, N)
  BY <1>1 DEF PoolOf
<1>5. [m EXCEPT !.Offsets[i] = p, !.Top = p, !.DataSize = d] = PoolOf(B, BS, [O EXCEPT ![i] = p], OS, d, G, p, N)
  <2> DEFINE mid == [m EXCEPT !.Offsets[i] = p]
             z == [mid EXCEPT !.Top = p]
  <2>1. [m EXCEPT !.Offsets[i] = p, !.Top = p, !.DataSize = d] = [z EXCEPT !.DataSize = d]
    OBVIOUS
  <2>2. mid = PoolOf(B, BS, [O EXCEPT ![i] = p], OS, D, G, T, N)
    BY <1>1 DEF PoolOf
  <2>3. z = PoolOf(B, BS, [O EXCEPT ![i] = p], OS, D, G, p, N)
    <3> HIDE DEF mid
    <3> QED BY <2>2 DEF PoolOf
  <2>4. [z EXCEPT !.DataSize = d] = PoolOf(B, BS, [O EXCEPT ![i] = p], OS, d, G, p, N)
    <3> HIDE DEF z
    <3> QED BY <2>3 DEF PoolOf
  <2> HIDE DEF mid, z
  <2> QED BY <2>1, <2>4
<1> QED BY <1>2, <1>3, <1>4, <1>5, FieldsOf
        DEF WithBuffer, WithData, WithGarbage, WithLast, B, BS, O, OS, D, G, T, N

LEMMA BufferOf ==
    ASSUME NEW mid, NEW buf, NEW c, NEW bs, NEW o, NEW os, NEW d, NEW g, NEW t, NEW nn,
           HasFields(mid, c, bs, o, os, d, g, t, nn)
    PROVE  HasFields(WithBuffer(mid, buf), buf, bs, o, os, d, g, t, nn)
<1>1. IsPool(mid)
  BY DEF HasFields
<1>2. HasFields(WithBuffer(mid, buf), buf, mid.BufferSize, mid.Offsets, mid.OffsetsSize, mid.DataSize,
                mid.GarbageSize, mid.Top, mid.Num)
  BY <1>1, FieldsChanged
<1>3. /\ mid.BufferSize = bs /\ mid.Offsets = o /\ mid.OffsetsSize = os /\ mid.DataSize = d
      /\ mid.GarbageSize = g /\ mid.Top = t /\ mid.Num = nn
  BY DEF HasFields
<1> QED BY <1>2, <1>3

(* What Allocate returns, from the strings' room and, where the buffer is  *)
(* too small, from the pool v after garbage collection.                    *)
PutAt(m, p) == [pool |-> m, at |-> p]

MoreGarbage(m, i, room) ==
    IF m.Offsets[i] = 0 THEN m ELSE WithGarbage(m, m.GarbageSize + room[i])

AllocTop(m, r, v) ==
    LET q == IF m.Top + r > m.BufferSize THEN v ELSE m
    IN  PutAt(WithData(q, q.Top + r), q.Top)

AllocPlace(m, i, r, room) ==
    PutAt(WithGarbage(m, m.GarbageSize + room[i] - r), m.Offsets[i])

AllocEnd(m, i, r, room, v) ==
    LET q == IF m.DataSize + r > m.BufferSize THEN v ELSE MoreGarbage(m, i, room)
    IN  PutAt(WithLast(q, i, q.DataSize, q.DataSize + r), q.DataSize)

\* Whatever r cells are written at pl.at, they are string i of a good pool.
GoodPlace(m, pl, V, w, empty, room, img, i, r) ==
    /\ pl.at \in Nat /\ pl.pool.BufferSize \in Nat /\ pl.at + r <= pl.pool.BufferSize
    /\ pl.pool.Buffer \in [0 .. pl.pool.BufferSize - 1 -> V]
    /\ pl.pool.Num = m.Num /\ Used(pl.pool) = Used(m) \cup {i}
    /\ \A im, buf :
          /\ buf \in [0 .. pl.pool.BufferSize - 1 -> V]
          /\ \A k \in 0 .. r - 1 : buf[pl.at + k] = im[k]
          /\ \A q \in 0 .. pl.pool.BufferSize - 1 :
                q < pl.at \/ pl.at + r <= q => buf[q] = pl.pool.Buffer[q]
          => PoolInv(WithBuffer(pl.pool, buf), V, w, empty,
                     [room EXCEPT ![i] = r], [img EXCEPT ![i] = im])

\* The string at Top of v changes to r cells.
LEMMA TopWrite ==
    ASSUME NEW v, NEW V, NEW w \in Nat \ {0}, NEW empty, NEW room, NEW img,
           PoolInv(v, V, w, empty, room, img), DOMAIN room = 0 .. v.Num - 1, DOMAIN img = 0 .. v.Num - 1,
           NEW i \in Used(v), v.Offsets[i] = v.Top,
           NEW r \in Nat \ {0}, v.Top + r <= v.BufferSize
    PROVE  GoodPlace(v, PutAt(WithData(v, v.Top + r), v.Top), V, w, empty, room, img, i, r)
<1> DEFINE mid == WithData(v, v.Top + r)
<1>1. IsPool(v) /\ v.BufferSize \in Nat /\ v.Top \in Nat /\ v.Buffer \in [0 .. v.BufferSize - 1 -> V]
  BY DEF PoolInv, Layout, PoolShape
<1>2. HasFields(mid, v.Buffer, v.BufferSize, v.Offsets, v.OffsetsSize, v.Top + r,
                v.GarbageSize, v.Top, v.Num)
  BY <1>1, FieldsChanged
<1> HIDE DEF mid
<1>3. Used(mid) = Used(v) \cup {i}
  BY <1>2 DEF Used, HasFields
<1>4. ASSUME NEW im, NEW buf,
             buf \in [0 .. v.BufferSize - 1 -> V],
             \A k \in 0 .. r - 1 : buf[v.Top + k] = im[k],
             \A q \in 0 .. v.BufferSize - 1 : q < v.Top \/ v.Top + r <= q => buf[q] = v.Buffer[q]
      PROVE  PoolInv(WithBuffer(mid, buf), V, w, empty, [room EXCEPT ![i] = r], [img EXCEPT ![i] = im])
  <2> DEFINE u == WithBuffer(mid, buf)
  <2> HIDE DEF mid
  <2>1. HasFields(u, buf, v.BufferSize, v.Offsets, v.OffsetsSize, v.Top + r,
                  v.GarbageSize, v.Top, v.Num)
    BY <1>2, BufferOf
  <2> HIDE DEF u
  <2>3. PutAtTop(v, u, V, i, r, im)
    <3>1. SameSizes(v, u)
      BY <2>1 DEF SameSizes, HasFields
    <3>2. WrittenAt(v, u, V, v.Top, r, im)
      BY <1>4, <2>1 DEF WrittenAt, HasFields
    <3> QED BY <2>1, <3>1, <3>2 DEF PutAtTop, HasFields
  <2>4. PoolInv(u, V, w, empty, [room EXCEPT ![i] = r], [img EXCEPT ![i] = im])
    BY <2>3, TopPut
  <2> QED BY <2>4 DEF u
<1>5. PutAt(mid, v.Top).pool = mid /\ PutAt(mid, v.Top).at = v.Top
  BY DEF PutAt
<1>6. GoodPlace(v, PutAt(mid, v.Top), V, w, empty, room, img, i, r)
  BY <1>1, <1>2, <1>3, <1>4, <1>5 DEF GoodPlace, HasFields
<1> QED BY <1>6 DEF mid

(* GoodPlace looks at the strings of m only. *)
LEMMA GoodFor ==
    ASSUME NEW m, NEW v, m.Num = v.Num, Used(m) = Used(v), NEW pl, NEW V, NEW w, NEW empty,
           NEW room, NEW img, NEW i, NEW r, GoodPlace(v, pl, V, w, empty, room, img, i, r)
    PROVE  GoodPlace(m, pl, V, w, empty, room, img, i, r)
BY DEF GoodPlace

LEMMA TopAlloc ==
    ASSUME NEW m, NEW V, NEW w \in Nat \ {0}, NEW empty, NEW room, NEW img,
           PoolInv(m, V, w, empty, room, img), DOMAIN room = 0 .. m.Num - 1, DOMAIN img = 0 .. m.Num - 1,
           NEW i \in Used(m), m.Offsets[i] = m.Top, NEW r \in Nat \ {0}, NEW v,
           m.Top + r > m.BufferSize =>
              /\ Collected(m, v, V, w, empty, room) /\ m.Top + r <= v.BufferSize
              /\ \A j \in Used(m) : j <= i
    PROVE  GoodPlace(m, AllocTop(m, r, v), V, w, empty, room, img, i, r)
<1>0. Layout(m, V, w, empty, room, img)
  BY DEF PoolInv
<1>1. CASE ~ (m.Top + r > m.BufferSize)
  <2>1. m.BufferSize \in Nat /\ m.Top \in Nat
    BY <1>0, PoolFacts
  <2>2. AllocTop(m, r, v) = PutAt(WithData(m, m.Top + r), m.Top)
    BY <1>1 DEF AllocTop
  <2>3. m.Top + r <= m.BufferSize
    BY <1>1, <2>1
  <2> QED BY <2>2, <2>3, TopWrite
<1>2. CASE m.Top + r > m.BufferSize
  <2>1. /\ Collected(m, v, V, w, empty, room) /\ m.Top + r <= v.BufferSize
        /\ \A j \in Used(m) : j <= i
    BY <1>2
  <2>2. PoolInv(v, V, w, empty, room, img) /\ Used(v) = Used(m) /\ v.Num = m.Num
    <3>1. v.Num = m.Num
      BY <2>1 DEF Collected
    <3> QED BY <1>0, <2>1, <3>1, CollectOK
  <2>3. AllocTop(m, r, v) = PutAt(WithData(v, v.Top + r), v.Top)
    BY <1>2 DEF AllocTop
  <2>4. /\ m.Num \in Nat /\ Used(m) \subseteq 0 .. m.Num - 1 /\ \A j \in Used(m) : room[j] \in Nat
        /\ i \in 0 .. m.OffsetsSize - 1 /\ m.Top \in Nat /\ m.DataSize \in Nat /\ m.GarbageSize \in Nat
        /\ m.Top + room[i] = m.DataSize /\ room[i] \in Nat \ {0}
    BY <1>0, PoolFacts
  <2>5. Max(Used(m)) = i
    <3>1. Used(m) # {}
      OBVIOUS
    <3>2. Max(Used(m)) \in Used(m) /\ \A j \in Used(m) : j <= Max(Used(m))
      BY <2>4, <3>1, MaxIsGreatest
    <3>3. i <= Max(Used(m)) /\ Max(Used(m)) <= i /\ i \in Nat /\ Max(Used(m)) \in Nat
      BY <2>1, <2>4, <3>2
    <3> QED BY <3>3
  <2>6. v.Offsets[i] = PlaceIn(m, w, room, i) /\ v.Top = PlaceIn(m, w, room, i)
    BY <2>4, <2>5, <2>1 DEF Collected
  <2>7. v.Top <= m.Top /\ v.Top \in Nat
    <3>1. /\ PlaceIn(m, w, room, i) \in Nat
          /\ PlaceIn(m, w, room, i) + room[i] <= w + CountOf(room, Used(m))
      BY <2>4, PlacesApart
    <3>2. CountOf(room, Used(m)) \in Nat
      BY <2>4, CountWithout
    <3>3. m.GarbageSize + CountOf(room, Used(m)) + w <= m.DataSize
      BY <2>4 DEF PoolInv, Counted
    <3> QED BY <2>4, <2>6, <3>1, <3>2, <3>3
  <2>8. v.Top + r <= v.BufferSize
    <3>1. v.BufferSize \in Nat
      BY <2>1 DEF Collected
    <3> QED BY <2>1, <2>4, <2>7, <3>1
  <2>9. GoodPlace(v, PutAt(WithData(v, v.Top + r), v.Top), V, w, empty, room, img, i, r)
    BY <2>2, <2>6, <2>8, TopWrite
  <2> QED BY <2>2, <2>3, <2>9, GoodFor
<1> QED BY <1>1, <1>2

LEMMA PlaceAlloc ==
    ASSUME NEW m, NEW V, NEW w \in Nat \ {0}, NEW empty, NEW room, NEW img,
           PoolInv(m, V, w, empty, room, img), DOMAIN room = 0 .. m.Num - 1, DOMAIN img = 0 .. m.Num - 1,
           NEW i \in Used(m), m.Offsets[i] # m.Top, NEW r \in Nat \ {0}, r <= room[i]
    PROVE  GoodPlace(m, AllocPlace(m, i, r, room), V, w, empty, room, img, i, r)
<1> DEFINE mid == WithGarbage(m, m.GarbageSize + room[i] - r)
           p == m.Offsets[i]
<1>0. Layout(m, V, w, empty, room, img)
  BY DEF PoolInv
<1>1. IsPool(m) /\ m.BufferSize \in Nat /\ m.Buffer \in [0 .. m.BufferSize - 1 -> V]
  BY <1>0 DEF Layout, PoolShape
<1>2. HasFields(mid, m.Buffer, m.BufferSize, m.Offsets, m.OffsetsSize, m.DataSize,
                m.GarbageSize + room[i] - r, m.Top, m.Num)
  BY <1>1, FieldsChanged
<1>6. AllocPlace(m, i, r, room) = PutAt(mid, p) /\ PutAt(mid, p).pool = mid /\ PutAt(mid, p).at = p
  BY DEF AllocPlace, PutAt
<1> HIDE DEF mid
<1>3. Used(mid) = Used(m) \cup {i}
  BY <1>2 DEF Used, HasFields
<1>4. ASSUME NEW im, NEW buf,
             buf \in [0 .. m.BufferSize - 1 -> V],
             \A k \in 0 .. r - 1 : buf[p + k] = im[k],
             \A q \in 0 .. m.BufferSize - 1 : q < p \/ p + r <= q => buf[q] = m.Buffer[q]
      PROVE  PoolInv(WithBuffer(mid, buf), V, w, empty, [room EXCEPT ![i] = r], [img EXCEPT ![i] = im])
  <2> DEFINE u == WithBuffer(mid, buf)
  <2>1. HasFields(u, buf, m.BufferSize, m.Offsets, m.OffsetsSize, m.DataSize,
                  m.GarbageSize + room[i] - r, m.Top, m.Num)
    BY <1>2, BufferOf
  <2> HIDE DEF u
  <2>4. PutInPlace(m, u, V, room, i, r, im)
    <3>1. SameSizes(m, u)
      BY <2>1 DEF SameSizes, HasFields
    <3>2. WrittenAt(m, u, V, m.Offsets[i], r, im)
      BY <1>4, <2>1 DEF WrittenAt, HasFields
    <3> QED BY <2>1, <3>1, <3>2 DEF PutInPlace, HasFields
  <2>5. PoolInv(u, V, w, empty, [room EXCEPT ![i] = r], [img EXCEPT ![i] = im])
    BY <2>4, InPlacePut
  <2> QED BY <2>5 DEF u
<1>5. p \in Nat /\ p + r <= m.BufferSize
  <2>1. m.Offsets[i] \in Nat /\ room[i] \in Nat /\ m.Offsets[i] + room[i] <= m.DataSize
        /\ m.DataSize \in Nat /\ m.DataSize <= m.BufferSize
    BY <1>0, PoolFacts
  <2> QED BY <1>1, <2>1
<1>7. mid.Buffer = m.Buffer /\ mid.BufferSize = m.BufferSize /\ mid.Num = m.Num
  BY <1>2 DEF HasFields
<1> HIDE DEF p
<1>8. GoodPlace(m, PutAt(mid, p), V, w, empty, room, img, i, r)
  BY <1>1, <1>3, <1>4, <1>5, <1>6, <1>7 DEF GoodPlace
<1> QED BY <1>6, <1>8

\* String i goes to the end of the pool v, where its cells are garbage.
LEMMA EndWrite ==
    ASSUME NEW v, NEW V, NEW w \in Nat \ {0}, NEW empty, NEW room, NEW img,
           Layout(v, V, w, empty, room, img), DOMAIN room = 0 .. v.Num - 1, DOMAIN img = 0 .. v.Num - 1,
           NEW i \in 0 .. v.Num - 1,
           v.GarbageSize + CountOf(room, Used(v) \ {i}) + w <= v.DataSize,
           NEW r \in Nat \ {0}, v.DataSize + r <= v.BufferSize
    PROVE  GoodPlace(v, PutAt(WithLast(v, i, v.DataSize, v.DataSize + r), v.DataSize), V, w, empty, room, img, i, r)
<1> DEFINE mid == WithLast(v, i, v.DataSize, v.DataSize + r)
           p == v.DataSize
<1>1. /\ IsPool(v) /\ v.BufferSize \in Nat /\ v.Buffer \in [0 .. v.BufferSize - 1 -> V]
      /\ v.GarbageSize \in Nat
  BY DEF Layout, PoolShape
<1>2. HasFields(mid, v.Buffer, v.BufferSize, [v.Offsets EXCEPT ![i] = p], v.OffsetsSize, p + r,
                v.GarbageSize, p, v.Num)
  BY <1>1, FieldsChanged
<1>3. /\ p \in Nat /\ p # 0 /\ v.Num \in Nat /\ v.Offsets \in [0 .. v.OffsetsSize - 1 -> Nat]
      /\ i \in 0 .. v.OffsetsSize - 1 /\ \A j \in 0 .. v.Num - 1 : j \in 0 .. v.OffsetsSize - 1
  <2>1. /\ p \in Nat /\ v.Num \in Nat /\ v.Offsets \in [0 .. v.OffsetsSize - 1 -> Nat]
        /\ \A j \in 0 .. v.Num - 1 : j \in 0 .. v.OffsetsSize - 1
        /\ \A j \in Used(v) : room[j] \in Nat
    BY PoolFacts
  <2>2. CountOf(room, Used(v) \ {i}) \in Nat
    BY <2>1, CountWithout
  <2>3. p # 0
    <3> HIDE DEF p
    <3>1. v.GarbageSize + CountOf(room, Used(v) \ {i}) + w <= p /\ p \in Nat
      BY <2>1 DEF p
    <3> QED BY <1>1, <2>2, <3>1
  <2> HIDE DEF p
  <2> QED BY <2>1, <2>3
<1> HIDE DEF mid
<1>4. Used(mid) = Used(v) \cup {i}
  <2>1. mid.Num = v.Num /\ \A j \in 0 .. v.Num - 1 : mid.Offsets[j] = IF j = i THEN p ELSE v.Offsets[j]
    BY <1>2, <1>3 DEF HasFields
  <2> QED BY <1>3, <2>1 DEF Used
<1>5. ASSUME NEW im, NEW buf,
             buf \in [0 .. v.BufferSize - 1 -> V],
             \A k \in 0 .. r - 1 : buf[p + k] = im[k],
             \A q \in 0 .. v.BufferSize - 1 : q < p \/ p + r <= q => buf[q] = v.Buffer[q]
      PROVE  PoolInv(WithBuffer(mid, buf), V, w, empty, [room EXCEPT ![i] = r], [img EXCEPT ![i] = im])
  <2> DEFINE u == WithBuffer(mid, buf)
  <2>1. HasFields(u, buf, v.BufferSize, [v.Offsets EXCEPT ![i] = p], v.OffsetsSize, p + r,
                  v.GarbageSize, p, v.Num)
    BY <1>2, BufferOf
  <2> HIDE DEF u
  <2>3. PutAtEnd(v, u, V, w, room, i, r, im)
    <3>1. SameSizes(v, u)
      BY <2>1 DEF SameSizes, HasFields
    <3>2. WrittenAt(v, u, V, v.DataSize, r, im)
      BY <1>5, <2>1 DEF WrittenAt, HasFields
    <3> QED BY <1>1, <2>1, <3>1, <3>2 DEF PutAtEnd, HasFields
  <2>4. PoolInv(u, V, w, empty, [room EXCEPT ![i] = r], [img EXCEPT ![i] = im])
    BY <2>3, EndPut
  <2> QED BY <2>4 DEF u
<1>6. PutAt(mid, p).pool = mid /\ PutAt(mid, p).at = p
  BY DEF PutAt
<1>7. mid.Buffer = v.Buffer /\ mid.BufferSize = v.BufferSize /\ mid.Num = v.Num
  BY <1>2 DEF HasFields
<1>8. GoodPlace(v, PutAt(mid, p), V, w, empty, room, img, i, r)
  <2> HIDE DEF p
  <2>1. p + r <= v.BufferSize
    BY DEF p
  <2> QED BY <1>1, <1>3, <1>4, <1>5, <1>6, <1>7, <2>1 DEF GoodPlace
<1> QED BY <1>8 DEF mid

LEMMA EndAlloc ==
    ASSUME NEW m, NEW V, NEW w \in Nat \ {0}, NEW empty, NEW room, NEW img,
           PoolInv(m, V, w, empty, room, img), DOMAIN room = 0 .. m.Num - 1, DOMAIN img = 0 .. m.Num - 1,
           m.BufferSize > 0 => m.DataSize > 0,
           NEW i \in 0 .. m.Num - 1, NEW r \in Nat \ {0}, NEW v,
           m.DataSize + r > m.BufferSize =>
              /\ Collected(MoreGarbage(m, i, room), v, V, w, empty, room)
              /\ m.DataSize + r + w <= v.BufferSize
    PROVE  GoodPlace(m, AllocEnd(m, i, r, room, v), V, w, empty, room, img, i, r)
<1> DEFINE g == MoreGarbage(m, i, room)
<1>0. Layout(m, V, w, empty, room, img)
  BY DEF PoolInv
<1>1. /\ m.Num \in Nat /\ m.BufferSize \in Nat /\ m.DataSize \in Nat /\ m.GarbageSize \in Nat
      /\ \A j \in Used(m) : room[j] \in Nat
      /\ IsPool(m)
  BY <1>0, PoolFacts DEF Layout, PoolShape
<1>2. HasFields(g, m.Buffer, m.BufferSize, m.Offsets, m.OffsetsSize, m.DataSize,
                IF m.Offsets[i] = 0 THEN m.GarbageSize ELSE m.GarbageSize + room[i], m.Top, m.Num)
  <2>1. HasFields(m, m.Buffer, m.BufferSize, m.Offsets, m.OffsetsSize, m.DataSize,
                  m.GarbageSize, m.Top, m.Num)
    BY <1>1 DEF HasFields
  <2>2. HasFields(WithGarbage(m, m.GarbageSize + room[i]), m.Buffer, m.BufferSize, m.Offsets,
                  m.OffsetsSize, m.DataSize, m.GarbageSize + room[i], m.Top, m.Num)
    BY <1>1, FieldsChanged
  <2> QED BY <2>1, <2>2 DEF MoreGarbage
<1>9. /\ IsPool(g) /\ g.Buffer = m.Buffer /\ g.BufferSize = m.BufferSize /\ g.Offsets = m.Offsets
      /\ g.OffsetsSize = m.OffsetsSize /\ g.DataSize = m.DataSize /\ g.Top = m.Top /\ g.Num = m.Num
      /\ i \in Used(m) => g.GarbageSize = m.GarbageSize + room[i]
      /\ i \notin Used(m) => g.GarbageSize = m.GarbageSize
  <2> HIDE DEF g
  <2> QED BY <1>2 DEF Used, HasFields
<1>3. Used(g) = Used(m)
  BY <1>9 DEF Used
<1> HIDE DEF g
<1>4. Layout(g, V, w, empty, room, img)
  <2>1. g.GarbageSize \in Nat
    BY <1>1, <1>9
  <2>2. PoolShape(g, V) /\ Headed(g, w, empty)
    BY <1>0, <1>9, <2>1 DEF Layout, PoolShape, Headed
  <2>3. Placed(g, w, room) /\ Content(g, room, img)
    BY <1>0, <1>9, <1>3 DEF Layout, Placed, Content
  <2> QED BY <2>2, <2>3 DEF Layout
<1>5. /\ CountOf(room, Used(m) \ {i}) \in Nat /\ CountOf(room, Used(m)) \in Nat
      /\ i \in Used(m) => CountOf(room, Used(m)) = CountOf(room, Used(m) \ {i}) + room[i]
      /\ i \notin Used(m) => CountOf(room, Used(m)) = CountOf(room, Used(m) \ {i})
  BY <1>1, CountWithout
<1>6. m.DataSize # 0 => g.GarbageSize + CountOf(room, Used(m) \ {i}) + w <= m.DataSize
  <2>1. m.DataSize # 0 => m.GarbageSize + CountOf(room, Used(m)) + w <= m.DataSize
    BY DEF PoolInv, Counted
  <2>2. i \in Used(m) => room[i] \in Nat
    BY <1>1
  <2>3. CASE i \in Used(m)
    BY <1>1, <1>9, <1>5, <2>1, <2>2, <2>3
  <2>4. CASE i \notin Used(m)
    BY <1>1, <1>9, <1>5, <2>1, <2>4
  <2> QED BY <2>3, <2>4
<1>7. CASE ~ (m.DataSize + r > m.BufferSize)
  <2>1. m.DataSize # 0 /\ m.DataSize + r <= m.BufferSize
    BY <1>1, <1>7
  <2>2. AllocEnd(m, i, r, room, v)
           = PutAt(WithLast(g, i, g.DataSize, g.DataSize + r), g.DataSize)
    BY <1>7 DEF AllocEnd, g
  <2>3. /\ g.GarbageSize + CountOf(room, Used(g) \ {i}) + w <= g.DataSize
        /\ g.DataSize + r <= g.BufferSize
    BY <1>9, <1>3, <1>6, <2>1
  <2>4. GoodPlace(g, PutAt(WithLast(g, i, g.DataSize, g.DataSize + r), g.DataSize), V, w, empty, room, img, i, r)
    BY <1>9, <1>4, <2>3, EndWrite
  <2> QED BY <1>9, <1>3, <2>2, <2>4, GoodFor
<1>8. CASE m.DataSize + r > m.BufferSize
  <2>1. Collected(g, v, V, w, empty, room) /\ m.DataSize + r + w <= v.BufferSize
    BY <1>8 DEF g
  <2>2. PoolInv(v, V, w, empty, room, img) /\ Used(v) = Used(m) /\ v.Num = m.Num
        /\ v.GarbageSize = 0 /\ v.DataSize = w + CountOf(room, Used(m)) /\ v.BufferSize \in Nat
    <3>1. PoolInv(v, V, w, empty, room, img) /\ Used(v) = Used(g)
      BY <1>4, <2>1, CollectOK
    <3>2. /\ v.Num = g.Num /\ v.GarbageSize = 0 /\ v.DataSize = w + CountOf(room, Used(g))
          /\ v.BufferSize \in Nat
      BY <2>1 DEF Collected
    <3> QED BY <1>9, <1>3, <3>1, <3>2
  <2>3. AllocEnd(m, i, r, room, v)
           = PutAt(WithLast(v, i, v.DataSize, v.DataSize + r), v.DataSize)
    BY <1>8 DEF AllocEnd
  <2>4. v.GarbageSize + CountOf(room, Used(v) \ {i}) + w <= v.DataSize
    <3>1. CountOf(room, Used(m) \ {i}) <= CountOf(room, Used(m))
      <4>1. i \in Used(m) => room[i] \in Nat
        BY <1>1
      <4> QED BY <1>5, <4>1
    <3> QED BY <1>5, <2>2, <3>1
  <2>5. v.DataSize + r <= v.BufferSize
    <3>1. CountOf(room, Used(m)) <= m.DataSize
      <4>1. CASE m.DataSize = 0
        <5>1. Used(m) = {}
          <6>1. \A j \in Used(m) : /\ m.Offsets[j] \in Nat /\ room[j] \in Nat \ {0}
                                   /\ m.Offsets[j] + room[j] <= m.DataSize
            BY <1>0, PoolFacts
          <6> QED BY <4>1, <6>1
        <5>2. CountOf(room, {}) = 0
          <6>1. CellsOf(room, {}) = {}
            BY DEF CellsOf
          <6> QED BY <6>1, FS_EmptySet DEF CountOf
        <5> QED BY <4>1, <5>1, <5>2
      <4>2. CASE m.DataSize # 0
        <5>1. m.GarbageSize + CountOf(room, Used(m)) + w <= m.DataSize
          BY <4>2 DEF PoolInv, Counted
        <5> QED BY <1>1, <1>5, <5>1
      <4> QED BY <4>1, <4>2
    <3> QED BY <1>1, <1>5, <2>1, <2>2, <3>1
  <2>6. GoodPlace(v, PutAt(WithLast(v, i, v.DataSize, v.DataSize + r), v.DataSize), V, w, empty, room, img, i, r)
    <3>1. Layout(v, V, w, empty, room, img)
      BY <2>2 DEF PoolInv
    <3> QED BY <2>2, <2>4, <2>5, <3>1, EndWrite
  <2> QED BY <2>2, <2>3, <2>6, GoodFor
<1> QED BY <1>7, <1>8

Allocated(m, i, r, room, v1, v2) ==
    IF m.Offsets[i] # 0 /\ m.Offsets[i] = m.Top THEN AllocTop(m, r, v1)
    ELSE IF m.Offsets[i] # 0 /\ r <= room[i] THEN AllocPlace(m, i, r, room)
    ELSE AllocEnd(m, i, r, room, v2)

\* The string at Top outgrows the buffer only if no higher number is in use.
GrowsLast(m, i, r) ==
    m.Offsets[i] # 0 /\ m.Offsets[i] = m.Top /\ m.Top + r > m.BufferSize =>
        \A j \in i + 1 .. m.Num - 1 : m.Offsets[j] = 0

(* Wherever Allocate puts string i, the pool stays good; the string at Top *)
(* may outgrow the buffer only if it has the highest number (rule "grow"), *)
(* and there must be the first cells (rule "clear").                       *)
LEMMA AllocOK ==
    ASSUME NEW m, NEW V, NEW w \in Nat \ {0}, NEW empty, NEW room, NEW img,
           PoolInv(m, V, w, empty, room, img), DOMAIN room = 0 .. m.Num - 1, DOMAIN img = 0 .. m.Num - 1,
           m.BufferSize > 0 => m.DataSize > 0,
           NEW i \in 0 .. m.Num - 1, NEW r \in Nat \ {0}, NEW v1, NEW v2,
           GrowsLast(m, i, r),
           Collected(m, v1, V, w, empty, room) /\ m.Top + r <= v1.BufferSize,
           /\ Collected(MoreGarbage(m, i, room), v2, V, w, empty, room)
           /\ m.DataSize + r + w <= v2.BufferSize
    PROVE  GoodPlace(m, Allocated(m, i, r, room, v1, v2), V, w, empty, room, img, i, r)
<1>0. Layout(m, V, w, empty, room, img)
  BY DEF PoolInv
<1>1. m.Num \in Nat /\ \A j \in Used(m) : room[j] \in Nat
  BY <1>0, PoolFacts
<1>2. CASE m.Offsets[i] # 0 /\ m.Offsets[i] = m.Top
  <2>1. i \in Used(m)
    BY <1>2 DEF Used
  <2>2. m.Top + r > m.BufferSize => \A j \in Used(m) : j <= i
    <3> SUFFICES ASSUME m.Top + r > m.BufferSize, NEW j \in Used(m) PROVE j <= i
      OBVIOUS
    <3>1. \A k \in i + 1 .. m.Num - 1 : m.Offsets[k] = 0
      BY <1>2 DEF GrowsLast
    <3> QED BY <1>1, <3>1 DEF Used
  <2>3. GoodPlace(m, AllocTop(m, r, v1), V, w, empty, room, img, i, r)
    BY <1>2, <2>1, <2>2, TopAlloc
  <2> QED BY <1>2, <2>3 DEF Allocated
<1>3. CASE ~ (m.Offsets[i] # 0 /\ m.Offsets[i] = m.Top) /\ m.Offsets[i] # 0 /\ r <= room[i]
  <2>1. i \in Used(m) /\ m.Offsets[i] # m.Top
    BY <1>3 DEF Used
  <2>2. GoodPlace(m, AllocPlace(m, i, r, room), V, w, empty, room, img, i, r)
    BY <1>3, <2>1, PlaceAlloc
  <2> QED BY <1>3, <2>2 DEF Allocated
<1>4. CASE ~ (m.Offsets[i] # 0 /\ m.Offsets[i] = m.Top) /\ ~ (m.Offsets[i] # 0 /\ r <= room[i])
  <2>1. GoodPlace(m, AllocEnd(m, i, r, room, v2), V, w, empty, room, img, i, r)
    BY EndAlloc
  <2> QED BY <1>4, <2>1 DEF Allocated
<1> QED BY <1>2, <1>3, <1>4

-----------------------------------------------------------------------------
(* More numbers: u is m with a longer array of offsets.                    *)
Numbered(m, u) ==
    /\ IsPool(u) /\ u.Buffer = m.Buffer /\ u.BufferSize = m.BufferSize
    /\ u.DataSize = m.DataSize /\ u.GarbageSize = m.GarbageSize /\ u.Top = m.Top
    /\ u.OffsetsSize \in Nat /\ m.OffsetsSize <= u.OffsetsSize
    /\ u.Num \in Nat /\ m.Num <= u.Num /\ u.Num <= u.OffsetsSize
    /\ u.Offsets = [j \in 0 .. u.OffsetsSize - 1 |->
                       IF j < m.OffsetsSize THEN m.Offsets[j] ELSE 0]

LEMMA NumberedOK ==
    ASSUME NEW m, NEW V, NEW w, NEW empty, NEW room, NEW img,
           PoolInv(m, V, w, empty, room, img), NEW u, Numbered(m, u)
    PROVE  PoolInv(u, V, w, empty, room, img) /\ Used(u) = Used(m)
<1>1. /\ m.Num \in Nat /\ m.OffsetsSize \in Nat /\ m.Num <= m.OffsetsSize
      /\ m.Offsets \in [0 .. m.OffsetsSize - 1 -> Nat]
      /\ m.BufferSize \in Nat /\ m.Buffer \in [0 .. m.BufferSize - 1 -> V]
      /\ m.DataSize \in Nat /\ m.GarbageSize \in Nat /\ m.Top \in Nat /\ m.DataSize <= m.BufferSize
      /\ \A j \in 0 .. m.OffsetsSize - 1 : j >= m.Num => m.Offsets[j] = 0
  BY DEF PoolInv, Layout, PoolShape
<1>2. /\ IsPool(u) /\ u.Buffer = m.Buffer /\ u.BufferSize = m.BufferSize
      /\ u.DataSize = m.DataSize /\ u.GarbageSize = m.GarbageSize /\ u.Top = m.Top
      /\ u.OffsetsSize \in Nat /\ m.OffsetsSize <= u.OffsetsSize
      /\ u.Num \in Nat /\ m.Num <= u.Num /\ u.Num <= u.OffsetsSize
  BY DEF Numbered
<1>3. \A j \in 0 .. u.OffsetsSize - 1 : u.Offsets[j] = IF j < m.OffsetsSize THEN m.Offsets[j] ELSE 0
  BY DEF Numbered
<1>4. \A j \in 0 .. u.OffsetsSize - 1 : j < m.OffsetsSize => j \in 0 .. m.OffsetsSize - 1 /\ m.Offsets[j] \in Nat
  BY <1>1
<1>5. u.Offsets \in [0 .. u.OffsetsSize - 1 -> Nat]
  BY <1>4 DEF Numbered
<1>6. \A j \in 0 .. u.OffsetsSize - 1 : j >= m.Num => u.Offsets[j] = 0
  BY <1>1, <1>3, <1>4
<1>7. Used(u) = Used(m) /\ \A j \in Used(m) : u.Offsets[j] = m.Offsets[j]
  <2>1. ASSUME NEW j \in Used(u) PROVE j \in Used(m) /\ u.Offsets[j] = m.Offsets[j]
    <3>1. j \in 0 .. u.OffsetsSize - 1 /\ u.Offsets[j] # 0 /\ j \in 0 .. u.Num - 1
      BY <1>2 DEF Used
    <3>2. ~ (j >= m.Num)
      BY <1>6, <3>1
    <3>3. j \in 0 .. m.Num - 1 /\ j < m.OffsetsSize
      BY <1>1, <3>1, <3>2
    <3> QED BY <1>3, <3>1, <3>3 DEF Used
  <2>2. ASSUME NEW j \in Used(m) PROVE j \in Used(u) /\ u.Offsets[j] = m.Offsets[j]
    <3>1. j \in 0 .. m.Num - 1 /\ m.Offsets[j] # 0
      BY DEF Used
    <3>2. j \in 0 .. u.Num - 1 /\ j \in 0 .. u.OffsetsSize - 1 /\ j < m.OffsetsSize
      BY <1>1, <1>2, <3>1
    <3> QED BY <1>3, <3>1, <3>2 DEF Used
  <2> QED BY <2>1, <2>2
<1>8. \A j \in 0 .. u.OffsetsSize - 1 : j >= u.Num => u.Offsets[j] = 0
  BY <1>1, <1>2, <1>6
<1>9. PoolShape(u, V)
  BY <1>1, <1>2, <1>5, <1>8 DEF PoolShape
<1>10. Headed(u, w, empty) /\ Placed(u, w, room) /\ Content(u, room, img) /\ Counted(u, w, room)
  <2>1. Headed(u, w, empty)
    BY <1>2 DEF PoolInv, Layout, Headed
  <2>2. Placed(u, w, room)
    BY <1>2, <1>7 DEF PoolInv, Layout, Placed
  <2>3. Content(u, room, img)
    BY <1>2, <1>7 DEF PoolInv, Layout, Content
  <2>4. Counted(u, w, room)
    BY <1>2, <1>7 DEF PoolInv, Counted
  <2> QED BY <2>1, <2>2, <2>3, <2>4
<1> QED BY <1>7, <1>9, <1>10 DEF PoolInv, Layout

(* Clear: no strings, no data.                                             *)
Cleared(m, u) ==
    /\ SameSizes(m, u) /\ u.Buffer = m.Buffer /\ u.Top = m.Top
    /\ u.DataSize = 0 /\ u.GarbageSize = 0
    /\ u.Offsets = [j \in 0 .. m.OffsetsSize - 1 |-> IF j < m.Num THEN 0 ELSE m.Offsets[j]]

LEMMA ClearedOK ==
    ASSUME NEW m, NEW V, NEW w, NEW empty, NEW room, NEW img, NEW room2, NEW img2,
           PoolInv(m, V, w, empty, room, img), NEW u, Cleared(m, u)
    PROVE  PoolInv(u, V, w, empty, room2, img2) /\ Used(u) = {}
<1>1. /\ m.Num \in Nat /\ m.OffsetsSize \in Nat /\ m.Num <= m.OffsetsSize
      /\ m.BufferSize \in Nat /\ m.Buffer \in [0 .. m.BufferSize - 1 -> V] /\ m.Top \in Nat
      /\ \A j \in 0 .. m.OffsetsSize - 1 : j >= m.Num => m.Offsets[j] = 0
  BY DEF PoolInv, Layout, PoolShape
<1>2. /\ IsPool(u) /\ u.Num = m.Num /\ u.OffsetsSize = m.OffsetsSize /\ u.BufferSize = m.BufferSize
      /\ u.Buffer = m.Buffer /\ u.Top = m.Top /\ u.DataSize = 0 /\ u.GarbageSize = 0
  BY DEF Cleared, SameSizes
<1>3. u.Offsets = [j \in 0 .. m.OffsetsSize - 1 |-> 0]
  <2>1. \A j \in 0 .. m.OffsetsSize - 1 : (IF j < m.Num THEN 0 ELSE m.Offsets[j]) = 0
    BY <1>1
  <2> QED BY <2>1 DEF Cleared
<1>4. Used(u) = {}
  <2>1. \A j \in 0 .. m.Num - 1 : j \in 0 .. m.OffsetsSize - 1
    BY <1>1
  <2> QED BY <1>2, <1>3, <2>1 DEF Used
<1>5. PoolShape(u, V)
  BY <1>1, <1>2, <1>3 DEF PoolShape
<1>6. Headed(u, w, empty)
  BY <1>2 DEF PoolInv, Layout, Headed
<1>7. Placed(u, w, room2) /\ Content(u, room2, img2) /\ Counted(u, w, room2)
  BY <1>2, <1>4 DEF Placed, Content, Counted
<1> QED BY <1>4, <1>5, <1>6, <1>7 DEF PoolInv, Layout

(* The strings of u, in the places of those of m, read img2.               *)
Rewritten(m, u, V, w, empty, room, img2) ==
    /\ SameSizes(m, u) /\ u.Offsets = m.Offsets /\ u.Top = m.Top
    /\ u.DataSize = m.DataSize /\ u.GarbageSize = m.GarbageSize
    /\ u.Buffer \in [0 .. m.BufferSize - 1 -> V]
    /\ Headed(u, w, empty) /\ Content(u, room, img2)

LEMMA RewrittenOK ==
    ASSUME NEW m, NEW V, NEW w, NEW empty, NEW room, NEW img, NEW img2,
           PoolInv(m, V, w, empty, room, img), NEW u, Rewritten(m, u, V, w, empty, room, img2)
    PROVE  PoolInv(u, V, w, empty, room, img2) /\ Used(u) = Used(m)
<1>1. /\ IsPool(u) /\ u.Num = m.Num /\ u.OffsetsSize = m.OffsetsSize /\ u.BufferSize = m.BufferSize
      /\ u.Offsets = m.Offsets /\ u.Top = m.Top
      /\ u.DataSize = m.DataSize /\ u.GarbageSize = m.GarbageSize
      /\ u.Buffer \in [0 .. m.BufferSize - 1 -> V]
      /\ Headed(u, w, empty) /\ Content(u, room, img2)
  BY DEF Rewritten, SameSizes
<1>2. Used(u) = Used(m)
  BY <1>1 DEF Used
<1>3. PoolShape(u, V)
  BY <1>1 DEF PoolInv, Layout, PoolShape
<1>4. Placed(u, w, room)
  BY <1>1, <1>2 DEF PoolInv, Layout, Placed
<1>5. Counted(u, w, room)
  BY <1>1, <1>2 DEF PoolInv, Counted
<1> QED BY <1>1, <1>2, <1>3, <1>4, <1>5 DEF PoolInv, Layout

-----------------------------------------------------------------------------
(* Garbage collection, as an operator.                                     *)
BlockIn(m, w, room, i) == PlaceIn(m, w, room, i) .. PlaceIn(m, w, room, i) + room[i] - 1

Gathered(m, w, empty, room, size, junk) ==
    PoolOf([q \in 0 .. size - 1 |->
               IF q < w THEN empty[q]
               ELSE IF \E i \in Used(m) : q \in BlockIn(m, w, room, i)
               THEN LET i == CHOOSE i \in Used(m) : q \in BlockIn(m, w, room, i)
                    IN  m.Buffer[m.Offsets[i] + q - PlaceIn(m, w, room, i)]
               ELSE junk],
           size,
           [i \in 0 .. m.OffsetsSize - 1 |-> IF i \in Used(m) THEN PlaceIn(m, w, room, i) ELSE 0],
           m.OffsetsSize, w + CountOf(room, Used(m)), 0,
           IF Used(m) = {} THEN w ELSE PlaceIn(m, w, room, Max(Used(m))), m.Num)

LEMMA InBlock ==
    ASSUME NEW p \in Nat, NEW c \in Nat, NEW q \in p .. p + c - 1, NEW o \in Nat, NEW d \in Nat,
           NEW e \in Nat, o + c <= d, d <= e
    PROVE  o + q - p \in 0 .. e - 1
OBVIOUS

LEMMA AtBlock ==
    ASSUME NEW p \in Nat, NEW c \in Nat, NEW k \in 0 .. c - 1, NEW o \in Nat, NEW e \in Nat, p + c <= e
    PROVE  p + k \in p .. p + c - 1 /\ p + k \in 0 .. e - 1 /\ o + (p + k) - p = o + k
OBVIOUS

LEMMA OneBlock ==
    ASSUME NEW m, NEW V, NEW w \in Nat \ {0}, NEW empty, NEW room, NEW img,
           Layout(m, V, w, empty, room, img), NEW i \in Used(m), NEW q \in BlockIn(m, w, room, i)
    PROVE  /\ q \in Nat /\ w <= q
           /\ \A j \in Used(m) : q \in BlockIn(m, w, room, j) => j = i
<1>1. /\ m.Num \in Nat /\ \A j \in Used(m) : room[j] \in Nat
      /\ Used(m) \subseteq 0 .. m.Num - 1
  BY PoolFacts
<1>2. PlaceIn(m, w, room, i) \in Nat /\ w <= PlaceIn(m, w, room, i)
  BY <1>1, PlacesApart
<1>3. room[i] \in Nat
  BY <1>1
<1>4. q \in Nat /\ w <= q
  BY <1>2, <1>3 DEF BlockIn
<1>5. ASSUME NEW j \in Used(m), q \in BlockIn(m, w, room, j), j # i PROVE FALSE
  <2>1. i < j \/ j < i
    BY <1>1, <1>5
  <2>2. /\ i < j => PlaceIn(m, w, room, i) + room[i] <= PlaceIn(m, w, room, j)
        /\ j < i => PlaceIn(m, w, room, j) + room[j] <= PlaceIn(m, w, room, i)
        /\ PlaceIn(m, w, room, j) \in Nat
    BY <1>1, PlacesApart
  <2>3. room[j] \in Nat
    BY <1>1
  <2> QED BY <1>2, <1>3, <1>4, <1>5, <2>1, <2>2, <2>3 DEF BlockIn
<1> QED BY <1>4, <1>5

LEMMA GatheredOK ==
    ASSUME NEW m, NEW V, NEW w \in Nat \ {0}, NEW empty, NEW room, NEW img,
           Layout(m, V, w, empty, room, img), \A k \in 0 .. w - 1 : empty[k] \in V,
           NEW size \in Nat, w + CountOf(room, Used(m)) <= size, NEW junk \in V
    PROVE  Collected(m, Gathered(m, w, empty, room, size, junk), V, w, empty, room)
<1> DEFINE u == Gathered(m, w, empty, room, size, junk)
           Inside(q) == \E i \in Used(m) : q \in BlockIn(m, w, room, i)
           Of(q) == CHOOSE i \in Used(m) : q \in BlockIn(m, w, room, i)
           FromImage(q) == IF q < w THEN empty[q]
                      ELSE IF Inside(q) THEN m.Buffer[m.Offsets[Of(q)] + q - PlaceIn(m, w, room, Of(q))]
                      ELSE junk
<1>1. /\ m.Num \in Nat /\ m.OffsetsSize \in Nat /\ m.BufferSize \in Nat /\ m.DataSize \in Nat
      /\ m.DataSize <= m.BufferSize
      /\ \A j \in Used(m) : /\ room[j] \in Nat \ {0} /\ room[j] \in Nat /\ m.Offsets[j] \in Nat
                            /\ m.Offsets[j] + room[j] <= m.DataSize
      /\ m.Buffer \in [0 .. m.BufferSize - 1 -> V]
  BY PoolFacts DEF Layout, PoolShape
<1>2. CountOf(room, Used(m)) \in Nat
  BY <1>1, CountWithout
<1>3. HasFields(u, [q \in 0 .. size - 1 |-> FromImage(q)], size,
                [i \in 0 .. m.OffsetsSize - 1 |-> IF i \in Used(m) THEN PlaceIn(m, w, room, i) ELSE 0],
                m.OffsetsSize, w + CountOf(room, Used(m)), 0,
                IF Used(m) = {} THEN w ELSE PlaceIn(m, w, room, Max(Used(m))), m.Num)
  BY FieldsOf DEF Gathered
<1>4. ASSUME NEW i \in Used(m), NEW q \in BlockIn(m, w, room, i)
      PROVE  /\ FromImage(q) = m.Buffer[m.Offsets[i] + q - PlaceIn(m, w, room, i)]
             /\ FromImage(q) \in V
  <2>1. /\ q \in Nat /\ w <= q
        /\ \A j \in Used(m) : q \in BlockIn(m, w, room, j) => j = i
    BY OneBlock
  <2>2. Inside(q) /\ Of(q) = i
    BY <2>1
  <2>3. ~ (q < w)
    BY <2>1
  <2>4. FromImage(q) = m.Buffer[m.Offsets[i] + q - PlaceIn(m, w, room, i)]
    <3> HIDE DEF Inside, Of
    <3> QED BY <2>2, <2>3
  <2>5. m.Offsets[i] + q - PlaceIn(m, w, room, i) \in 0 .. m.BufferSize - 1
    <3>1. PlaceIn(m, w, room, i) \in Nat
      BY <1>1, PlacesApart
    <3> QED BY <1>1, <3>1, InBlock DEF BlockIn
  <2> HIDE DEF Cell
  <2> QED BY <1>1, <2>4, <2>5
<1>5. \A q \in 0 .. size - 1 : FromImage(q) \in V
  <2> SUFFICES ASSUME NEW q \in 0 .. size - 1 PROVE FromImage(q) \in V
    OBVIOUS
  <2>1. CASE Inside(q)
    <3>1. PICK i \in Used(m) : q \in BlockIn(m, w, room, i)
      BY <2>1
    <3> HIDE DEF Cell, Inside
    <3> QED BY <1>4, <3>1
  <2>2. CASE ~ Inside(q)
    <3> HIDE DEF Inside
    <3>1. CASE q < w
      <4>1. q \in 0 .. w - 1
        BY <3>1
      <4> QED BY <3>1, <4>1
    <3>2. CASE ~ (q < w)
      BY <2>2, <3>2
    <3> QED BY <3>1, <3>2
  <2> QED BY <2>1, <2>2
<1>6. /\ u.Buffer = [q \in 0 .. size - 1 |-> FromImage(q)]
      /\ IsPool(u) /\ u.Num = m.Num /\ u.OffsetsSize = m.OffsetsSize /\ u.GarbageSize = 0
      /\ u.Offsets = [j \in 0 .. m.OffsetsSize - 1 |->
                         IF j \in Used(m) THEN PlaceIn(m, w, room, j) ELSE 0]
      /\ u.DataSize = w + CountOf(room, Used(m))
      /\ u.Top = IF Used(m) = {} THEN w ELSE PlaceIn(m, w, room, Max(Used(m)))
      /\ u.BufferSize = size
  BY <1>3 DEF HasFields
<1>7. \A k \in 0 .. w - 1 : FromImage(k) = empty[k]
  BY DEF Inside
<1> HIDE DEF u, Cell
<1>8. u.Buffer \in [0 .. size - 1 -> V]
  BY <1>5, <1>6
<1>9. \A k \in 0 .. w - 1 : u.Buffer[k] = empty[k]
  <2>1. \A k \in 0 .. w - 1 : k \in 0 .. size - 1
    BY <1>2
  <2> QED BY <1>6, <1>7, <2>1
<1>10. ASSUME NEW i \in Used(m), NEW k \in 0 .. room[i] - 1
       PROVE  u.Buffer[PlaceIn(m, w, room, i) + k] = m.Buffer[m.Offsets[i] + k]
  <2>1. /\ PlaceIn(m, w, room, i) \in Nat /\ w <= PlaceIn(m, w, room, i)
        /\ PlaceIn(m, w, room, i) + room[i] <= w + CountOf(room, Used(m))
    BY <1>1, PlacesApart
  <2> DEFINE q == PlaceIn(m, w, room, i) + k
  <2>2. q \in BlockIn(m, w, room, i) /\ q \in 0 .. size - 1
        /\ m.Offsets[i] + q - PlaceIn(m, w, room, i) = m.Offsets[i] + k
    <3>1. room[i] \in Nat /\ m.Offsets[i] \in Nat
      BY <1>1
    <3> DEFINE p == PlaceIn(m, w, room, i)
               c == room[i]
               o == m.Offsets[i]
    <3>2. p \in Nat /\ c \in Nat /\ o \in Nat /\ k \in 0 .. c - 1 /\ p + c <= w + CountOf(room, Used(m))
      BY <2>1, <3>1
    <3> HIDE DEF p, c, o
    <3>3. p + c <= size
      BY <1>2, <3>2
    <3>4. p + k \in p .. p + c - 1 /\ p + k \in 0 .. size - 1 /\ o + (p + k) - p = o + k
      BY <3>2, <3>3, AtBlock
    <3> QED BY <3>4 DEF p, c, o, BlockIn
  <2> HIDE DEF q
  <2>3. FromImage(q) = m.Buffer[m.Offsets[i] + q - PlaceIn(m, w, room, i)]
    BY <1>4, <2>2
  <2>4. u.Buffer[q] = m.Buffer[m.Offsets[i] + k]
    BY <1>6, <2>2, <2>3
  <2> QED BY <2>4 DEF q
<1>11. u.DataSize <= u.BufferSize /\ u.BufferSize \in Nat
  BY <1>6
<1>12. Collected(m, u, V, w, empty, room)
  BY <1>6, <1>8, <1>9, <1>10, <1>11 DEF Collected
<1> QED BY <1>12 DEF u

Refilled(m, buf, bs, o, t, d, g) ==
    [m EXCEPT !.Buffer = buf, !.BufferSize = bs, !.Offsets = o, !.Top = t, !.DataSize = d,
              !.GarbageSize = g]

LEMMA RefilledIs ==
    ASSUME NEW m, IsPool(m), NEW buf, NEW bs, NEW o, NEW t, NEW d, NEW g
    PROVE  Refilled(m, buf, bs, o, t, d, g) = PoolOf(buf, bs, o, m.OffsetsSize, d, g, t, m.Num)
<1> DEFINE B == m.Buffer
           BS == m.BufferSize
           O == m.Offsets
           OS == m.OffsetsSize
           D == m.DataSize
           G == m.GarbageSize
           T == m.Top
           N == m.Num
           m1 == [m EXCEPT !.Buffer = buf]
           m2 == [m1 EXCEPT !.BufferSize = bs]
           m3 == [m2 EXCEPT !.Offsets = o]
           m4 == [m3 EXCEPT !.Top = t]
           m5 == [m4 EXCEPT !.DataSize = d]
           m6 == [m5 EXCEPT !.GarbageSize = g]
<1>1. m = PoolOf(B, BS, O, OS, D, G, T, N)
  BY ByFields
<1>2. Refilled(m, buf, bs, o, t, d, g) = m6
  BY DEF Refilled
<1> HIDE DEF B, BS, O, OS, D, G, T, N
<1>3. m1 = PoolOf(buf, BS, O, OS, D, G, T, N)
  BY <1>1 DEF PoolOf
<1> HIDE DEF m1
<1>4. m2 = PoolOf(buf, bs, O, OS, D, G, T, N)
  BY <1>3 DEF PoolOf
<1> HIDE DEF m2
<1>5. m3 = PoolOf(buf, bs, o, OS, D, G, T, N)
  BY <1>4 DEF PoolOf
<1> HIDE DEF m3
<1>6. m4 = PoolOf(buf, bs, o, OS, D, G, t, N)
  BY <1>5 DEF PoolOf
<1> HIDE DEF m4
<1>7. m5 = PoolOf(buf, bs, o, OS, d, G, t, N)
  BY <1>6 DEF PoolOf
<1> HIDE DEF m5
<1>8. m6 = PoolOf(buf, bs, o, OS, d, g, t, N)
  BY <1>7 DEF PoolOf
<1> HIDE DEF m6
<1> QED BY <1>2, <1>8 DEF OS, N

-----------------------------------------------------------------------------
(* The strings as cells: w = 1, the characters and a zero (StringPoolS and *)
(* StringPoolW); w = 2, a length word before them (StringPoolL).           *)
TCells(s, w) == [k \in 0 .. Len(s) + w - 1 |->
                    IF k < w - 1 THEN Len(s)
                    ELSE IF k - w + 1 < Len(s) THEN s[k - w + 2] ELSE NUL]
TRoom(str, w) == [j \in DOMAIN str |-> Len(str[j]) + w]
TImage(str, w) == [j \in DOMAIN str |-> TCells(str[j], w)]
TCellSet(C, w) == C \cup {NUL, Junk} \cup (IF w = 1 THEN {} ELSE 0 .. MaxLength)
TStrings(C, w) == {s \in Seq(C) : w = 1 \/ Len(s) <= MaxLength}

\* The strings of m are str.
IsText(m, str, C, w) == /\ DOMAIN str = 0 .. m.Num - 1
                        /\ \A j \in 0 .. m.Num - 1 : str[j] \in TStrings(C, w)
                        /\ Used(m) = {j \in 0 .. m.Num - 1 : str[j] # <<>>}

TLayout(m, str, C, w) ==
    /\ IsText(m, str, C, w)
    /\ Layout(m, TCellSet(C, w), w, TCells(<<>>, w), TRoom(str, w), TImage(str, w))
TPool(m, str, C, w) ==
    /\ IsText(m, str, C, w)
    /\ PoolInv(m, TCellSet(C, w), w, TCells(<<>>, w), TRoom(str, w), TImage(str, w))

LEMMA TCells1 ==
    ASSUME NEW C, NEW s \in Seq(C)
    PROVE  TCells(s, 1) = [k \in 0 .. Len(s) |-> IF k < Len(s) THEN s[k + 1] ELSE NUL]
<1>1. Len(s) \in Nat /\ Len(s) + 1 - 1 = Len(s) /\ 1 - 1 = 0
  OBVIOUS
<1>2. \A k \in 0 .. Len(s) : k - 1 + 1 = k /\ k - 1 + 2 = k + 1 /\ ~ (k < 0)
  BY <1>1
<1> QED BY <1>1, <1>2 DEF TCells

LEMMA TRooms ==
    ASSUME NEW m, NEW str, NEW C, NEW w \in Nat \ {0}, IsText(m, str, C, w)
    PROVE  /\ DOMAIN TRoom(str, w) = 0 .. m.Num - 1 /\ DOMAIN TImage(str, w) = 0 .. m.Num - 1
           /\ \A j \in 0 .. m.Num - 1 : /\ TRoom(str, w)[j] = Len(str[j]) + w /\ Len(str[j]) \in Nat
                                        /\ TRoom(str, w)[j] \in Nat \ {0}
                                        /\ TImage(str, w)[j] = TCells(str[j], w)
                                        /\ str[j] \in TStrings(C, w) /\ str[j] \in Seq(C)
<1>1. DOMAIN str = 0 .. m.Num - 1 /\ \A j \in 0 .. m.Num - 1 : str[j] \in TStrings(C, w)
  BY DEF IsText
<1>2. \A j \in 0 .. m.Num - 1 : str[j] \in Seq(C) /\ Len(str[j]) \in Nat
  BY <1>1 DEF TStrings
<1>3. \A j \in 0 .. m.Num - 1 : Len(str[j]) + w \in Nat \ {0}
  BY <1>2
<1> QED BY <1>1, <1>2, <1>3 DEF TRoom, TImage

\* A pool with more garbage has the same strings.
LEMMA TMoreGarbage ==
    ASSUME NEW m, NEW str, NEW C, NEW w \in Nat \ {0}, TLayout(m, str, C, w), NEW i \in 0 .. m.Num - 1
    PROVE  /\ TLayout(MoreGarbage(m, i, TRoom(str, w)), str, C, w)
           /\ Used(MoreGarbage(m, i, TRoom(str, w))) = Used(m)
           /\ MoreGarbage(m, i, TRoom(str, w)).DataSize = m.DataSize
           /\ MoreGarbage(m, i, TRoom(str, w)).BufferSize = m.BufferSize
<1> DEFINE room == TRoom(str, w)
           g == MoreGarbage(m, i, room)
<1>1. IsText(m, str, C, w) /\ Layout(m, TCellSet(C, w), w, TCells(<<>>, w), room, TImage(str, w))
  BY DEF TLayout
<1>2. IsPool(m) /\ m.GarbageSize \in Nat /\ room[i] \in Nat
  BY <1>1, TRooms DEF Layout, PoolShape
<1> HIDE DEF room
<1>3. /\ HasFields(g, m.Buffer, m.BufferSize, m.Offsets, m.OffsetsSize, m.DataSize,
                   g.GarbageSize, m.Top, m.Num)
      /\ g.GarbageSize \in Nat
  <2>1. HasFields(m, m.Buffer, m.BufferSize, m.Offsets, m.OffsetsSize, m.DataSize,
                  m.GarbageSize, m.Top, m.Num)
    BY <1>2 DEF HasFields
  <2>2. HasFields(WithGarbage(m, m.GarbageSize + room[i]), m.Buffer, m.BufferSize, m.Offsets,
                  m.OffsetsSize, m.DataSize, m.GarbageSize + room[i], m.Top, m.Num)
    BY <1>2, FieldsChanged
  <2> QED BY <1>2, <2>1, <2>2 DEF MoreGarbage, HasFields
<1>4. /\ IsPool(g) /\ g.Buffer = m.Buffer /\ g.BufferSize = m.BufferSize /\ g.Offsets = m.Offsets
      /\ g.OffsetsSize = m.OffsetsSize /\ g.DataSize = m.DataSize /\ g.Top = m.Top /\ g.Num = m.Num
      /\ g.GarbageSize \in Nat
  BY <1>3 DEF HasFields
<1> HIDE DEF g
<1>5. Used(g) = Used(m)
  BY <1>4 DEF Used
<1>6. Layout(g, TCellSet(C, w), w, TCells(<<>>, w), room, TImage(str, w))
  <2>1. PoolShape(g, TCellSet(C, w)) /\ Headed(g, w, TCells(<<>>, w))
    BY <1>1, <1>4 DEF Layout, PoolShape, Headed
  <2>2. Placed(g, w, room) /\ Content(g, room, TImage(str, w))
    BY <1>1, <1>4, <1>5 DEF Layout, Placed, Content
  <2> QED BY <2>1, <2>2 DEF Layout
<1>7. IsText(g, str, C, w)
  BY <1>1, <1>4, <1>5 DEF IsText
<1> QED BY <1>4, <1>5, <1>6, <1>7 DEF TLayout, room, g

\* Strings as TPool has them have room below the end of the data.
LEMMA TFits ==
    ASSUME NEW m, NEW str, NEW C, NEW w \in Nat \ {0}, TPool(m, str, C, w)
    PROVE  /\ CountOf(TRoom(str, w), Used(m)) \in Nat
           /\ CountOf(TRoom(str, w), Used(m)) <= m.DataSize
<1> DEFINE room == TRoom(str, w)
<1>1. /\ Layout(m, TCellSet(C, w), w, TCells(<<>>, w), room, TImage(str, w))
      /\ Counted(m, w, room)
  BY DEF TPool, PoolInv
<1>2. /\ m.Num \in Nat /\ m.DataSize \in Nat /\ m.GarbageSize \in Nat
      /\ \A j \in Used(m) : room[j] \in Nat /\ room[j] # 0 /\ m.Offsets[j] \in Nat
                            /\ m.Offsets[j] + room[j] <= m.DataSize
  BY <1>1, PoolFacts
<1>3. CountOf(room, Used(m)) \in Nat
  BY <1>2, CountWithout
<1>4. CASE m.DataSize = 0
  <2>1. Used(m) = {}
    BY <1>2, <1>4
  <2>2. CountOf(room, Used(m)) = 0
    <3>1. CellsOf(room, {}) = {}
      BY DEF CellsOf
    <3> QED BY <2>1, <3>1, FS_EmptySet DEF CountOf
  <2> QED BY <1>3, <1>4, <2>2
<1>5. CASE m.DataSize # 0
  <2>1. m.GarbageSize + CountOf(room, Used(m)) + w <= m.DataSize
    BY <1>1, <1>5 DEF Counted
  <2>2. CountOf(room, Used(m)) <= m.DataSize
    <3> HIDE DEF room
    <3> QED BY <1>2, <1>3, <2>1
  <2> QED BY <1>3, <2>2
<1> QED BY <1>4, <1>5

LEMMA TInLayout ==
    ASSUME NEW m, NEW str, NEW C, NEW w \in Nat \ {0}, TPool(m, str, C, w)
    PROVE  TLayout(m, str, C, w)
BY DEF TPool, TLayout, PoolInv

-----------------------------------------------------------------------------
(* More ways to change the fields of a pool.                               *)
WithErased(m, i, g) == [m EXCEPT !.GarbageSize = g, !.Offsets[i] = 0]
WithNumber(m, nn) == [m EXCEPT !.Num = nn]
WithOffsets(m, o, os) == [m EXCEPT !.Offsets = o, !.OffsetsSize = os]
WithCleared(m, o) == [m EXCEPT !.Offsets = o, !.DataSize = 0, !.GarbageSize = 0]
WithCell(m, p, c) == [m EXCEPT !.Buffer[p] = c]

LEMMA MoreFields ==
    ASSUME NEW m, IsPool(m), NEW i, NEW g, NEW nn, NEW o, NEW os, NEW p, NEW c
    PROVE  /\ HasFields(WithErased(m, i, g), m.Buffer, m.BufferSize, [m.Offsets EXCEPT ![i] = 0],
                        m.OffsetsSize, m.DataSize, g, m.Top, m.Num)
           /\ HasFields(WithNumber(m, nn), m.Buffer, m.BufferSize, m.Offsets, m.OffsetsSize,
                        m.DataSize, m.GarbageSize, m.Top, nn)
           /\ HasFields(WithOffsets(m, o, os), m.Buffer, m.BufferSize, o, os,
                        m.DataSize, m.GarbageSize, m.Top, m.Num)
           /\ HasFields(WithCleared(m, o), m.Buffer, m.BufferSize, o, m.OffsetsSize,
                        0, 0, m.Top, m.Num)
           /\ HasFields(WithCell(m, p, c), [m.Buffer EXCEPT ![p] = c], m.BufferSize, m.Offsets,
                        m.OffsetsSize, m.DataSize, m.GarbageSize, m.Top, m.Num)
<1> DEFINE B == m.Buffer
           BS == m.BufferSize
           O == m.Offsets
           OS == m.OffsetsSize
           D == m.DataSize
           G == m.GarbageSize
           T == m.Top
           N == m.Num
<1>1. m = PoolOf(B, BS, O, OS, D, G, T, N)
  BY ByFields
<1> HIDE DEF B, BS, O, OS, D, G, T, N
<1>2. [m EXCEPT !.GarbageSize = g, !.Offsets[i] = 0] = PoolOf(B, BS, [O EXCEPT ![i] = 0], OS, D, g, T, N)
  <2> DEFINE mid == [m EXCEPT !.GarbageSize = g]
  <2>1. [m EXCEPT !.GarbageSize = g, !.Offsets[i] = 0] = [mid EXCEPT !.Offsets[i] = 0]
    OBVIOUS
  <2>2. mid = PoolOf(B, BS, O, OS, D, g, T, N)
    BY <1>1 DEF PoolOf
  <2> HIDE DEF mid
  <2>3. [mid EXCEPT !.Offsets[i] = 0] = PoolOf(B, BS, [O EXCEPT ![i] = 0], OS, D, g, T, N)
    BY <2>2 DEF PoolOf
  <2> QED BY <2>1, <2>3
<1>3. [m EXCEPT !.Num = nn] = PoolOf(B, BS, O, OS, D, G, T, nn)
  BY <1>1 DEF PoolOf
<1>4. [m EXCEPT !.Offsets = o, !.OffsetsSize = os] = PoolOf(B, BS, o, os, D, G, T, N)
  <2> DEFINE mid == [m EXCEPT !.Offsets = o]
  <2>1. [m EXCEPT !.Offsets = o, !.OffsetsSize = os] = [mid EXCEPT !.OffsetsSize = os]
    OBVIOUS
  <2>2. mid = PoolOf(B, BS, o, OS, D, G, T, N)
    BY <1>1 DEF PoolOf
  <2> HIDE DEF mid
  <2>3. [mid EXCEPT !.OffsetsSize = os] = PoolOf(B, BS, o, os, D, G, T, N)
    BY <2>2 DEF PoolOf
  <2> QED BY <2>1, <2>3
<1>5. [m EXCEPT !.Offsets = o, !.DataSize = 0, !.GarbageSize = 0] = PoolOf(B, BS, o, OS, 0, 0, T, N)
  <2> DEFINE mid == [m EXCEPT !.Offsets = o]
             z == [mid EXCEPT !.DataSize = 0]
  <2>1. [m EXCEPT !.Offsets = o, !.DataSize = 0, !.GarbageSize = 0] = [z EXCEPT !.GarbageSize = 0]
    OBVIOUS
  <2>2. mid = PoolOf(B, BS, o, OS, D, G, T, N)
    BY <1>1 DEF PoolOf
  <2>3. z = PoolOf(B, BS, o, OS, 0, G, T, N)
    <3> HIDE DEF mid
    <3> QED BY <2>2 DEF PoolOf
  <2> HIDE DEF mid, z
  <2>4. [z EXCEPT !.GarbageSize = 0] = PoolOf(B, BS, o, OS, 0, 0, T, N)
    BY <2>3 DEF PoolOf
  <2> QED BY <2>1, <2>4
<1>6. [m EXCEPT !.Buffer[p] = c] = PoolOf([B EXCEPT ![p] = c], BS, O, OS, D, G, T, N)
  BY <1>1 DEF PoolOf
<1> QED BY <1>2, <1>3, <1>4, <1>5, <1>6, FieldsOf
        DEF WithErased, WithNumber, WithOffsets, WithCleared, WithCell, B, BS, O, OS, D, G, T, N

(* The array of offsets grows to z numbers or more; WithNum calls it.      *)
NumbersTo(m, z) ==
    IF z <= m.OffsetsSize THEN m
    ELSE LET least == m.OffsetsSize * 2 + AllocateSpace2
             size == IF z < least THEN least ELSE z
         IN  WithOffsets(m, [i \in 0 .. size - 1 |-> IF i < m.OffsetsSize THEN m.Offsets[i] ELSE 0],
                         size)
NumberTo(m, i) == IF i < m.Num THEN m ELSE NumbersTo(WithNumber(m, i + 1), i + 1)

LEMMA NumbersToIs ==
    ASSUME NEW m, IsPool(m), m.OffsetsSize \in Nat, NEW z \in Nat, NEW u, u = NumbersTo(m, z),
           m.Offsets \in [0 .. m.OffsetsSize - 1 -> Nat]
    PROVE  /\ HasFields(u, m.Buffer, m.BufferSize, u.Offsets, u.OffsetsSize, m.DataSize,
                        m.GarbageSize, m.Top, m.Num)
           /\ u.OffsetsSize \in Nat /\ m.OffsetsSize <= u.OffsetsSize /\ z <= u.OffsetsSize
           /\ u.Offsets = [j \in 0 .. u.OffsetsSize - 1 |->
                              IF j < m.OffsetsSize THEN m.Offsets[j] ELSE 0]
<1>1. CASE z <= m.OffsetsSize
  <2>1. u = m
    BY <1>1 DEF NumbersTo
  <2>2. m.Offsets = [j \in 0 .. m.OffsetsSize - 1 |-> IF j < m.OffsetsSize THEN m.Offsets[j] ELSE 0]
    OBVIOUS
  <2> QED BY <1>1, <2>1, <2>2 DEF HasFields
<1>2. CASE ~ (z <= m.OffsetsSize)
  <2> DEFINE least == m.OffsetsSize * 2 + AllocateSpace2
             size == IF z < least THEN least ELSE z
             o == [i \in 0 .. size - 1 |-> IF i < m.OffsetsSize THEN m.Offsets[i] ELSE 0]
  <2>1. u = WithOffsets(m, o, size)
    BY <1>2 DEF NumbersTo
  <2>2. AllocateSpace2 \in Nat
    BY StringsAssumption
  <2>3. size \in Nat /\ m.OffsetsSize <= size /\ z <= size
    BY <1>2, <2>2
  <2>4. HasFields(u, m.Buffer, m.BufferSize, o, size, m.DataSize, m.GarbageSize, m.Top, m.Num)
    <3> HIDE DEF size, o
    <3> QED BY <2>1, MoreFields
  <2>5. u.Offsets = o /\ u.OffsetsSize = size
    BY <2>4 DEF HasFields
  <2> HIDE DEF size
  <2> QED BY <2>3, <2>4, <2>5
<1> QED BY <1>1, <1>2

LEMMA NumbersToOK ==
    ASSUME NEW m, NEW V, NEW w, NEW empty, NEW room, NEW img,
           PoolInv(m, V, w, empty, room, img), NEW z \in Nat
    PROVE  Numbered(m, NumbersTo(m, z)) /\ NumbersTo(m, z).Num = m.Num
<1> DEFINE u == NumbersTo(m, z)
<1>1. /\ IsPool(m) /\ m.OffsetsSize \in Nat /\ m.Offsets \in [0 .. m.OffsetsSize - 1 -> Nat]
      /\ m.Num \in Nat /\ m.Num <= m.OffsetsSize
  BY DEF PoolInv, Layout, PoolShape
<1> HIDE DEF u
<1>2. /\ HasFields(u, m.Buffer, m.BufferSize, u.Offsets, u.OffsetsSize, m.DataSize,
                   m.GarbageSize, m.Top, m.Num)
      /\ u.OffsetsSize \in Nat /\ m.OffsetsSize <= u.OffsetsSize
      /\ u.Offsets = [j \in 0 .. u.OffsetsSize - 1 |->
                         IF j < m.OffsetsSize THEN m.Offsets[j] ELSE 0]
  BY <1>1, NumbersToIs DEF u
<1>3. m.Num <= u.OffsetsSize
  BY <1>1, <1>2
<1>4. Numbered(m, u) /\ u.Num = m.Num
  BY <1>1, <1>2, <1>3 DEF HasFields, Numbered
<1> QED BY <1>4 DEF u

LEMMA NumberToOK ==
    ASSUME NEW m, NEW V, NEW w, NEW empty, NEW room, NEW img,
           PoolInv(m, V, w, empty, room, img), NEW i \in Nat
    PROVE  /\ Numbered(m, NumberTo(m, i))
           /\ NumberTo(m, i).Num = IF i < m.Num THEN m.Num ELSE i + 1
           /\ i >= m.Num => NumberTo(m, i).Offsets[i] = 0
<1> DEFINE mid == WithNumber(m, i + 1)
           u == NumbersTo(mid, i + 1)
<1>1. /\ IsPool(m) /\ m.OffsetsSize \in Nat /\ m.Offsets \in [0 .. m.OffsetsSize - 1 -> Nat]
      /\ m.Num \in Nat /\ m.Num <= m.OffsetsSize
      /\ \A j \in 0 .. m.OffsetsSize - 1 : j >= m.Num => m.Offsets[j] = 0
  BY DEF PoolInv, Layout, PoolShape
<1>2. CASE i < m.Num
  <2>1. NumberTo(m, i) = m
    BY <1>2 DEF NumberTo
  <2>2. m.Offsets = [j \in 0 .. m.OffsetsSize - 1 |-> IF j < m.OffsetsSize THEN m.Offsets[j] ELSE 0]
    BY <1>1
  <2>3. ~ (i >= m.Num)
    BY <1>1, <1>2
  <2> QED BY <1>1, <1>2, <2>1, <2>2, <2>3 DEF Numbered
<1>3. CASE ~ (i < m.Num)
  <2>1. NumberTo(m, i) = u
    BY <1>3 DEF NumberTo
  <2>2. HasFields(mid, m.Buffer, m.BufferSize, m.Offsets, m.OffsetsSize, m.DataSize,
                  m.GarbageSize, m.Top, i + 1)
    BY <1>1, MoreFields
  <2> HIDE DEF mid
  <2>3. /\ IsPool(mid) /\ mid.OffsetsSize = m.OffsetsSize /\ mid.Offsets = m.Offsets
        /\ mid.Buffer = m.Buffer /\ mid.BufferSize = m.BufferSize /\ mid.DataSize = m.DataSize
        /\ mid.GarbageSize = m.GarbageSize /\ mid.Top = m.Top /\ mid.Num = i + 1
    BY <2>2 DEF HasFields
  <2> HIDE DEF u
  <2>4. i + 1 \in Nat
    OBVIOUS
  <2>5. /\ HasFields(u, m.Buffer, m.BufferSize, u.Offsets, u.OffsetsSize, m.DataSize,
                     m.GarbageSize, m.Top, i + 1)
        /\ u.OffsetsSize \in Nat /\ m.OffsetsSize <= u.OffsetsSize /\ i + 1 <= u.OffsetsSize
        /\ u.Offsets = [j \in 0 .. u.OffsetsSize - 1 |->
                           IF j < m.OffsetsSize THEN m.Offsets[j] ELSE 0]
    <3>1. /\ HasFields(u, mid.Buffer, mid.BufferSize, u.Offsets, u.OffsetsSize, mid.DataSize,
                     mid.GarbageSize, mid.Top, mid.Num)
          /\ u.OffsetsSize \in Nat /\ mid.OffsetsSize <= u.OffsetsSize /\ i + 1 <= u.OffsetsSize
          /\ u.Offsets = [j \in 0 .. u.OffsetsSize - 1 |->
                           IF j < mid.OffsetsSize THEN mid.Offsets[j] ELSE 0]
      BY <1>1, <2>3, <2>4, NumbersToIs DEF u
    <3> QED BY <2>3, <3>1
  <2>6. m.Num <= i + 1
    BY <1>1, <1>3
  <2>7. Numbered(m, u) /\ u.Num = i + 1
    BY <2>4, <2>5, <2>6 DEF HasFields, Numbered
  <2>8. u.Offsets[i] = 0
    <3>1. i \in 0 .. u.OffsetsSize - 1
      BY <2>5
    <3>2. i < m.OffsetsSize => m.Offsets[i] = 0
      <4>1. i < m.OffsetsSize => i \in 0 .. m.OffsetsSize - 1 /\ i >= m.Num
        BY <1>1, <1>3
      <4> QED BY <1>1, <4>1
    <3> QED BY <2>5, <3>1, <3>2
  <2> QED BY <1>3, <2>1, <2>7, <2>8
<1> QED BY <1>2, <1>3

-----------------------------------------------------------------------------
(* The strings after an operation.                                         *)
TextTo(str, nm, i) ==
    [j \in 0 .. (IF i < nm THEN nm ELSE i + 1) - 1 |-> IF j < nm THEN str[j] ELSE <<>>]
TextWith(str, nm, i, s) ==
    [j \in 0 .. (IF i < nm THEN nm ELSE i + 1) - 1 |->
        IF j = i THEN s ELSE IF j < nm THEN str[j] ELSE <<>>]

LEMMA TEmpty == ASSUME NEW C, NEW w PROVE <<>> \in TStrings(C, w)
<1>1. <<>> \in Seq(C) /\ Len(<<>>) = 0
  OBVIOUS
<1>2. 0 <= MaxLength
  BY StringsAssumption
<1> QED BY <1>1, <1>2 DEF TStrings

LEMMA TIsPool ==
    ASSUME NEW m, NEW str, NEW C, NEW w \in Nat \ {0}, TPool(m, str, C, w)
    PROVE  /\ IsPool(m) /\ m.Num \in Nat /\ m.BufferSize \in Nat /\ m.DataSize \in Nat
           /\ m.GarbageSize \in Nat /\ m.OffsetsSize \in Nat /\ m.Top \in Nat
           /\ m.Offsets \in [0 .. m.OffsetsSize - 1 -> Nat]
           /\ m.Num <= m.OffsetsSize /\ m.DataSize <= m.BufferSize
           /\ DOMAIN str = 0 .. m.Num - 1
           /\ \A j \in 0 .. m.Num - 1 : str[j] \in TStrings(C, w) /\ str[j] \in Seq(C)
                                        /\ (str[j] # <<>> <=> m.Offsets[j] # 0)
<1>1. IsText(m, str, C, w) /\ Layout(m, TCellSet(C, w), w, TCells(<<>>, w), TRoom(str, w), TImage(str, w))
  BY DEF TPool, PoolInv
<1>2. \A j \in 0 .. m.Num - 1 : str[j] # <<>> <=> m.Offsets[j] # 0
  BY <1>1 DEF IsText, Used
<1>3. \A j \in 0 .. m.Num - 1 : str[j] \in TStrings(C, w) /\ str[j] \in Seq(C)
  BY <1>1 DEF IsText, TStrings
<1>4. DOMAIN str = 0 .. m.Num - 1
  BY <1>1 DEF IsText
<1> QED BY <1>1, <1>2, <1>3, <1>4 DEF Layout, PoolShape

(* More numbers: the new strings are empty.                                *)
LEMMA TNumbered ==
    ASSUME NEW m, NEW str, NEW C, NEW w \in Nat \ {0}, TPool(m, str, C, w), NEW u, Numbered(m, u),
           NEW t, DOMAIN t = 0 .. u.Num - 1,
           \A j \in 0 .. u.Num - 1 : t[j] = IF j < m.Num THEN str[j] ELSE <<>>
    PROVE  TPool(u, t, C, w)
<1> DEFINE V == TCellSet(C, w)
           empty == TCells(<<>>, w)
<1>1. PoolInv(m, V, w, empty, TRoom(str, w), TImage(str, w)) /\ IsText(m, str, C, w)
  BY DEF TPool
<1>2. PoolInv(u, V, w, empty, TRoom(str, w), TImage(str, w)) /\ Used(u) = Used(m)
  <2> HIDE DEF V, empty
  <2> QED BY <1>1, NumberedOK
<1>3. u.Num \in Nat /\ m.Num <= u.Num /\ m.Num \in Nat
  BY TIsPool DEF Numbered
<1>4. \A j \in Used(m) : /\ j \in 0 .. m.Num - 1 /\ j \in 0 .. u.Num - 1 /\ j < m.Num
                         /\ t[j] = str[j] /\ j \in DOMAIN str /\ j \in DOMAIN t
  <2> SUFFICES ASSUME NEW j \in Used(m)
               PROVE  /\ j \in 0 .. m.Num - 1 /\ j \in 0 .. u.Num - 1 /\ j < m.Num
                      /\ t[j] = str[j] /\ j \in DOMAIN str /\ j \in DOMAIN t
    OBVIOUS
  <2>1. j \in 0 .. m.Num - 1
    BY DEF Used
  <2>2. j \in 0 .. u.Num - 1 /\ j < m.Num
    BY <1>3, <2>1
  <2>3. DOMAIN str = 0 .. m.Num - 1
    BY <1>1 DEF IsText
  <2> QED BY <2>1, <2>2, <2>3
<1>5. \A j \in Used(m) : TRoom(t, w)[j] = TRoom(str, w)[j] /\ TImage(t, w)[j] = TImage(str, w)[j]
  BY <1>4 DEF TRoom, TImage
<1>6. PoolInv(u, V, w, empty, TRoom(t, w), TImage(t, w))
  <2> HIDE DEF V, empty
  <2> QED BY <1>2, <1>5, SameRooms
<1>7. \A j \in 0 .. u.Num - 1 : t[j] \in TStrings(C, w)
  <2> SUFFICES ASSUME NEW j \in 0 .. u.Num - 1 PROVE t[j] \in TStrings(C, w)
    OBVIOUS
  <2>1. CASE j < m.Num
    <3>1. j \in 0 .. m.Num - 1
      BY <1>3, <2>1
    <3> QED BY <1>1, <2>1, <3>1 DEF IsText
  <2>2. CASE ~ (j < m.Num)
    BY <2>2, TEmpty
  <2> QED BY <2>1, <2>2
<1>8. Used(u) = {j \in 0 .. u.Num - 1 : t[j] # <<>>}
  <2>1. \A j \in 0 .. u.Num - 1 : j < m.Num <=> j \in 0 .. m.Num - 1
    BY <1>3
  <2>2. Used(m) = {j \in 0 .. m.Num - 1 : str[j] # <<>>}
    BY <1>1 DEF IsText
  <2> QED BY <1>2, <1>4, <2>1, <2>2
<1> QED BY <1>6, <1>7, <1>8 DEF TPool, IsText

LEMMA TSame ==
    ASSUME NEW m, NEW str, NEW C, NEW w \in Nat \ {0}, TPool(m, str, C, w),
           NEW t, DOMAIN t = 0 .. m.Num - 1, \A j \in 0 .. m.Num - 1 : t[j] = str[j]
    PROVE  TPool(m, t, C, w)
<1>1. /\ IsPool(m) /\ m.Num \in Nat /\ m.Num <= m.OffsetsSize /\ m.OffsetsSize \in Nat
      /\ m.Offsets \in [0 .. m.OffsetsSize - 1 -> Nat]
  BY TIsPool
<1>2. m.Offsets = [j \in 0 .. m.OffsetsSize - 1 |-> IF j < m.OffsetsSize THEN m.Offsets[j] ELSE 0]
  <2>1. m.OffsetsSize \in Nat /\ m.Offsets \in [0 .. m.OffsetsSize - 1 -> Nat]
    BY <1>1
  <2>2. \A j \in 0 .. m.OffsetsSize - 1 : j < m.OffsetsSize
    BY <2>1
  <2> QED BY <2>1, <2>2
<1>3. Numbered(m, m)
  BY <1>1, <1>2 DEF Numbered
<1>4. \A j \in 0 .. m.Num - 1 : t[j] = IF j < m.Num THEN str[j] ELSE <<>>
  BY <1>1
<1> QED BY <1>3, <1>4, TNumbered

LEMMA TNumbersTo ==
    ASSUME NEW m, NEW str, NEW C, NEW w \in Nat \ {0}, TPool(m, str, C, w), NEW z \in Nat
    PROVE  TPool(NumbersTo(m, z), str, C, w) /\ NumbersTo(m, z).Num = m.Num
<1> DEFINE u == NumbersTo(m, z)
<1>1. Numbered(m, u) /\ u.Num = m.Num
  BY NumbersToOK DEF TPool
<1>2. DOMAIN str = 0 .. m.Num - 1 /\ \A j \in 0 .. m.Num - 1 : j < m.Num
  BY TIsPool
<1> HIDE DEF u
<1>3. TPool(u, str, C, w)
  BY <1>1, <1>2, TNumbered
<1> QED BY <1>1, <1>3 DEF u

LEMMA TNumberTo ==
    ASSUME NEW m, NEW str, NEW C, NEW w \in Nat \ {0}, TPool(m, str, C, w), NEW i \in Nat
    PROVE  /\ TPool(NumberTo(m, i), TextTo(str, m.Num, i), C, w)
           /\ i \in 0 .. NumberTo(m, i).Num - 1
           /\ NumberTo(m, i).Num = IF i < m.Num THEN m.Num ELSE i + 1
           /\ NumberTo(m, i).Num \in Nat
<1> DEFINE u == NumberTo(m, i)
           t == TextTo(str, m.Num, i)
<1>1. Numbered(m, u) /\ u.Num = IF i < m.Num THEN m.Num ELSE i + 1
  BY NumberToOK DEF TPool
<1>2. DOMAIN t = 0 .. u.Num - 1 /\ \A j \in 0 .. u.Num - 1 : t[j] = IF j < m.Num THEN str[j] ELSE <<>>
  BY <1>1 DEF TextTo
<1>3. m.Num \in Nat
  BY TIsPool
<1> HIDE DEF u, t
<1>4. TPool(u, t, C, w)
  BY <1>1, <1>2, TNumbered
<1>5. i \in 0 .. u.Num - 1 /\ u.Num \in Nat
  BY <1>1, <1>3
<1> QED BY <1>1, <1>4, <1>5 DEF u, t

(* A string is erased.                                                     *)
Erased(m, i, room) == IF m.Offsets[i] = 0 THEN m ELSE WithErased(m, i, m.GarbageSize + room[i])

LEMMA TErased ==
    ASSUME NEW m, NEW str, NEW C, NEW w \in Nat \ {0}, TPool(m, str, C, w), NEW i \in 0 .. m.Num - 1
    PROVE  /\ TPool(Erased(m, i, TRoom(str, w)), [str EXCEPT ![i] = <<>>], C, w)
           /\ Erased(m, i, TRoom(str, w)).Num = m.Num
<1> DEFINE V == TCellSet(C, w)
           empty == TCells(<<>>, w)
           room == TRoom(str, w)
           img == TImage(str, w)
           u == Erased(m, i, room)
           t == [str EXCEPT ![i] = <<>>]
<1>1. PoolInv(m, V, w, empty, room, img) /\ IsText(m, str, C, w) /\ IsPool(m)
  BY TIsPool DEF TPool
<1>2. DOMAIN str = 0 .. m.Num - 1 /\ Used(m) = {j \in 0 .. m.Num - 1 : str[j] # <<>>}
  BY <1>1 DEF IsText
<1>3. CASE m.Offsets[i] = 0
  <2>1. i \notin Used(m)
    BY <1>3 DEF Used
  <2>2. DOMAIN t = 0 .. m.Num - 1 /\ \A j \in 0 .. m.Num - 1 : t[j] = str[j]
    BY <1>2, <2>1
  <2>3. u = m
    BY <1>3 DEF Erased
  <2> HIDE DEF t, u
  <2>4. TPool(m, t, C, w)
    BY <2>2, TSame
  <2> QED BY <2>3, <2>4 DEF t, u
<1>4. CASE m.Offsets[i] # 0
  <2>1. i \in Used(m)
    BY <1>4 DEF Used
  <2> HIDE DEF V, empty, room, img
  <2>2. HasFields(u, m.Buffer, m.BufferSize, [m.Offsets EXCEPT ![i] = 0],
                  m.OffsetsSize, m.DataSize, m.GarbageSize + room[i], m.Top, m.Num)
    BY <1>1, <1>4, MoreFields DEF Erased
  <2> HIDE DEF u
  <2>3. TakenOut(m, u, room, i)
    BY <2>2 DEF HasFields, TakenOut, SameSizes
  <2>4. PoolInv(u, V, w, empty, room, img) /\ Used(u) = Used(m) \ {i} /\ u.Num = m.Num
    <3>1. PoolInv(u, V, w, empty, room, img) /\ Used(u) = Used(m) \ {i}
      BY <1>1, <2>1, <2>3, ErasePut
    <3> QED BY <2>3, <3>1 DEF TakenOut, SameSizes
  <2>5. \A j \in Used(u) : j \in DOMAIN str /\ j \in DOMAIN t /\ t[j] = str[j]
    BY <1>2, <2>4
  <2>6. DOMAIN t = 0 .. u.Num - 1 /\ Used(u) = {j \in 0 .. u.Num - 1 : t[j] # <<>>}
    BY <1>2, <2>4
  <2>7. \A j \in 0 .. u.Num - 1 : t[j] \in TStrings(C, w)
    BY <1>1, <1>2, <2>4, TEmpty DEF IsText
  <2> HIDE DEF t
  <2>8. \A j \in Used(u) : TRoom(t, w)[j] = room[j] /\ TImage(t, w)[j] = img[j]
    BY <2>5 DEF TRoom, TImage, room, img
  <2>9. PoolInv(u, V, w, empty, TRoom(t, w), TImage(t, w))
    BY <2>4, <2>8, SameRooms
  <2>10. TPool(u, t, C, w)
    BY <2>6, <2>7, <2>9 DEF TPool, IsText, V, empty
  <2> QED BY <2>4, <2>10 DEF u, t, room
<1> QED BY <1>3, <1>4

(* Clear: all strings are empty.                                           *)
ClearedPool(m) == WithCleared(m, [j \in 0 .. m.OffsetsSize - 1 |-> IF j < m.Num THEN 0 ELSE m.Offsets[j]])

LEMMA TCleared ==
    ASSUME NEW m, NEW str, NEW C, NEW w \in Nat \ {0}, TPool(m, str, C, w)
    PROVE  /\ TPool(ClearedPool(m), [j \in 0 .. m.Num - 1 |-> <<>>], C, w)
           /\ ClearedPool(m).Num = m.Num
<1> DEFINE u == ClearedPool(m)
           t == [j \in 0 .. m.Num - 1 |-> <<>>]
           o == [j \in 0 .. m.OffsetsSize - 1 |-> IF j < m.Num THEN 0 ELSE m.Offsets[j]]
<1>1. PoolInv(m, TCellSet(C, w), w, TCells(<<>>, w), TRoom(str, w), TImage(str, w)) /\ IsPool(m)
  BY TIsPool DEF TPool
<1>2. HasFields(u, m.Buffer, m.BufferSize, o, m.OffsetsSize, 0, 0, m.Top, m.Num)
  <2>1. u = WithCleared(m, o)
    BY DEF ClearedPool
  <2> HIDE DEF o, u
  <2> QED BY <1>1, <2>1, MoreFields
<1> HIDE DEF u
<1>3. Cleared(m, u)
  BY <1>2 DEF HasFields, Cleared, SameSizes
<1>4. u.Num = m.Num
  BY <1>2 DEF HasFields
<1> HIDE DEF t
<1>5. PoolInv(u, TCellSet(C, w), w, TCells(<<>>, w), TRoom(t, w), TImage(t, w)) /\ Used(u) = {}
  BY <1>1, <1>3, ClearedOK
<1>6. IsText(u, t, C, w)
  BY <1>4, <1>5, TEmpty DEF IsText, t
<1> QED BY <1>4, <1>5, <1>6 DEF TPool, u, t

(* Garbage collection moves the strings and leaves them as they are.       *)
LEMMA TCollected ==
    ASSUME NEW m, NEW str, NEW C, NEW w \in Nat \ {0}, TPool(m, str, C, w), NEW u,
           Collected(m, u, TCellSet(C, w), w, TCells(<<>>, w), TRoom(str, w))
    PROVE  TPool(u, str, C, w) /\ u.Num = m.Num
<1>1. /\ Layout(m, TCellSet(C, w), w, TCells(<<>>, w), TRoom(str, w), TImage(str, w))
      /\ IsText(m, str, C, w)
  BY DEF TPool, PoolInv
<1>2. u.Num = m.Num
  BY DEF Collected
<1>3. PoolInv(u, TCellSet(C, w), w, TCells(<<>>, w), TRoom(str, w), TImage(str, w)) /\ Used(u) = Used(m)
  BY <1>1, CollectOK
<1> QED BY <1>1, <1>2, <1>3 DEF TPool, IsText

-----------------------------------------------------------------------------
(* The text s, written where Allocate says.                                *)
TextBuffer(pl, s, w) ==
    [q \in 0 .. pl.pool.BufferSize - 1 |->
        IF pl.at <= q /\ q < pl.at + (Len(s) + w) THEN TCells(s, w)[q - pl.at]
        ELSE pl.pool.Buffer[q]]

LEMMA TCellsIn ==
    ASSUME NEW C, NEW w \in {1, 2}, NEW s \in TStrings(C, w), NEW k \in 0 .. Len(s) + w - 1
    PROVE  TCells(s, w)[k] \in TCellSet(C, w)
<1>1. s \in Seq(C) /\ Len(s) \in Nat /\ (w = 1 \/ Len(s) <= MaxLength) /\ MaxLength \in Nat
  BY StringsAssumption DEF TStrings
<1>2. k \in Int /\ 0 <= k /\ w \in Nat
  BY <1>1
<1>3. CASE k < w - 1
  <2>1. w # 1
    BY <1>2, <1>3
  <2>2. Len(s) \in 0 .. MaxLength
    BY <1>1, <2>1
  <2>3. TCells(s, w)[k] = Len(s)
    BY <1>3 DEF TCells
  <2> QED BY <2>1, <2>2, <2>3 DEF TCellSet
<1>4. CASE ~ (k < w - 1) /\ k - w + 1 < Len(s)
  <2>1. k - w + 2 \in 1 .. Len(s)
    BY <1>1, <1>2, <1>4
  <2>2. s[k - w + 2] \in C
    BY <1>1, <2>1
  <2>3. TCells(s, w)[k] = s[k - w + 2]
    BY <1>4 DEF TCells
  <2> QED BY <2>2, <2>3 DEF TCellSet
<1>5. CASE ~ (k < w - 1) /\ ~ (k - w + 1 < Len(s))
  <2>1. TCells(s, w)[k] = NUL
    BY <1>5 DEF TCells
  <2> QED BY <2>1 DEF TCellSet
<1> QED BY <1>3, <1>4, <1>5

LEMMA AtPlus ==
    ASSUME NEW p \in Nat, NEW r \in Nat, NEW k \in 0 .. r - 1, NEW e \in Nat, p + r <= e
    PROVE  p + k \in 0 .. e - 1 /\ p <= p + k /\ p + k < p + r /\ (p + k) - p = k
OBVIOUS

HoldsText(pl, s, w, V, buf) ==
    /\ buf \in [0 .. pl.pool.BufferSize - 1 -> V]
    /\ \A k \in 0 .. (Len(s) + w) - 1 : buf[pl.at + k] = TCells(s, w)[k]
    /\ \A q \in 0 .. pl.pool.BufferSize - 1 :
          q < pl.at \/ pl.at + (Len(s) + w) <= q => buf[q] = pl.pool.Buffer[q]

LEMMA TWritten ==
    ASSUME NEW C, NEW w \in {1, 2}, NEW s \in TStrings(C, w), NEW pl, NEW buf,
           pl.at \in Nat, pl.pool.BufferSize \in Nat, pl.at + (Len(s) + w) <= pl.pool.BufferSize,
           pl.pool.Buffer \in [0 .. pl.pool.BufferSize - 1 -> TCellSet(C, w)],
           buf = TextBuffer(pl, s, w)
    PROVE  HoldsText(pl, s, w, TCellSet(C, w), buf)
<1> DEFINE r == Len(s) + w
           p == pl.at
           e == pl.pool.BufferSize
           B == pl.pool.Buffer
           im == TCells(s, w)
<1>1. r \in Nat
  <2>1. Len(s) \in Nat
    BY DEF TStrings
  <2> QED BY <2>1
<1>2. \A k \in 0 .. r - 1 : im[k] \in TCellSet(C, w)
  BY TCellsIn
<1>3. buf = [q \in 0 .. e - 1 |-> IF p <= q /\ q < p + r THEN im[q - p] ELSE B[q]]
  BY DEF TextBuffer
<1> HIDE DEF r, im, p, e, B
<1>4. \A q \in 0 .. e - 1 : p <= q /\ q < p + r => q - p \in 0 .. r - 1
  BY <1>1 DEF p, e
<1>5. buf \in [0 .. e - 1 -> TCellSet(C, w)]
  <2>1. B \in [0 .. e - 1 -> TCellSet(C, w)]
    BY DEF B, e
  <2> QED BY <1>2, <1>3, <1>4, <2>1
<1>6. \A k \in 0 .. r - 1 : buf[p + k] = im[k]
  <2> SUFFICES ASSUME NEW k \in 0 .. r - 1 PROVE buf[p + k] = im[k]
    OBVIOUS
  <2>1. p + k \in 0 .. e - 1 /\ p <= p + k /\ p + k < p + r /\ (p + k) - p = k
    BY <1>1, AtPlus DEF p, e, r
  <2> QED BY <1>3, <2>1
<1>7. \A q \in 0 .. e - 1 : q < p \/ p + r <= q => buf[q] = B[q]
  <2> SUFFICES ASSUME NEW q \in 0 .. e - 1, q < p \/ p + r <= q PROVE buf[q] = B[q]
    OBVIOUS
  <2>1. p \in Nat
    BY DEF p
  <2>2. ~ (p <= q /\ q < p + r)
    BY <1>1, <2>1
  <2> QED BY <1>3, <2>2
<1> QED BY <1>5, <1>6, <1>7 DEF HoldsText, r, im, p, e, B

(* What is written at a good place becomes string i.                       *)
LEMMA TPuts ==
    ASSUME NEW m, NEW str, NEW C, NEW w \in {1, 2}, TPool(m, str, C, w),
           NEW i \in 0 .. m.Num - 1, NEW s \in TStrings(C, w), s # <<>>, NEW pl,
           GoodPlace(m, pl, TCellSet(C, w), w, TCells(<<>>, w), TRoom(str, w), TImage(str, w),
                     i, Len(s) + w),
           IsPool(pl.pool)
    PROVE  /\ TPool(WithBuffer(pl.pool, TextBuffer(pl, s, w)), [str EXCEPT ![i] = s], C, w)
           /\ WithBuffer(pl.pool, TextBuffer(pl, s, w)).Num = m.Num
<1> DEFINE V == TCellSet(C, w)
           empty == TCells(<<>>, w)
           room == TRoom(str, w)
           img == TImage(str, w)
           r == Len(s) + w
           im == TCells(s, w)
           buf == TextBuffer(pl, s, w)
           u == WithBuffer(pl.pool, buf)
           t == [str EXCEPT ![i] = s]
<1>1. /\ pl.at \in Nat /\ pl.pool.BufferSize \in Nat /\ pl.at + r <= pl.pool.BufferSize
      /\ pl.pool.Buffer \in [0 .. pl.pool.BufferSize - 1 -> V]
      /\ pl.pool.Num = m.Num /\ Used(pl.pool) = Used(m) \cup {i}
  BY DEF GoodPlace
<1>2. /\ buf \in [0 .. pl.pool.BufferSize - 1 -> V]
      /\ \A k \in 0 .. r - 1 : buf[pl.at + k] = im[k]
      /\ \A q \in 0 .. pl.pool.BufferSize - 1 :
            q < pl.at \/ pl.at + r <= q => buf[q] = pl.pool.Buffer[q]
  <2>1. buf = TextBuffer(pl, s, w)
    OBVIOUS
  <2> HIDE DEF buf
  <2>2. pl.at + (Len(s) + w) <= pl.pool.BufferSize
    BY <1>1
  <2>3. HoldsText(pl, s, w, TCellSet(C, w), buf)
    BY <1>1, <2>1, <2>2, TWritten
  <2> QED BY <2>3 DEF HoldsText
<1>3. PoolInv(u, V, w, empty, [room EXCEPT ![i] = r], [img EXCEPT ![i] = im])
  <2> HIDE DEF V, empty, room, img, r, im, buf
  <2> QED BY <1>2 DEF GoodPlace, V, empty, room, img, r
<1>4. IsText(m, str, C, w) /\ DOMAIN str = 0 .. m.Num - 1
  BY TIsPool DEF TPool
<1>5. u.Num = m.Num /\ Used(u) = Used(m) \cup {i}
  <2> HIDE DEF buf
  <2>1. HasFields(u, buf, pl.pool.BufferSize, pl.pool.Offsets, pl.pool.OffsetsSize,
                  pl.pool.DataSize, pl.pool.GarbageSize, pl.pool.Top, pl.pool.Num)
    BY FieldsChanged
  <2>2. u.Num = pl.pool.Num /\ u.Offsets = pl.pool.Offsets
    BY <2>1 DEF HasFields
  <2> HIDE DEF u
  <2>3. Used(u) = Used(pl.pool)
    BY <2>2 DEF Used
  <2> QED BY <1>1, <2>2, <2>3
<1>6. DOMAIN t = 0 .. m.Num - 1 /\ t[i] = s /\ \A j \in 0 .. m.Num - 1 : j # i => t[j] = str[j]
  BY <1>4
<1>7. IsText(u, t, C, w)
  <2>1. \A j \in 0 .. m.Num - 1 : t[j] \in TStrings(C, w)
    BY <1>4, <1>6 DEF IsText
  <2>2. Used(m) = {j \in 0 .. m.Num - 1 : str[j] # <<>>}
    BY <1>4 DEF IsText
  <2>3. Used(u) = {j \in 0 .. m.Num - 1 : t[j] # <<>>}
    <3> HIDE DEF t, u
    <3> QED BY <1>5, <1>6, <2>2
  <2> HIDE DEF t, u
  <2> QED BY <1>5, <1>6, <2>1, <2>3 DEF IsText
<1>8. \A j \in Used(u) : /\ TRoom(t, w)[j] = [room EXCEPT ![i] = r][j]
                         /\ TImage(t, w)[j] = [img EXCEPT ![i] = im][j]
  <2> SUFFICES ASSUME NEW j \in Used(u)
               PROVE  /\ TRoom(t, w)[j] = [room EXCEPT ![i] = r][j]
                      /\ TImage(t, w)[j] = [img EXCEPT ![i] = im][j]
    OBVIOUS
  <2>1. j \in 0 .. m.Num - 1
    BY <1>5 DEF Used
  <2>2. /\ TRoom(t, w)[j] = Len(t[j]) + w /\ room[j] = Len(str[j]) + w
        /\ TImage(t, w)[j] = TCells(t[j], w) /\ img[j] = TCells(str[j], w)
        /\ DOMAIN room = 0 .. m.Num - 1 /\ DOMAIN img = 0 .. m.Num - 1
    <3> HIDE DEF t
    <3> QED BY <1>4, <1>6, <2>1 DEF TRoom, TImage
  <2> HIDE DEF t, room, img, u
  <2> QED BY <1>6, <2>1, <2>2
<1>9. PoolInv(u, V, w, empty, TRoom(t, w), TImage(t, w))
  <2> DEFINE room2 == [room EXCEPT ![i] = r]
             img2 == [img EXCEPT ![i] = im]
  <2>1. PoolInv(u, V, w, empty, room2, img2)
    BY <1>3
  <2>2. \A j \in Used(u) : TRoom(t, w)[j] = room2[j] /\ TImage(t, w)[j] = img2[j]
    BY <1>8
  <2> HIDE DEF u, t, room2, img2, V, empty
  <2> QED BY <2>1, <2>2, SameRooms
<1> QED BY <1>5, <1>7, <1>9 DEF TPool

(* A string is stored where Allocate finds room for it.                    *)
LEMMA TPlaces ==
    ASSUME NEW m, NEW str, NEW C, NEW w \in {1, 2}, TPool(m, str, C, w),
           NEW i \in 0 .. m.Num - 1, NEW s \in TStrings(C, w), s # <<>>,
           m.BufferSize > 0 => m.DataSize > 0,
           NEW r, r = Len(s) + w,
           GrowsLast(m, i, r),
           NEW v1, NEW v2,
           Collected(m, v1, TCellSet(C, w), w, TCells(<<>>, w), TRoom(str, w)),
           m.Top + r <= v1.BufferSize,
           Collected(MoreGarbage(m, i, TRoom(str, w)), v2, TCellSet(C, w), w, TCells(<<>>, w), TRoom(str, w)),
           m.DataSize + r + w <= v2.BufferSize,
           NEW pl, pl = Allocated(m, i, r, TRoom(str, w), v1, v2)
    PROVE  GoodPlace(m, pl, TCellSet(C, w), w, TCells(<<>>, w), TRoom(str, w), TImage(str, w), i, r)
<1>1. /\ PoolInv(m, TCellSet(C, w), w, TCells(<<>>, w), TRoom(str, w), TImage(str, w))
      /\ IsText(m, str, C, w)
  BY DEF TPool
<1>2. DOMAIN TRoom(str, w) = 0 .. m.Num - 1 /\ DOMAIN TImage(str, w) = 0 .. m.Num - 1
  BY <1>1, TRooms
<1>3. r \in Nat \ {0} /\ w \in Nat \ {0}
  <2>1. Len(s) \in Nat
    BY DEF TStrings
  <2> QED BY <2>1
<1>4. GoodPlace(m, pl, TCellSet(C, w), w, TCells(<<>>, w), TRoom(str, w), TImage(str, w), i, r)
  <2> DEFINE V == TCellSet(C, w)
             empty == TCells(<<>>, w)
             room == TRoom(str, w)
             img == TImage(str, w)
  <2>1. Collected(m, v1, V, w, empty, room) /\ m.Top + r <= v1.BufferSize
    OBVIOUS
  <2>2. Collected(MoreGarbage(m, i, room), v2, V, w, empty, room) /\ m.DataSize + r + w <= v2.BufferSize
    OBVIOUS
  <2>3. PoolInv(m, V, w, empty, room, img) /\ DOMAIN room = 0 .. m.Num - 1 /\ DOMAIN img = 0 .. m.Num - 1
    BY <1>1, <1>2
  <2>4. pl = Allocated(m, i, r, room, v1, v2)
    OBVIOUS
  <2> HIDE DEF V, empty, room, img
  <2>5. GoodPlace(m, Allocated(m, i, r, room, v1, v2), V, w, empty, room, img, i, r)
    BY <1>3, <2>1, <2>2, <2>3, AllocOK
  <2> QED BY <2>4, <2>5 DEF V, empty, room, img
<1> QED BY <1>4

(* Where Allocate puts a string is a pool.                                 *)
LEMMA AllocatedIsPool ==
    ASSUME NEW m, IsPool(m), NEW i, NEW r, NEW room, NEW v1, IsPool(v1), NEW v2, IsPool(v2)
    PROVE  IsPool(Allocated(m, i, r, room, v1, v2).pool)
<1>1. \A d, g, j, p : \A q \in {m, v1, v2} :
          IsPool(WithData(q, d)) /\ IsPool(WithGarbage(q, g)) /\ IsPool(WithLast(q, j, p, d))
  BY FieldsChanged DEF HasFields
<1>2. IsPool(MoreGarbage(m, i, room))
  BY <1>1 DEF MoreGarbage
<1>3. \A d, j, p : IsPool(WithLast(MoreGarbage(m, i, room), j, p, d))
  BY <1>2, FieldsChanged DEF HasFields
<1>4. IsPool(AllocTop(m, r, v1).pool)
  BY <1>1 DEF AllocTop, PutAt
<1>5. IsPool(AllocPlace(m, i, r, room).pool)
  BY <1>1 DEF AllocPlace, PutAt
<1>6. IsPool(AllocEnd(m, i, r, room, v2).pool)
  BY <1>1, <1>3 DEF AllocEnd, PutAt
<1> QED BY <1>4, <1>5, <1>6 DEF Allocated

LEMMA CharAt ==
    ASSUME NEW o \in Nat, NEW w \in {1, 2}, NEW l \in Nat, NEW k \in Nat, k < l, w <= o,
           NEW r, r = l + w, NEW d \in Nat, NEW e \in Nat, o + r <= d, d <= e,
           NEW p, p = o + (w - 1) + k
    PROVE  p \in 0 .. e - 1 /\ w <= p /\ (w - 1) + k \in 0 .. r - 1 /\ p \in Nat
OBVIOUS

LEMMA CellsApart ==
    ASSUME NEW o \in Nat, NEW r \in Nat, NEW h \in Nat, h < r,
           NEW o2 \in Nat, NEW r2 \in Nat, NEW h2 \in 0 .. r2 - 1,
           o + r <= o2 \/ o2 + r2 <= o
    PROVE  o + h # o2 + h2
OBVIOUS

LEMMA SameCell ==
    ASSUME NEW o \in Nat, NEW w \in {1, 2}, NEW k \in Nat, NEW h \in Nat,
           NEW p, p = o + (w - 1) + k
    PROVE  o + h = p <=> h = (w - 1) + k
OBVIOUS

(* A character of a string is overwritten in its place.                    *)
CharSet(str, i, k, c) == [str EXCEPT ![i][k + 1] = c]

LEMMA TSetsChar ==
    ASSUME NEW m, NEW str, NEW C, NEW w \in {1, 2}, TPool(m, str, C, w),
           NEW i \in 0 .. m.Num - 1, NEW k \in Nat, k < Len(str[i]), NEW c \in C,
           NEW p, p = m.Offsets[i] + (w - 1) + k
    PROVE  /\ TPool(WithCell(m, p, c), CharSet(str, i, k, c), C, w)
           /\ WithCell(m, p, c).Num = m.Num
<1> DEFINE V == TCellSet(C, w)
           empty == TCells(<<>>, w)
           room == TRoom(str, w)
           img == TImage(str, w)
           u == WithCell(m, p, c)
           s == [str[i] EXCEPT ![k + 1] = c]
           t == [str EXCEPT ![i] = s]
<1>1. /\ PoolInv(m, V, w, empty, room, img) /\ IsText(m, str, C, w) /\ IsPool(m)
      /\ Layout(m, V, w, empty, room, img)
  BY TIsPool DEF TPool, PoolInv
<1>2. /\ str[i] \in Seq(C) /\ Len(str[i]) \in Nat /\ str[i] \in TStrings(C, w)
      /\ DOMAIN str = 0 .. m.Num - 1
  BY <1>1, TIsPool DEF TStrings
<1>3. s \in Seq(C) /\ Len(s) = Len(str[i]) /\ s \in TStrings(C, w)
      /\ s[k + 1] = c /\ \A j \in 1 .. Len(s) : j # k + 1 => s[j] = str[i][j]
  <2>1. k + 1 \in 1 .. Len(str[i])
    BY <1>2
  <2>2. s \in Seq(C) /\ Len(s) = Len(str[i])
    BY <1>2, <2>1
  <2>3. s[k + 1] = c /\ \A j \in 1 .. Len(s) : j # k + 1 => s[j] = str[i][j]
    BY <1>2, <2>1, <2>2
  <2> QED BY <1>2, <2>2, <2>3 DEF TStrings
<1>4. str[i] # <<>> /\ s # <<>>
  <2>1. Len(<<>>) = 0
    OBVIOUS
  <2>2. Len(str[i]) # 0 /\ Len(s) # 0
    BY <1>2, <1>3
  <2> QED BY <2>1, <2>2
<1>5. i \in Used(m)
  BY <1>1, <1>4 DEF IsText
<1>6. /\ m.BufferSize \in Nat /\ m.DataSize \in Nat /\ m.Num \in Nat /\ m.DataSize <= m.BufferSize
      /\ \A j \in Used(m) : /\ j \in 0 .. m.Num - 1 /\ m.Offsets[j] \in Nat /\ room[j] \in Nat
                            /\ w <= m.Offsets[j] /\ m.Offsets[j] + room[j] <= m.DataSize
      /\ \A j, l \in Used(m) : j # l => \/ m.Offsets[j] + room[j] <= m.Offsets[l]
                                        \/ m.Offsets[l] + room[l] <= m.Offsets[j]
  BY <1>1, PoolFacts
<1>7. room[i] = Len(str[i]) + w
  BY <1>2 DEF TRoom
<1>8. /\ p \in 0 .. m.BufferSize - 1 /\ w <= p /\ (w - 1) + k \in 0 .. room[i] - 1
      /\ p \in Nat
  <2>1. m.Offsets[i] \in Nat /\ w <= m.Offsets[i] /\ m.Offsets[i] + room[i] <= m.DataSize
    BY <1>5, <1>6
  <2>2. m.DataSize \in Nat /\ m.BufferSize \in Nat /\ m.DataSize <= m.BufferSize
    BY <1>6
  <2>3. Len(str[i]) \in Nat
    BY <1>2
  <2> DEFINE o == m.Offsets[i]
             l == Len(str[i])
             c2 == room[i]
             d == m.DataSize
             e == m.BufferSize
  <2>4. /\ o \in Nat /\ l \in Nat /\ d \in Nat /\ e \in Nat /\ k < l /\ w <= o /\ d <= e
        /\ c2 = l + w /\ o + c2 <= d /\ p = o + (w - 1) + k
    BY <1>7, <2>1, <2>2, <2>3
  <2>5. p \in 0 .. e - 1 /\ w <= p /\ (w - 1) + k \in 0 .. c2 - 1 /\ p \in Nat
    <3> HIDE DEF o, l, c2, d, e
    <3> QED BY <2>4, CharAt
  <2> QED BY <2>5
<1>9. HasFields(u, [m.Buffer EXCEPT ![p] = c], m.BufferSize, m.Offsets,
                m.OffsetsSize, m.DataSize, m.GarbageSize, m.Top, m.Num)
  BY <1>1, MoreFields
<1>10. DOMAIN t = 0 .. m.Num - 1 /\ t[i] = s /\ \A j \in 0 .. m.Num - 1 : j # i => t[j] = str[j]
  <2> HIDE DEF s
  <2> QED BY <1>2
<1> HIDE DEF u, t, s, V, empty, room, img
<1>11. /\ TRoom(t, w)[i] = room[i] /\ TImage(t, w)[i] = TCells(s, w) /\ img[i] = TCells(str[i], w)
       /\ \A j \in Used(m) : j # i => TRoom(t, w)[j] = room[j] /\ TImage(t, w)[j] = img[j]
  <2>1. \A j \in Used(m) : j \in DOMAIN str /\ j \in DOMAIN t
    BY <1>2, <1>6, <1>10
  <2> QED BY <1>2, <1>3, <1>5, <1>10, <2>1 DEF TRoom, TImage, room, img
<1>12. /\ TCells(s, w)[(w - 1) + k] = c
       /\ \A h \in 0 .. room[i] - 1 : h # (w - 1) + k => TCells(s, w)[h] = TCells(str[i], w)[h]
  <2> DEFINE l == Len(str[i])
  <2>1. l \in Nat /\ Len(s) = l /\ room[i] - 1 = l + w - 1 /\ k < l
    BY <1>2, <1>3, <1>7
  <2> HIDE DEF l
  <2>2. TCells(s, w) = [h \in 0 .. l + w - 1 |-> IF h < w - 1 THEN l ELSE IF h - w + 1 < l THEN s[h - w + 2] ELSE NUL]
    BY <2>1 DEF TCells
  <2>3. TCells(str[i], w)
          = [h \in 0 .. l + w - 1 |-> IF h < w - 1 THEN l ELSE IF h - w + 1 < l THEN str[i][h - w + 2] ELSE NUL]
    BY DEF TCells, l
  <2>4. TCells(s, w)[(w - 1) + k] = c
    <3>1. (w - 1) + k \in 0 .. l + w - 1 /\ ~ ((w - 1) + k < w - 1) /\ (w - 1) + k - w + 1 < l
          /\ (w - 1) + k - w + 2 = k + 1
      BY <2>1
    <3>2. TCells(s, w)[(w - 1) + k] = s[(w - 1) + k - w + 2]
      BY <2>2, <3>1
    <3> QED BY <1>3, <3>1, <3>2
  <2>5. ASSUME NEW h \in 0 .. room[i] - 1, h # (w - 1) + k PROVE TCells(s, w)[h] = TCells(str[i], w)[h]
    <3>1. h \in 0 .. l + w - 1
      BY <2>1
    <3>2. CASE h < w - 1 \/ ~ (h - w + 1 < l)
      BY <2>2, <2>3, <3>1, <3>2
    <3>3. CASE ~ (h < w - 1) /\ h - w + 1 < l
      <4>1. h - w + 2 \in 1 .. l /\ h - w + 2 # k + 1
        BY <2>1, <2>5, <3>1, <3>3
      <4>2. s[h - w + 2] = str[i][h - w + 2]
        BY <1>3, <2>1, <4>1
      <4> QED BY <2>2, <2>3, <3>1, <3>3, <4>2
    <3> QED BY <3>2, <3>3
  <2> QED BY <2>4, <2>5
<1>13. /\ u.Buffer = [m.Buffer EXCEPT ![p] = c]
       /\ m.Buffer \in [0 .. m.BufferSize - 1 -> V] /\ c \in V
  BY <1>1, <1>9 DEF HasFields, Layout, PoolShape, V, TCellSet
<1>14. /\ u.Buffer \in [0 .. m.BufferSize - 1 -> V] /\ u.Buffer[p] = c
       /\ \A q \in 0 .. m.BufferSize - 1 : q # p => u.Buffer[q] = m.Buffer[q]
  BY <1>8, <1>13
<1>15. SameSizes(m, u) /\ u.Offsets = m.Offsets /\ u.Top = m.Top
       /\ u.DataSize = m.DataSize /\ u.GarbageSize = m.GarbageSize
  BY <1>9 DEF HasFields, SameSizes
<1>16. Headed(u, w, empty)
  <2>1. Headed(m, w, empty) /\ w \in Nat
    BY <1>1 DEF Layout
  <2>2. \A q \in 0 .. w - 1 : q # p
    BY <1>8, <2>1
  <2>3. m.BufferSize > 0 => m.BufferSize >= w /\ \A q \in 0 .. w - 1 : m.Buffer[q] = empty[q]
    BY <2>1 DEF Headed
  <2>4. m.BufferSize >= w => \A q \in 0 .. w - 1 : q \in 0 .. m.BufferSize - 1
    BY <1>6, <2>1
  <2>5. u.BufferSize = m.BufferSize
    BY <1>15 DEF SameSizes
  <2> QED BY <1>14, <2>2, <2>3, <2>4, <2>5 DEF Headed
<1>17. Content(u, room, TImage(t, w))
  <2>1. Used(u) = Used(m)
    BY <1>15 DEF Used, SameSizes
  <2>2. ASSUME NEW j \in Used(m), NEW h \in 0 .. room[j] - 1
        PROVE  u.Buffer[m.Offsets[j] + h] = TImage(t, w)[j][h]
    <3>1. m.Buffer[m.Offsets[j] + h] = img[j][h]
      BY <1>1 DEF Layout, Content
    <3>2. /\ m.Offsets[j] \in Nat /\ room[j] \in Nat /\ m.Offsets[j] + room[j] <= m.DataSize
          /\ h \in Nat /\ h < room[j]
      BY <1>6
    <3>3. m.Offsets[j] + h \in 0 .. m.BufferSize - 1
      BY <1>6, <3>2, Within
    <3>4. CASE j = i
      <4>1. m.Offsets[j] + h = p <=> h = (w - 1) + k
        <5>1. p = m.Offsets[j] + (w - 1) + k
          BY <3>4
        <5> DEFINE o == m.Offsets[j]
        <5>2. o \in Nat /\ p = o + (w - 1) + k /\ h \in Nat
          BY <3>2, <5>1
        <5>3. o + h = p <=> h = (w - 1) + k
          <6> HIDE DEF o
          <6> QED BY <5>2, SameCell
        <5> QED BY <5>3
      <4> QED BY <1>11, <1>12, <1>14, <3>1, <3>3, <3>4, <4>1
    <3>5. CASE j # i
      <4>1. m.Offsets[j] + h # p
        <5>1. \/ m.Offsets[j] + room[j] <= m.Offsets[i]
              \/ m.Offsets[i] + room[i] <= m.Offsets[j]
          BY <1>5, <1>6, <3>5
        <5>2. m.Offsets[i] \in Nat /\ room[i] \in Nat
          BY <1>5, <1>6
        <5>3. p = m.Offsets[i] + ((w - 1) + k)
          <6> DEFINE o == m.Offsets[i]
          <6>1. o \in Nat /\ p = o + (w - 1) + k
            BY <5>2
          <6>2. p = o + ((w - 1) + k)
            <7> HIDE DEF o
            <7> QED BY <6>1
          <6> QED BY <6>2
        <5> QED BY <1>8, <3>2, <5>1, <5>2, <5>3, CellsApart
      <4> QED BY <1>11, <1>14, <3>1, <3>3, <3>5, <4>1
    <3> QED BY <3>4, <3>5
  <2> QED BY <1>15, <2>1, <2>2 DEF Content
<1>18. PoolInv(u, V, w, empty, room, TImage(t, w)) /\ Used(u) = Used(m)
  <2>1. Rewritten(m, u, V, w, empty, room, TImage(t, w))
    BY <1>14, <1>15, <1>16, <1>17 DEF Rewritten
  <2> QED BY <1>1, <2>1, RewrittenOK
<1>19. PoolInv(u, V, w, empty, TRoom(t, w), TImage(t, w))
  <2>1. \A j \in Used(u) : TRoom(t, w)[j] = room[j] /\ TImage(t, w)[j] = TImage(t, w)[j]
    BY <1>11, <1>18
  <2> QED BY <1>18, <2>1, SameRooms
<1>20. u.Num = m.Num
  BY <1>15 DEF SameSizes
<1>21. IsText(u, t, C, w)
  <2>1. \A j \in 0 .. m.Num - 1 : t[j] \in TStrings(C, w)
    BY <1>1, <1>3, <1>10 DEF IsText
  <2>2. Used(u) = {j \in 0 .. m.Num - 1 : t[j] # <<>>}
    BY <1>1, <1>4, <1>10, <1>18 DEF IsText
  <2> QED BY <1>10, <1>20, <2>1, <2>2 DEF IsText
<1>22. t = CharSet(str, i, k, c)
  BY <1>2 DEF t, s, CharSet
<1> QED BY <1>19, <1>20, <1>21, <1>22 DEF TPool, u, V, empty

LEMMA TextWithIs ==
    ASSUME NEW str, NEW nm \in Nat, NEW i \in Nat, NEW s
    PROVE  [TextTo(str, nm, i) EXCEPT ![i] = s] = TextWith(str, nm, i, s)
<1> DEFINE D == 0 .. (IF i < nm THEN nm ELSE i + 1) - 1
<1>1. i \in D
  OBVIOUS
<1> HIDE DEF D
<1>2. TextTo(str, nm, i) = [j \in D |-> IF j < nm THEN str[j] ELSE <<>>]
  BY DEF TextTo, D
<1>3. TextWith(str, nm, i, s) = [j \in D |-> IF j = i THEN s ELSE IF j < nm THEN str[j] ELSE <<>>]
  BY DEF TextWith, D
<1> QED BY <1>1, <1>2, <1>3

\* The pool may store r cells more as string i: the first cells are there
\* (rule "clear"), and rule "grow".
MayStore(m, i, r) ==
    /\ m.BufferSize > 0 => m.DataSize > 0
    /\ i < m.Num => GrowsLast(m, i, r)

LEMMA StillMayStore ==
    ASSUME NEW m, NEW V, NEW w, NEW empty, NEW room, NEW img,
           PoolInv(m, V, w, empty, room, img), NEW i \in Nat, NEW r, MayStore(m, i, r)
    PROVE  /\ NumberTo(m, i).BufferSize > 0 => NumberTo(m, i).DataSize > 0
           /\ GrowsLast(NumberTo(m, i), i, r)
<1>1. CASE i < m.Num
  BY <1>1 DEF NumberTo, MayStore
<1>2. CASE ~ (i < m.Num)
  <2>1. m.Num \in Nat
    BY DEF PoolInv, Layout, PoolShape
  <2>2. Numbered(m, NumberTo(m, i)) /\ NumberTo(m, i).Offsets[i] = 0
    BY <1>2, <2>1, NumberToOK
  <2> QED BY <2>2 DEF Numbered, MayStore, GrowsLast
<1> QED BY <1>1, <1>2

-----------------------------------------------------------------------------
(* What the calls do to the strings, as StringTable says.                  *)
Becoming(m, str, C, w, m2, i, s) ==
    /\ TPool(m2, TextWith(str, m.Num, i, s), C, w)
    /\ m2.Num = IF i < m.Num THEN m.Num ELSE i + 1

\* m2 is what the call c makes of the pool m.
PoolStep(m, str, C, w, m2, c) ==
    \/ \E i \in Nat : \E s :
          /\ c = [op |-> "Set", i |-> i, s |-> s]
          /\ Becoming(m, str, C, w, m2, i, s)
    \/ \E i \in 0 .. m.Num - 1 : \E s :
          /\ c = [op |-> "Concatenate", i |-> i, s |-> s]
          /\ Becoming(m, str, C, w, m2, i, str[i] \o s)
    \/ /\ c.op = "Clear" /\ m2.Num = m.Num
       /\ TPool(m2, [j \in 0 .. m.Num - 1 |-> <<>>], C, w)
    \/ c.op = "Reserve" /\ m2.Num = m.Num /\ TPool(m2, str, C, w)

TextOf(str, nm) == [k \in 1 .. nm |-> str[k - 1]]
TableWith(txt, i, s) == [k \in 1 .. IF i < Len(txt) THEN Len(txt) ELSE i + 1 |->
                            IF k = i + 1 THEN s
                            ELSE IF k <= Len(txt) THEN txt[k] ELSE <<>>]
TableStep(txt, txt2, c) ==
    CASE c.op = "Set" -> txt2 = TableWith(txt, c.i, c.s)
      [] c.op = "Concatenate" -> c.i < Len(txt) /\ txt2 = TableWith(txt, c.i, txt[c.i + 1] \o c.s)
      [] c.op = "Clear" -> txt2 = [k \in DOMAIN txt |-> <<>>]
      [] c.op = "Reserve" -> txt2 = txt

LEMMA TextLen ==
    ASSUME NEW str, NEW nm \in Nat
    PROVE  /\ Len(TextOf(str, nm)) = nm /\ DOMAIN TextOf(str, nm) = 1 .. nm
           /\ \A k \in 1 .. nm : TextOf(str, nm)[k] = str[k - 1]
BY DEF TextOf

LEMMA TextOfWith ==
    ASSUME NEW str, NEW nm \in Nat, NEW i \in Nat, NEW s, NEW n2, n2 = IF i < nm THEN nm ELSE i + 1
    PROVE  TextOf(TextWith(str, nm, i, s), n2) = TableWith(TextOf(str, nm), i, s)
<1> DEFINE txt == TextOf(str, nm)
<1>1. n2 \in Nat
  OBVIOUS
<1>2. Len(txt) = nm /\ \A k \in 1 .. nm : txt[k] = str[k - 1]
  BY TextLen
<1> HIDE DEF txt
<1>3. TableWith(txt, i, s) = [k \in 1 .. n2 |-> IF k = i + 1 THEN s ELSE IF k <= nm THEN txt[k] ELSE <<>>]
  BY <1>2 DEF TableWith
<1>4. TextOf(TextWith(str, nm, i, s), n2) = [k \in 1 .. n2 |-> TextWith(str, nm, i, s)[k - 1]]
  BY DEF TextOf
<1>5. \A k \in 1 .. n2 : TextWith(str, nm, i, s)[k - 1]
                         = IF k = i + 1 THEN s ELSE IF k <= nm THEN txt[k] ELSE <<>>
  <2> SUFFICES ASSUME NEW k \in 1 .. n2
               PROVE  TextWith(str, nm, i, s)[k - 1]
                      = IF k = i + 1 THEN s ELSE IF k <= nm THEN txt[k] ELSE <<>>
    OBVIOUS
  <2>1. k - 1 \in 0 .. n2 - 1 /\ (k - 1 = i <=> k = i + 1) /\ (k - 1 < nm <=> k <= nm)
        /\ (k <= nm => k \in 1 .. nm)
    BY <1>1
  <2>2. TextWith(str, nm, i, s)[k - 1]
          = IF k - 1 = i THEN s ELSE IF k - 1 < nm THEN str[k - 1] ELSE <<>>
    BY <2>1 DEF TextWith
  <2> QED BY <1>2, <2>1, <2>2
<1> QED BY <1>3, <1>4, <1>5 DEF txt

LEMMA TSteps ==
    ASSUME NEW m, NEW str, NEW C, NEW w \in {1, 2}, TPool(m, str, C, w), NEW m2, NEW c,
           PoolStep(m, str, C, w, m2, c)
    PROVE  \E str2 : /\ TPool(m2, str2, C, w)
                     /\ TableStep(TextOf(str, m.Num), TextOf(str2, m2.Num), c)
                     /\ c.op \in {"Set", "Concatenate", "Clear", "Reserve"}
<1> DEFINE txt == TextOf(str, m.Num)
<1>1. m.Num \in Nat /\ DOMAIN str = 0 .. m.Num - 1
  BY TIsPool
<1>2. Len(txt) = m.Num /\ DOMAIN txt = 1 .. m.Num /\ \A k \in 1 .. m.Num : txt[k] = str[k - 1]
  BY <1>1, TextLen
<1> HIDE DEF txt
<1>3. ASSUME NEW i \in Nat, NEW s, c = [op |-> "Set", i |-> i, s |-> s],
             Becoming(m, str, C, w, m2, i, s)
      PROVE  \E str2 : /\ TPool(m2, str2, C, w)
                       /\ TableStep(txt, TextOf(str2, m2.Num), c)
                       /\ c.op \in {"Set", "Concatenate", "Clear", "Reserve"}
  <2> DEFINE t == TextWith(str, m.Num, i, s)
  <2>1. TPool(m2, t, C, w) /\ TextOf(t, m2.Num) = TableWith(txt, i, s)
    BY <1>1, <1>3, TextOfWith DEF Becoming, txt
  <2> HIDE DEF t
  <2>2. c.op = "Set" /\ c.i = i /\ c.s = s
    BY <1>3
  <2>3. TableStep(txt, TextOf(t, m2.Num), c)
    BY <2>1, <2>2 DEF TableStep
  <2> QED BY <2>1, <2>2, <2>3
<1>4. ASSUME NEW i \in 0 .. m.Num - 1, NEW s, c = [op |-> "Concatenate", i |-> i, s |-> s],
             Becoming(m, str, C, w, m2, i, str[i] \o s)
      PROVE  \E str2 : /\ TPool(m2, str2, C, w)
                       /\ TableStep(txt, TextOf(str2, m2.Num), c)
                       /\ c.op \in {"Set", "Concatenate", "Clear", "Reserve"}
  <2> DEFINE all == str[i] \o s
             t == TextWith(str, m.Num, i, all)
  <2>1. i \in Nat /\ i < m.Num /\ i + 1 \in 1 .. m.Num /\ (i + 1) - 1 = i
    BY <1>1
  <2>2. txt[i + 1] = str[i]
    BY <1>2, <2>1
  <2> HIDE DEF all
  <2>3. TPool(m2, t, C, w) /\ TextOf(t, m2.Num) = TableWith(txt, i, all)
    BY <1>1, <1>4, <2>1, TextOfWith DEF Becoming, txt, all
  <2> HIDE DEF t
  <2>4. c.op = "Concatenate" /\ c.i = i /\ c.s = s
    BY <1>4
  <2>5. TableStep(txt, TextOf(t, m2.Num), c)
    BY <1>2, <2>1, <2>2, <2>3, <2>4 DEF TableStep, all
  <2> QED BY <2>3, <2>4, <2>5
<1>5. ASSUME c.op = "Clear", m2.Num = m.Num, TPool(m2, [j \in 0 .. m.Num - 1 |-> <<>>], C, w)
      PROVE  \E str2 : /\ TPool(m2, str2, C, w)
                       /\ TableStep(txt, TextOf(str2, m2.Num), c)
                       /\ c.op \in {"Set", "Concatenate", "Clear", "Reserve"}
  <2> DEFINE t == [j \in 0 .. m.Num - 1 |-> <<>>]
  <2>1. \A k \in 1 .. m.Num : k - 1 \in 0 .. m.Num - 1
    BY <1>1
  <2>2. TextOf(t, m2.Num) = [k \in DOMAIN txt |-> <<>>]
    BY <1>2, <1>5, <2>1 DEF TextOf
  <2>3. TPool(m2, t, C, w)
    BY <1>5
  <2> HIDE DEF t
  <2>4. TableStep(txt, TextOf(t, m2.Num), c)
    BY <1>5, <2>2 DEF TableStep
  <2> QED BY <1>5, <2>3, <2>4
<1>6. ASSUME c.op = "Reserve", m2.Num = m.Num, TPool(m2, str, C, w)
      PROVE  \E str2 : /\ TPool(m2, str2, C, w)
                       /\ TableStep(txt, TextOf(str2, m2.Num), c)
                       /\ c.op \in {"Set", "Concatenate", "Clear", "Reserve"}
  <2>1. TableStep(txt, TextOf(str, m2.Num), c)
    BY <1>6 DEF TableStep, txt
  <2> QED BY <1>6, <2>1
<1> QED BY <1>3, <1>4, <1>5, <1>6 DEF PoolStep, txt

(* The invariant gives the types and the sizes.                            *)
LEMMA TTypes ==
    ASSUME NEW m, NEW str, NEW C, NEW w \in {1, 2}, TPool(m, str, C, w)
    PROVE  /\ m.Buffer \in [0 .. m.BufferSize - 1 -> TCellSet(C, w)]
           /\ m.Offsets \in [0 .. m.OffsetsSize - 1 -> 0 .. (m.BufferSize + 1) - 1]
           /\ m.Num \in 0 .. m.OffsetsSize
           /\ m.DataSize \in 0 .. m.BufferSize
           /\ m.GarbageSize \in 0 .. m.DataSize
<1>1. /\ Layout(m, TCellSet(C, w), w, TCells(<<>>, w), TRoom(str, w), TImage(str, w))
      /\ Counted(m, w, TRoom(str, w))
  BY DEF TPool, PoolInv
<1>2. /\ m.Buffer \in [0 .. m.BufferSize - 1 -> TCellSet(C, w)]
      /\ m.BufferSize \in Nat /\ m.OffsetsSize \in Nat /\ m.Num \in Nat /\ m.Num <= m.OffsetsSize
      /\ m.Offsets \in [0 .. m.OffsetsSize - 1 -> Nat]
      /\ m.DataSize \in Nat /\ m.GarbageSize \in Nat /\ m.DataSize <= m.BufferSize
      /\ \A i \in 0 .. m.OffsetsSize - 1 : i >= m.Num => m.Offsets[i] = 0
  BY <1>1 DEF Layout, PoolShape
<1>3. \A i \in 0 .. m.OffsetsSize - 1 : m.Offsets[i] \in 0 .. (m.BufferSize + 1) - 1
  <2> SUFFICES ASSUME NEW i \in 0 .. m.OffsetsSize - 1 PROVE m.Offsets[i] \in 0 .. (m.BufferSize + 1) - 1
    OBVIOUS
  <2>0. m.BufferSize \in Nat /\ m.DataSize \in Nat /\ m.DataSize <= m.BufferSize
    BY <1>2
  <2>1. CASE m.Offsets[i] = 0
    BY <2>0, <2>1
  <2>2. CASE m.Offsets[i] # 0
    <3>1. i \in 0 .. m.Num - 1
      BY <1>2, <2>2
    <3>2. i \in Used(m)
      BY <2>2, <3>1 DEF Used
    <3>3. /\ m.Offsets[i] \in Nat /\ TRoom(str, w)[i] \in Nat
          /\ m.Offsets[i] + TRoom(str, w)[i] <= m.DataSize
      BY <1>1, <3>2, PoolFacts
    <3> QED BY <2>0, <3>3
  <2> QED BY <2>1, <2>2
<1>4. m.GarbageSize <= m.DataSize
  <2>1. CASE m.DataSize = 0
    BY <1>1, <1>2, <2>1 DEF Counted
  <2>2. CASE m.DataSize # 0
    <3>1. m.GarbageSize + CountOf(TRoom(str, w), Used(m)) + w <= m.DataSize
      BY <1>1, <2>2 DEF Counted
    <3>2. CountOf(TRoom(str, w), Used(m)) \in Nat
      BY TFits
    <3> QED BY <1>2, <3>1, <3>2
  <2> QED BY <2>1, <2>2
<1> QED BY <1>2, <1>3, <1>4

LEMMA TNew ==
    ASSUME NEW m, NEW C, NEW w \in {1, 2}, NEW g, NEW o,
           m = [Buffer |-> g, BufferSize |-> 0, Offsets |-> o, OffsetsSize |-> 0,
                DataSize |-> 0, GarbageSize |-> 0, Top |-> 0, Num |-> 0],
           g = [p \in 0 .. 0 - 1 |-> Junk], o = [i \in 0 .. 0 - 1 |-> 0]
    PROVE  TPool(m, [j \in 0 .. 0 - 1 |-> <<>>], C, w)
<1> DEFINE str == [j \in 0 .. 0 - 1 |-> <<>>]
<1>1. /\ IsPool(m) /\ m.Buffer = g /\ m.BufferSize = 0 /\ m.Offsets = o /\ m.OffsetsSize = 0
      /\ m.DataSize = 0 /\ m.GarbageSize = 0 /\ m.Top = 0 /\ m.Num = 0
  BY DEF IsPool
<1>2. 0 .. 0 - 1 = {} /\ 0 \in Nat
  OBVIOUS
<1>3. Used(m) = {}
  BY <1>1, <1>2 DEF Used
<1>4. g \in [0 .. 0 - 1 -> TCellSet(C, w)] /\ o \in [0 .. 0 - 1 -> Nat]
  BY <1>2
<1>5. PoolShape(m, TCellSet(C, w))
  BY <1>1, <1>2, <1>4 DEF PoolShape
<1> HIDE DEF str
<1>6. PoolInv(m, TCellSet(C, w), w, TCells(<<>>, w), TRoom(str, w), TImage(str, w))
  BY <1>1, <1>3, <1>5 DEF PoolInv, Layout, Counted, Headed, Placed, Content
<1>7. IsText(m, str, C, w)
  BY <1>1, <1>2, <1>3 DEF IsText, str
<1> QED BY <1>6, <1>7 DEF TPool, str

LEMMA ZStrIs ==
    ASSUME NEW m, NEW C, NUL \notin C, NEW s \in Seq(C), NEW p \in Nat, m.BufferSize \in Nat,
           p + Len(s) < m.BufferSize,
           \A k \in 0 .. Len(s) : m.Buffer[p + k] = TCells(s, 1)[k]
    PROVE  PoolS!StrLen(m, p) = Len(s) /\ PoolS!StrAt(m, p) = s
<1> DEFINE P(q) == /\ q = m.BufferSize \/ m.Buffer[q] = NUL
                   /\ \A t \in p .. q - 1 : m.Buffer[t] # NUL
           e == p + Len(s)
<1>1. Len(s) \in Nat
  OBVIOUS
<1>2. \A k \in 0 .. Len(s) - 1 : m.Buffer[p + k] = s[k + 1] /\ s[k + 1] # NUL
  <2> SUFFICES ASSUME NEW k \in 0 .. Len(s) - 1 PROVE m.Buffer[p + k] = s[k + 1] /\ s[k + 1] # NUL
    OBVIOUS
  <2>1. k \in 0 .. Len(s) /\ k < Len(s) /\ k + 1 \in 1 .. Len(s)
    BY <1>1
  <2>2. s[k + 1] \in C
    BY <2>1
  <2> QED BY <2>1, <2>2 DEF TCells
<1>3. m.Buffer[e] = NUL
  <2>1. Len(s) \in 0 .. Len(s) /\ ~ (Len(s) < Len(s))
    BY <1>1
  <2> QED BY <2>1 DEF TCells
<1>4. \A t \in p .. e - 1 : m.Buffer[t] # NUL
  <2> SUFFICES ASSUME NEW t \in p .. e - 1 PROVE m.Buffer[t] # NUL
    OBVIOUS
  <2>1. t - p \in 0 .. Len(s) - 1 /\ p + (t - p) = t
    BY <1>1
  <2> QED BY <1>2, <2>1
<1>5. e \in p .. m.BufferSize /\ P(e)
  BY <1>1, <1>3, <1>4
<1>6. \A q \in p .. m.BufferSize : P(q) => q = e
  <2> SUFFICES ASSUME NEW q \in p .. m.BufferSize, P(q), q # e PROVE FALSE
    OBVIOUS
  <2> HIDE DEF e
  <2>1. e \in Nat /\ e < m.BufferSize /\ p <= e
    BY <1>1 DEF e
  <2>2. CASE q < e
    <3>1. q \in p .. e - 1 /\ q # m.BufferSize
      BY <2>1, <2>2
    <3> QED BY <1>4, <3>1
  <2>3. CASE q > e
    <3>1. e \in p .. q - 1
      BY <2>1, <2>3
    <3> QED BY <1>3, <3>1
  <2> QED BY <2>1, <2>2, <2>3
<1>7. PoolS!StrLen(m, p) = (CHOOSE q \in p .. m.BufferSize : P(q)) - p
  BY DEF PoolS!StrLen
<1>8. (CHOOSE q \in p .. m.BufferSize : P(q)) = e
  <2> HIDE DEF P, e
  <2> QED BY <1>5, <1>6
<1>9. PoolS!StrLen(m, p) = Len(s)
  <2>1. e - p = Len(s)
    BY <1>1
  <2>2. PoolS!StrLen(m, p) = e - p
    <3> HIDE DEF e, P
    <3> QED BY <1>7, <1>8
  <2> QED BY <2>1, <2>2
<1>10. PoolS!StrAt(m, p) = s
  <2>1. PoolS!StrAt(m, p) = [k \in 1 .. Len(s) |-> m.Buffer[p + k - 1]]
    BY <1>9 DEF PoolS!StrAt
  <2>2. \A k \in 1 .. Len(s) : m.Buffer[p + k - 1] = s[k]
    <3> SUFFICES ASSUME NEW k \in 1 .. Len(s) PROVE m.Buffer[p + k - 1] = s[k]
      OBVIOUS
    <3>1. k - 1 \in 0 .. Len(s) - 1 /\ p + (k - 1) = p + k - 1 /\ (k - 1) + 1 = k
      BY <1>1
    <3>2. m.Buffer[p + (k - 1)] = s[(k - 1) + 1]
      BY <1>2, <3>1
    <3> QED BY <3>1, <3>2
  <2>3. s = [k \in 1 .. Len(s) |-> s[k]]
    OBVIOUS
  <2> QED BY <2>1, <2>2, <2>3
<1> QED BY <1>9, <1>10

LEMMA ZReads ==
    ASSUME NEW m, NEW str, NEW C, NUL \notin C, TLayout(m, str, C, 1), NEW j \in 0 .. m.Num - 1,
           m.BufferSize > 0
    PROVE  /\ PoolS!StrLen(m, m.Offsets[j]) = Len(str[j])
           /\ PoolS!StrAt(m, m.Offsets[j]) = str[j]
<1>1. /\ str[j] \in Seq(C) /\ DOMAIN str = 0 .. m.Num - 1
      /\ Layout(m, TCellSet(C, 1), 1, TCells(<<>>, 1), TRoom(str, 1), TImage(str, 1))
      /\ Used(m) = {k \in 0 .. m.Num - 1 : str[k] # <<>>}
  BY DEF TLayout, IsText, TStrings
<1>2. /\ m.BufferSize \in Nat /\ m.DataSize \in Nat /\ m.DataSize <= m.BufferSize
      /\ j \in Used(m) => /\ m.Offsets[j] \in Nat
                          /\ m.Offsets[j] + TRoom(str, 1)[j] <= m.DataSize
  BY <1>1, PoolFacts
<1>3. TRoom(str, 1)[j] = Len(str[j]) + 1 /\ TImage(str, 1)[j] = TCells(str[j], 1) /\ Len(str[j]) \in Nat
  BY <1>1 DEF TRoom, TImage
<1>4. CASE j \in Used(m)
  <2>1. m.Offsets[j] + Len(str[j]) < m.BufferSize
    BY <1>2, <1>3, <1>4
  <2>2. \A k \in 0 .. TRoom(str, 1)[j] - 1 : m.Buffer[m.Offsets[j] + k] = TImage(str, 1)[j][k]
    BY <1>1, <1>4 DEF Layout, Content
  <2>3. \A k \in 0 .. Len(str[j]) : m.Buffer[m.Offsets[j] + k] = TCells(str[j], 1)[k]
    <3>1. TRoom(str, 1)[j] - 1 = Len(str[j])
      BY <1>3
    <3> QED BY <1>3, <2>2, <3>1
  <2> QED BY <1>1, <1>2, <1>4, <2>1, <2>3, ZStrIs
<1>5. CASE j \notin Used(m)
  <2>1. str[j] = <<>> /\ m.Offsets[j] = 0 /\ Len(<<>>) = 0
    BY <1>1, <1>5 DEF Used
  <2>2. m.Buffer[0] = TCells(<<>>, 1)[0]
    BY <1>1 DEF Layout, Headed
  <2>3. \A k \in 0 .. Len(<<>>) : m.Buffer[0 + k] = TCells(<<>>, 1)[k]
    BY <2>1, <2>2
  <2>4. <<>> \in Seq(C)
    BY <1>1, <2>1
  <2>5. PoolS!StrLen(m, 0) = Len(<<>>) /\ PoolS!StrAt(m, 0) = <<>>
    <3>1. 0 + Len(<<>>) < m.BufferSize
      BY <1>2, <2>1
    <3> QED BY <1>2, <2>3, <2>4, <3>1, ZStrIs
  <2> QED BY <2>1, <2>5
<1> QED BY <1>4, <1>5

LEMMA ZGets ==
    ASSUME NEW m, NEW str, NEW C, NUL \notin C, TLayout(m, str, C, 1), NEW j \in 0 .. m.Num - 1
    PROVE  PoolS!Get(m, j) = str[j]
<1>1. CASE m.BufferSize = 0
  <2>1. /\ Layout(m, TCellSet(C, 1), 1, TCells(<<>>, 1), TRoom(str, 1), TImage(str, 1))
        /\ Used(m) = {k \in 0 .. m.Num - 1 : str[k] # <<>>}
    BY DEF TLayout, IsText, TStrings
  <2>2. j \in Used(m) => m.Offsets[j] \in Nat /\ TRoom(str, 1)[j] \in Nat \ {0}
                         /\ m.Offsets[j] + TRoom(str, 1)[j] <= m.DataSize
                         /\ m.DataSize <= m.BufferSize /\ m.DataSize \in Nat
    BY <2>1, PoolFacts
  <2>3. j \notin Used(m)
    BY <1>1, <2>2
  <2> QED BY <1>1, <2>1, <2>3 DEF PoolS!Get
<1>2. CASE m.BufferSize # 0
  <2>1. m.BufferSize \in Nat
    BY PoolFacts DEF TLayout
  <2>2. PoolS!StrAt(m, m.Offsets[j]) = str[j]
    BY <1>2, <2>1, ZReads
  <2> QED BY <1>2, <2>2 DEF PoolS!Get
<1> QED BY <1>1, <1>2

LEMMA ZLive ==
    ASSUME NEW m, NEW str, NEW C, NUL \notin C, TLayout(m, str, C, 1)
    PROVE  /\ PoolS!Live(m) = Used(m)
           /\ \A j \in Used(m) : PoolS!Room(m, j) = TRoom(str, 1)[j]
<1>1. /\ DOMAIN str = 0 .. m.Num - 1 /\ \A j \in 0 .. m.Num - 1 : str[j] \in Seq(C)
      /\ Used(m) = {k \in 0 .. m.Num - 1 : str[k] # <<>>}
      /\ Layout(m, TCellSet(C, 1), 1, TCells(<<>>, 1), TRoom(str, 1), TImage(str, 1))
  BY DEF TLayout, IsText, TStrings
<1>2. \A j \in Used(m) : /\ j \in 0 .. m.Num - 1 /\ m.Offsets[j] \in Nat
                         /\ TRoom(str, 1)[j] \in Nat \ {0}
                         /\ m.Offsets[j] + TRoom(str, 1)[j] <= m.DataSize
                         /\ m.DataSize <= m.BufferSize /\ m.DataSize \in Nat /\ m.BufferSize \in Nat
  BY <1>1, PoolFacts
<1>3. ASSUME NEW j \in Used(m)
      PROVE  /\ PoolS!StrLen(m, m.Offsets[j]) = Len(str[j]) /\ Len(str[j]) # 0
             /\ TRoom(str, 1)[j] = Len(str[j]) + 1
  <2>1. m.BufferSize > 0
    BY <1>2
  <2>2. str[j] \in Seq(C) /\ str[j] # <<>>
    BY <1>1, <1>2
  <2>3. Len(str[j]) # 0
    BY <2>2
  <2> QED BY <1>1, <1>2, <2>1, <2>3, ZReads DEF TRoom
<1>4. PoolS!Live(m) = Used(m)
  <2>1. PoolS!Live(m) = {j \in Used(m) : PoolS!StrLen(m, m.Offsets[j]) # 0}
    BY DEF PoolS!Live, Used, PoolS!Slots
  <2> QED BY <1>3, <2>1
<1> QED BY <1>3, <1>4 DEF PoolS!Room

LEMMA ZPlaces ==
    ASSUME NEW m, NEW room, PoolS!Live(m) = Used(m), \A j \in Used(m) : PoolS!Room(m, j) = room[j]
    PROVE  /\ \A i : PoolS!Place(m, i) = PlaceIn(m, 1, room, i)
           /\ \A i \in Used(m) : PoolS!Block(m, i) = BlockIn(m, 1, room, i)
           /\ PoolS!Cardinality(PoolS!Cells(m, Used(m))) = CountOf(room, Used(m))
<1>1. ASSUME NEW js, js \subseteq Used(m) PROVE PoolS!Cells(m, js) = CellsOf(room, js)
  BY <1>1 DEF PoolS!Cells, CellsOf, PoolS!Slots
<1>2. \A S : PoolS!Cardinality(S) = Cardinality(S)
  BY DEF PoolS!Cardinality, Cardinality
<1>3. ASSUME NEW i PROVE PoolS!Place(m, i) = PlaceIn(m, 1, room, i)
  <2> DEFINE js == {j \in Used(m) : j < i}
  <2>1. PoolS!Place(m, i) = 1 + PoolS!Cardinality(PoolS!Cells(m, js))
    BY DEF PoolS!Place
  <2>2. PlaceIn(m, 1, room, i) = 1 + CountOf(room, js)
    BY DEF PlaceIn
  <2>3. js \subseteq Used(m)
    OBVIOUS
  <2> HIDE DEF js
  <2> QED BY <1>1, <1>2, <2>1, <2>2, <2>3 DEF CountOf
<1>4. \A i \in Used(m) : PoolS!Block(m, i) = BlockIn(m, 1, room, i)
  BY <1>3 DEF PoolS!Block, BlockIn
<1>5. PoolS!Cardinality(PoolS!Cells(m, Used(m))) = CountOf(room, Used(m))
  BY <1>1, <1>2 DEF CountOf
<1> QED BY <1>3, <1>4, <1>5

\* The size of the buffer after ReserveBuf.
BufSize(m, newsize, w) ==
    LET least == (m.DataSize - m.GarbageSize) * 2 + AllocateSpace1
    IN  (IF newsize < least THEN least ELSE newsize) + w

LEMMA ZReserveBuf ==
    ASSUME NEW m, IsPool(m), DOMAIN m.Offsets = 0 .. m.OffsetsSize - 1, NEW newsize, NEW room,
           PoolS!Live(m) = Used(m), \A j \in Used(m) : PoolS!Room(m, j) = room[j],
           m.Num \in Nat, \A j \in Used(m) : room[j] \in Nat,
           NEW empty, empty[0] = NUL, BufSize(m, newsize, 1) \in Nat
    PROVE  PoolS!ReserveBuf(m, newsize) = Gathered(m, 1, empty, room, BufSize(m, newsize, 1), Junk)
<1> DEFINE size == BufSize(m, newsize, 1)
           buf1 == [q \in PoolS!Slots(size) |->
                      CASE q = 0 -> NUL
                        [] \E i \in PoolS!Live(m) : q \in PoolS!Block(m, i) ->
                             LET i == CHOOSE i \in PoolS!Live(m) : q \in PoolS!Block(m, i)
                             IN  m.Buffer[m.Offsets[i] + q - PoolS!Place(m, i)]
                        [] OTHER -> Junk]
           off1 == [i \in DOMAIN m.Offsets |-> IF i \in PoolS!Live(m) THEN PoolS!Place(m, i) ELSE 0]
           top1 == IF PoolS!Live(m) = {} THEN 1 ELSE PoolS!Place(m, PoolS!Max(PoolS!Live(m)))
           data1 == 1 + PoolS!Cardinality(PoolS!Cells(m, PoolS!Live(m)))
           buf2 == [q \in 0 .. size - 1 |->
               IF q < 1 THEN empty[q]
               ELSE IF \E i \in Used(m) : q \in BlockIn(m, 1, room, i)
               THEN LET i == CHOOSE i \in Used(m) : q \in BlockIn(m, 1, room, i)
                    IN  m.Buffer[m.Offsets[i] + q - PlaceIn(m, 1, room, i)]
               ELSE Junk]
           off2 == [i \in 0 .. m.OffsetsSize - 1 |-> IF i \in Used(m) THEN PlaceIn(m, 1, room, i) ELSE 0]
           top2 == IF Used(m) = {} THEN 1 ELSE PlaceIn(m, 1, room, Max(Used(m)))
<1>1. PoolS!ReserveBuf(m, newsize) = Refilled(m, buf1, size, off1, top1, data1, 0)
  BY DEF PoolS!ReserveBuf, Refilled, BufSize
<1>2. Gathered(m, 1, empty, room, size, Junk)
         = PoolOf(buf2, size, off2, m.OffsetsSize, 1 + CountOf(room, Used(m)), 0, top2, m.Num)
  BY DEF Gathered
<1>3. buf1 = buf2
  <2> DEFINE In1(q) == \E i \in PoolS!Live(m) : q \in PoolS!Block(m, i)
             In2(q) == \E i \in Used(m) : q \in BlockIn(m, 1, room, i)
             Of1(q) == CHOOSE i \in PoolS!Live(m) : q \in PoolS!Block(m, i)
             Of2(q) == CHOOSE i \in Used(m) : q \in BlockIn(m, 1, room, i)
  <2>1. ASSUME NEW q PROVE (In1(q) <=> In2(q)) /\ (In2(q) => Of1(q) = Of2(q))
    <3>1. \A i \in Used(m) : q \in PoolS!Block(m, i) <=> q \in BlockIn(m, 1, room, i)
      BY ZPlaces
    <3> QED BY <3>1
  <2>2. \A i : PoolS!Place(m, i) = PlaceIn(m, 1, room, i)
    BY ZPlaces
  <2>3. buf1 = [q \in 0 .. size - 1 |->
                  CASE q = 0 -> NUL
                    [] In1(q) -> m.Buffer[m.Offsets[Of1(q)] + q - PoolS!Place(m, Of1(q))]
                    [] OTHER -> Junk]
    BY DEF PoolS!Slots
  <2>4. buf2 = [q \in 0 .. size - 1 |->
                  IF q < 1 THEN empty[q]
                  ELSE IF In2(q) THEN m.Buffer[m.Offsets[Of2(q)] + q - PlaceIn(m, 1, room, Of2(q))]
                  ELSE Junk]
    OBVIOUS
  <2>5. ~ In2(0)
    <3>1. \A i \in Used(m) : PlaceIn(m, 1, room, i) \in Nat /\ 1 <= PlaceIn(m, 1, room, i)
      BY PlacesApart
    <3> QED BY <3>1 DEF BlockIn
  <2> HIDE DEF size, buf1, buf2, In1, In2, Of1, Of2
  <2>6. ASSUME NEW q \in 0 .. size - 1
        PROVE  (CASE q = 0 -> NUL
                  [] In1(q) -> m.Buffer[m.Offsets[Of1(q)] + q - PoolS!Place(m, Of1(q))]
                  [] OTHER -> Junk)
               = (IF q < 1 THEN empty[q]
                  ELSE IF In2(q) THEN m.Buffer[m.Offsets[Of2(q)] + q - PlaceIn(m, 1, room, Of2(q))]
                  ELSE Junk)
    <3>1. CASE q = 0
      BY <2>1, <2>5, <3>1
    <3>2. CASE q # 0
      <4>1. ~ (q < 1)
        BY <3>2
      <4> QED BY <2>1, <2>2, <3>2, <4>1
    <3> QED BY <3>1, <3>2
  <2> QED BY <2>3, <2>4, <2>6
<1>4. off1 = off2 /\ top1 = top2 /\ data1 = 1 + CountOf(room, Used(m))
  <2>1. PoolS!Max(Used(m)) = Max(Used(m))
    BY DEF PoolS!Max, Max
  <2> QED BY <2>1, ZPlaces
<1> HIDE DEF buf1, buf2, off1, off2, top1, top2, data1, size
<1> QED BY <1>1, <1>2, <1>3, <1>4, RefilledIs DEF size

LEMMA BufSizes ==
    ASSUME NEW D \in Nat, NEW G \in Nat, NEW z \in Nat, NEW w \in Nat, NEW s1 \in Nat, NEW least,
           least = (D - G) * 2 + s1
    PROVE  /\ (IF z < least THEN least ELSE z) + w \in Nat
           /\ z + w <= (IF z < least THEN least ELSE z) + w
           /\ \A c \in Nat : G + c <= D => w + c <= (IF z < least THEN least ELSE z) + w
<1>1. least \in Int
  OBVIOUS
<1>2. (IF z < least THEN least ELSE z) \in Nat /\ z <= (IF z < least THEN least ELSE z)
  BY <1>1
<1>3. ASSUME NEW c \in Nat, G + c <= D PROVE c <= (IF z < least THEN least ELSE z)
  <2>1. D - G \in Nat /\ c <= D - G
    BY <1>3
  <2>2. c <= least
    BY <2>1
  <2> QED BY <1>1, <2>2
<1> QED BY <1>2, <1>3

\* Garbage collection has room for the strings, whatever size it is asked for.
LEMMA BufSizeOK ==
    ASSUME NEW m, NEW V, NEW w \in Nat \ {0}, NEW empty, NEW room, NEW img,
           Layout(m, V, w, empty, room, img), NEW z \in Nat
    PROVE  /\ BufSize(m, z, w) \in Nat /\ z + w <= BufSize(m, z, w)
           /\ PoolInv(m, V, w, empty, room, img) => w + CountOf(room, Used(m)) <= BufSize(m, z, w)
           /\ CountOf(room, Used(m)) <= z => w + CountOf(room, Used(m)) <= BufSize(m, z, w)
<1> DEFINE least == (m.DataSize - m.GarbageSize) * 2 + AllocateSpace1
           c == CountOf(room, Used(m))
           size == (IF z < least THEN least ELSE z) + w
<1>1. /\ m.Num \in Nat /\ m.DataSize \in Nat /\ m.GarbageSize \in Nat
      /\ \A j \in Used(m) : room[j] \in Nat /\ room[j] \in Nat \ {0} /\ m.Offsets[j] \in Nat
                            /\ m.Offsets[j] + room[j] <= m.DataSize
  BY PoolFacts
<1>2. c \in Nat
  BY <1>1, CountWithout
<1>3. AllocateSpace1 \in Nat
  BY StringsAssumption
<1>4. BufSize(m, z, w) = size
  BY DEF BufSize
<1>5. size \in Nat /\ z + w <= size /\ (m.GarbageSize + c <= m.DataSize => w + c <= size)
  <2> HIDE DEF c
  <2> QED BY <1>1, <1>2, <1>3, BufSizes
<1>6. ASSUME PoolInv(m, V, w, empty, room, img) PROVE m.GarbageSize + c <= m.DataSize
  <2>1. CASE m.DataSize = 0
    <3>1. Used(m) = {}
      BY <1>1, <2>1
    <3>2. c = 0
      <4>1. CellsOf(room, {}) = {}
        BY DEF CellsOf
      <4> QED BY <3>1, <4>1, FS_EmptySet DEF CountOf
    <3>3. m.GarbageSize = 0
      BY <1>6, <2>1 DEF PoolInv, Counted
    <3> HIDE DEF c
    <3> QED BY <2>1, <3>2, <3>3
  <2>2. CASE m.DataSize # 0
    <3>1. m.GarbageSize + c + w <= m.DataSize
      BY <1>6, <2>2 DEF PoolInv, Counted
    <3> HIDE DEF c
    <3> QED BY <1>1, <1>2, <3>1
  <2> QED BY <2>1, <2>2
<1>7. c <= z => w + c <= size
  <2> HIDE DEF c, size
  <2> QED BY <1>2, <1>5
<1> HIDE DEF c, size
<1>8. CountOf(room, Used(m)) = c
  BY DEF c
<1> QED BY <1>4, <1>5, <1>6, <1>7, <1>8

LEMMA ZCollects ==
    ASSUME NEW m, NEW str, NEW C, NUL \notin C, TLayout(m, str, C, 1), NEW z \in Nat,
           \/ TPool(m, str, C, 1)
           \/ CountOf(TRoom(str, 1), Used(m)) <= z
    PROVE  /\ Collected(m, PoolS!ReserveBuf(m, z), TCellSet(C, 1), 1, TCells(<<>>, 1), TRoom(str, 1))
           /\ z + 1 <= PoolS!ReserveBuf(m, z).BufferSize
<1> DEFINE V == TCellSet(C, 1)
           empty == TCells(<<>>, 1)
           room == TRoom(str, 1)
           img == TImage(str, 1)
           size == BufSize(m, z, 1)
<1>1. Layout(m, V, 1, empty, room, img)
  BY DEF TLayout
<1>2. /\ m.Num \in Nat /\ m.OffsetsSize \in Nat /\ m.Offsets \in [0 .. m.OffsetsSize - 1 -> Nat]
      /\ IsPool(m) /\ \A j \in Used(m) : room[j] \in Nat
  BY <1>1, PoolFacts DEF Layout, PoolShape
<1>3. size \in Nat /\ z + 1 <= size /\ 1 + CountOf(room, Used(m)) <= size
  BY <1>1, BufSizeOK DEF TPool
<1>4. empty[0] = NUL /\ \A k \in 0 .. 1 - 1 : empty[k] \in V
  BY DEF TCells, TCellSet
<1>5. Junk \in V
  BY DEF TCellSet
<1>6. /\ PoolS!Live(m) = Used(m)
      /\ \A j \in Used(m) : PoolS!Room(m, j) = room[j]
  BY ZLive
<1> HIDE DEF V, empty, room, img, size
<1>7. PoolS!ReserveBuf(m, z) = Gathered(m, 1, empty, room, size, Junk)
  BY <1>2, <1>3, <1>4, <1>6, ZReserveBuf DEF size
<1>8. Collected(m, Gathered(m, 1, empty, room, size, Junk), V, 1, empty, room)
  BY <1>1, <1>3, <1>4, <1>5, GatheredOK
<1>9. Gathered(m, 1, empty, room, size, Junk).BufferSize = size
  BY DEF Gathered, PoolOf
<1> QED BY <1>3, <1>7, <1>8, <1>9 DEF V, empty, room

(* What garbage collection makes where the string is allocated.            *)
LEMMA ZCollected ==
    ASSUME NEW m, NEW str, NEW C, NUL \notin C, TPool(m, str, C, 1),
           NEW i \in 0 .. m.Num - 1, NEW r \in Nat
    PROVE  LET v1 == PoolS!ReserveBuf(m, m.Top + r)
               g == MoreGarbage(m, i, TRoom(str, 1))
               v2 == PoolS!ReserveBuf(g, m.DataSize + r)
           IN  /\ Collected(m, v1, TCellSet(C, 1), 1, TCells(<<>>, 1), TRoom(str, 1))
               /\ m.Top + r + 1 <= v1.BufferSize /\ m.Top + r <= v1.BufferSize
               /\ Collected(g, v2, TCellSet(C, 1), 1, TCells(<<>>, 1), TRoom(str, 1))
               /\ m.DataSize + r + 1 <= v2.BufferSize
               /\ v1.Top \in Nat /\ v2.DataSize \in Nat /\ m.Top \in Nat /\ m.DataSize \in Nat
<1> DEFINE v1 == PoolS!ReserveBuf(m, m.Top + r)
           g == MoreGarbage(m, i, TRoom(str, 1))
           v2 == PoolS!ReserveBuf(g, m.DataSize + r)
           room == TRoom(str, 1)
           V == TCellSet(C, 1)
           empty == TCells(<<>>, 1)
<1>1. TLayout(m, str, C, 1) /\ Layout(m, V, 1, empty, room, TImage(str, 1))
  BY TInLayout DEF TLayout
<1>2. m.Top \in Nat /\ m.DataSize \in Nat
  BY <1>1, PoolFacts
<1>3. TLayout(g, str, C, 1) /\ Used(g) = Used(m) /\ g.DataSize = m.DataSize
  BY <1>1, TMoreGarbage
<1>4. CountOf(room, Used(m)) \in Nat /\ CountOf(room, Used(m)) <= m.DataSize
  BY TFits
<1>5. m.Top + r \in Nat /\ m.DataSize + r \in Nat /\ CountOf(room, Used(m)) <= m.DataSize + r
  <2> HIDE DEF room
  <2> QED BY <1>2, <1>4
<1>6. Collected(m, v1, V, 1, empty, room) /\ (m.Top + r) + 1 <= v1.BufferSize
  BY <1>1, <1>5, ZCollects
<1>7. Collected(g, v2, V, 1, empty, room) /\ (m.DataSize + r) + 1 <= v2.BufferSize
  <2> HIDE DEF g
  <2> QED BY <1>3, <1>5, ZCollects
<1>8. /\ Layout(v1, V, 1, empty, room, TImage(str, 1))
      /\ Layout(v2, V, 1, empty, room, TImage(str, 1))
  <2>1. Layout(g, V, 1, empty, room, TImage(str, 1))
    BY <1>3 DEF TLayout
  <2> HIDE DEF g, v1, v2, V, empty, room
  <2> QED BY <1>1, <1>6, <1>7, <2>1, CollectOK DEF PoolInv
<1>9. v1.Top \in Nat /\ v2.DataSize \in Nat /\ v1.BufferSize \in Nat
  <2> HIDE DEF v1, v2, V, empty, room
  <2> QED BY <1>8, PoolFacts
<1>10. m.Top + r <= v1.BufferSize
  <2> HIDE DEF v1
  <2> QED BY <1>2, <1>6, <1>9
<1> QED BY <1>2, <1>6, <1>7, <1>9, <1>10

(* Each way to allocate is the generic one.                                *)
LEMMA ZTopAlloc ==
    ASSUME NEW m, NEW str, NEW C, NUL \notin C, TPool(m, str, C, 1),
           NEW i \in 0 .. m.Num - 1, NEW len \in Nat
    PROVE  PoolS!AllocateAtTop(m, i, len)
             = AllocTop(m, len + 1, PoolS!ReserveBuf(m, m.Top + (len + 1)))
<1> DEFINE r == len + 1
           v == PoolS!ReserveBuf(m, m.Top + r)
           q == IF m.Top + r > m.BufferSize THEN v ELSE m
<1>1. v.Top \in Nat /\ m.Top \in Nat
  <2>1. r \in Nat
    OBVIOUS
  <2> HIDE DEF r
  <2> QED BY <2>1, ZCollected
<1>2. q.Top \in Nat
  <2> HIDE DEF v, r
  <2> QED BY <1>1
<1>3. m.Top + len + 1 = m.Top + r /\ q.Top + len + 1 = q.Top + r
  <2> HIDE DEF q
  <2> QED BY <1>1, <1>2
<1>4. PoolS!AllocateAtTop(m, i, len)
        = PoolS!At([q EXCEPT !.DataSize = q.Top + len + 1], q.Top)
  BY <1>3 DEF PoolS!AllocateAtTop
<1>5. AllocTop(m, r, v) = PutAt(WithData(q, q.Top + r), q.Top)
  BY DEF AllocTop
<1> HIDE DEF q
<1> QED BY <1>3, <1>4, <1>5 DEF PoolS!At, PutAt, WithData

LEMMA ZLength ==
    ASSUME NEW m, NEW str, NEW C, NUL \notin C, TPool(m, str, C, 1), NEW i \in Used(m)
    PROVE  /\ PoolS!StrLen(m, m.Offsets[i]) \in Nat
           /\ TRoom(str, 1)[i] = PoolS!StrLen(m, m.Offsets[i]) + 1
<1>1. /\ TLayout(m, str, C, 1) /\ IsText(m, str, C, 1)
      /\ Layout(m, TCellSet(C, 1), 1, TCells(<<>>, 1), TRoom(str, 1), TImage(str, 1))
  BY TInLayout DEF TLayout
<1>2. /\ i \in 0 .. m.Num - 1 /\ m.BufferSize > 0
  <2>1. /\ i \in 0 .. m.Num - 1 /\ m.BufferSize \in Nat
        /\ m.DataSize \in Nat /\ m.DataSize <= m.BufferSize /\ m.Offsets[i] \in Nat
        /\ TRoom(str, 1)[i] \in Nat \ {0} /\ m.Offsets[i] + TRoom(str, 1)[i] <= m.DataSize
    BY <1>1, PoolFacts
  <2> QED BY <2>1
<1>3. PoolS!StrLen(m, m.Offsets[i]) = Len(str[i])
  BY <1>1, <1>2, ZReads
<1>4. TRoom(str, 1)[i] = Len(str[i]) + 1 /\ Len(str[i]) \in Nat
  <2>1. 1 \in Nat \ {0}
    OBVIOUS
  <2> QED BY <1>1, <1>2, <2>1, TRooms
<1> QED BY <1>3, <1>4

LEMMA ZPlaceAlloc ==
    ASSUME NEW m, NEW str, NEW C, NUL \notin C, TPool(m, str, C, 1), NEW i \in Used(m), NEW len \in Nat
    PROVE  PoolS!AllocateInPlace(m, i, len) = AllocPlace(m, i, len + 1, TRoom(str, 1))
<1> DEFINE l == PoolS!StrLen(m, m.Offsets[i])
           c == TRoom(str, 1)[i]
<1>1. l \in Nat /\ c = l + 1 /\ m.GarbageSize \in Nat
  BY ZLength, TIsPool
<1>2. m.GarbageSize + l - len = m.GarbageSize + c - (len + 1)
  <2> HIDE DEF l, c
  <2> QED BY <1>1
<1> HIDE DEF l, c
<1> QED BY <1>2 DEF PoolS!AllocateInPlace, AllocPlace, PoolS!At, PutAt, WithGarbage, l, c

LEMMA ZEndAlloc ==
    ASSUME NEW m, NEW str, NEW C, NUL \notin C, TPool(m, str, C, 1),
           NEW i \in 0 .. m.Num - 1, NEW len \in Nat
    PROVE  PoolS!AllocateAtEnd(m, i, len)
             = AllocEnd(m, i, len + 1, TRoom(str, 1),
                        PoolS!ReserveBuf(MoreGarbage(m, i, TRoom(str, 1)), m.DataSize + (len + 1)))
<1> DEFINE r == len + 1
           l == PoolS!StrLen(m, m.Offsets[i])
           room == TRoom(str, 1)
           g == MoreGarbage(m, i, room)
           h == IF m.Offsets[i] = 0 THEN m ELSE [m EXCEPT !.GarbageSize = @ + l + 1]
           v == PoolS!ReserveBuf(g, m.DataSize + r)
           q == IF m.DataSize + r > m.BufferSize THEN v ELSE g
<1>1. /\ TLayout(m, str, C, 1) /\ IsText(m, str, C, 1)
      /\ Layout(m, TCellSet(C, 1), 1, TCells(<<>>, 1), room, TImage(str, 1))
  BY TInLayout DEF TLayout
<1>2. v.DataSize \in Nat /\ m.DataSize \in Nat /\ m.GarbageSize \in Nat
  <2>1. r \in Nat
    OBVIOUS
  <2>2. v.DataSize \in Nat /\ m.DataSize \in Nat
    <3> HIDE DEF r
    <3> QED BY <2>1, ZCollected
  <2> QED BY <1>1, <2>2, PoolFacts
<1>3. TLayout(g, str, C, 1) /\ g.DataSize = m.DataSize /\ g.BufferSize = m.BufferSize
  BY <1>1, TMoreGarbage
<1>4. h = g
  <2>1. CASE m.Offsets[i] = 0
    BY <2>1 DEF MoreGarbage
  <2>2. CASE m.Offsets[i] # 0
    <3>1. i \in Used(m)
      BY <2>2 DEF Used
    <3>2. l \in Nat /\ room[i] = l + 1
      BY <3>1, ZLength
    <3>3. m.GarbageSize + l + 1 = m.GarbageSize + room[i]
      <4> HIDE DEF l, room
      <4> QED BY <1>2, <3>2
    <3> HIDE DEF l, room
    <3> QED BY <2>2, <3>3 DEF MoreGarbage, WithGarbage
  <2> QED BY <2>1, <2>2
<1>5. q.DataSize \in Nat
  <2> HIDE DEF v, g, r
  <2> QED BY <1>2, <1>3
<1>6. m.DataSize + len + 1 = m.DataSize + r /\ q.DataSize + len + 1 = q.DataSize + r
  <2> HIDE DEF q
  <2> QED BY <1>2, <1>5
<1>7. PoolS!AllocateAtEnd(m, i, len)
        = PoolS!At([q EXCEPT !.Offsets[i] = q.DataSize, !.Top = q.DataSize,
                             !.DataSize = @ + len + 1], q.DataSize)
  <2> DEFINE q2 == IF h.DataSize + len + 1 > h.BufferSize
                   THEN PoolS!ReserveBuf(h, h.DataSize + len + 1) ELSE h
  <2>1. PoolS!AllocateAtEnd(m, i, len)
          = PoolS!At([q2 EXCEPT !.Offsets[i] = q2.DataSize, !.Top = q2.DataSize,
                             !.DataSize = @ + len + 1], q2.DataSize)
    BY DEF PoolS!AllocateAtEnd
  <2>2. q2 = q
    <3> HIDE DEF h, g, r
    <3> QED BY <1>3, <1>4, <1>6
  <2> HIDE DEF q, q2
  <2> QED BY <2>1, <2>2
<1>8. AllocEnd(m, i, r, room, v) = PutAt(WithLast(q, i, q.DataSize, q.DataSize + r), q.DataSize)
  BY DEF AllocEnd
<1> HIDE DEF q
<1> QED BY <1>6, <1>7, <1>8 DEF PoolS!At, PutAt, WithLast

LEMMA ZAllocates ==
    ASSUME NEW m, NEW str, NEW C, NUL \notin C, TPool(m, str, C, 1),
           NEW i \in 0 .. m.Num - 1, NEW len \in Nat
    PROVE  PoolS!Allocate(m, i, len)
              = Allocated(m, i, len + 1, TRoom(str, 1), PoolS!ReserveBuf(m, m.Top + (len + 1)),
                          PoolS!ReserveBuf(MoreGarbage(m, i, TRoom(str, 1)), m.DataSize + (len + 1)))
<1>1. m.Num \in Nat
  BY PoolFacts DEF TPool, PoolInv
<1>2. PoolS!AtTop(m, i) <=> (m.Offsets[i] # 0 /\ m.Offsets[i] = m.Top)
  BY <1>1 DEF PoolS!AtTop
<1>3. ASSUME m.Offsets[i] # 0
      PROVE  /\ PoolS!AllocateInPlace(m, i, len) = AllocPlace(m, i, len + 1, TRoom(str, 1))
             /\ (PoolS!StrLen(m, m.Offsets[i]) >= len) <=> (len + 1 <= TRoom(str, 1)[i])
  <2>1. i \in Used(m)
    BY <1>3 DEF Used
  <2> QED BY <2>1, ZPlaceAlloc, ZLength
<1>4. PoolS!AllocateAtTop(m, i, len)
             = AllocTop(m, len + 1, PoolS!ReserveBuf(m, m.Top + (len + 1)))
  BY ZTopAlloc
<1>5. PoolS!AllocateAtEnd(m, i, len)
             = AllocEnd(m, i, len + 1, TRoom(str, 1),
                        PoolS!ReserveBuf(MoreGarbage(m, i, TRoom(str, 1)), m.DataSize + (len + 1)))
  BY ZEndAlloc
<1> QED BY <1>2, <1>3, <1>4, <1>5 DEF PoolS!Allocate, Allocated

(* The operations of StringPoolS are the generic ones.                     *)
LEMMA ZNumbers ==
    ASSUME NEW m, NEW z
    PROVE  /\ PoolS!ReserveNum(m, z) = NumbersTo(m, z)
           /\ PoolS!WithNum(m, z) = NumberTo(m, z)
<1>1. \A q : PoolS!ReserveNum(q, z) = NumbersTo(q, z)
  BY DEF PoolS!ReserveNum, NumbersTo, WithOffsets, PoolS!Slots
<1>2. \A q : PoolS!ReserveNum(q, z + 1) = NumbersTo(q, z + 1)
  BY DEF PoolS!ReserveNum, NumbersTo, WithOffsets, PoolS!Slots
<1>3. PoolS!WithNum(m, z) = NumberTo(m, z)
  BY <1>2 DEF PoolS!WithNum, NumberTo, WithNumber
<1> QED BY <1>1, <1>3

LEMMA ZErases ==
    ASSUME NEW m, NEW str, NEW C, NUL \notin C, TPool(m, str, C, 1), NEW i \in 0 .. m.Num - 1
    PROVE  PoolS!Erase(m, i) = Erased(m, i, TRoom(str, 1))
<1>1. CASE m.Offsets[i] = 0
  BY <1>1 DEF PoolS!Erase, Erased
<1>2. CASE m.Offsets[i] # 0
  <2> DEFINE l == PoolS!StrLen(m, m.Offsets[i])
             c == TRoom(str, 1)[i]
  <2>1. i \in Used(m)
    BY <1>2 DEF Used
  <2>2. l \in Nat /\ c = l + 1 /\ m.GarbageSize \in Nat
    BY <2>1, ZLength, TIsPool
  <2> HIDE DEF l, c
  <2>3. m.GarbageSize + l + 1 = m.GarbageSize + c
    BY <2>2
  <2> QED BY <1>2, <2>3 DEF PoolS!Erase, Erased, WithErased, l, c
<1> QED BY <1>1, <1>2

LEMMA ZCopied ==
    ASSUME NEW pl, IsPool(pl.pool), pl.pool.BufferSize \in Nat, pl.at \in Nat,
           NEW V, pl.pool.Buffer \in [0 .. pl.pool.BufferSize - 1 -> V], NEW C, NEW s \in Seq(C)
    PROVE  PoolS!Copied(pl.pool, pl.at, s) = WithBuffer(pl.pool, TextBuffer(pl, s, 1))
<1> DEFINE p == pl.at
           B == pl.pool.Buffer
           D == 0 .. pl.pool.BufferSize - 1
           bufC == [q \in DOMAIN B |-> IF q - p + 1 \in DOMAIN s THEN s[q - p + 1]
                                     ELSE IF q = p + Len(s) THEN NUL ELSE B[q]]
           bufT == TextBuffer(pl, s, 1)
<1>1. PoolS!Copied(pl.pool, p, s) = WithBuffer(pl.pool, bufC)
  BY DEF PoolS!Copied, WithBuffer
<1>2. DOMAIN B = D /\ Len(s) \in Nat /\ DOMAIN s = 1 .. Len(s)
  OBVIOUS
<1>3. bufT = [q \in D |-> IF p <= q /\ q < p + (Len(s) + 1) THEN TCells(s, 1)[q - p] ELSE B[q]]
  BY DEF TextBuffer
<1>4. TCells(s, 1) = [k \in 0 .. Len(s) |-> IF k < Len(s) THEN s[k + 1] ELSE NUL]
  BY TCells1
<1>5. bufC = [q \in D |-> IF q - p + 1 \in DOMAIN s THEN s[q - p + 1]
                        ELSE IF q = p + Len(s) THEN NUL ELSE B[q]]
  BY <1>2
<1>6. \A q \in D : (IF q - p + 1 \in DOMAIN s THEN s[q - p + 1]
                    ELSE IF q = p + Len(s) THEN NUL ELSE B[q])
                   = (IF p <= q /\ q < p + (Len(s) + 1) THEN TCells(s, 1)[q - p] ELSE B[q])
  <2> DEFINE l == Len(s)
             im == TCells(s, 1)
  <2> SUFFICES ASSUME NEW q \in D
               PROVE  (IF q - p + 1 \in DOMAIN s THEN s[q - p + 1]
                       ELSE IF q = p + l THEN NUL ELSE B[q])
                      = (IF p <= q /\ q < p + (l + 1) THEN im[q - p] ELSE B[q])
    OBVIOUS
  <2>1. l \in Nat /\ p \in Nat /\ q \in Int /\ DOMAIN s = 1 .. l
        /\ im = [k \in 0 .. l |-> IF k < l THEN s[k + 1] ELSE NUL]
    BY <1>2, <1>4
  <2> HIDE DEF l, p, im, B
  <2>2. CASE p <= q /\ q < p + l
    <3>1. q - p + 1 \in 1 .. l /\ q - p \in 0 .. l /\ q - p < l /\ q < p + (l + 1)
      BY <2>1, <2>2
    <3> QED BY <2>1, <2>2, <3>1
  <2>3. CASE q = p + l
    <3>1. q - p + 1 \notin 1 .. l /\ q - p \in 0 .. l /\ ~ (q - p < l) /\ q < p + (l + 1) /\ p <= q
      BY <2>1, <2>3
    <3> QED BY <2>1, <2>3, <3>1
  <2>4. CASE q < p \/ q > p + l
    <3>1. q - p + 1 \notin 1 .. l /\ q # p + l /\ ~ (p <= q /\ q < p + (l + 1))
      BY <2>1, <2>4
    <3> QED BY <2>1, <3>1
  <2> QED BY <2>1, <2>2, <2>3, <2>4
<1>7. bufC = bufT
  <2> HIDE DEF bufC, bufT, B, D, p
  <2> QED BY <1>3, <1>5, <1>6
<1> QED BY <1>1, <1>7

(* Set: string i becomes s, the others stay.                               *)
LEMMA ZStored ==
    ASSUME NEW m, NEW str, NEW C, NUL \notin C, TPool(m, str, C, 1), NEW i \in Nat,
           NEW s \in Seq(C), MayStore(m, i, Len(s) + 1)
    PROVE  /\ TPool(PoolS!Stored(m, i, s), TextWith(str, m.Num, i, s), C, 1)
           /\ PoolS!Stored(m, i, s).Num = IF i < m.Num THEN m.Num ELSE i + 1
<1> DEFINE u == NumberTo(m, i)
           t == TextTo(str, m.Num, i)
           room == TRoom(t, 1)
<1>0. 1 \in Nat \ {0} /\ m.Num \in Nat
  BY TIsPool
<1> HIDE DEF room
<1>1. /\ TPool(u, t, C, 1) /\ i \in 0 .. u.Num - 1
      /\ u.Num = IF i < m.Num THEN m.Num ELSE i + 1
  BY <1>0, TNumberTo
<1>2. PoolS!WithNum(m, i) = u
  BY ZNumbers
<1>3. [t EXCEPT ![i] = s] = TextWith(str, m.Num, i, s)
  BY <1>0, TextWithIs
<1> HIDE DEF u, t
<1>4. CASE s = <<>>
  <2>1. PoolS!Stored(m, i, s) = PoolS!Erase(u, i)
    BY <1>2, <1>4 DEF PoolS!Stored
  <2>2. PoolS!Erase(u, i) = Erased(u, i, room)
    BY <1>1, ZErases DEF room
  <2>3. TPool(Erased(u, i, room), [t EXCEPT ![i] = <<>>], C, 1) /\ Erased(u, i, room).Num = u.Num
    BY <1>0, <1>1, TErased DEF room
  <2> QED BY <1>1, <1>3, <1>4, <2>1, <2>2, <2>3
<1>5. CASE s # <<>>
  <2> DEFINE r == Len(s) + 1
             v1 == PoolS!ReserveBuf(u, u.Top + r)
             v2 == PoolS!ReserveBuf(MoreGarbage(u, i, room), u.DataSize + r)
             pl == PoolS!Allocate(u, i, Len(s))
  <2>1. PoolS!Stored(m, i, s) = PoolS!Copied(pl.pool, pl.at, s)
    BY <1>2, <1>5 DEF PoolS!Stored
  <2>2. pl = Allocated(u, i, r, room, v1, v2)
    BY <1>1, ZAllocates DEF room
  <2>3. r \in Nat /\ s \in TStrings(C, 1)
    BY DEF TStrings
  <2> HIDE DEF r, pl
  <2>4. /\ Collected(u, v1, TCellSet(C, 1), 1, TCells(<<>>, 1), room)
        /\ u.Top + r <= v1.BufferSize
        /\ Collected(MoreGarbage(u, i, room), v2, TCellSet(C, 1), 1, TCells(<<>>, 1), room)
        /\ u.DataSize + r + 1 <= v2.BufferSize
    BY <1>1, <2>3, ZCollected DEF room
  <2> HIDE DEF v1, v2
  <2>5. IsPool(u) /\ IsPool(v1) /\ IsPool(v2)
    BY <1>1, <2>4, TIsPool DEF Collected
  <2>6. IsPool(pl.pool)
    BY <2>2, <2>5, AllocatedIsPool
  <2>7. (u.BufferSize > 0 => u.DataSize > 0) /\ GrowsLast(u, i, r)
    BY StillMayStore DEF TPool, u, r
  <2>8. GoodPlace(u, pl, TCellSet(C, 1), 1, TCells(<<>>, 1), room, TImage(t, 1), i, r)
    BY <1>1, <1>5, <2>2, <2>3, <2>4, <2>7, TPlaces DEF room, r
  <2>9. /\ TPool(WithBuffer(pl.pool, TextBuffer(pl, s, 1)), [t EXCEPT ![i] = s], C, 1)
        /\ WithBuffer(pl.pool, TextBuffer(pl, s, 1)).Num = u.Num
    BY <1>1, <1>5, <2>3, <2>6, <2>8, TPuts DEF room, r
  <2>10. PoolS!Copied(pl.pool, pl.at, s) = WithBuffer(pl.pool, TextBuffer(pl, s, 1))
    BY <2>6, <2>8, ZCopied DEF GoodPlace
  <2> QED BY <1>1, <1>3, <2>1, <2>9, <2>10
<1> QED BY <1>4, <1>5

(* The calls of StringPoolS.  What a call does to the pool:                *)
LEMMA ZSets ==
    ASSUME NEW m, NEW str, NEW C, NUL \notin C, TPool(m, str, C, 1), NEW i \in Nat,
           NEW s \in Seq(C), MayStore(m, i, Len(s) + 1)
    PROVE  PoolStep(m, str, C, 1, PoolS!Stored(m, i, s), PoolS!Call("Set", i, s))
<1>1. Becoming(m, str, C, 1, PoolS!Stored(m, i, s), i, s)
  BY ZStored DEF Becoming
<1>2. PoolS!Call("Set", i, s) = [op |-> "Set", i |-> i, s |-> s]
  BY DEF PoolS!Call
<1> QED BY <1>1, <1>2 DEF PoolStep

LEMMA ZAppends ==
    ASSUME NEW m, NEW str, NEW C, NUL \notin C, TPool(m, str, C, 1), NEW i \in 0 .. m.Num - 1,
           NEW s \in Seq(C), MayStore(m, i, Len(str[i]) + Len(s) + 1)
    PROVE  PoolStep(m, str, C, 1, PoolS!Appended(m, i, s), PoolS!Call("Concatenate", i, s))
<1> DEFINE old == IF m.Offsets[i] = 0 THEN <<>> ELSE PoolS!StrAt(m, m.Offsets[i])
           u == PoolS!Appended(m, i, s)
           all == str[i] \o s
<1>1. /\ m.Num \in Nat /\ m.BufferSize \in Nat /\ str[i] \in Seq(C) /\ DOMAIN str = 0 .. m.Num - 1
      /\ (str[i] # <<>>) <=> (m.Offsets[i] # 0)
  <2>1. str[i] # <<>> <=> m.Offsets[i] # 0
    BY TIsPool
  <2> QED BY <2>1, TIsPool
<1>2. i \in Nat /\ i < m.Num
  BY <1>1
<1>3. old = str[i]
  <2>1. CASE m.Offsets[i] = 0
    BY <1>1, <2>1
  <2>2. CASE m.Offsets[i] # 0
    <3>1. TLayout(m, str, C, 1)
      BY TInLayout
    <3>2. i \in Used(m)
      BY <2>2 DEF Used
    <3>3. m.BufferSize > 0
      <4>1. /\ m.Offsets[i] \in Nat /\ TRoom(str, 1)[i] \in Nat \ {0} /\ m.DataSize \in Nat
            /\ m.Offsets[i] + TRoom(str, 1)[i] <= m.DataSize /\ m.DataSize <= m.BufferSize
        BY <3>1, <3>2, PoolFacts DEF TLayout
      <4> QED BY <1>1, <4>1
    <3>4. PoolS!StrAt(m, m.Offsets[i]) = str[i]
      BY <3>1, <3>3, ZReads
    <3> QED BY <2>2, <3>4
  <2> QED BY <2>1, <2>2
<1>4. all \in Seq(C) /\ Len(all) = Len(str[i]) + Len(s)
  BY <1>1
<1>5. Becoming(m, str, C, 1, u, i, all)
  <2>1. CASE s = <<>>
    <3>1. u = m /\ all = str[i]
      BY <1>1, <2>1 DEF PoolS!Appended
    <3> DEFINE t == TextWith(str, m.Num, i, all)
    <3>2. DOMAIN t = 0 .. m.Num - 1 /\ \A j \in 0 .. m.Num - 1 : t[j] = str[j]
      BY <1>1, <1>2, <3>1 DEF TextWith
    <3> HIDE DEF t
    <3>3. TPool(m, t, C, 1)
      <4>1. 1 \in Nat \ {0}
        OBVIOUS
      <4> QED BY <3>2, <4>1, TSame
    <3> QED BY <1>2, <3>1, <3>3 DEF Becoming, t
  <2>2. CASE s # <<>>
    <3>1. u = PoolS!Stored(m, i, old \o s)
      BY <2>2 DEF PoolS!Appended
    <3>2. u = PoolS!Stored(m, i, all)
      <4> HIDE DEF old, u
      <4> QED BY <1>3, <3>1
    <3>3. MayStore(m, i, Len(all) + 1)
      BY <1>4
    <3> HIDE DEF u, all
    <3> QED BY <1>2, <1>4, <3>2, <3>3, ZStored DEF Becoming
  <2> QED BY <2>1, <2>2
<1>6. PoolS!Call("Concatenate", i, s) = [op |-> "Concatenate", i |-> i, s |-> s]
  BY DEF PoolS!Call
<1> QED BY <1>5, <1>6 DEF PoolStep

LEMMA ZSetsChar ==
    ASSUME NEW m, NEW str, NEW C, NUL \notin C, TPool(m, str, C, 1), NEW i \in 0 .. m.Num - 1,
           NEW k \in Nat, k < Len(str[i]), NEW c \in C
    PROVE  PoolStep(m, str, C, 1, [m EXCEPT !.Buffer[m.Offsets[i] + k] = c],
                    PoolS!Call("Set", i, [str[i] EXCEPT ![k + 1] = c]))
<1> DEFINE p == m.Offsets[i] + k
           u == WithCell(m, p, c)
           s == [str[i] EXCEPT ![k + 1] = c]
           t == [str EXCEPT ![i][k + 1] = c]
<1>1. /\ m.Num \in Nat /\ DOMAIN str = 0 .. m.Num - 1 /\ m.OffsetsSize \in Nat
      /\ m.Offsets \in [0 .. m.OffsetsSize - 1 -> Nat] /\ m.Num <= m.OffsetsSize
  BY TIsPool
<1>2. i \in Nat /\ i < m.Num /\ i \in 0 .. m.OffsetsSize - 1
  BY <1>1
<1>3. p = m.Offsets[i] + (1 - 1) + k
  <2>1. m.Offsets[i] \in Nat
    BY <1>1, <1>2
  <2> QED BY <2>1
<1> HIDE DEF p
<1>4. TPool(u, t, C, 1) /\ u.Num = m.Num
  BY <1>3, TSetsChar DEF CharSet
<1>5. t = TextWith(str, m.Num, i, s)
  <2>1. t = [str EXCEPT ![i] = s]
    BY <1>1
  <2>2. DOMAIN t = 0 .. m.Num - 1 /\ \A j \in 0 .. m.Num - 1 : t[j] = IF j = i THEN s ELSE str[j]
    <3> HIDE DEF s
    <3> QED BY <1>1, <2>1
  <2>3. TextWith(str, m.Num, i, s) = [j \in 0 .. m.Num - 1 |-> IF j = i THEN s ELSE str[j]]
    <3> HIDE DEF s
    <3>1. \A j \in 0 .. m.Num - 1 : j < m.Num
      BY <1>1
    <3> QED BY <1>2, <3>1 DEF TextWith
  <2> HIDE DEF s
  <2> QED BY <1>1, <2>1, <2>2, <2>3
<1> HIDE DEF s, t
<1>6. Becoming(m, str, C, 1, u, i, s)
  BY <1>2, <1>4, <1>5 DEF Becoming
<1>7. PoolS!Call("Set", i, s) = [op |-> "Set", i |-> i, s |-> s]
  BY DEF PoolS!Call
<1>8. u = [m EXCEPT !.Buffer[m.Offsets[i] + k] = c]
  BY DEF WithCell, p
<1> HIDE DEF u
<1>9. PoolStep(m, str, C, 1, u, PoolS!Call("Set", i, s))
  BY <1>2, <1>6, <1>7 DEF PoolStep
<1> QED BY <1>8, <1>9 DEF s

LEMMA ZClears ==
    ASSUME NEW m, NEW str, NEW C, TPool(m, str, C, 1)
    PROVE  PoolStep(m, str, C, 1,
                    [m EXCEPT !.Offsets = [i \in DOMAIN @ |-> IF i < m.Num THEN 0 ELSE @[i]],
                              !.DataSize = 0, !.GarbageSize = 0],
                    PoolS!Call("Clear", 0, <<>>))
<1> DEFINE o == [i \in DOMAIN m.Offsets |-> IF i < m.Num THEN 0 ELSE m.Offsets[i]]
           u == WithCleared(m, o)
<1>1. DOMAIN m.Offsets = 0 .. m.OffsetsSize - 1
  BY TIsPool
<1>2. u = ClearedPool(m)
  BY <1>1 DEF ClearedPool
<1>3. u = [m EXCEPT !.Offsets = [i \in DOMAIN @ |-> IF i < m.Num THEN 0 ELSE @[i]],
                    !.DataSize = 0, !.GarbageSize = 0]
  BY DEF WithCleared
<1>4. PoolS!Call("Clear", 0, <<>>).op = "Clear"
  BY DEF PoolS!Call
<1> HIDE DEF u
<1>5. TPool(u, [j \in 0 .. m.Num - 1 |-> <<>>], C, 1) /\ u.Num = m.Num
  BY <1>2, TCleared
<1>6. PoolStep(m, str, C, 1, u, PoolS!Call("Clear", 0, <<>>))
  BY <1>4, <1>5 DEF PoolStep
<1> QED BY <1>3, <1>6

LEMMA ZReserves ==
    ASSUME NEW m, NEW str, NEW C, NUL \notin C, TPool(m, str, C, 1), NEW z \in Nat
    PROVE  /\ PoolStep(m, str, C, 1, PoolS!ReserveBuf(m, z), PoolS!Call("Reserve", 0, <<>>))
           /\ PoolStep(m, str, C, 1, PoolS!ReserveNum(m, z), PoolS!Call("Reserve", 0, <<>>))
<1> DEFINE u == PoolS!ReserveBuf(m, z)
           v == PoolS!ReserveNum(m, z)
           c == PoolS!Call("Reserve", 0, <<>>)
<1>1. TPool(u, str, C, 1) /\ u.Num = m.Num
  <2>1. TLayout(m, str, C, 1)
    BY TInLayout
  <2>2. Collected(m, u, TCellSet(C, 1), 1, TCells(<<>>, 1), TRoom(str, 1))
    BY <2>1, ZCollects
  <2> HIDE DEF u
  <2> QED BY <2>2, TCollected
<1>2. TPool(v, str, C, 1) /\ v.Num = m.Num
  <2>1. v = NumbersTo(m, z)
    BY ZNumbers
  <2>2. 1 \in Nat \ {0}
    OBVIOUS
  <2> HIDE DEF v
  <2> QED BY <2>1, <2>2, TNumbersTo
<1>3. c.op = "Reserve"
  BY DEF PoolS!Call
<1> HIDE DEF u, v, c
<1>4. PoolStep(m, str, C, 1, u, c) /\ PoolStep(m, str, C, 1, v, c)
  BY <1>1, <1>2, <1>3 DEF PoolStep
<1> QED BY <1>4 DEF u, v, c

\* An error or a crash leaves the pool alone; else the call was made.
ZOutcome(str) ==
    \/ zStatus' \in {"exited", "crashed"} /\ zPool' = zPool /\ zCall' = zCall
    \/ zStatus' = "running" /\ PoolStep(zPool, str, Chars, 1, zPool', zCall')

LEMMA ZBecomes ==
    ASSUME NEW str, zStatus = "running", NEW m2, NEW c,
           PoolStep(zPool, str, Chars, 1, m2, c), PoolS!Becomes(m2), PoolS!Done(c)
    PROVE  ZOutcome(str)
<1>1. CASE m2.BufferSize > LimitS
  BY <1>1 DEF PoolS!Becomes, PoolS!Done, ZOutcome
<1>2. CASE ~ (m2.BufferSize > LimitS)
  BY <1>2 DEF PoolS!Becomes, PoolS!Done, ZOutcome
<1> QED BY <1>1, <1>2

LEMMA ZErrs == ASSUME NEW str, PoolS!Error PROVE ZOutcome(str)
BY DEF PoolS!Error, ZOutcome

LEMMA ZKeeps ==
    ASSUME {"grow", "clear", "self"} \subseteq Rules, NEW str, TPool(zPool, str, Chars, 1),
           NEW i \in Nat, NEW len \in Nat,
           PoolS!KeepsRule("grow", i, len), PoolS!KeepsRule("clear", i, len)
    PROVE  MayStore(zPool, i, len + 1)
<1>1. zPool.BufferSize > 0 => zPool.DataSize > 0
  BY DEF PoolS!KeepsRule
<1>2. PoolS!AtTop(zPool, i) /\ zPool.Top + len + 1 > zPool.BufferSize
         => \A j \in i + 1 .. zPool.Num - 1 : zPool.Offsets[j] = 0
  BY DEF PoolS!KeepsRule
<1>3. zPool.Top + len + 1 = zPool.Top + (len + 1)
  <2>1. zPool.Top \in Nat
    BY TIsPool
  <2> QED BY <2>1
<1>4. i < zPool.Num => GrowsLast(zPool, i, len + 1)
  <2> SUFFICES ASSUME i < zPool.Num, zPool.Offsets[i] # 0, zPool.Offsets[i] = zPool.Top,
                      zPool.Top + (len + 1) > zPool.BufferSize
               PROVE  \A j \in i + 1 .. zPool.Num - 1 : zPool.Offsets[j] = 0
    BY DEF GrowsLast
  <2>1. PoolS!AtTop(zPool, i)
    BY DEF PoolS!AtTop
  <2> QED BY <1>2, <1>3, <2>1
<1> QED BY <1>1, <1>4 DEF MayStore

LEMMA ZNotNUL == NUL \notin Chars /\ NUL \notin FewChars
BY StringsAssumption

LEMMA ZSetStep ==
    ASSUME {"grow", "clear", "self"} \subseteq Rules, NEW str, TPool(zPool, str, Chars, 1),
           zStatus = "running", NEW i \in Nat, NEW s \in Seq(Chars), PoolS!Set(i, s)
    PROVE  ZOutcome(str)
<1>1. /\ PoolS!KeepsRule("grow", i, Len(s)) /\ PoolS!KeepsRule("clear", i, Len(s))
      /\ PoolS!Becomes(PoolS!Stored(zPool, i, s)) /\ PoolS!Done(PoolS!Call("Set", i, s))
  BY DEF PoolS!Set
<1>2. MayStore(zPool, i, Len(s) + 1)
  <2>1. Len(s) \in Nat
    OBVIOUS
  <2> QED BY <1>1, <2>1, ZKeeps
<1>3. PoolStep(zPool, str, Chars, 1, PoolS!Stored(zPool, i, s), PoolS!Call("Set", i, s))
  BY <1>2, ZSets, ZNotNUL
<1> QED BY <1>1, <1>3, ZBecomes

LEMMA ZReadsNow ==
    ASSUME NEW str, TPool(zPool, str, Chars, 1), NEW j \in 0 .. zPool.Num - 1
    PROVE  PoolS!Get(zPool, j) = str[j] /\ str[j] \in Seq(Chars)
BY ZGets, ZNotNUL, TInLayout, TIsPool

LEMMA ZConcatenateStep ==
    ASSUME {"grow", "clear", "self"} \subseteq Rules, NEW str, TPool(zPool, str, Chars, 1),
           zStatus = "running", NEW i \in Nat, NEW s \in Seq(Chars), PoolS!Concatenate(i, s)
    PROVE  ZOutcome(str)
<1>1. CASE PoolS!Error
  BY <1>1, ZErrs
<1>2. CASE ~ PoolS!Error
  <2>1. /\ i < zPool.Num
        /\ PoolS!KeepsRule("grow", i, Len(PoolS!Get(zPool, i)) + Len(s))
        /\ PoolS!KeepsRule("clear", i, Len(PoolS!Get(zPool, i)) + Len(s))
        /\ PoolS!Becomes(PoolS!Appended(zPool, i, s))
        /\ PoolS!Done(PoolS!Call("Concatenate", i, s))
    BY <1>2 DEF PoolS!Concatenate
  <2>2. i \in 0 .. zPool.Num - 1
    <3>1. zPool.Num \in Nat
      BY TIsPool
    <3> QED BY <2>1, <3>1
  <2>3. PoolS!Get(zPool, i) = str[i] /\ str[i] \in Seq(Chars)
    BY <2>2, ZReadsNow
  <2>4. Len(str[i]) + Len(s) \in Nat
    BY <2>3
  <2>5. MayStore(zPool, i, Len(str[i]) + Len(s) + 1)
    BY <2>1, <2>3, <2>4, ZKeeps
  <2>6. PoolStep(zPool, str, Chars, 1, PoolS!Appended(zPool, i, s), PoolS!Call("Concatenate", i, s))
    BY <2>2, <2>5, ZAppends, ZNotNUL
  <2> QED BY <2>1, <2>6, ZBecomes
<1> QED BY <1>1, <1>2

LEMMA PartOfString ==
    ASSUME NEW C, NEW s \in Seq(C), NEW start \in Nat, NEW len \in Nat, start + len <= Len(s)
    PROVE  SubSeq(s, start + 1, start + len) \in Seq(C) /\ Len(SubSeq(s, start + 1, start + len)) = len
<1> DEFINE t == SubSeq(s, start + 1, start + len)
<1>1. t = [k \in 1 .. len |-> s[k + start]]
  <2>1. (start + len) - (start + 1) + 1 = len
    OBVIOUS
  <2>2. t = [k \in 1 .. (start + len) - (start + 1) + 1 |-> s[k + (start + 1) - 1]]
    BY DEF SubSeq
  <2>3. \A k \in 1 .. len : k + (start + 1) - 1 = k + start
    OBVIOUS
  <2> QED BY <2>1, <2>2, <2>3
<1>2. \A k \in 1 .. len : s[k + start] \in C
  <2> SUFFICES ASSUME NEW k \in 1 .. len PROVE s[k + start] \in C
    OBVIOUS
  <2>1. k + start \in 1 .. Len(s)
    OBVIOUS
  <2> QED BY <2>1
<1> HIDE DEF t
<1> QED BY <1>1, <1>2 DEF t

LEMMA ZSetFromStep ==
    ASSUME {"grow", "clear", "self"} \subseteq Rules, NEW str, TPool(zPool, str, Chars, 1),
           zStatus = "running", NEW i \in Nat, NEW j \in Nat, NEW start \in Nat, NEW len \in Nat,
           PoolS!SetFrom(i, j, start, len)
    PROVE  ZOutcome(str)
<1>1. j \in 0 .. zPool.Num - 1
  <2>1. zPool.Num \in Nat
    BY TIsPool
  <2>2. j < zPool.Num
    BY DEF PoolS!SetFrom
  <2> QED BY <2>1, <2>2
<1>2. PoolS!Get(zPool, j) = str[j] /\ str[j] \in Seq(Chars)
  BY <1>1, ZReadsNow
<1>3. CASE PoolS!Error
  BY <1>3, ZErrs
<1>4. CASE ~ PoolS!Error
  <2> DEFINE s == SubSeq(str[j], start + 1, start + len)
  <2>1. start + len <= Len(str[j]) /\ PoolS!Set(i, s)
    BY <1>2, <1>4 DEF PoolS!SetFrom
  <2>2. s \in Seq(Chars)
    BY <1>2, <2>1, PartOfString
  <2> HIDE DEF s
  <2> QED BY <2>1, <2>2, ZSetStep
<1> QED BY <1>3, <1>4

LEMMA ZConcatenateFromStep ==
    ASSUME {"grow", "clear", "self"} \subseteq Rules, NEW str, TPool(zPool, str, Chars, 1),
           zStatus = "running", NEW i \in Nat, NEW j \in Nat, PoolS!ConcatenateFrom(i, j)
    PROVE  ZOutcome(str)
<1>1. j \in 0 .. zPool.Num - 1
  <2>1. zPool.Num \in Nat
    BY TIsPool
  <2>2. j < zPool.Num
    BY DEF PoolS!ConcatenateFrom
  <2> QED BY <2>1, <2>2
<1>2. PoolS!Get(zPool, j) \in Seq(Chars)
  BY <1>1, ZReadsNow
<1>3. i = j => ~ PoolS!StaysAtTop(zPool, i, 2 * Len(PoolS!Get(zPool, j)))
  <2>1. i = j => PoolS!KeepsRule("self", i, 2 * Len(PoolS!Get(zPool, j)))
    BY DEF PoolS!ConcatenateFrom
  <2> QED BY <2>1 DEF PoolS!KeepsRule
<1>4. PoolS!Concatenate(i, PoolS!Get(zPool, j))
  BY <1>3 DEF PoolS!ConcatenateFrom
<1> QED BY <1>2, <1>4, ZConcatenateStep

LEMMA ZSetCharStep ==
    ASSUME NEW str, TPool(zPool, str, Chars, 1), zStatus = "running",
           NEW i \in Nat, NEW k \in Nat, NEW c \in Chars, PoolS!SetChar(i, k, c)
    PROVE  ZOutcome(str)
<1>1. i \in 0 .. zPool.Num - 1
  <2>1. zPool.Num \in Nat
    BY TIsPool
  <2>2. i < zPool.Num
    BY DEF PoolS!SetChar
  <2> QED BY <2>1, <2>2
<1>2. PoolS!Get(zPool, i) = str[i]
  BY <1>1, ZReadsNow
<1>3. CASE PoolS!Error
  BY <1>3, ZErrs
<1>4. CASE ~ PoolS!Error
  <2>1. /\ k < Len(str[i])
        /\ zPool' = [zPool EXCEPT !.Buffer[zPool.Offsets[i] + k] = c]
        /\ zCall' = PoolS!Call("Set", i, [str[i] EXCEPT ![k + 1] = c])
        /\ zStatus' = zStatus
    BY <1>2, <1>4 DEF PoolS!SetChar
  <2>2. PoolStep(zPool, str, Chars, 1, [zPool EXCEPT !.Buffer[zPool.Offsets[i] + k] = c],
                    PoolS!Call("Set", i, [str[i] EXCEPT ![k + 1] = c]))
    BY <1>1, <2>1, ZSetsChar, ZNotNUL
  <2> QED BY <2>1, <2>2 DEF ZOutcome
<1> QED BY <1>3, <1>4

LEMMA ZClearStep ==
    ASSUME NEW str, TPool(zPool, str, Chars, 1), zStatus = "running", PoolS!Clear
    PROVE  ZOutcome(str)
<1> DEFINE u == [zPool EXCEPT !.Offsets = [i \in DOMAIN @ |-> IF i < zPool.Num THEN 0 ELSE @[i]],
                              !.DataSize = 0, !.GarbageSize = 0]
<1>1. zPool' = u /\ zCall' = PoolS!Call("Clear", 0, <<>>) /\ zStatus' = zStatus
  BY DEF PoolS!Clear
<1>2. PoolStep(zPool, str, Chars, 1, u, PoolS!Call("Clear", 0, <<>>))
  BY ZClears
<1> HIDE DEF u
<1> QED BY <1>1, <1>2 DEF ZOutcome

LEMMA ZReserveStep ==
    ASSUME NEW str, TPool(zPool, str, Chars, 1), zStatus = "running",
           \/ PoolS!Becomes(PoolS!ReserveBuf(zPool, 0))
           \/ PoolS!Becomes(PoolS!ReserveNum(zPool, MaxStrings)),
           PoolS!Done(PoolS!Call("Reserve", 0, <<>>))
    PROVE  ZOutcome(str)
<1>1. 0 \in Nat /\ MaxStrings \in Nat
  BY StringsAssumption
<1>2. /\ PoolStep(zPool, str, Chars, 1, PoolS!ReserveBuf(zPool, 0), PoolS!Call("Reserve", 0, <<>>))
      /\ PoolStep(zPool, str, Chars, 1, PoolS!ReserveNum(zPool, MaxStrings), PoolS!Call("Reserve", 0, <<>>))
  BY <1>1, ZReserves, ZNotNUL
<1> QED BY <1>2, ZBecomes

LEMMA ZNext ==
    ASSUME {"grow", "clear", "self"} \subseteq Rules, NEW str, TPool(zPool, str, Chars, 1), PoolS!Next
    PROVE  zStatus = "running" /\ ZOutcome(str)
<1>1. zStatus = "running"
  BY DEF PoolS!Next
<1>2. \A i \in PoolS!Slots(MaxStrings) : i \in Nat
  BY StringsAssumption DEF PoolS!Slots
<1>3. \A l \in 0 .. MaxLen : l \in Nat
  OBVIOUS
<1>4. ASSUME NEW i \in PoolS!Slots(MaxStrings), NEW s \in StringsS,
             PoolS!Set(i, s) \/ PoolS!Concatenate(i, s)
      PROVE  ZOutcome(str)
  <2>1. s \in Seq(Chars)
    BY StringsAssumption
  <2> QED BY <1>1, <1>2, <1>4, <2>1, ZSetStep, ZConcatenateStep
<1>5. ASSUME NEW i \in PoolS!Slots(MaxStrings), NEW j \in PoolS!Slots(MaxStrings),
             PoolS!ConcatenateFrom(i, j)
      PROVE  ZOutcome(str)
  BY <1>1, <1>2, <1>5, ZConcatenateFromStep
<1>6. ASSUME NEW i \in PoolS!Slots(MaxStrings), NEW j \in PoolS!Slots(MaxStrings),
             NEW start \in 0 .. MaxLen, NEW len \in 0 .. MaxLen, PoolS!SetFrom(i, j, start, len)
      PROVE  ZOutcome(str)
  BY <1>1, <1>2, <1>3, <1>6, ZSetFromStep
<1>7. ASSUME NEW i \in PoolS!Slots(MaxStrings), NEW k \in 0 .. MaxLen, NEW c \in Chars,
             PoolS!SetChar(i, k, c)
      PROVE  ZOutcome(str)
  BY <1>1, <1>2, <1>3, <1>7, ZSetCharStep
<1>8. ASSUME NEW i \in PoolS!Slots(MaxStrings), PoolS!Read(i)
      PROVE  ZOutcome(str)
  BY <1>8 DEF PoolS!Read, PoolS!Error, ZOutcome
<1>9. ASSUME PoolS!Reserve
      PROVE  ZOutcome(str)
  BY <1>1, <1>9, ZReserveStep DEF PoolS!Reserve
<1> QED BY <1>1, <1>4, <1>5, <1>6, <1>7, <1>8, <1>9, ZClearStep DEF PoolS!Next

-----------------------------------------------------------------------------
(* StringPoolW: its operators are those of StringPoolS.                    *)
LEMMA WReads ==
    ASSUME NEW m
    PROVE  /\ \A p : PoolW!StrLen(m, p) = PoolS!StrLen(m, p)
           /\ \A p : PoolW!StrAt(m, p) = PoolS!StrAt(m, p)
           /\ \A i : PoolW!Get(m, i) = PoolS!Get(m, i)
           /\ \A i : PoolW!AtTop(m, i) = PoolS!AtTop(m, i)
           /\ \A p, s : PoolW!Copied(m, p, s) = PoolS!Copied(m, p, s)
           /\ \A p : PoolW!At(m, p) = PoolS!At(m, p)
<1>1. ASSUME NEW p PROVE PoolW!StrLen(m, p) = PoolS!StrLen(m, p)
  BY DEF PoolW!StrLen, PoolS!StrLen
<1>2. ASSUME NEW p PROVE PoolW!StrAt(m, p) = PoolS!StrAt(m, p)
  BY <1>1 DEF PoolW!StrAt, PoolS!StrAt
<1>3. ASSUME NEW i PROVE PoolW!Get(m, i) = PoolS!Get(m, i)
  BY <1>2 DEF PoolW!Get, PoolS!Get
<1>4. ASSUME NEW i PROVE PoolW!AtTop(m, i) = PoolS!AtTop(m, i)
  BY DEF PoolW!AtTop, PoolS!AtTop
<1>5. ASSUME NEW p, NEW s PROVE PoolW!Copied(m, p, s) = PoolS!Copied(m, p, s)
  BY DEF PoolW!Copied, PoolS!Copied
<1>6. ASSUME NEW p PROVE PoolW!At(m, p) = PoolS!At(m, p)
  BY DEF PoolW!At, PoolS!At
<1> QED BY <1>1, <1>2, <1>3, <1>4, <1>5, <1>6

LEMMA WBlocks ==
    ASSUME NEW m
    PROVE  /\ PoolW!Live(m) = PoolS!Live(m)
           /\ \A js : PoolW!Cardinality(PoolW!Cells(m, js)) = PoolS!Cardinality(PoolS!Cells(m, js))
           /\ \A i : PoolW!Place(m, i) = PoolS!Place(m, i) /\ PoolW!Block(m, i) = PoolS!Block(m, i)
           /\ \A S : PoolW!Max(S) = PoolS!Max(S)
<1>1. PoolW!Live(m) = PoolS!Live(m)
  BY WReads DEF PoolW!Live, PoolS!Live, PoolW!Slots, PoolS!Slots
<1>2. ASSUME NEW i PROVE PoolW!Room(m, i) = PoolS!Room(m, i)
  BY WReads DEF PoolW!Room, PoolS!Room
<1>3. ASSUME NEW js PROVE PoolW!Cells(m, js) = PoolS!Cells(m, js)
  BY <1>2 DEF PoolW!Cells, PoolS!Cells, PoolW!Slots, PoolS!Slots
<1>4. ASSUME NEW S PROVE PoolW!Cardinality(S) = PoolS!Cardinality(S)
  BY DEF PoolW!Cardinality, PoolS!Cardinality
<1>5. ASSUME NEW i PROVE PoolW!Place(m, i) = PoolS!Place(m, i)
  BY <1>1, <1>3, <1>4 DEF PoolW!Place, PoolS!Place
<1>6. ASSUME NEW i PROVE PoolW!Block(m, i) = PoolS!Block(m, i)
  BY <1>2, <1>5 DEF PoolW!Block, PoolS!Block
<1>7. ASSUME NEW S PROVE PoolW!Max(S) = PoolS!Max(S)
  BY DEF PoolW!Max, PoolS!Max
<1> QED BY <1>1, <1>3, <1>4, <1>5, <1>6, <1>7

LEMMA WReserveBuf ==
    ASSUME NEW m, NEW newsize
    PROVE  PoolW!ReserveBuf(m, newsize) = PoolS!ReserveBuf(m, newsize)
<1> DEFINE least == (m.DataSize - m.GarbageSize) * 2 + AllocateSpace1
           size == (IF newsize < least THEN least ELSE newsize) + 1
           L == PoolS!Live(m)
           cellS(q) ==
               CASE q = 0 -> NUL
                 [] \E i \in L : q \in PoolS!Block(m, i) ->
                      LET i == CHOOSE i \in L : q \in PoolS!Block(m, i)
                      IN  m.Buffer[m.Offsets[i] + q - PoolS!Place(m, i)]
                 [] OTHER -> Junk
           cellW(q) ==
               CASE q = 0 -> NUL
                 [] \E i \in PoolW!Live(m) : q \in PoolW!Block(m, i) ->
                      LET i == CHOOSE i \in PoolW!Live(m) : q \in PoolW!Block(m, i)
                      IN  m.Buffer[m.Offsets[i] + q - PoolW!Place(m, i)]
                 [] OTHER -> Junk
           offS == [i \in DOMAIN m.Offsets |-> IF i \in L THEN PoolS!Place(m, i) ELSE 0]
           offW == [i \in DOMAIN m.Offsets |-> IF i \in PoolW!Live(m) THEN PoolW!Place(m, i) ELSE 0]
           topS == IF L = {} THEN 1 ELSE PoolS!Place(m, PoolS!Max(L))
           topW == IF PoolW!Live(m) = {} THEN 1 ELSE PoolW!Place(m, PoolW!Max(PoolW!Live(m)))
           bufS == [q \in 0 .. size - 1 |-> cellS(q)]
           bufW == [q \in 0 .. size - 1 |-> cellW(q)]
<1>1. PoolS!ReserveBuf(m, newsize)
        = Refilled(m, bufS, size, offS, topS, 1 + PoolS!Cardinality(PoolS!Cells(m, L)), 0)
  BY DEF PoolS!ReserveBuf, Refilled, PoolS!Slots
<1>2. PoolW!ReserveBuf(m, newsize)
        = Refilled(m, bufW, size, offW, topW, 1 + PoolW!Cardinality(PoolW!Cells(m, PoolW!Live(m))), 0)
  BY DEF PoolW!ReserveBuf, Refilled, PoolW!Slots
<1>3. ASSUME NEW q PROVE cellW(q) = cellS(q)
  <2>1. (CHOOSE i \in PoolW!Live(m) : q \in PoolW!Block(m, i)) = (CHOOSE i \in L : q \in PoolS!Block(m, i))
    BY WBlocks
  <2>2. (\E i \in PoolW!Live(m) : q \in PoolW!Block(m, i)) <=> (\E i \in L : q \in PoolS!Block(m, i))
    BY WBlocks
  <2> QED BY <2>1, <2>2, WBlocks
<1>4. bufW = bufS
  <2> HIDE DEF cellS, cellW, size
  <2> QED BY <1>3
<1>5. offW = offS /\ topW = topS
      /\ PoolW!Cardinality(PoolW!Cells(m, PoolW!Live(m))) = PoolS!Cardinality(PoolS!Cells(m, L))
  BY WBlocks
<1> HIDE DEF bufS, bufW, offS, offW, topS, topW, size, L
<1> QED BY <1>1, <1>2, <1>4, <1>5

LEMMA WNumbers ==
    ASSUME NEW m, NEW z
    PROVE  /\ PoolW!ReserveNum(m, z) = PoolS!ReserveNum(m, z)
           /\ PoolW!WithNum(m, z) = PoolS!WithNum(m, z)
<1>1. \A q, y : PoolW!ReserveNum(q, y) = PoolS!ReserveNum(q, y)
  BY DEF PoolW!ReserveNum, PoolS!ReserveNum, PoolW!Slots, PoolS!Slots
<1> QED BY <1>1 DEF PoolW!WithNum, PoolS!WithNum

LEMMA WAllocates ==
    ASSUME NEW m, NEW i, NEW len
    PROVE  PoolW!Allocate(m, i, len) = PoolS!Allocate(m, i, len)
<1>1. PoolW!AllocateAtTop(m, i, len) = PoolS!AllocateAtTop(m, i, len)
  <2> DEFINE q == IF m.Top + len + 1 > m.BufferSize
                  THEN PoolS!ReserveBuf(m, m.Top + len + 1) ELSE m
             q2 == IF m.Top + len + 1 > m.BufferSize
                   THEN PoolW!ReserveBuf(m, m.Top + len + 1) ELSE m
  <2>1. q2 = q
    BY WReserveBuf
  <2>2. PoolS!AllocateAtTop(m, i, len) = PoolS!At([q EXCEPT !.DataSize = q.Top + len + 1], q.Top)
    BY DEF PoolS!AllocateAtTop
  <2>3. PoolW!AllocateAtTop(m, i, len) = PoolW!At([q2 EXCEPT !.DataSize = q2.Top + len + 1], q2.Top)
    BY DEF PoolW!AllocateAtTop
  <2> HIDE DEF q, q2
  <2> QED BY <2>1, <2>2, <2>3, WReads
<1>2. PoolW!AllocateInPlace(m, i, len) = PoolS!AllocateInPlace(m, i, len)
  BY WReads DEF PoolW!AllocateInPlace, PoolS!AllocateInPlace
<1>3. PoolW!AllocateAtEnd(m, i, len) = PoolS!AllocateAtEnd(m, i, len)
  <2> DEFINE g == IF m.Offsets[i] = 0 THEN m
                  ELSE [m EXCEPT !.GarbageSize = @ + PoolS!StrLen(m, m.Offsets[i]) + 1]
             g2 == IF m.Offsets[i] = 0 THEN m
                   ELSE [m EXCEPT !.GarbageSize = @ + PoolW!StrLen(m, m.Offsets[i]) + 1]
             q == IF g.DataSize + len + 1 > g.BufferSize
                  THEN PoolS!ReserveBuf(g, g.DataSize + len + 1) ELSE g
             q2 == IF g2.DataSize + len + 1 > g2.BufferSize
                   THEN PoolW!ReserveBuf(g2, g2.DataSize + len + 1) ELSE g2
             u == [q EXCEPT !.Offsets[i] = q.DataSize, !.Top = q.DataSize, !.DataSize = @ + len + 1]
             u2 == [q2 EXCEPT !.Offsets[i] = q2.DataSize, !.Top = q2.DataSize, !.DataSize = @ + len + 1]
  <2>1. g2 = g
    BY WReads
  <2>2. q2 = q
    <3> HIDE DEF g, g2
    <3> QED BY <2>1, WReserveBuf
  <2>3. PoolS!AllocateAtEnd(m, i, len) = PoolS!At(u, q.DataSize)
    BY DEF PoolS!AllocateAtEnd
  <2>4. PoolW!AllocateAtEnd(m, i, len) = PoolW!At(u2, q2.DataSize)
    BY DEF PoolW!AllocateAtEnd
  <2>5. u2 = u
    <3> HIDE DEF q, q2
    <3> QED BY <2>2
  <2> HIDE DEF q, q2, u, u2
  <2> QED BY <2>2, <2>3, <2>4, <2>5, WReads
<1> QED BY <1>1, <1>2, <1>3, WReads DEF PoolW!Allocate, PoolS!Allocate

LEMMA WCalls ==
    ASSUME NEW m, NEW i, NEW s
    PROVE  /\ PoolW!Stored(m, i, s) = PoolS!Stored(m, i, s)
           /\ PoolW!Appended(m, i, s) = PoolS!Appended(m, i, s)
           /\ \A op2 : PoolW!Call(op2, i, s) = PoolS!Call(op2, i, s)
<1>1. \A q : PoolW!Erase(q, i) = PoolS!Erase(q, i)
  <2> SUFFICES ASSUME NEW q PROVE PoolW!Erase(q, i) = PoolS!Erase(q, i)
    OBVIOUS
  <2>1. PoolW!StrLen(q, q.Offsets[i]) = PoolS!StrLen(q, q.Offsets[i])
    BY WReads
  <2> QED BY <2>1 DEF PoolW!Erase, PoolS!Erase
<1>2. ASSUME NEW t PROVE PoolW!Stored(m, i, t) = PoolS!Stored(m, i, t)
  <2> DEFINE u == PoolS!WithNum(m, i)
             pl == PoolS!Allocate(u, i, Len(t))
  <2>1. PoolW!WithNum(m, i) = u /\ PoolW!Allocate(u, i, Len(t)) = pl
    BY WNumbers, WAllocates
  <2>2. PoolW!Copied(pl.pool, pl.at, t) = PoolS!Copied(pl.pool, pl.at, t)
    BY WReads
  <2>3. PoolW!Erase(u, i) = PoolS!Erase(u, i)
    BY <1>1
  <2>4. PoolS!Stored(m, i, t) = IF t = <<>> THEN PoolS!Erase(u, i) ELSE PoolS!Copied(pl.pool, pl.at, t)
    BY DEF PoolS!Stored
  <2>5. PoolW!Stored(m, i, t) = IF t = <<>> THEN PoolW!Erase(u, i) ELSE PoolW!Copied(pl.pool, pl.at, t)
    <3> HIDE DEF u, pl
    <3> QED BY <2>1 DEF PoolW!Stored
  <2> QED BY <2>2, <2>3, <2>4, <2>5
<1>3. PoolW!Appended(m, i, s) = PoolS!Appended(m, i, s)
  <2>1. PoolW!StrAt(m, m.Offsets[i]) = PoolS!StrAt(m, m.Offsets[i])
    BY WReads
  <2> QED BY <1>2, <2>1 DEF PoolW!Appended, PoolS!Appended
<1>4. \A op2 : PoolW!Call(op2, i, s) = PoolS!Call(op2, i, s)
  BY DEF PoolW!Call, PoolS!Call
<1> QED BY <1>2, <1>3, <1>4

\* An error or a crash leaves the pool alone; else the call was made.
WOutcome(str) ==
    \/ wStatus' \in {"exited", "crashed"} /\ wPool' = wPool /\ wCall' = wCall
    \/ wStatus' = "running" /\ PoolStep(wPool, str, FewChars, 1, wPool', wCall')

LEMMA WBecomes ==
    ASSUME NEW str, wStatus = "running", NEW m2, NEW c,
           PoolStep(wPool, str, FewChars, 1, m2, c), PoolW!Becomes(m2), PoolW!Done(c)
    PROVE  WOutcome(str)
<1>1. CASE m2.BufferSize > LimitW
  BY <1>1 DEF PoolW!Becomes, PoolW!Done, WOutcome
<1>2. CASE ~ (m2.BufferSize > LimitW)
  BY <1>2 DEF PoolW!Becomes, PoolW!Done, WOutcome
<1> QED BY <1>1, <1>2

LEMMA WErrs == ASSUME NEW str, PoolW!Error PROVE WOutcome(str)
BY DEF PoolW!Error, WOutcome

LEMMA WKeeps ==
    ASSUME {"grow", "clear", "self"} \subseteq Rules, NEW str, TPool(wPool, str, FewChars, 1),
           NEW i \in Nat, NEW len \in Nat,
           PoolW!KeepsRule("grow", i, len), PoolW!KeepsRule("clear", i, len)
    PROVE  MayStore(wPool, i, len + 1)
<1>1. wPool.BufferSize > 0 => wPool.DataSize > 0
  BY DEF PoolW!KeepsRule
<1>2. PoolW!AtTop(wPool, i) /\ wPool.Top + len + 1 > wPool.BufferSize
         => \A j \in i + 1 .. wPool.Num - 1 : wPool.Offsets[j] = 0
  BY DEF PoolW!KeepsRule
<1>3. wPool.Top + len + 1 = wPool.Top + (len + 1)
  <2>1. wPool.Top \in Nat
    BY TIsPool
  <2> QED BY <2>1
<1>4. i < wPool.Num => GrowsLast(wPool, i, len + 1)
  <2> SUFFICES ASSUME i < wPool.Num, wPool.Offsets[i] # 0, wPool.Offsets[i] = wPool.Top,
                      wPool.Top + (len + 1) > wPool.BufferSize
               PROVE  \A j \in i + 1 .. wPool.Num - 1 : wPool.Offsets[j] = 0
    BY DEF GrowsLast
  <2>1. PoolW!AtTop(wPool, i)
    BY DEF PoolW!AtTop
  <2> QED BY <1>2, <1>3, <2>1
<1> QED BY <1>1, <1>4 DEF MayStore

LEMMA WSetStep ==
    ASSUME {"grow", "clear", "self"} \subseteq Rules, NEW str, TPool(wPool, str, FewChars, 1),
           wStatus = "running", NEW i \in Nat, NEW s \in Seq(FewChars), PoolW!Set(i, s)
    PROVE  WOutcome(str)
<1>1. /\ PoolW!KeepsRule("grow", i, Len(s)) /\ PoolW!KeepsRule("clear", i, Len(s))
      /\ PoolW!Becomes(PoolW!Stored(wPool, i, s)) /\ PoolW!Done(PoolW!Call("Set", i, s))
  BY DEF PoolW!Set
<1>2. MayStore(wPool, i, Len(s) + 1)
  <2>1. Len(s) \in Nat
    OBVIOUS
  <2> QED BY <1>1, <2>1, WKeeps
<1>3. PoolStep(wPool, str, FewChars, 1, PoolW!Stored(wPool, i, s), PoolW!Call("Set", i, s))
  BY <1>2, ZSets, WCalls, ZNotNUL
<1> QED BY <1>1, <1>3, WBecomes

LEMMA WReadsNow ==
    ASSUME NEW str, TPool(wPool, str, FewChars, 1), NEW j \in 0 .. wPool.Num - 1
    PROVE  PoolW!Get(wPool, j) = str[j] /\ str[j] \in Seq(FewChars)
<1>1. PoolS!Get(wPool, j) = str[j] /\ str[j] \in Seq(FewChars)
  BY ZGets, ZNotNUL, TInLayout, TIsPool
<1> QED BY <1>1, WReads

LEMMA WConcatenateStep ==
    ASSUME {"grow", "clear", "self"} \subseteq Rules, NEW str, TPool(wPool, str, FewChars, 1),
           wStatus = "running", NEW i \in Nat, NEW s \in Seq(FewChars), PoolW!Concatenate(i, s)
    PROVE  WOutcome(str)
<1>1. CASE PoolW!Error
  BY <1>1, WErrs
<1>2. CASE ~ PoolW!Error
  <2>1. /\ i < wPool.Num
        /\ PoolW!KeepsRule("grow", i, Len(PoolW!Get(wPool, i)) + Len(s))
        /\ PoolW!KeepsRule("clear", i, Len(PoolW!Get(wPool, i)) + Len(s))
        /\ PoolW!Becomes(PoolW!Appended(wPool, i, s))
        /\ PoolW!Done(PoolW!Call("Concatenate", i, s))
    BY <1>2 DEF PoolW!Concatenate
  <2>2. i \in 0 .. wPool.Num - 1
    <3>1. wPool.Num \in Nat
      BY TIsPool
    <3> QED BY <2>1, <3>1
  <2>3. PoolW!Get(wPool, i) = str[i] /\ str[i] \in Seq(FewChars)
    BY <2>2, WReadsNow
  <2>4. Len(str[i]) + Len(s) \in Nat
    BY <2>3
  <2>5. MayStore(wPool, i, Len(str[i]) + Len(s) + 1)
    BY <2>1, <2>3, <2>4, WKeeps
  <2>6. PoolStep(wPool, str, FewChars, 1, PoolW!Appended(wPool, i, s), PoolW!Call("Concatenate", i, s))
    BY <2>2, <2>5, ZAppends, WCalls, ZNotNUL
  <2> QED BY <2>1, <2>6, WBecomes
<1> QED BY <1>1, <1>2

LEMMA WSetFromStep ==
    ASSUME {"grow", "clear", "self"} \subseteq Rules, NEW str, TPool(wPool, str, FewChars, 1),
           wStatus = "running", NEW i \in Nat, NEW j \in Nat, NEW start \in Nat, NEW len \in Nat,
           PoolW!SetFrom(i, j, start, len)
    PROVE  WOutcome(str)
<1>1. j \in 0 .. wPool.Num - 1
  <2>1. wPool.Num \in Nat
    BY TIsPool
  <2>2. j < wPool.Num
    BY DEF PoolW!SetFrom
  <2> QED BY <2>1, <2>2
<1>2. PoolW!Get(wPool, j) = str[j] /\ str[j] \in Seq(FewChars)
  BY <1>1, WReadsNow
<1>3. CASE PoolW!Error
  BY <1>3, WErrs
<1>4. CASE ~ PoolW!Error
  <2> DEFINE s == SubSeq(str[j], start + 1, start + len)
  <2>1. start + len <= Len(str[j]) /\ PoolW!Set(i, s)
    BY <1>2, <1>4 DEF PoolW!SetFrom
  <2>2. s \in Seq(FewChars)
    BY <1>2, <2>1, PartOfString
  <2> HIDE DEF s
  <2> QED BY <2>1, <2>2, WSetStep
<1> QED BY <1>3, <1>4

LEMMA WConcatenateFromStep ==
    ASSUME {"grow", "clear", "self"} \subseteq Rules, NEW str, TPool(wPool, str, FewChars, 1),
           wStatus = "running", NEW i \in Nat, NEW j \in Nat, PoolW!ConcatenateFrom(i, j)
    PROVE  WOutcome(str)
<1>1. j \in 0 .. wPool.Num - 1
  <2>1. wPool.Num \in Nat
    BY TIsPool
  <2>2. j < wPool.Num
    BY DEF PoolW!ConcatenateFrom
  <2> QED BY <2>1, <2>2
<1>2. PoolW!Get(wPool, j) \in Seq(FewChars)
  BY <1>1, WReadsNow
<1>3. i = j => ~ PoolW!StaysAtTop(wPool, i, 2 * Len(PoolW!Get(wPool, j)))
  <2>1. i = j => PoolW!KeepsRule("self", i, 2 * Len(PoolW!Get(wPool, j)))
    BY DEF PoolW!ConcatenateFrom
  <2> QED BY <2>1 DEF PoolW!KeepsRule
<1>4. PoolW!Concatenate(i, PoolW!Get(wPool, j))
  BY <1>3 DEF PoolW!ConcatenateFrom
<1> QED BY <1>2, <1>4, WConcatenateStep

LEMMA WSetCharStep ==
    ASSUME NEW str, TPool(wPool, str, FewChars, 1), wStatus = "running",
           NEW i \in Nat, NEW k \in Nat, NEW c \in FewChars, PoolW!SetChar(i, k, c)
    PROVE  WOutcome(str)
<1>1. i \in 0 .. wPool.Num - 1
  <2>1. wPool.Num \in Nat
    BY TIsPool
  <2>2. i < wPool.Num
    BY DEF PoolW!SetChar
  <2> QED BY <2>1, <2>2
<1>2. PoolW!Get(wPool, i) = str[i]
  BY <1>1, WReadsNow
<1>3. CASE PoolW!Error
  BY <1>3, WErrs
<1>4. CASE ~ PoolW!Error
  <2>1. /\ k < Len(str[i])
        /\ wPool' = [wPool EXCEPT !.Buffer[wPool.Offsets[i] + k] = c]
        /\ wCall' = PoolW!Call("Set", i, [str[i] EXCEPT ![k + 1] = c])
        /\ wStatus' = wStatus
    BY <1>2, <1>4 DEF PoolW!SetChar
  <2>2. PoolStep(wPool, str, FewChars, 1, [wPool EXCEPT !.Buffer[wPool.Offsets[i] + k] = c],
                    PoolS!Call("Set", i, [str[i] EXCEPT ![k + 1] = c]))
    BY <1>1, <2>1, ZSetsChar, ZNotNUL
  <2> DEFINE u == [wPool EXCEPT !.Buffer[wPool.Offsets[i] + k] = c]
             t == [str[i] EXCEPT ![k + 1] = c]
  <2>3. PoolW!Call("Set", i, t) = PoolS!Call("Set", i, t)
    <3> HIDE DEF t
    <3> QED BY WCalls
  <2> HIDE DEF u, t
  <2> QED BY <2>1, <2>2, <2>3 DEF WOutcome, u, t
<1> QED BY <1>3, <1>4

LEMMA WClearStep ==
    ASSUME NEW str, TPool(wPool, str, FewChars, 1), wStatus = "running", PoolW!Clear
    PROVE  WOutcome(str)
<1> DEFINE u == [wPool EXCEPT !.Offsets = [i \in DOMAIN @ |-> IF i < wPool.Num THEN 0 ELSE @[i]],
                              !.DataSize = 0, !.GarbageSize = 0]
<1>1. wPool' = u /\ wCall' = PoolW!Call("Clear", 0, <<>>) /\ wStatus' = wStatus
  BY DEF PoolW!Clear
<1>2. PoolStep(wPool, str, FewChars, 1, u, PoolW!Call("Clear", 0, <<>>))
  BY ZClears, WCalls
<1> HIDE DEF u
<1> QED BY <1>1, <1>2 DEF WOutcome

LEMMA WReserveStep ==
    ASSUME NEW str, TPool(wPool, str, FewChars, 1), wStatus = "running",
           \/ PoolW!Becomes(PoolW!ReserveBuf(wPool, 0))
           \/ PoolW!Becomes(PoolW!ReserveNum(wPool, MaxStrings)),
           PoolW!Done(PoolW!Call("Reserve", 0, <<>>))
    PROVE  WOutcome(str)
<1>1. 0 \in Nat /\ MaxStrings \in Nat
  BY StringsAssumption
<1>2. /\ PoolStep(wPool, str, FewChars, 1, PoolW!ReserveBuf(wPool, 0), PoolW!Call("Reserve", 0, <<>>))
      /\ PoolStep(wPool, str, FewChars, 1, PoolW!ReserveNum(wPool, MaxStrings), PoolW!Call("Reserve", 0, <<>>))
  BY <1>1, ZReserves, WReserveBuf, WNumbers, WCalls, ZNotNUL
<1> QED BY <1>2, WBecomes

LEMMA WNext ==
    ASSUME {"grow", "clear", "self"} \subseteq Rules, NEW str, TPool(wPool, str, FewChars, 1), PoolW!Next
    PROVE  wStatus = "running" /\ WOutcome(str)
<1>1. wStatus = "running"
  BY DEF PoolW!Next
<1>2. \A i \in PoolW!Slots(MaxStrings) : i \in Nat
  BY StringsAssumption DEF PoolW!Slots
<1>3. \A l \in 0 .. MaxLen : l \in Nat
  OBVIOUS
<1>4. ASSUME NEW i \in PoolW!Slots(MaxStrings), NEW s \in StringsW,
             PoolW!Set(i, s) \/ PoolW!Concatenate(i, s)
      PROVE  WOutcome(str)
  <2>1. s \in Seq(FewChars)
    BY StringsAssumption
  <2> QED BY <1>1, <1>2, <1>4, <2>1, WSetStep, WConcatenateStep
<1>5. ASSUME NEW i \in PoolW!Slots(MaxStrings), NEW j \in PoolW!Slots(MaxStrings),
             PoolW!ConcatenateFrom(i, j)
      PROVE  WOutcome(str)
  BY <1>1, <1>2, <1>5, WConcatenateFromStep
<1>6. ASSUME NEW i \in PoolW!Slots(MaxStrings), NEW j \in PoolW!Slots(MaxStrings),
             NEW start \in 0 .. MaxLen, NEW len \in 0 .. MaxLen, PoolW!SetFrom(i, j, start, len)
      PROVE  WOutcome(str)
  BY <1>1, <1>2, <1>3, <1>6, WSetFromStep
<1>7. ASSUME NEW i \in PoolW!Slots(MaxStrings), NEW k \in 0 .. MaxLen, NEW c \in FewChars,
             PoolW!SetChar(i, k, c)
      PROVE  WOutcome(str)
  BY <1>1, <1>2, <1>3, <1>7, WSetCharStep
<1>8. ASSUME NEW i \in PoolW!Slots(MaxStrings), PoolW!Read(i)
      PROVE  WOutcome(str)
  BY <1>8 DEF PoolW!Read, PoolW!Error, WOutcome
<1>9. ASSUME PoolW!Reserve
      PROVE  WOutcome(str)
  BY <1>1, <1>9, WReserveStep DEF PoolW!Reserve
<1> QED BY <1>1, <1>4, <1>5, <1>6, <1>7, <1>8, <1>9, WClearStep DEF PoolW!Next

\* The functions of StringPoolW are those of StringPoolS under other names.
LEMMA WSame == ASSUME PoolW!NextW PROVE PoolW!Next
BY DEF PoolW!NextW, PoolW!Next, PoolW!SetW, PoolW!ConcatenateW, PoolW!ConcatenateFromW,
       PoolW!SetToSubstringW, PoolW!SetCharW, PoolW!GetW, PoolW!ClearW, PoolW!Resize,
       PoolW!Reserve, PoolW!ResizeBuf, PoolW!ResizeNum

-----------------------------------------------------------------------------
(* StringPoolL: w = 2.  A string where its cells are:                      *)
LEMMA LWord == PoolL!Word = 1 /\ PoolL!Overhead = 2
BY DEF PoolL!Word, PoolL!Overhead

LEMMA TCells2 ==
    ASSUME NEW C, NEW s \in Seq(C)
    PROVE  TCells(s, 2) = [k \in 0 .. Len(s) + 1 |-> IF k = 0 THEN Len(s)
                                                     ELSE IF k <= Len(s) THEN s[k] ELSE NUL]
<1> DEFINE l == Len(s)
<1>1. l \in Nat
  OBVIOUS
<1>2. TCells(s, 2) = [k \in 0 .. l + 2 - 1 |-> IF k < 2 - 1 THEN l
                                               ELSE IF k - 2 + 1 < l THEN s[k - 2 + 2] ELSE NUL]
  BY DEF TCells
<1> HIDE DEF l
<1>3. l + 2 - 1 = l + 1
  BY <1>1
<1>4. \A k \in 0 .. l + 1 : (IF k < 2 - 1 THEN l ELSE IF k - 2 + 1 < l THEN s[k - 2 + 2] ELSE NUL)
                            = (IF k = 0 THEN l ELSE IF k <= l THEN s[k] ELSE NUL)
  <2> SUFFICES ASSUME NEW k \in 0 .. l + 1
               PROVE  (IF k < 2 - 1 THEN l ELSE IF k - 2 + 1 < l THEN s[k - 2 + 2] ELSE NUL)
                      = (IF k = 0 THEN l ELSE IF k <= l THEN s[k] ELSE NUL)
    OBVIOUS
  <2>1. (k < 2 - 1 <=> k = 0) /\ (k - 2 + 1 < l <=> k <= l) /\ k - 2 + 2 = k
    BY <1>1
  <2> QED BY <2>1
<1> QED BY <1>2, <1>3, <1>4 DEF l

\* The length word, the characters and the zero of s are at p.
LengthFirst(m, p, s) ==
    /\ m.Buffer[p] = Len(s)
    /\ [k \in 1 .. Len(s) |-> m.Buffer[p + PoolL!Word + k - 1]] = s
    /\ m.Buffer[p + PoolL!Word + Len(s)] = NUL

LEMMA LStrIs ==
    ASSUME NEW m, NEW C, NEW s \in Seq(C), NEW p \in Nat,
           \A k \in 0 .. Len(s) + 1 : m.Buffer[p + k] = TCells(s, 2)[k]
    PROVE  LengthFirst(m, p, s)
<1> DEFINE l == Len(s)
           cell(k) == IF k = 0 THEN l ELSE IF k <= l THEN s[k] ELSE NUL
<1>1. l \in Nat /\ s = [k \in 1 .. l |-> s[k]]
  OBVIOUS
<1>2. TCells(s, 2) = [k \in 0 .. l + 1 |-> cell(k)]
  BY TCells2
<1> HIDE DEF l
<1>3. \A k \in 0 .. l + 1 : m.Buffer[p + k] = cell(k)
  BY <1>2 DEF l
<1>4. m.Buffer[p] = l
  <2>1. 0 \in 0 .. l + 1 /\ p + 0 = p
    BY <1>1
  <2> QED BY <1>3, <2>1
<1>5. \A k \in 1 .. l : m.Buffer[p + PoolL!Word + k - 1] = s[k]
  <2> SUFFICES ASSUME NEW k \in 1 .. l PROVE m.Buffer[p + PoolL!Word + k - 1] = s[k]
    OBVIOUS
  <2>1. k \in 0 .. l + 1 /\ k # 0 /\ k <= l /\ p + PoolL!Word + k - 1 = p + k
    BY <1>1, LWord
  <2> QED BY <1>3, <2>1
<1>6. m.Buffer[p + PoolL!Word + l] = NUL
  <2>1. l + 1 \in 0 .. l + 1 /\ l + 1 # 0 /\ ~ (l + 1 <= l) /\ p + PoolL!Word + l = p + (l + 1)
    BY <1>1, LWord
  <2> QED BY <1>3, <2>1
<1> QED BY <1>1, <1>4, <1>5, <1>6 DEF l, LengthFirst

LEMMA LReads ==
    ASSUME NEW m, NEW str, NEW C, TLayout(m, str, C, 2), NEW j \in 0 .. m.Num - 1,
           m.BufferSize > 0
    PROVE  /\ PoolL!LenOf(m, j) = Len(str[j])
           /\ PoolL!Get(m, j) = str[j]
           /\ m.Buffer[m.Offsets[j] + PoolL!Word + PoolL!LenOf(m, j)] = NUL
<1>1. /\ str[j] \in Seq(C) /\ DOMAIN str = 0 .. m.Num - 1
      /\ Layout(m, TCellSet(C, 2), 2, TCells(<<>>, 2), TRoom(str, 2), TImage(str, 2))
      /\ Used(m) = {k \in 0 .. m.Num - 1 : str[k] # <<>>}
  BY DEF TLayout, IsText, TStrings
<1>2. /\ m.BufferSize \in Nat
      /\ j \in Used(m) => m.Offsets[j] \in Nat
  BY <1>1, PoolFacts
<1>3. TRoom(str, 2)[j] = Len(str[j]) + 2 /\ TImage(str, 2)[j] = TCells(str[j], 2) /\ Len(str[j]) \in Nat
  BY <1>1 DEF TRoom, TImage
<1>4. /\ m.Offsets[j] \in Nat
      /\ \A k \in 0 .. Len(str[j]) + 1 : m.Buffer[m.Offsets[j] + k] = TCells(str[j], 2)[k]
  <2>1. CASE j \in Used(m)
    <3>1. \A k \in 0 .. TRoom(str, 2)[j] - 1 : m.Buffer[m.Offsets[j] + k] = TImage(str, 2)[j][k]
      BY <1>1, <2>1 DEF Layout, Content
    <3>2. TRoom(str, 2)[j] - 1 = Len(str[j]) + 1
      BY <1>3
    <3> QED BY <1>2, <1>3, <2>1, <3>1, <3>2
  <2>2. CASE j \notin Used(m)
    <3>1. str[j] = <<>> /\ m.Offsets[j] = 0 /\ Len(<<>>) = 0
      BY <1>1, <2>2 DEF Used
    <3>2. m.BufferSize # 0
      BY <1>2
    <3>3. \A k \in 0 .. 2 - 1 : m.Buffer[k] = TCells(<<>>, 2)[k]
      BY <1>1, <3>2 DEF Layout, Headed
    <3>4. \A k \in 0 .. 0 + 1 : m.Buffer[0 + k] = TCells(<<>>, 2)[k]
      BY <3>3
    <3> QED BY <3>1, <3>4
  <2> QED BY <2>1, <2>2
<1>5. /\ m.Buffer[m.Offsets[j]] = Len(str[j])
      /\ [k \in 1 .. Len(str[j]) |-> m.Buffer[m.Offsets[j] + PoolL!Word + k - 1]] = str[j]
      /\ m.Buffer[m.Offsets[j] + PoolL!Word + Len(str[j])] = NUL
  <2> DEFINE p == m.Offsets[j]
             t == str[j]
  <2>1. p \in Nat /\ t \in Seq(C) /\ \A k \in 0 .. Len(t) + 1 : m.Buffer[p + k] = TCells(t, 2)[k]
    BY <1>1, <1>4
  <2> HIDE DEF p, t
  <2>2. LengthFirst(m, p, t)
    BY <2>1, LStrIs
  <2> QED BY <2>2 DEF LengthFirst, p, t
<1>6. PoolL!LenOf(m, j) = Len(str[j])
  BY <1>5 DEF PoolL!LenOf
<1>7. m.BufferSize # 0
  BY <1>2
<1> QED BY <1>5, <1>6, <1>7 DEF PoolL!Get

LEMMA LGets ==
    ASSUME NEW m, NEW str, NEW C, TLayout(m, str, C, 2), NEW j \in 0 .. m.Num - 1
    PROVE  PoolL!Get(m, j) = str[j]
<1>1. CASE m.BufferSize = 0
  <2>1. /\ Layout(m, TCellSet(C, 2), 2, TCells(<<>>, 2), TRoom(str, 2), TImage(str, 2))
        /\ Used(m) = {k \in 0 .. m.Num - 1 : str[k] # <<>>}
    BY DEF TLayout, IsText, TStrings
  <2>2. j \in Used(m) => m.Offsets[j] \in Nat /\ TRoom(str, 2)[j] \in Nat \ {0}
                         /\ m.Offsets[j] + TRoom(str, 2)[j] <= m.DataSize
                         /\ m.DataSize <= m.BufferSize /\ m.DataSize \in Nat
    BY <2>1, PoolFacts
  <2>3. j \notin Used(m)
    BY <1>1, <2>2
  <2> QED BY <1>1, <2>1, <2>3 DEF PoolL!Get
<1>2. CASE m.BufferSize # 0
  <2>1. m.BufferSize \in Nat
    BY PoolFacts DEF TLayout
  <2> QED BY <1>2, <2>1, LReads
<1> QED BY <1>1, <1>2

LEMMA LLive ==
    ASSUME NEW m, NEW str, NEW C, TLayout(m, str, C, 2)
    PROVE  /\ PoolL!Live(m) = Used(m)
           /\ \A j \in Used(m) : PoolL!Room(m, j) = TRoom(str, 2)[j]
<1>1. /\ DOMAIN str = 0 .. m.Num - 1 /\ \A j \in 0 .. m.Num - 1 : str[j] \in Seq(C)
      /\ Used(m) = {k \in 0 .. m.Num - 1 : str[k] # <<>>}
      /\ Layout(m, TCellSet(C, 2), 2, TCells(<<>>, 2), TRoom(str, 2), TImage(str, 2))
  BY DEF TLayout, IsText, TStrings
<1>2. \A j \in Used(m) : /\ j \in 0 .. m.Num - 1 /\ m.Offsets[j] \in Nat
                         /\ TRoom(str, 2)[j] \in Nat \ {0}
                         /\ m.Offsets[j] + TRoom(str, 2)[j] <= m.DataSize
                         /\ m.DataSize <= m.BufferSize /\ m.DataSize \in Nat /\ m.BufferSize \in Nat
  BY <1>1, PoolFacts
<1>3. ASSUME NEW j \in Used(m)
      PROVE  /\ PoolL!LenOf(m, j) = Len(str[j]) /\ Len(str[j]) # 0
             /\ TRoom(str, 2)[j] = Len(str[j]) + PoolL!Overhead
  <2>1. m.BufferSize > 0
    BY <1>2
  <2>2. str[j] \in Seq(C) /\ str[j] # <<>>
    BY <1>1, <1>2
  <2>3. Len(str[j]) # 0
    BY <2>2
  <2>4. PoolL!LenOf(m, j) = Len(str[j])
    BY <1>2, <2>1, LReads
  <2>5. TRoom(str, 2)[j] = Len(str[j]) + PoolL!Overhead
    BY <1>1, <1>2, LWord DEF TRoom
  <2> QED BY <2>3, <2>4, <2>5
<1>4. PoolL!Live(m) = Used(m)
  <2>1. PoolL!Live(m) = {j \in Used(m) : PoolL!LenOf(m, j) # 0}
    BY DEF PoolL!Live, Used, PoolL!Slots
  <2> QED BY <1>3, <2>1
<1> QED BY <1>3, <1>4 DEF PoolL!Room

LEMMA LPlaces ==
    ASSUME NEW m, NEW room, PoolL!Live(m) = Used(m), \A j \in Used(m) : PoolL!Room(m, j) = room[j]
    PROVE  /\ \A i : PoolL!Place(m, i) = PlaceIn(m, 2, room, i)
           /\ \A i \in Used(m) : PoolL!Block(m, i) = BlockIn(m, 2, room, i)
           /\ PoolL!Cardinality(PoolL!Cells(m, Used(m))) = CountOf(room, Used(m))
<1>1. ASSUME NEW js, js \subseteq Used(m) PROVE PoolL!Cells(m, js) = CellsOf(room, js)
  BY <1>1 DEF PoolL!Cells, CellsOf, PoolL!Slots
<1>2. \A S : PoolL!Cardinality(S) = Cardinality(S)
  BY DEF PoolL!Cardinality, Cardinality
<1>3. ASSUME NEW i PROVE PoolL!Place(m, i) = PlaceIn(m, 2, room, i)
  <2> DEFINE js == {j \in Used(m) : j < i}
  <2>1. PoolL!Place(m, i) = 2 + PoolL!Cardinality(PoolL!Cells(m, js))
    BY LWord DEF PoolL!Place
  <2>2. PlaceIn(m, 2, room, i) = 2 + CountOf(room, js)
    BY DEF PlaceIn
  <2>3. js \subseteq Used(m)
    OBVIOUS
  <2> HIDE DEF js
  <2> QED BY <1>1, <1>2, <2>1, <2>2, <2>3 DEF CountOf
<1>4. \A i \in Used(m) : PoolL!Block(m, i) = BlockIn(m, 2, room, i)
  BY <1>3 DEF PoolL!Block, BlockIn
<1>5. PoolL!Cardinality(PoolL!Cells(m, Used(m))) = CountOf(room, Used(m))
  BY <1>1, <1>2 DEF CountOf
<1> QED BY <1>3, <1>4, <1>5

LEMMA LReserveBuf ==
    ASSUME NEW m, IsPool(m), DOMAIN m.Offsets = 0 .. m.OffsetsSize - 1, NEW newsize, NEW room,
           PoolL!Live(m) = Used(m), \A j \in Used(m) : PoolL!Room(m, j) = room[j],
           m.Num \in Nat, \A j \in Used(m) : room[j] \in Nat,
           NEW empty, empty[0] = 0, empty[1] = NUL, BufSize(m, newsize, 2) \in Nat
    PROVE  PoolL!ReserveBuf(m, newsize) = Gathered(m, 2, empty, room, BufSize(m, newsize, 2), Junk)
<1> DEFINE size == BufSize(m, newsize, 2)
           buf1 == [q \in PoolL!Slots(size) |->
                      CASE q = 0 -> 0
                        [] q = PoolL!Word -> NUL
                        [] \E i \in PoolL!Live(m) : q \in PoolL!Block(m, i) ->
                             LET i == CHOOSE i \in PoolL!Live(m) : q \in PoolL!Block(m, i)
                             IN  m.Buffer[m.Offsets[i] + q - PoolL!Place(m, i)]
                        [] OTHER -> Junk]
           off1 == [i \in DOMAIN m.Offsets |-> IF i \in PoolL!Live(m) THEN PoolL!Place(m, i) ELSE 0]
           top1 == IF PoolL!Live(m) = {} THEN 2 ELSE PoolL!Place(m, PoolL!Max(PoolL!Live(m)))
           data1 == 2 + PoolL!Cardinality(PoolL!Cells(m, PoolL!Live(m)))
           buf2 == [q \in 0 .. size - 1 |->
               IF q < 2 THEN empty[q]
               ELSE IF \E i \in Used(m) : q \in BlockIn(m, 2, room, i)
               THEN LET i == CHOOSE i \in Used(m) : q \in BlockIn(m, 2, room, i)
                    IN  m.Buffer[m.Offsets[i] + q - PlaceIn(m, 2, room, i)]
               ELSE Junk]
           off2 == [i \in 0 .. m.OffsetsSize - 1 |-> IF i \in Used(m) THEN PlaceIn(m, 2, room, i) ELSE 0]
           top2 == IF Used(m) = {} THEN 2 ELSE PlaceIn(m, 2, room, Max(Used(m)))
<1>1. PoolL!ReserveBuf(m, newsize) = Refilled(m, buf1, size, off1, top1, data1, 0)
  BY LWord DEF PoolL!ReserveBuf, Refilled, BufSize
<1>2. Gathered(m, 2, empty, room, size, Junk)
         = PoolOf(buf2, size, off2, m.OffsetsSize, 2 + CountOf(room, Used(m)), 0, top2, m.Num)
  BY DEF Gathered
<1>3. buf1 = buf2
  <2> DEFINE In1(q) == \E i \in PoolL!Live(m) : q \in PoolL!Block(m, i)
             In2(q) == \E i \in Used(m) : q \in BlockIn(m, 2, room, i)
             Of1(q) == CHOOSE i \in PoolL!Live(m) : q \in PoolL!Block(m, i)
             Of2(q) == CHOOSE i \in Used(m) : q \in BlockIn(m, 2, room, i)
  <2>1. ASSUME NEW q PROVE (In1(q) <=> In2(q)) /\ (In2(q) => Of1(q) = Of2(q))
    <3>1. \A i \in Used(m) : q \in PoolL!Block(m, i) <=> q \in BlockIn(m, 2, room, i)
      BY LPlaces
    <3> QED BY <3>1
  <2>2. \A i : PoolL!Place(m, i) = PlaceIn(m, 2, room, i)
    BY LPlaces
  <2>3. buf1 = [q \in 0 .. size - 1 |->
                  CASE q = 0 -> 0
                    [] q = 1 -> NUL
                    [] In1(q) -> m.Buffer[m.Offsets[Of1(q)] + q - PoolL!Place(m, Of1(q))]
                    [] OTHER -> Junk]
    BY LWord DEF PoolL!Slots
  <2>4. buf2 = [q \in 0 .. size - 1 |->
                  IF q < 2 THEN empty[q]
                  ELSE IF In2(q) THEN m.Buffer[m.Offsets[Of2(q)] + q - PlaceIn(m, 2, room, Of2(q))]
                  ELSE Junk]
    OBVIOUS
  <2>5. ~ In2(0) /\ ~ In2(1)
    <3>1. \A i \in Used(m) : PlaceIn(m, 2, room, i) \in Nat /\ 2 <= PlaceIn(m, 2, room, i)
      BY PlacesApart
    <3> QED BY <3>1 DEF BlockIn
  <2> HIDE DEF size, buf1, buf2, In1, In2, Of1, Of2
  <2>6. ASSUME NEW q \in 0 .. size - 1
        PROVE  (CASE q = 0 -> 0
                  [] q = 1 -> NUL
                  [] In1(q) -> m.Buffer[m.Offsets[Of1(q)] + q - PoolL!Place(m, Of1(q))]
                  [] OTHER -> Junk)
               = (IF q < 2 THEN empty[q]
                  ELSE IF In2(q) THEN m.Buffer[m.Offsets[Of2(q)] + q - PlaceIn(m, 2, room, Of2(q))]
                  ELSE Junk)
    <3>1. CASE q = 0
      BY <2>1, <2>5, <3>1
    <3>2. CASE q = 1
      BY <2>1, <2>5, <3>2
    <3>3. CASE q # 0 /\ q # 1
      <4>1. ~ (q < 2)
        BY <3>3
      <4> QED BY <2>1, <2>2, <3>3, <4>1
    <3> QED BY <3>1, <3>2, <3>3
  <2> QED BY <2>3, <2>4, <2>6
<1>4. off1 = off2 /\ top1 = top2 /\ data1 = 2 + CountOf(room, Used(m))
  <2>1. PoolL!Max(Used(m)) = Max(Used(m))
    BY DEF PoolL!Max, Max
  <2> QED BY <2>1, LPlaces
<1> HIDE DEF buf1, buf2, off1, off2, top1, top2, data1, size
<1> QED BY <1>1, <1>2, <1>3, <1>4, RefilledIs DEF size

LEMMA LCollects ==
    ASSUME NEW m, NEW str, NEW C, TLayout(m, str, C, 2), NEW z \in Nat,
           \/ TPool(m, str, C, 2)
           \/ CountOf(TRoom(str, 2), Used(m)) <= z
    PROVE  /\ Collected(m, PoolL!ReserveBuf(m, z), TCellSet(C, 2), 2, TCells(<<>>, 2), TRoom(str, 2))
           /\ z + 2 <= PoolL!ReserveBuf(m, z).BufferSize
<1> DEFINE V == TCellSet(C, 2)
           empty == TCells(<<>>, 2)
           room == TRoom(str, 2)
           img == TImage(str, 2)
           size == BufSize(m, z, 2)
<1>1. Layout(m, V, 2, empty, room, img)
  BY DEF TLayout
<1>2. /\ m.Num \in Nat /\ m.OffsetsSize \in Nat /\ m.Offsets \in [0 .. m.OffsetsSize - 1 -> Nat]
      /\ IsPool(m) /\ \A j \in Used(m) : room[j] \in Nat
  BY <1>1, PoolFacts DEF Layout, PoolShape
<1>3. size \in Nat /\ z + 2 <= size /\ 2 + CountOf(room, Used(m)) <= size
  BY <1>1, BufSizeOK DEF TPool
<1>4. empty[0] = 0 /\ empty[1] = NUL /\ \A k \in 0 .. 2 - 1 : empty[k] \in V
  <2>1. empty[0] = 0 /\ empty[1] = NUL
    <3> DEFINE no == <<>>
    <3>1. no \in Seq(C) /\ Len(no) = 0
      OBVIOUS
    <3>2. empty = TCells(no, 2)
      OBVIOUS
    <3> HIDE DEF no, empty
    <3>3. TCells(no, 2) = [k \in 0 .. Len(no) + 1 |-> IF k = 0 THEN Len(no)
                                                   ELSE IF k <= Len(no) THEN no[k] ELSE NUL]
      BY <3>1, TCells2
    <3>4. TCells(no, 2) = [k \in 0 .. 0 + 1 |-> IF k = 0 THEN 0 ELSE IF k <= 0 THEN no[k] ELSE NUL]
      BY <3>1, <3>3
    <3>5. TCells(no, 2)[0] = 0 /\ TCells(no, 2)[1] = NUL
      BY <3>4
    <3> QED BY <3>2, <3>5
  <2>2. 0 \in V /\ NUL \in V
    <3>1. MaxLength \in Nat
      BY StringsAssumption
    <3> QED BY <3>1 DEF TCellSet
  <2>3. \A k \in 0 .. 2 - 1 : k = 0 \/ k = 1
    OBVIOUS
  <2> HIDE DEF V, empty
  <2> QED BY <2>1, <2>2, <2>3
<1>5. Junk \in V
  BY DEF TCellSet
<1>6. /\ PoolL!Live(m) = Used(m)
      /\ \A j \in Used(m) : PoolL!Room(m, j) = room[j]
  BY LLive
<1> HIDE DEF V, empty, room, img, size
<1>7. PoolL!ReserveBuf(m, z) = Gathered(m, 2, empty, room, size, Junk)
  BY <1>2, <1>3, <1>4, <1>6, LReserveBuf DEF size
<1>8. Collected(m, Gathered(m, 2, empty, room, size, Junk), V, 2, empty, room)
  BY <1>1, <1>3, <1>4, <1>5, GatheredOK
<1>9. Gathered(m, 2, empty, room, size, Junk).BufferSize = size
  BY DEF Gathered, PoolOf
<1> QED BY <1>3, <1>7, <1>8, <1>9 DEF V, empty, room

LEMMA LCollected ==
    ASSUME NEW m, NEW str, NEW C, TPool(m, str, C, 2),
           NEW i \in 0 .. m.Num - 1, NEW r \in Nat
    PROVE  LET v1 == PoolL!ReserveBuf(m, m.Top + r)
               g == MoreGarbage(m, i, TRoom(str, 2))
               v2 == PoolL!ReserveBuf(g, m.DataSize + r)
           IN  /\ Collected(m, v1, TCellSet(C, 2), 2, TCells(<<>>, 2), TRoom(str, 2))
               /\ m.Top + r + 2 <= v1.BufferSize /\ m.Top + r <= v1.BufferSize
               /\ Collected(g, v2, TCellSet(C, 2), 2, TCells(<<>>, 2), TRoom(str, 2))
               /\ m.DataSize + r + 2 <= v2.BufferSize
               /\ v1.Top \in Nat /\ v2.DataSize \in Nat /\ m.Top \in Nat /\ m.DataSize \in Nat
<1> DEFINE v1 == PoolL!ReserveBuf(m, m.Top + r)
           g == MoreGarbage(m, i, TRoom(str, 2))
           v2 == PoolL!ReserveBuf(g, m.DataSize + r)
           room == TRoom(str, 2)
           V == TCellSet(C, 2)
           empty == TCells(<<>>, 2)
<1>1. TLayout(m, str, C, 2) /\ Layout(m, V, 2, empty, room, TImage(str, 2))
  BY TInLayout DEF TLayout
<1>2. m.Top \in Nat /\ m.DataSize \in Nat
  BY <1>1, PoolFacts
<1>3. TLayout(g, str, C, 2) /\ Used(g) = Used(m) /\ g.DataSize = m.DataSize
  BY <1>1, TMoreGarbage
<1>4. CountOf(room, Used(m)) \in Nat /\ CountOf(room, Used(m)) <= m.DataSize
  BY TFits
<1>5. m.Top + r \in Nat /\ m.DataSize + r \in Nat /\ CountOf(room, Used(m)) <= m.DataSize + r
  <2> HIDE DEF room
  <2> QED BY <1>2, <1>4
<1>6. Collected(m, v1, V, 2, empty, room) /\ (m.Top + r) + 2 <= v1.BufferSize
  BY <1>1, <1>5, LCollects
<1>7. Collected(g, v2, V, 2, empty, room) /\ (m.DataSize + r) + 2 <= v2.BufferSize
  <2> HIDE DEF g
  <2> QED BY <1>3, <1>5, LCollects
<1>8. /\ Layout(v1, V, 2, empty, room, TImage(str, 2))
      /\ Layout(v2, V, 2, empty, room, TImage(str, 2))
  <2>1. Layout(g, V, 2, empty, room, TImage(str, 2))
    BY <1>3 DEF TLayout
  <2> HIDE DEF g, v1, v2, V, empty, room
  <2> QED BY <1>1, <1>6, <1>7, <2>1, CollectOK DEF PoolInv
<1>9. v1.Top \in Nat /\ v2.DataSize \in Nat /\ v1.BufferSize \in Nat
  <2> HIDE DEF v1, v2, V, empty, room
  <2> QED BY <1>8, PoolFacts
<1>10. m.Top + r <= v1.BufferSize
  <2> HIDE DEF v1
  <2> QED BY <1>2, <1>6, <1>9
<1> QED BY <1>2, <1>6, <1>7, <1>9, <1>10

LEMMA LTopAlloc ==
    ASSUME NEW m, NEW str, NEW C, TPool(m, str, C, 2),
           NEW i \in 0 .. m.Num - 1, NEW len \in Nat
    PROVE  PoolL!AllocateAtTop(m, i, len)
             = AllocTop(m, len + 2, PoolL!ReserveBuf(m, m.Top + (len + 2)))
<1> DEFINE r == len + 2
           v == PoolL!ReserveBuf(m, m.Top + r)
           q == IF m.Top + r > m.BufferSize THEN v ELSE m
<1>1. v.Top \in Nat /\ m.Top \in Nat
  <2>1. r \in Nat
    OBVIOUS
  <2> HIDE DEF r
  <2> QED BY <2>1, LCollected
<1>2. q.Top \in Nat
  <2> HIDE DEF v, r
  <2> QED BY <1>1
<1>3. m.Top + len + PoolL!Overhead = m.Top + r /\ q.Top + len + PoolL!Overhead = q.Top + r
  <2> HIDE DEF q
  <2> QED BY <1>1, <1>2, LWord
<1>4. PoolL!AllocateAtTop(m, i, len)
        = PoolL!At([q EXCEPT !.DataSize = q.Top + len + PoolL!Overhead], q.Top)
  BY <1>3 DEF PoolL!AllocateAtTop
<1>5. AllocTop(m, r, v) = PutAt(WithData(q, q.Top + r), q.Top)
  BY DEF AllocTop
<1> HIDE DEF q
<1> QED BY <1>3, <1>4, <1>5 DEF PoolL!At, PutAt, WithData

LEMMA LLength ==
    ASSUME NEW m, NEW str, NEW C, TPool(m, str, C, 2), NEW i \in Used(m)
    PROVE  /\ PoolL!LenOf(m, i) \in Nat
           /\ TRoom(str, 2)[i] = PoolL!LenOf(m, i) + 2
<1>1. /\ TLayout(m, str, C, 2) /\ IsText(m, str, C, 2)
      /\ Layout(m, TCellSet(C, 2), 2, TCells(<<>>, 2), TRoom(str, 2), TImage(str, 2))
  BY TInLayout DEF TLayout
<1>2. /\ i \in 0 .. m.Num - 1 /\ m.BufferSize > 0
  <2>1. /\ i \in 0 .. m.Num - 1 /\ m.BufferSize \in Nat
        /\ m.DataSize \in Nat /\ m.DataSize <= m.BufferSize /\ m.Offsets[i] \in Nat
        /\ TRoom(str, 2)[i] \in Nat \ {0} /\ m.Offsets[i] + TRoom(str, 2)[i] <= m.DataSize
    BY <1>1, PoolFacts
  <2> QED BY <2>1
<1> QED BY <1>1, <1>2, LReads, TRooms

LEMMA LPlaceAlloc ==
    ASSUME NEW m, NEW str, NEW C, TPool(m, str, C, 2), NEW i \in Used(m), NEW len \in Nat
    PROVE  PoolL!AllocateInPlace(m, i, len) = AllocPlace(m, i, len + 2, TRoom(str, 2))
<1> DEFINE l == PoolL!LenOf(m, i)
           c == TRoom(str, 2)[i]
<1>1. l \in Nat /\ c = l + 2 /\ m.GarbageSize \in Nat
  BY LLength, TIsPool
<1>2. m.GarbageSize + l - len = m.GarbageSize + c - (len + 2)
  <2> HIDE DEF l, c
  <2> QED BY <1>1
<1> HIDE DEF l, c
<1> QED BY <1>2 DEF PoolL!AllocateInPlace, AllocPlace, PoolL!At, PutAt, WithGarbage, l, c

LEMMA LEndAlloc ==
    ASSUME NEW m, NEW str, NEW C, TPool(m, str, C, 2),
           NEW i \in 0 .. m.Num - 1, NEW len \in Nat
    PROVE  PoolL!AllocateAtEnd(m, i, len)
             = AllocEnd(m, i, len + 2, TRoom(str, 2),
                        PoolL!ReserveBuf(MoreGarbage(m, i, TRoom(str, 2)), m.DataSize + (len + 2)))
<1> DEFINE r == len + 2
           l == PoolL!LenOf(m, i)
           room == TRoom(str, 2)
           g == MoreGarbage(m, i, room)
           h == IF m.Offsets[i] = 0 THEN m ELSE [m EXCEPT !.GarbageSize = @ + l + PoolL!Overhead]
           v == PoolL!ReserveBuf(g, m.DataSize + r)
           q == IF m.DataSize + r > m.BufferSize THEN v ELSE g
<1>1. /\ TLayout(m, str, C, 2) /\ IsText(m, str, C, 2)
      /\ Layout(m, TCellSet(C, 2), 2, TCells(<<>>, 2), room, TImage(str, 2))
  BY TInLayout DEF TLayout
<1>2. v.DataSize \in Nat /\ m.DataSize \in Nat /\ m.GarbageSize \in Nat
  <2>1. r \in Nat
    OBVIOUS
  <2>2. v.DataSize \in Nat /\ m.DataSize \in Nat
    <3> HIDE DEF r
    <3> QED BY <2>1, LCollected
  <2> QED BY <1>1, <2>2, PoolFacts
<1>3. TLayout(g, str, C, 2) /\ g.DataSize = m.DataSize /\ g.BufferSize = m.BufferSize
  BY <1>1, TMoreGarbage
<1>4. h = g
  <2>1. CASE m.Offsets[i] = 0
    BY <2>1 DEF MoreGarbage
  <2>2. CASE m.Offsets[i] # 0
    <3>1. i \in Used(m)
      BY <2>2 DEF Used
    <3>2. l \in Nat /\ room[i] = l + 2
      BY <3>1, LLength
    <3>3. m.GarbageSize + l + PoolL!Overhead = m.GarbageSize + room[i]
      <4> HIDE DEF l, room
      <4> QED BY <1>2, <3>2, LWord
    <3> HIDE DEF l, room
    <3> QED BY <2>2, <3>3 DEF MoreGarbage, WithGarbage
  <2> QED BY <2>1, <2>2
<1>5. q.DataSize \in Nat
  <2> HIDE DEF v, g, r
  <2> QED BY <1>2, <1>3
<1>6. m.DataSize + len + PoolL!Overhead = m.DataSize + r /\ q.DataSize + len + PoolL!Overhead = q.DataSize + r
  <2> HIDE DEF q
  <2> QED BY <1>2, <1>5, LWord
<1>7. PoolL!AllocateAtEnd(m, i, len)
        = PoolL!At([q EXCEPT !.Offsets[i] = q.DataSize, !.Top = q.DataSize,
                             !.DataSize = @ + len + PoolL!Overhead], q.DataSize)
  <2> DEFINE q2 == IF h.DataSize + len + PoolL!Overhead > h.BufferSize
                   THEN PoolL!ReserveBuf(h, h.DataSize + len + PoolL!Overhead) ELSE h
  <2>1. PoolL!AllocateAtEnd(m, i, len)
          = PoolL!At([q2 EXCEPT !.Offsets[i] = q2.DataSize, !.Top = q2.DataSize,
                             !.DataSize = @ + len + PoolL!Overhead], q2.DataSize)
    BY DEF PoolL!AllocateAtEnd
  <2>2. q2 = q
    <3> HIDE DEF h, g, r
    <3> QED BY <1>3, <1>4, <1>6
  <2> HIDE DEF q, q2
  <2> QED BY <2>1, <2>2
<1>8. AllocEnd(m, i, r, room, v) = PutAt(WithLast(q, i, q.DataSize, q.DataSize + r), q.DataSize)
  BY DEF AllocEnd
<1> HIDE DEF q
<1> QED BY <1>6, <1>7, <1>8 DEF PoolL!At, PutAt, WithLast

LEMMA LAllocates ==
    ASSUME NEW m, NEW str, NEW C, TPool(m, str, C, 2),
           NEW i \in 0 .. m.Num - 1, NEW len \in Nat
    PROVE  PoolL!Allocate(m, i, len)
              = Allocated(m, i, len + 2, TRoom(str, 2), PoolL!ReserveBuf(m, m.Top + (len + 2)),
                          PoolL!ReserveBuf(MoreGarbage(m, i, TRoom(str, 2)), m.DataSize + (len + 2)))
<1>1. m.Num \in Nat
  BY PoolFacts DEF TPool, PoolInv
<1>2. PoolL!AtTop(m, i) <=> (m.Offsets[i] # 0 /\ m.Offsets[i] = m.Top)
  BY <1>1 DEF PoolL!AtTop
<1>3. ASSUME m.Offsets[i] # 0
      PROVE  /\ PoolL!AllocateInPlace(m, i, len) = AllocPlace(m, i, len + 2, TRoom(str, 2))
             /\ (PoolL!LenOf(m, i) >= len) <=> (len + 2 <= TRoom(str, 2)[i])
  <2>1. i \in Used(m)
    BY <1>3 DEF Used
  <2> QED BY <2>1, LPlaceAlloc, LLength
<1>4. PoolL!AllocateAtTop(m, i, len)
             = AllocTop(m, len + 2, PoolL!ReserveBuf(m, m.Top + (len + 2)))
  BY LTopAlloc
<1>5. PoolL!AllocateAtEnd(m, i, len)
             = AllocEnd(m, i, len + 2, TRoom(str, 2),
                        PoolL!ReserveBuf(MoreGarbage(m, i, TRoom(str, 2)), m.DataSize + (len + 2)))
  BY LEndAlloc
<1> QED BY <1>2, <1>3, <1>4, <1>5 DEF PoolL!Allocate, Allocated

(* The operations of StringPoolL are the generic ones.                     *)
TextPut(str, nm, i, s) == [TextTo(str, nm, i) EXCEPT ![i] = s]

LEMMA TextPutIs ==
    ASSUME NEW str, NEW nm \in Nat, NEW i \in Nat, NEW s
    PROVE  TextPut(str, nm, i, s) = TextWith(str, nm, i, s)
BY TextWithIs DEF TextPut

LEMMA LNumbers ==
    ASSUME NEW m, NEW z
    PROVE  /\ PoolL!ReserveNum(m, z) = NumbersTo(m, z)
           /\ PoolL!WithNum(m, z) = NumberTo(m, z)
<1>1. \A q : PoolL!ReserveNum(q, z) = NumbersTo(q, z)
  BY DEF PoolL!ReserveNum, NumbersTo, WithOffsets, PoolL!Slots
<1>2. \A q : PoolL!ReserveNum(q, z + 1) = NumbersTo(q, z + 1)
  BY DEF PoolL!ReserveNum, NumbersTo, WithOffsets, PoolL!Slots
<1>3. PoolL!WithNum(m, z) = NumberTo(m, z)
  BY <1>2 DEF PoolL!WithNum, NumberTo, WithNumber
<1> QED BY <1>1, <1>3

LEMMA LErases ==
    ASSUME NEW m, NEW str, NEW C, TPool(m, str, C, 2), NEW i \in 0 .. m.Num - 1
    PROVE  PoolL!Erase(m, i) = Erased(m, i, TRoom(str, 2))
<1>1. CASE m.Offsets[i] = 0
  BY <1>1 DEF PoolL!Erase, Erased
<1>2. CASE m.Offsets[i] # 0
  <2> DEFINE l == PoolL!LenOf(m, i)
             c == TRoom(str, 2)[i]
  <2>1. i \in Used(m)
    BY <1>2 DEF Used
  <2>2. l \in Nat /\ c = l + 2 /\ m.GarbageSize \in Nat
    BY <2>1, LLength, TIsPool
  <2> HIDE DEF l, c
  <2>3. m.GarbageSize + l + PoolL!Overhead = m.GarbageSize + c
    BY <2>2, LWord
  <2> QED BY <1>2, <2>3 DEF PoolL!Erase, Erased, WithErased, l, c
<1> QED BY <1>1, <1>2

LEMMA LLengthType ==
    ASSUME NEW len \in Nat, len <= MaxLength
    PROVE  PoolL!LengthType(len) = len
<1>1. MaxLength \in Nat
  BY StringsAssumption
<1>2. len % (MaxLength + 1) = len
  BY <1>1
<1> QED BY <1>2 DEF PoolL!LengthType

LEMMA LCopied ==
    ASSUME NEW pl, IsPool(pl.pool), pl.pool.BufferSize \in Nat, pl.at \in Nat,
           NEW V, pl.pool.Buffer \in [0 .. pl.pool.BufferSize - 1 -> V],
           NEW C, NEW s \in TStrings(C, 2)
    PROVE  PoolL!Copied(pl.pool, pl.at, s) = WithBuffer(pl.pool, TextBuffer(pl, s, 2))
<1> DEFINE p == pl.at
           B == pl.pool.Buffer
           D == 0 .. pl.pool.BufferSize - 1
           l == Len(s)
           cellC(q) == CASE q = p -> l
                         [] q - p \in DOMAIN s -> s[q - p]
                         [] q = p + 1 + l -> NUL
                         [] OTHER -> B[q]
           cellT(q) == IF p <= q /\ q < p + (l + 2) THEN TCells(s, 2)[q - p] ELSE B[q]
           bufC == [q \in D |-> cellC(q)]
           bufT == TextBuffer(pl, s, 2)
<1>1. s \in Seq(C) /\ l \in Nat /\ l <= MaxLength /\ DOMAIN s = 1 .. l /\ DOMAIN B = D
  BY DEF TStrings
<1>2. PoolL!LengthType(l) = l
  BY <1>1, LLengthType
<1>3. PoolL!Copied(pl.pool, p, s) = WithBuffer(pl.pool, bufC)
  <2> DEFINE cell0(q) == CASE q = p -> PoolL!LengthType(Len(s))
                           [] q - p - PoolL!Word + 1 \in DOMAIN s -> s[q - p - PoolL!Word + 1]
                           [] q = p + PoolL!Word + Len(s) -> NUL
                           [] OTHER -> B[q]
             buf0 == [q \in DOMAIN B |-> cell0(q)]
  <2>1. PoolL!Copied(pl.pool, p, s) = WithBuffer(pl.pool, buf0)
    BY DEF PoolL!Copied, WithBuffer
  <2>2. \A q \in D : cell0(q) = cellC(q)
    <3> SUFFICES ASSUME NEW q \in D PROVE cell0(q) = cellC(q)
      OBVIOUS
    <3>1. q - p - PoolL!Word + 1 = q - p
      BY LWord
    <3>2. cell0(q) = CASE q = p -> l
                       [] q - p \in DOMAIN s -> s[q - p]
                       [] q = p + PoolL!Word + l -> NUL
                       [] OTHER -> B[q]
      <4> HIDE DEF B, p
      <4> QED BY <1>2, <3>1
    <3> QED BY <3>2, LWord
  <2>3. buf0 = bufC
    <3> HIDE DEF cell0, cellC, B, D
    <3> QED BY <1>1, <2>2
  <2> HIDE DEF buf0, bufC
  <2> QED BY <2>1, <2>3
<1>4. bufT = [q \in D |-> cellT(q)]
  BY DEF TextBuffer
<1>5. TCells(s, 2) = [k \in 0 .. l + 1 |-> IF k = 0 THEN l ELSE IF k <= l THEN s[k] ELSE NUL]
  BY <1>1, TCells2
<1>6. \A q \in D : cellC(q) = cellT(q)
  <2> DEFINE im == TCells(s, 2)
  <2> SUFFICES ASSUME NEW q \in D
               PROVE  (CASE q = p -> l
                         [] q - p \in DOMAIN s -> s[q - p]
                         [] q = p + 1 + l -> NUL
                         [] OTHER -> B[q])
                      = (IF p <= q /\ q < p + (l + 2) THEN im[q - p] ELSE B[q])
    OBVIOUS
  <2>1. l \in Nat /\ p \in Nat /\ q \in Int /\ DOMAIN s = 1 .. l
        /\ im = [k \in 0 .. l + 1 |-> IF k = 0 THEN l ELSE IF k <= l THEN s[k] ELSE NUL]
    BY <1>1, <1>5
  <2> HIDE DEF l, p, im, B
  <2>2. CASE q = p
    <3>1. q - p = 0 /\ 0 \in 0 .. l + 1 /\ q - p \notin 1 .. l /\ q # p + 1 + l
          /\ p <= q /\ q < p + (l + 2)
      BY <2>1, <2>2
    <3> QED BY <2>1, <2>2, <3>1
  <2>3. CASE p < q /\ q <= p + l
    <3>1. q - p \in 1 .. l /\ q - p \in 0 .. l + 1 /\ q - p # 0 /\ q - p <= l /\ q # p + 1 + l
          /\ p <= q /\ q < p + (l + 2) /\ q # p
      BY <2>1, <2>3
    <3> QED BY <2>1, <2>3, <3>1
  <2>4. CASE q = p + 1 + l
    <3>1. q - p \notin 1 .. l /\ q - p \in 0 .. l + 1 /\ q - p # 0 /\ ~ (q - p <= l)
          /\ p <= q /\ q < p + (l + 2) /\ q # p
      BY <2>1, <2>4
    <3> QED BY <2>1, <2>4, <3>1
  <2>5. CASE q < p \/ q > p + 1 + l
    <3>1. q - p \notin 1 .. l /\ q # p /\ q # p + 1 + l /\ ~ (p <= q /\ q < p + (l + 2))
      BY <2>1, <2>5
    <3> QED BY <2>1, <3>1
  <2> QED BY <2>1, <2>2, <2>3, <2>4, <2>5
<1>7. bufC = bufT
  <2> HIDE DEF bufT, cellC, cellT
  <2> QED BY <1>4, <1>6
<1> HIDE DEF bufC, bufT
<1> QED BY <1>3, <1>7 DEF bufT

LEMMA LStored ==
    ASSUME NEW m, NEW str, NEW C, TPool(m, str, C, 2), NEW i \in Nat,
           NEW s \in TStrings(C, 2), MayStore(m, i, Len(s) + 2)
    PROVE  /\ TPool(PoolL!Stored(m, i, s), TextWith(str, m.Num, i, s), C, 2)
           /\ PoolL!Stored(m, i, s).Num = IF i < m.Num THEN m.Num ELSE i + 1
<1> DEFINE u == NumberTo(m, i)
           t == TextTo(str, m.Num, i)
           room == TRoom(t, 2)
<1>0. 2 \in Nat \ {0} /\ m.Num \in Nat
  BY TIsPool
<1> HIDE DEF room
<1>1. /\ TPool(u, t, C, 2) /\ i \in 0 .. u.Num - 1
      /\ u.Num = IF i < m.Num THEN m.Num ELSE i + 1
  BY <1>0, TNumberTo
<1>2. PoolL!WithNum(m, i) = u
  BY LNumbers
<1>3. [t EXCEPT ![i] = s] = TextWith(str, m.Num, i, s)
  <2>1. m.Num \in Nat
    BY <1>0
  <2>2. TextPut(str, m.Num, i, s) = TextWith(str, m.Num, i, s)
    BY <2>1, TextPutIs
  <2> QED BY <2>2 DEF TextPut
<1> HIDE DEF u, t
<1>4. CASE s = <<>>
  <2>1. PoolL!Stored(m, i, s) = PoolL!Erase(u, i)
    BY <1>2, <1>4 DEF PoolL!Stored
  <2>2. PoolL!Erase(u, i) = Erased(u, i, room)
    BY <1>1, LErases DEF room
  <2>3. TPool(Erased(u, i, room), [t EXCEPT ![i] = <<>>], C, 2) /\ Erased(u, i, room).Num = u.Num
    BY <1>0, <1>1, TErased DEF room
  <2> QED BY <1>1, <1>3, <1>4, <2>1, <2>2, <2>3
<1>5. CASE s # <<>>
  <2> DEFINE r == Len(s) + 2
             v1 == PoolL!ReserveBuf(u, u.Top + r)
             v2 == PoolL!ReserveBuf(MoreGarbage(u, i, room), u.DataSize + r)
             pl == PoolL!Allocate(u, i, Len(s))
  <2>1. PoolL!Stored(m, i, s) = PoolL!Copied(pl.pool, pl.at, s)
    BY <1>2, <1>5 DEF PoolL!Stored
  <2>2. pl = Allocated(u, i, r, room, v1, v2)
    <3>1. Len(s) \in Nat
      BY DEF TStrings
    <3> QED BY <1>1, <3>1, LAllocates DEF room
  <2>3. r \in Nat /\ s \in TStrings(C, 2)
    BY DEF TStrings
  <2> HIDE DEF r, pl
  <2>4. /\ Collected(u, v1, TCellSet(C, 2), 2, TCells(<<>>, 2), room)
        /\ u.Top + r <= v1.BufferSize
        /\ Collected(MoreGarbage(u, i, room), v2, TCellSet(C, 2), 2, TCells(<<>>, 2), room)
        /\ u.DataSize + r + 2 <= v2.BufferSize
    BY <1>1, <2>3, LCollected DEF room
  <2> HIDE DEF v1, v2
  <2>5. IsPool(u) /\ IsPool(v1) /\ IsPool(v2)
    BY <1>1, <2>4, TIsPool DEF Collected
  <2>6. IsPool(pl.pool)
    BY <2>2, <2>5, AllocatedIsPool
  <2>7. (u.BufferSize > 0 => u.DataSize > 0) /\ GrowsLast(u, i, r)
    BY StillMayStore DEF TPool, u, r
  <2>8. GoodPlace(u, pl, TCellSet(C, 2), 2, TCells(<<>>, 2), room, TImage(t, 2), i, r)
    BY <1>1, <1>5, <2>2, <2>3, <2>4, <2>7, TPlaces DEF room, r
  <2>9. /\ TPool(WithBuffer(pl.pool, TextBuffer(pl, s, 2)), [t EXCEPT ![i] = s], C, 2)
        /\ WithBuffer(pl.pool, TextBuffer(pl, s, 2)).Num = u.Num
    BY <1>1, <1>5, <2>3, <2>6, <2>8, TPuts DEF room, r
  <2>10. PoolL!Copied(pl.pool, pl.at, s) = WithBuffer(pl.pool, TextBuffer(pl, s, 2))
    BY <2>3, <2>6, <2>8, LCopied DEF GoodPlace
  <2> QED BY <1>1, <1>3, <2>1, <2>9, <2>10
<1> QED BY <1>4, <1>5

LEMMA LSets ==
    ASSUME NEW m, NEW str, NEW C, TPool(m, str, C, 2), NEW i \in Nat,
           NEW s \in TStrings(C, 2), MayStore(m, i, Len(s) + 2)
    PROVE  PoolStep(m, str, C, 2, PoolL!Stored(m, i, s), PoolL!Call("Set", i, s))
<1>1. Becoming(m, str, C, 2, PoolL!Stored(m, i, s), i, s)
  BY LStored DEF Becoming
<1>2. PoolL!Call("Set", i, s) = [op |-> "Set", i |-> i, s |-> s]
  BY DEF PoolL!Call
<1> QED BY <1>1, <1>2 DEF PoolStep

LEMMA LAppends ==
    ASSUME NEW m, NEW str, NEW C, TPool(m, str, C, 2), NEW i \in 0 .. m.Num - 1,
           NEW s \in Seq(C), str[i] \o s \in TStrings(C, 2), MayStore(m, i, Len(str[i]) + Len(s) + 2)
    PROVE  PoolStep(m, str, C, 2, PoolL!Appended(m, i, s), PoolL!Call("Concatenate", i, s))
<1> DEFINE old == PoolL!Get(m, i)
           u == PoolL!Appended(m, i, s)
           all == str[i] \o s
<1>1. /\ m.Num \in Nat /\ m.BufferSize \in Nat /\ str[i] \in Seq(C) /\ DOMAIN str = 0 .. m.Num - 1
      /\ (str[i] # <<>>) <=> (m.Offsets[i] # 0)
  <2>1. str[i] # <<>> <=> m.Offsets[i] # 0
    BY TIsPool
  <2> QED BY <2>1, TIsPool
<1>2. i \in Nat /\ i < m.Num
  BY <1>1
<1>3. old = str[i]
  BY LGets, TInLayout
<1>4. all \in TStrings(C, 2) /\ Len(all) = Len(str[i]) + Len(s)
  BY <1>1
<1>5. Becoming(m, str, C, 2, u, i, all)
  <2>1. CASE s = <<>>
    <3>1. u = m /\ all = str[i]
      BY <1>1, <2>1 DEF PoolL!Appended
    <3> DEFINE t == TextWith(str, m.Num, i, all)
    <3>2. DOMAIN t = 0 .. m.Num - 1 /\ \A j \in 0 .. m.Num - 1 : t[j] = str[j]
      BY <1>1, <1>2, <3>1 DEF TextWith
    <3> HIDE DEF t
    <3>3. TPool(m, t, C, 2)
      <4>1. 2 \in Nat \ {0}
        OBVIOUS
      <4> QED BY <3>2, <4>1, TSame
    <3> QED BY <1>2, <3>1, <3>3 DEF Becoming, t
  <2>2. CASE s # <<>>
    <3>1. u = PoolL!Stored(m, i, old \o s)
      BY <2>2 DEF PoolL!Appended
    <3>2. u = PoolL!Stored(m, i, all)
      <4> HIDE DEF old, u
      <4> QED BY <1>3, <3>1
    <3>3. MayStore(m, i, Len(all) + 2)
      BY <1>4
    <3> HIDE DEF u, all
    <3> QED BY <1>2, <1>4, <3>2, <3>3, LStored DEF Becoming
  <2> QED BY <2>1, <2>2
<1>6. PoolL!Call("Concatenate", i, s) = [op |-> "Concatenate", i |-> i, s |-> s]
  BY DEF PoolL!Call
<1> QED BY <1>5, <1>6 DEF PoolStep

LEMMA LSetsChar ==
    ASSUME NEW m, NEW str, NEW C, TPool(m, str, C, 2), NEW i \in 0 .. m.Num - 1,
           NEW k \in Nat, k < Len(str[i]), NEW c \in C
    PROVE  PoolStep(m, str, C, 2, [m EXCEPT !.Buffer[m.Offsets[i] + PoolL!Word + k] = c],
                    PoolL!Call("Set", i, [str[i] EXCEPT ![k + 1] = c]))
<1> DEFINE p == m.Offsets[i] + PoolL!Word + k
           u == WithCell(m, p, c)
           s == [str[i] EXCEPT ![k + 1] = c]
           t == [str EXCEPT ![i][k + 1] = c]
<1>1. /\ m.Num \in Nat /\ DOMAIN str = 0 .. m.Num - 1 /\ m.OffsetsSize \in Nat
      /\ m.Offsets \in [0 .. m.OffsetsSize - 1 -> Nat] /\ m.Num <= m.OffsetsSize
  BY TIsPool
<1>2. i \in Nat /\ i < m.Num /\ i \in 0 .. m.OffsetsSize - 1
  BY <1>1
<1>3. p = m.Offsets[i] + (2 - 1) + k
  <2>1. m.Offsets[i] \in Nat
    BY <1>1, <1>2
  <2> QED BY <2>1, LWord
<1> HIDE DEF p
<1>4. TPool(u, t, C, 2) /\ u.Num = m.Num
  <2>1. 2 \in {1, 2}
    OBVIOUS
  <2>2. TPool(u, CharSet(str, i, k, c), C, 2) /\ u.Num = m.Num
    <3> HIDE DEF t
    <3> QED BY <1>3, <2>1, TSetsChar
  <2> QED BY <2>2 DEF CharSet
<1>5. t = TextWith(str, m.Num, i, s)
  <2>1. t = [str EXCEPT ![i] = s]
    BY <1>1
  <2>2. DOMAIN t = 0 .. m.Num - 1 /\ \A j \in 0 .. m.Num - 1 : t[j] = IF j = i THEN s ELSE str[j]
    <3> HIDE DEF s
    <3> QED BY <1>1, <2>1
  <2>3. TextWith(str, m.Num, i, s) = [j \in 0 .. m.Num - 1 |-> IF j = i THEN s ELSE str[j]]
    <3> HIDE DEF s
    <3>1. \A j \in 0 .. m.Num - 1 : j < m.Num
      BY <1>1
    <3> QED BY <1>2, <3>1 DEF TextWith
  <2> HIDE DEF s
  <2> QED BY <1>1, <2>1, <2>2, <2>3
<1> HIDE DEF s, t
<1>6. Becoming(m, str, C, 2, u, i, s)
  BY <1>2, <1>4, <1>5 DEF Becoming
<1>7. PoolL!Call("Set", i, s) = [op |-> "Set", i |-> i, s |-> s]
  BY DEF PoolL!Call
<1>8. u = [m EXCEPT !.Buffer[m.Offsets[i] + PoolL!Word + k] = c]
  BY DEF WithCell, p
<1> HIDE DEF u
<1>9. PoolStep(m, str, C, 2, u, PoolL!Call("Set", i, s))
  BY <1>2, <1>6, <1>7 DEF PoolStep
<1> QED BY <1>8, <1>9 DEF s

LEMMA LClears ==
    ASSUME NEW m, NEW str, NEW C, TPool(m, str, C, 2)
    PROVE  PoolStep(m, str, C, 2,
                    [m EXCEPT !.Offsets = [i \in DOMAIN @ |-> IF i < m.Num THEN 0 ELSE @[i]],
                              !.DataSize = 0, !.GarbageSize = 0],
                    PoolL!Call("Clear", 0, <<>>))
<1> DEFINE o == [i \in DOMAIN m.Offsets |-> IF i < m.Num THEN 0 ELSE m.Offsets[i]]
           u == WithCleared(m, o)
<1>1. DOMAIN m.Offsets = 0 .. m.OffsetsSize - 1
  BY TIsPool
<1>2. u = ClearedPool(m)
  BY <1>1 DEF ClearedPool
<1>3. u = [m EXCEPT !.Offsets = [i \in DOMAIN @ |-> IF i < m.Num THEN 0 ELSE @[i]],
                    !.DataSize = 0, !.GarbageSize = 0]
  BY DEF WithCleared
<1>4. PoolL!Call("Clear", 0, <<>>).op = "Clear"
  BY DEF PoolL!Call
<1> HIDE DEF u
<1>5. TPool(u, [j \in 0 .. m.Num - 1 |-> <<>>], C, 2) /\ u.Num = m.Num
  BY <1>2, TCleared
<1>6. PoolStep(m, str, C, 2, u, PoolL!Call("Clear", 0, <<>>))
  BY <1>4, <1>5 DEF PoolStep
<1> QED BY <1>3, <1>6

LEMMA LReserves ==
    ASSUME NEW m, NEW str, NEW C, TPool(m, str, C, 2), NEW z \in Nat
    PROVE  /\ PoolStep(m, str, C, 2, PoolL!ReserveBuf(m, z), PoolL!Call("Reserve", 0, <<>>))
           /\ PoolStep(m, str, C, 2, PoolL!ReserveNum(m, z), PoolL!Call("Reserve", 0, <<>>))
<1> DEFINE u == PoolL!ReserveBuf(m, z)
           v == PoolL!ReserveNum(m, z)
           c == PoolL!Call("Reserve", 0, <<>>)
<1>1. TPool(u, str, C, 2) /\ u.Num = m.Num
  <2>1. TLayout(m, str, C, 2)
    BY TInLayout
  <2>2. Collected(m, u, TCellSet(C, 2), 2, TCells(<<>>, 2), TRoom(str, 2))
    BY <2>1, LCollects
  <2> HIDE DEF u
  <2> QED BY <2>2, TCollected
<1>2. TPool(v, str, C, 2) /\ v.Num = m.Num
  <2>1. v = NumbersTo(m, z)
    BY LNumbers
  <2>2. 2 \in Nat \ {0}
    OBVIOUS
  <2> HIDE DEF v
  <2> QED BY <2>1, <2>2, TNumbersTo
<1>3. c.op = "Reserve"
  BY DEF PoolL!Call
<1> HIDE DEF u, v, c
<1>4. PoolStep(m, str, C, 2, u, c) /\ PoolStep(m, str, C, 2, v, c)
  BY <1>1, <1>2, <1>3 DEF PoolStep
<1> QED BY <1>4 DEF u, v, c

-----------------------------------------------------------------------------
(* The steps of StringPoolL.                                               *)
LOutcome(str) ==
    \/ lStatus' \in {"exited", "crashed"} /\ lPool' = lPool /\ lCall' = lCall
    \/ lStatus' = "running" /\ PoolStep(lPool, str, FewChars, 2, lPool', lCall')

LEMMA LBecomes ==
    ASSUME NEW str, lStatus = "running", NEW m2, NEW c,
           PoolStep(lPool, str, FewChars, 2, m2, c), PoolL!Becomes(m2), PoolL!Done(c)
    PROVE  LOutcome(str)
<1>1. CASE m2.BufferSize > LimitL
  BY <1>1 DEF PoolL!Becomes, PoolL!Done, LOutcome
<1>2. CASE ~ (m2.BufferSize > LimitL)
  BY <1>2 DEF PoolL!Becomes, PoolL!Done, LOutcome
<1> QED BY <1>1, <1>2

LEMMA LErrs == ASSUME NEW str, PoolL!Error \/ PoolL!Crash PROVE LOutcome(str)
BY DEF PoolL!Error, PoolL!Crash, LOutcome

LEMMA LKeeps ==
    ASSUME {"grow", "clear", "long", "self"} \subseteq Rules, NEW str, TPool(lPool, str, FewChars, 2),
           NEW i \in Nat, NEW len \in Nat,
           PoolL!KeepsRule("grow", i, len), PoolL!KeepsRule("clear", i, len)
    PROVE  MayStore(lPool, i, len + 2)
<1>1. lPool.BufferSize > 0 => lPool.DataSize > 0
  BY DEF PoolL!KeepsRule
<1>2. PoolL!AtTop(lPool, i) /\ lPool.Top + len + PoolL!Overhead > lPool.BufferSize
         => \A j \in i + 1 .. lPool.Num - 1 : lPool.Offsets[j] = 0
  BY DEF PoolL!KeepsRule
<1>3. lPool.Top + len + PoolL!Overhead = lPool.Top + (len + 2)
  <2>1. lPool.Top \in Nat
    BY TIsPool
  <2> QED BY <2>1, LWord
<1>4. i < lPool.Num => GrowsLast(lPool, i, len + 2)
  <2> SUFFICES ASSUME i < lPool.Num, lPool.Offsets[i] # 0, lPool.Offsets[i] = lPool.Top,
                      lPool.Top + (len + 2) > lPool.BufferSize
               PROVE  \A j \in i + 1 .. lPool.Num - 1 : lPool.Offsets[j] = 0
    BY DEF GrowsLast
  <2>1. PoolL!AtTop(lPool, i)
    BY DEF PoolL!AtTop
  <2> QED BY <1>2, <1>3, <2>1
<1> QED BY <1>1, <1>4 DEF MayStore

\* A string that is stored is not longer than its length word can tell.
LEMMA LLongRule ==
    ASSUME {"grow", "clear", "long", "self"} \subseteq Rules, NEW i, NEW len, PoolL!KeepsRule("long", i, len)
    PROVE  len <= MaxLength
BY DEF PoolL!KeepsRule

LEMMA LSetKnownStep ==
    ASSUME {"grow", "clear", "long", "self"} \subseteq Rules, NEW str, TPool(lPool, str, FewChars, 2),
           lStatus = "running", NEW i \in Nat, NEW s \in TStrings(FewChars, 2), PoolL!SetKnown(i, s)
    PROVE  LOutcome(str)
<1>1. /\ PoolL!KeepsRule("grow", i, Len(s)) /\ PoolL!KeepsRule("clear", i, Len(s))
      /\ PoolL!Becomes(PoolL!Stored(lPool, i, s)) /\ PoolL!Done(PoolL!Call("Set", i, s))
  BY DEF PoolL!SetKnown
<1>2. MayStore(lPool, i, Len(s) + 2)
  <2>1. Len(s) \in Nat
    BY DEF TStrings
  <2> QED BY <1>1, <2>1, LKeeps
<1>3. PoolStep(lPool, str, FewChars, 2, PoolL!Stored(lPool, i, s), PoolL!Call("Set", i, s))
  BY <1>2, LSets
<1> QED BY <1>1, <1>3, LBecomes

LEMMA LReadsNow ==
    ASSUME NEW str, TPool(lPool, str, FewChars, 2), NEW j \in 0 .. lPool.Num - 1
    PROVE  /\ PoolL!Get(lPool, j) = str[j]
           /\ str[j] \in TStrings(FewChars, 2) /\ str[j] \in Seq(FewChars)
           /\ lPool.BufferSize > 0 => PoolL!LenOf(lPool, j) = Len(str[j])
<1>1. TLayout(lPool, str, FewChars, 2)
  BY TInLayout
<1>2. PoolL!Get(lPool, j) = str[j]
  BY <1>1, LGets
<1>3. str[j] \in TStrings(FewChars, 2) /\ str[j] \in Seq(FewChars)
  BY TIsPool
<1>4. lPool.BufferSize > 0 => PoolL!LenOf(lPool, j) = Len(str[j])
  BY <1>1, LReads
<1> QED BY <1>2, <1>3, <1>4

LEMMA LSetStep ==
    ASSUME {"grow", "clear", "long", "self"} \subseteq Rules, NEW str, TPool(lPool, str, FewChars, 2),
           lStatus = "running", NEW i \in Nat, NEW s \in Seq(FewChars), PoolL!Set(i, s)
    PROVE  LOutcome(str)
<1>1. CASE Len(s) > MaxLength
  BY <1>1, LErrs DEF PoolL!Set
<1>2. CASE ~ (Len(s) > MaxLength)
  <2>1. s \in TStrings(FewChars, 2)
    <3>1. MaxLength \in Nat /\ Len(s) \in Nat
      BY StringsAssumption
    <3> QED BY <1>2, <3>1 DEF TStrings
  <2> QED BY <1>2, <2>1, LSetKnownStep DEF PoolL!Set
<1> QED BY <1>1, <1>2

LEMMA LSetFromStep ==
    ASSUME {"grow", "clear", "long", "self"} \subseteq Rules, NEW str, TPool(lPool, str, FewChars, 2),
           lStatus = "running", NEW i \in Nat, NEW j \in Nat, PoolL!SetFrom(i, j)
    PROVE  LOutcome(str)
<1>1. j \in 0 .. lPool.Num - 1
  <2>1. lPool.Num \in Nat
    BY TIsPool
  <2>2. j < lPool.Num
    BY DEF PoolL!SetFrom
  <2> QED BY <2>1, <2>2
<1>2. CASE lPool.BufferSize = 0
  BY <1>2, LErrs DEF PoolL!SetFrom
<1>3. CASE lPool.BufferSize # 0
  <2>1. PoolL!SetKnown(i, str[j]) /\ str[j] \in TStrings(FewChars, 2)
    BY <1>1, <1>3, LReadsNow DEF PoolL!SetFrom
  <2> QED BY <2>1, LSetKnownStep
<1> QED BY <1>2, <1>3

LEMMA LSetToSubstringStep ==
    ASSUME {"grow", "clear", "long", "self"} \subseteq Rules, NEW str, TPool(lPool, str, FewChars, 2),
           lStatus = "running", NEW i \in Nat, NEW s \in Seq(FewChars),
           NEW start \in Nat, NEW len \in Nat, PoolL!SetToSubstring(i, s, start, len)
    PROVE  LOutcome(str)
<1>1. CASE start + len > Len(s)
  BY <1>1, LErrs DEF PoolL!SetToSubstring
<1>2. CASE ~ (start + len > Len(s))
  <2> DEFINE t == SubSeq(s, start + 1, start + len)
  <2>1. start + len <= Len(s)
    BY <1>2
  <2>2. t \in Seq(FewChars) /\ Len(t) = len
    BY <2>1, PartOfString
  <2>3. PoolL!KeepsRule("long", i, len) /\ PoolL!SetKnown(i, t)
    BY <1>2 DEF PoolL!SetToSubstring
  <2>4. len <= MaxLength
    BY <2>3, LLongRule
  <2> HIDE DEF t
  <2>5. t \in TStrings(FewChars, 2)
    BY <2>2, <2>4 DEF TStrings
  <2> QED BY <2>3, <2>5, LSetKnownStep
<1> QED BY <1>1, <1>2

LEMMA LConcatenateStep ==
    ASSUME {"grow", "clear", "long", "self"} \subseteq Rules, NEW str, TPool(lPool, str, FewChars, 2),
           lStatus = "running", NEW i \in Nat, NEW s \in Seq(FewChars), PoolL!Concatenate(i, s)
    PROVE  LOutcome(str)
<1>1. CASE PoolL!Error \/ PoolL!Crash
  BY <1>1, LErrs
<1>2. CASE ~ (PoolL!Error \/ PoolL!Crash)
  <2> DEFINE len == PoolL!LenOf(lPool, i) + Len(s)
  <2>1. /\ ~ (i >= lPool.Num) /\ lPool.BufferSize # 0
        /\ PoolL!KeepsRule("grow", i, len) /\ PoolL!KeepsRule("clear", i, len)
        /\ PoolL!KeepsRule("long", i, len)
        /\ PoolL!Becomes(PoolL!Appended(lPool, i, s))
        /\ PoolL!Done(PoolL!Call("Concatenate", i, s))
    BY <1>2 DEF PoolL!Concatenate
  <2>2. i \in 0 .. lPool.Num - 1 /\ lPool.BufferSize > 0
    <3>1. lPool.Num \in Nat /\ lPool.BufferSize \in Nat
      BY TIsPool
    <3> QED BY <2>1, <3>1
  <2>3. /\ PoolL!LenOf(lPool, i) = Len(str[i]) /\ str[i] \in Seq(FewChars)
    BY <2>2, LReadsNow
  <2>4. len = Len(str[i]) + Len(s) /\ len \in Nat
    BY <2>3
  <2>5. len <= MaxLength
    BY <2>1, LLongRule
  <2>6. MayStore(lPool, i, len + 2)
    <3> HIDE DEF len
    <3> QED BY <2>1, <2>4, LKeeps
  <2>7. str[i] \o s \in TStrings(FewChars, 2)
    <3>1. str[i] \o s \in Seq(FewChars) /\ Len(str[i] \o s) = Len(str[i]) + Len(s)
      BY <2>3
    <3> QED BY <2>4, <2>5, <3>1 DEF TStrings
  <2>8. MayStore(lPool, i, Len(str[i]) + Len(s) + 2)
    <3> HIDE DEF len
    <3> QED BY <2>4, <2>6
  <2>9. PoolStep(lPool, str, FewChars, 2, PoolL!Appended(lPool, i, s), PoolL!Call("Concatenate", i, s))
    BY <2>2, <2>7, <2>8, LAppends
  <2> QED BY <2>1, <2>9, LBecomes
<1> QED BY <1>1, <1>2

LEMMA LConcatenateFromStep ==
    ASSUME {"grow", "clear", "long", "self"} \subseteq Rules, NEW str, TPool(lPool, str, FewChars, 2),
           lStatus = "running", NEW i \in Nat, NEW j \in Nat, PoolL!ConcatenateFrom(i, j)
    PROVE  LOutcome(str)
<1>1. j \in 0 .. lPool.Num - 1
  <2>1. lPool.Num \in Nat
    BY TIsPool
  <2>2. j < lPool.Num
    BY DEF PoolL!ConcatenateFrom
  <2> QED BY <2>1, <2>2
<1>2. PoolL!Get(lPool, j) \in Seq(FewChars)
  BY <1>1, LReadsNow
<1>3. i = j => ~ PoolL!StaysAtTop(lPool, i, 2 * Len(PoolL!Get(lPool, j)))
  <2>1. i = j => PoolL!KeepsRule("self", i, 2 * Len(PoolL!Get(lPool, j)))
    BY DEF PoolL!ConcatenateFrom
  <2> QED BY <2>1 DEF PoolL!KeepsRule
<1>4. PoolL!Concatenate(i, PoolL!Get(lPool, j))
  BY <1>3 DEF PoolL!ConcatenateFrom
<1> QED BY <1>2, <1>4, LConcatenateStep

LEMMA LSetCharStep ==
    ASSUME NEW str, TPool(lPool, str, FewChars, 2), lStatus = "running",
           NEW i \in Nat, NEW k \in Nat, NEW c \in FewChars, PoolL!SetChar(i, k, c)
    PROVE  LOutcome(str)
<1>1. i \in 0 .. lPool.Num - 1
  <2>1. lPool.Num \in Nat
    BY TIsPool
  <2>2. i < lPool.Num
    BY DEF PoolL!SetChar
  <2> QED BY <2>1, <2>2
<1>2. PoolL!Get(lPool, i) = str[i] /\ PoolL!LenOf(lPool, i) = Len(str[i]) /\ str[i] \in Seq(FewChars)
  <2>1. lPool.BufferSize > 0
    BY DEF PoolL!SetChar
  <2> QED BY <1>1, <2>1, LReadsNow
<1>3. CASE k >= Len(str[i])
  BY <1>2, <1>3, LErrs DEF PoolL!SetChar
<1>4. CASE ~ (k >= Len(str[i]))
  <2>1. k < Len(str[i])
    BY <1>2, <1>4
  <2>2. /\ lPool' = [lPool EXCEPT !.Buffer[lPool.Offsets[i] + PoolL!Word + k] = c]
        /\ lCall' = PoolL!Call("Set", i, [str[i] EXCEPT ![k + 1] = c])
        /\ lStatus' = lStatus
    BY <1>2, <1>4 DEF PoolL!SetChar
  <2>3. PoolStep(lPool, str, FewChars, 2, [lPool EXCEPT !.Buffer[lPool.Offsets[i] + PoolL!Word + k] = c],
                    PoolL!Call("Set", i, [str[i] EXCEPT ![k + 1] = c]))
    BY <1>1, <2>1, LSetsChar
  <2> QED BY <2>2, <2>3 DEF LOutcome
<1> QED BY <1>3, <1>4

LEMMA LClearStep ==
    ASSUME NEW str, TPool(lPool, str, FewChars, 2), lStatus = "running", PoolL!Clear
    PROVE  LOutcome(str)
<1> DEFINE u == [lPool EXCEPT !.Offsets = [i \in DOMAIN @ |-> IF i < lPool.Num THEN 0 ELSE @[i]],
                              !.DataSize = 0, !.GarbageSize = 0]
<1>1. lPool' = u /\ lCall' = PoolL!Call("Clear", 0, <<>>) /\ lStatus' = lStatus
  BY DEF PoolL!Clear
<1>2. PoolStep(lPool, str, FewChars, 2, u, PoolL!Call("Clear", 0, <<>>))
  BY LClears
<1> HIDE DEF u
<1> QED BY <1>1, <1>2 DEF LOutcome

LEMMA LReserveStep ==
    ASSUME NEW str, TPool(lPool, str, FewChars, 2), lStatus = "running", PoolL!Reserve
    PROVE  LOutcome(str)
<1>1. 0 \in Nat /\ MaxStrings \in Nat
  BY StringsAssumption
<1>2. /\ PoolStep(lPool, str, FewChars, 2, PoolL!ReserveBuf(lPool, 0), PoolL!Call("Reserve", 0, <<>>))
      /\ PoolStep(lPool, str, FewChars, 2, PoolL!ReserveNum(lPool, MaxStrings), PoolL!Call("Reserve", 0, <<>>))
  BY <1>1, LReserves
<1>3. /\ \/ PoolL!Becomes(PoolL!ReserveBuf(lPool, 0))
         \/ PoolL!Becomes(PoolL!ReserveNum(lPool, MaxStrings))
      /\ PoolL!Done(PoolL!Call("Reserve", 0, <<>>))
  BY DEF PoolL!Reserve
<1> QED BY <1>2, <1>3, LBecomes

LEMMA LNext ==
    ASSUME {"grow", "clear", "long", "self"} \subseteq Rules, NEW str, TPool(lPool, str, FewChars, 2),
           PoolL!Next
    PROVE  lStatus = "running" /\ LOutcome(str)
<1>1. lStatus = "running"
  BY DEF PoolL!Next
<1>2. \A i \in PoolL!Slots(MaxStrings) : i \in Nat
  BY StringsAssumption DEF PoolL!Slots
<1>3. \A l \in 0 .. MaxLen : l \in Nat
  OBVIOUS
<1>4. \A s \in StringsL : s \in Seq(FewChars)
  BY StringsAssumption
<1>5. ASSUME NEW i \in PoolL!Slots(MaxStrings), NEW s \in StringsL,
             PoolL!Set(i, s) \/ PoolL!Concatenate(i, s)
      PROVE  LOutcome(str)
  BY <1>1, <1>2, <1>4, <1>5, LSetStep, LConcatenateStep
<1>6. ASSUME NEW i \in PoolL!Slots(MaxStrings), NEW j \in PoolL!Slots(MaxStrings),
             PoolL!SetFrom(i, j) \/ PoolL!ConcatenateFrom(i, j)
      PROVE  LOutcome(str)
  BY <1>1, <1>2, <1>6, LSetFromStep, LConcatenateFromStep
<1>7. ASSUME NEW i \in PoolL!Slots(MaxStrings), NEW s \in StringsL,
             NEW start \in 0 .. MaxLen, NEW len \in 0 .. MaxLen, PoolL!SetToSubstring(i, s, start, len)
      PROVE  LOutcome(str)
  BY <1>1, <1>2, <1>3, <1>4, <1>7, LSetToSubstringStep
<1>8. ASSUME NEW i \in PoolL!Slots(MaxStrings), NEW k \in 0 .. MaxLen, NEW c \in FewChars,
             PoolL!SetChar(i, k, c)
      PROVE  LOutcome(str)
  BY <1>1, <1>2, <1>3, <1>8, LSetCharStep
<1>9. ASSUME NEW i \in PoolL!Slots(MaxStrings), PoolL!ReadLen(i)
      PROVE  LOutcome(str)
  BY <1>9, LErrs DEF PoolL!ReadLen
<1> QED BY <1>1, <1>5, <1>6, <1>7, <1>8, <1>9, LClearStep, LReserveStep DEF PoolL!Next

-----------------------------------------------------------------------------
(* The string pools side by side.                                          *)
ZInv == \E str : TPool(zPool, str, Chars, 1) /\ zStatus \in {"running", "exited", "crashed"}
WInv == \E str : TPool(wPool, str, FewChars, 1) /\ wStatus \in {"running", "exited", "crashed"}
LInv == \E str : TPool(lPool, str, FewChars, 2) /\ lStatus \in {"running", "exited", "crashed"}
PoolsInv == ZInv /\ WInv /\ LInv

\* What the clients read is the strings.
LEMMA ZTextIs == \A m, str : TPool(m, str, Chars, 1)
                    => [k \in 1 .. m.Num |-> PoolS!Get(m, k - 1)] = TextOf(str, m.Num)
<1> SUFFICES ASSUME NEW m, NEW str, TPool(m, str, Chars, 1)
             PROVE  [k \in 1 .. m.Num |-> PoolS!Get(m, k - 1)] = TextOf(str, m.Num)
  OBVIOUS
<1>1. m.Num \in Nat /\ TLayout(m, str, Chars, 1)
  BY TIsPool, TInLayout
<1>2. \A k \in 1 .. m.Num : PoolS!Get(m, k - 1) = str[k - 1]
  <2> SUFFICES ASSUME NEW k \in 1 .. m.Num PROVE PoolS!Get(m, k - 1) = str[k - 1]
    OBVIOUS
  <2>1. k - 1 \in 0 .. m.Num - 1
    BY <1>1
  <2> QED BY <1>1, <2>1, ZGets, ZNotNUL
<1> QED BY <1>2 DEF TextOf

LEMMA WTextIs == \A m, str : TPool(m, str, FewChars, 1)
                    => [k \in 1 .. m.Num |-> PoolW!Get(m, k - 1)] = TextOf(str, m.Num)
<1> SUFFICES ASSUME NEW m, NEW str, TPool(m, str, FewChars, 1)
             PROVE  [k \in 1 .. m.Num |-> PoolW!Get(m, k - 1)] = TextOf(str, m.Num)
  OBVIOUS
<1>1. m.Num \in Nat /\ TLayout(m, str, FewChars, 1)
  BY TIsPool, TInLayout
<1>2. \A k \in 1 .. m.Num : PoolW!Get(m, k - 1) = str[k - 1]
  <2> SUFFICES ASSUME NEW k \in 1 .. m.Num PROVE PoolW!Get(m, k - 1) = str[k - 1]
    OBVIOUS
  <2>1. k - 1 \in 0 .. m.Num - 1
    BY <1>1
  <2>2. PoolS!Get(m, k - 1) = str[k - 1]
    BY <1>1, <2>1, ZGets, ZNotNUL
  <2> QED BY <2>2, WReads
<1> QED BY <1>2 DEF TextOf

LEMMA LTextIs == \A m, str : TPool(m, str, FewChars, 2)
                    => [k \in 1 .. m.Num |-> PoolL!Get(m, k - 1)] = TextOf(str, m.Num)
<1> SUFFICES ASSUME NEW m, NEW str, TPool(m, str, FewChars, 2)
             PROVE  [k \in 1 .. m.Num |-> PoolL!Get(m, k - 1)] = TextOf(str, m.Num)
  OBVIOUS
<1>1. m.Num \in Nat /\ TLayout(m, str, FewChars, 2)
  BY TIsPool, TInLayout
<1>2. \A k \in 1 .. m.Num : PoolL!Get(m, k - 1) = str[k - 1]
  <2> SUFFICES ASSUME NEW k \in 1 .. m.Num PROVE PoolL!Get(m, k - 1) = str[k - 1]
    OBVIOUS
  <2>1. k - 1 \in 0 .. m.Num - 1
    BY <1>1
  <2> QED BY <1>1, <2>1, LGets
<1> QED BY <1>2 DEF TextOf

LEMMA PoolsInitOK ==
    ASSUME MCInit
    PROVE  PoolsInv /\ PoolS!Table!Init /\ PoolW!Table!Init /\ PoolL!Table!Init
<1> DEFINE no == [j \in 0 .. 0 - 1 |-> <<>>]
<1>1. PoolS!Init /\ PoolW!Init /\ PoolL!Init
  BY DEF MCInit
<1>2. TPool(zPool, no, Chars, 1) /\ zPool.Num = 0 /\ zStatus = "running"
  <2>1. 1 \in {1, 2}
    OBVIOUS
  <2> QED BY <1>1, <2>1, TNew DEF PoolS!Init, PoolS!Slots
<1>3. TPool(wPool, no, FewChars, 1) /\ wPool.Num = 0 /\ wStatus = "running"
  <2>1. 1 \in {1, 2}
    OBVIOUS
  <2> QED BY <1>1, <2>1, TNew DEF PoolW!Init, PoolW!Slots
<1>4. TPool(lPool, no, FewChars, 2) /\ lPool.Num = 0 /\ lStatus = "running"
  <2>1. 2 \in {1, 2}
    OBVIOUS
  <2> QED BY <1>1, <2>1, TNew DEF PoolL!Init, PoolL!Slots
<1> HIDE DEF no
<1>5. PoolsInv
  BY <1>2, <1>3, <1>4 DEF PoolsInv, ZInv, WInv, LInv
<1>6. \A f : [k \in 1 .. 0 |-> f[k]] = <<>>
  OBVIOUS
<1>7. PoolS!Table!Init
  BY <1>2, <1>6 DEF PoolS!Table!Init
<1>8. PoolW!Table!Init
  BY <1>3, <1>6 DEF PoolW!Table!Init
<1>9. PoolL!Table!Init
  BY <1>4, <1>6 DEF PoolL!Table!Init
<1> QED BY <1>5, <1>7, <1>8, <1>9

(* A step of a pool keeps its invariant and is a step of the table.        *)
LEMMA ZStep ==
    ASSUME {"grow", "clear", "self"} \subseteq Rules, ZInv, PoolS!Next
    PROVE  ZInv' /\ PoolS!Table!Next
<1>1. PICK str : TPool(zPool, str, Chars, 1)
  BY DEF ZInv
<1>2. zStatus = "running" /\ ZOutcome(str)
  BY <1>1, ZNext
<1> DEFINE txt == [k \in 1 .. zPool.Num |-> PoolS!Get(zPool, k - 1)]
           txt2 == [k \in 1 .. zPool'.Num |-> PoolS!Get(zPool', k - 1)]
<1>3. CASE zStatus' \in {"exited", "crashed"} /\ zPool' = zPool /\ zCall' = zCall
  <2>1. ZInv'
    BY <1>1, <1>3 DEF ZInv
  <2>2. txt2 = txt
    BY <1>3
  <2>3. PoolS!Table!Next
    BY <1>2, <1>3, <2>2 DEF PoolS!Table!Next
  <2> QED BY <2>1, <2>3
<1>4. CASE zStatus' = "running" /\ PoolStep(zPool, str, Chars, 1, zPool', zCall')
  <2>1. 1 \in {1, 2}
    OBVIOUS
  <2>2. PICK str2 : /\ TPool(zPool', str2, Chars, 1)
                    /\ TableStep(TextOf(str, zPool.Num), TextOf(str2, zPool'.Num), zCall')
                    /\ zCall'.op \in {"Set", "Concatenate", "Clear", "Reserve"}
    BY <1>1, <1>4, <2>1, TSteps
  <2>3. ZInv'
    BY <1>4, <2>2 DEF ZInv
  <2>4. txt = TextOf(str, zPool.Num) /\ txt2 = TextOf(str2, zPool'.Num)
    BY <1>1, <2>2, ZTextIs
  <2>5. TableStep(txt, txt2, zCall')
    BY <2>2, <2>4
  <2>6. PoolS!Table!Next
    BY <1>2, <1>4, <2>2, <2>5 DEF PoolS!Table!Next, PoolS!Table!Set, PoolS!Table!Concatenate,
          PoolS!Table!Clear, PoolS!Table!With, TableStep, TableWith
  <2> QED BY <2>3, <2>6
<1> QED BY <1>2, <1>3, <1>4 DEF ZOutcome

LEMMA WStep ==
    ASSUME {"grow", "clear", "self"} \subseteq Rules, WInv, PoolW!NextW
    PROVE  WInv' /\ PoolW!Table!Next
<1>1. PICK str : TPool(wPool, str, FewChars, 1)
  BY DEF WInv
<1>2. wStatus = "running" /\ WOutcome(str)
  BY <1>1, WSame, WNext
<1> DEFINE txt == [k \in 1 .. wPool.Num |-> PoolW!Get(wPool, k - 1)]
           txt2 == [k \in 1 .. wPool'.Num |-> PoolW!Get(wPool', k - 1)]
<1>3. CASE wStatus' \in {"exited", "crashed"} /\ wPool' = wPool /\ wCall' = wCall
  <2>1. WInv'
    BY <1>1, <1>3 DEF WInv
  <2>2. txt2 = txt
    BY <1>3
  <2>3. PoolW!Table!Next
    BY <1>2, <1>3, <2>2 DEF PoolW!Table!Next
  <2> QED BY <2>1, <2>3
<1>4. CASE wStatus' = "running" /\ PoolStep(wPool, str, FewChars, 1, wPool', wCall')
  <2>1. 1 \in {1, 2}
    OBVIOUS
  <2>2. PICK str2 : /\ TPool(wPool', str2, FewChars, 1)
                    /\ TableStep(TextOf(str, wPool.Num), TextOf(str2, wPool'.Num), wCall')
                    /\ wCall'.op \in {"Set", "Concatenate", "Clear", "Reserve"}
    BY <1>1, <1>4, <2>1, TSteps
  <2>3. WInv'
    BY <1>4, <2>2 DEF WInv
  <2>4. txt = TextOf(str, wPool.Num) /\ txt2 = TextOf(str2, wPool'.Num)
    BY <1>1, <2>2, WTextIs
  <2>5. TableStep(txt, txt2, wCall')
    BY <2>2, <2>4
  <2>6. PoolW!Table!Next
    BY <1>2, <1>4, <2>2, <2>5 DEF PoolW!Table!Next, PoolW!Table!Set, PoolW!Table!Concatenate,
          PoolW!Table!Clear, PoolW!Table!With, TableStep, TableWith
  <2> QED BY <2>3, <2>6
<1> QED BY <1>2, <1>3, <1>4 DEF WOutcome

LEMMA LStep ==
    ASSUME {"grow", "clear", "long", "self"} \subseteq Rules, LInv, PoolL!Next
    PROVE  LInv' /\ PoolL!Table!Next
<1>1. PICK str : TPool(lPool, str, FewChars, 2)
  BY DEF LInv
<1>2. lStatus = "running" /\ LOutcome(str)
  BY <1>1, LNext
<1> DEFINE txt == [k \in 1 .. lPool.Num |-> PoolL!Get(lPool, k - 1)]
           txt2 == [k \in 1 .. lPool'.Num |-> PoolL!Get(lPool', k - 1)]
<1>3. CASE lStatus' \in {"exited", "crashed"} /\ lPool' = lPool /\ lCall' = lCall
  <2>1. LInv'
    BY <1>1, <1>3 DEF LInv
  <2>2. txt2 = txt
    BY <1>3
  <2>3. PoolL!Table!Next
    BY <1>2, <1>3, <2>2 DEF PoolL!Table!Next
  <2> QED BY <2>1, <2>3
<1>4. CASE lStatus' = "running" /\ PoolStep(lPool, str, FewChars, 2, lPool', lCall')
  <2>1. 2 \in {1, 2}
    OBVIOUS
  <2>2. PICK str2 : /\ TPool(lPool', str2, FewChars, 2)
                    /\ TableStep(TextOf(str, lPool.Num), TextOf(str2, lPool'.Num), lCall')
                    /\ lCall'.op \in {"Set", "Concatenate", "Clear", "Reserve"}
    BY <1>1, <1>4, <2>1, TSteps
  <2>3. LInv'
    BY <1>4, <2>2 DEF LInv
  <2>4. txt = TextOf(str, lPool.Num) /\ txt2 = TextOf(str2, lPool'.Num)
    BY <1>1, <2>2, LTextIs
  <2>5. TableStep(txt, txt2, lCall')
    BY <2>2, <2>4
  <2>6. PoolL!Table!Next
    BY <1>2, <1>4, <2>2, <2>5 DEF PoolL!Table!Next, PoolL!Table!Set, PoolL!Table!Concatenate,
          PoolL!Table!Clear, PoolL!Table!With, TableStep, TableWith
  <2> QED BY <2>3, <2>6
<1> QED BY <1>2, <1>3, <1>4 DEF LOutcome

LEMMA PoolsStay ==
    ASSUME PoolsInv
    PROVE  /\ UNCHANGED zVars => ZInv'
           /\ UNCHANGED wVars => WInv'
           /\ UNCHANGED lVars => LInv'
<1>1. UNCHANGED zVars => ZInv'
  BY DEF PoolsInv, zVars, ZInv
<1>2. UNCHANGED wVars => WInv'
  BY DEF PoolsInv, wVars, WInv
<1>3. UNCHANGED lVars => LInv'
  BY DEF PoolsInv, lVars, LInv
<1> QED
  BY <1>1, <1>2, <1>3

(* What a step of the subject s is to the table of strings. *)
LEMMA PoolSteps ==
    ASSUME {"grow", "clear", "long", "self"} \subseteq Rules, PoolsInv, MCNext
    PROVE  /\ PoolsInv'
           /\ subject = "StringPoolS" => PoolS!Table!Next
           /\ subject = "StringPoolW" => PoolW!Table!Next
           /\ subject = "StringPoolL" => PoolL!Table!Next
<1>1. /\ subject = "StringPoolS" => PoolS!Next
      /\ subject = "StringPoolW" => PoolW!NextW
      /\ subject = "StringPoolL" => PoolL!Next
  BY DEF MCNext
<1>2. /\ subject # "StringPoolS" => UNCHANGED zVars
      /\ subject # "StringPoolW" => UNCHANGED wVars
      /\ subject # "StringPoolL" => UNCHANGED lVars
  BY DEF MCNext, Only
<1>3. ZInv /\ WInv /\ LInv /\ {"grow", "clear", "self"} \subseteq Rules
  BY DEF PoolsInv
<1>4. /\ PoolS!Next => ZInv' /\ PoolS!Table!Next
      /\ PoolW!NextW => WInv' /\ PoolW!Table!Next
      /\ PoolL!Next => LInv' /\ PoolL!Table!Next
  BY <1>3, ZStep, WStep, LStep
<1>5. ZInv' /\ WInv' /\ LInv'
  BY <1>1, <1>2, <1>4, PoolsStay
<1>6. PoolsInv'
  BY <1>5 DEF PoolsInv
<1> QED
  BY <1>1, <1>4, <1>6

LEMMA PoolsKept ==
    ASSUME {"grow", "clear", "long", "self"} \subseteq Rules
    PROVE  PoolsInv /\ [MCNext]_MCvars => PoolsInv'
<1>1. PoolsInv /\ MCNext => PoolsInv'
  BY PoolSteps
<1>2. PoolsInv /\ UNCHANGED MCvars => PoolsInv'
  <2>1. UNCHANGED MCvars => UNCHANGED zVars /\ UNCHANGED wVars /\ UNCHANGED lVars
    BY DEF MCvars
  <2>2. ASSUME PoolsInv, UNCHANGED MCvars
        PROVE  ZInv' /\ WInv' /\ LInv'
    BY <2>1, <2>2, PoolsStay
  <2> QED
    BY <2>2 DEF PoolsInv
<1> QED
  BY <1>1, <1>2

(* The string pools are tables of strings, for any characters, any strings, any
   initial sizes of the buffers and of the index, any limit of memory and any
   sequence of calls of a client that keeps the four rules: through growth,
   garbage collection and strings that change their size in place, every string
   reads as it was left (StringPoolS.cpp 241-502, StringPoolW.cpp 211-471,
   StringPoolL.cpp 253-544).                                                   *)
THEOREM TablesImplement ==
    ASSUME {"grow", "clear", "long", "self"} \subseteq Rules
    PROVE  MCSpec => PoolsImplement
<1>1. MCInit => PoolsInv /\ PoolS!Table!Init /\ PoolW!Table!Init /\ PoolL!Table!Init
  BY PoolsInitOK
<1>2. PoolsInv /\ [MCNext]_MCvars => PoolsInv'
  BY PoolsKept
<1>3. PoolsInv /\ [MCNext]_MCvars =>
        [CASE subject = "StringPoolS" -> [PoolS!Table!Next]_(PoolS!Table!vars)
            [] subject = "StringPoolW" -> [PoolW!Table!Next]_(PoolW!Table!vars)
            [] subject = "StringPoolL" -> [PoolL!Table!Next]_(PoolL!Table!vars)
            [] OTHER -> TRUE]_MCvars
  BY PoolSteps
<1> QED
  BY <1>1, <1>2, <1>3, PTL DEF MCSpec, PoolsImplement

LEMMA PoolsTypesOK ==
    ASSUME PoolsInv
    PROVE  /\ PoolS!TypeOK /\ PoolW!TypeOK /\ PoolL!TypeOK
           /\ PoolS!WithinBuffer /\ PoolW!WithinBuffer /\ PoolL!WithinBuffer
<1>1. 1 \in {1, 2} /\ 2 \in {1, 2} /\ 2 # 1
  OBVIOUS
<1>2. PICK str : TPool(zPool, str, Chars, 1)
  BY DEF PoolsInv, ZInv
<1>3. PoolS!TypeOK /\ PoolS!WithinBuffer
  <2>1. zStatus \in {"running", "exited", "crashed"}
    BY DEF PoolsInv, ZInv
  <2> QED
    BY <1>1, <1>2, <2>1, TTypes DEF TCellSet, PoolS!TypeOK, PoolS!WithinBuffer, PoolS!Slots
<1>4. PICK str2 : TPool(wPool, str2, FewChars, 1)
  BY DEF PoolsInv, WInv
<1>5. PoolW!TypeOK /\ PoolW!WithinBuffer
  <2>1. wStatus \in {"running", "exited", "crashed"}
    BY DEF PoolsInv, WInv
  <2> QED
    BY <1>1, <1>4, <2>1, TTypes DEF TCellSet, PoolW!TypeOK, PoolW!WithinBuffer, PoolW!Slots
<1>6. PICK str3 : TPool(lPool, str3, FewChars, 2)
  BY DEF PoolsInv, LInv
<1>7. PoolL!TypeOK /\ PoolL!WithinBuffer
  <2>1. lStatus \in {"running", "exited", "crashed"}
    BY DEF PoolsInv, LInv
  <2> QED
    BY <1>1, <1>6, <2>1, TTypes DEF TCellSet, PoolL!TypeOK, PoolL!WithinBuffer, PoolL!Slots
<1> QED
  BY <1>3, <1>5, <1>7

(* The length word and the zero of a string agree. *)
LEMMA LengthsOK ==
    ASSUME PoolsInv
    PROVE  PoolL!LengthsMatchZeros
<1>1. PICK str : TPool(lPool, str, FewChars, 2)
  BY DEF PoolsInv, LInv
<1>2. TLayout(lPool, str, FewChars, 2) /\ lPool.Num \in Nat
  BY <1>1, TIsPool, TInLayout
<1> SUFFICES ASSUME NEW i \in PoolL!Slots(lPool.Num), lPool.BufferSize > 0
             PROVE  /\ \A k \in DOMAIN PoolL!Get(lPool, i) : PoolL!Get(lPool, i)[k] # NUL
                    /\ lPool.Buffer[lPool.Offsets[i] + PoolL!Word + PoolL!LenOf(lPool, i)] = NUL
  BY DEF PoolL!LengthsMatchZeros
<1>3. i \in 0 .. lPool.Num - 1
  BY DEF PoolL!Slots
<1>4. /\ PoolL!Get(lPool, i) = str[i]
      /\ lPool.Buffer[lPool.Offsets[i] + PoolL!Word + PoolL!LenOf(lPool, i)] = NUL
  BY <1>2, <1>3, LReads
<1>5. str[i] \in Seq(FewChars)
  BY <1>1, <1>3, TIsPool
<1>6. \A k \in DOMAIN str[i] : str[i][k] # NUL
  BY <1>5, StringsAssumption
<1> QED
  BY <1>4, <1>6

=============================================================================
