-------------------------- MODULE ContainersProofs --------------------------
(***************************************************************************)
(* Proofs about the container classes, for any objects, any MAXSIZE and    *)
(* MaxEntries, any granularity and any addresses of memory.                *)
(*                                                                         *)
(* SortedList: the order of the records and the interval of the search     *)
(* need each other: what one comparison says of the rest of the list       *)
(* follows from the order, and a record can be inserted at a because the   *)
(* search ends there.                                                      *)
(*                                                                         *)
(* The queues: the head is where the ring that starts at the tail ends, so *)
(* what a ring holds is a sequence (Ring), and a new buffer holds the same *)
(* sequence.  The stack, the arrays and the pool of mixed objects: the     *)
(* slots in use are a sequence (Block); the arrays that grow by SetNum and *)
(* the pool need besides that what a call gives back reads zero.           *)
(***************************************************************************)
EXTENDS StringPoolProofs, SequenceTheorems

\* A call that may insert has room to do so.
RoomToInsert == op \in {"Put", "PutUnique"} => num < MAXSIZE

\* A reference into the list reads its argument as long as the list stays.
RefersToX == at # Elsewhere => at < num /\ list[at] = x

\* Nothing but a call that searches keeps a reference.
IdleRefersNowhere == op = "none" => at = Elsewhere

IInv == TypeOK /\ RoomToInsert /\ Sorted /\ LowerBound /\ RefersToX /\ IdleRefersNowhere

-----------------------------------------------------------------------------
(* What the assumption on the constants says of the objects. *)
LEMMA Constants == /\ Zero \in OBJTYPE
                   /\ MAXSIZE \in Nat /\ MAXSIZE > 0
                   /\ \A y \in OBJTYPE : Key[y] \in Int
BY ContainersAssumption

(* The middle of an interval that is not empty lies in it. *)
LEMMA Middle == ASSUME NEW l \in Nat, NEW h \in Nat, l < h
                PROVE  /\ (l + h) \div 2 \in Nat
                       /\ l <= (l + h) \div 2 /\ (l + h) \div 2 < h
OBVIOUS

LEMMA InitOK == Init => IInv
<1> SUFFICES ASSUME Init PROVE IInv
  OBVIOUS
<1> USE Constants DEF Init, Slots
<1>1. TypeOK
  BY DEF TypeOK, Cell
<1>2. RoomToInsert /\ Sorted /\ LowerBound
  BY DEF RoomToInsert, Sorted, LowerBound
<1>3. RefersToX /\ IdleRefersNowhere
  BY DEF RefersToX, IdleRefersNowhere
<1> QED
  BY <1>1, <1>2, <1>3 DEF IInv

(* While a call searches, only the interval changes. *)
LEMMA SearchOK == ASSUME IInv, NEW o \in {"Put", "PutUnique", "Exists"}, NEW y \in OBJTYPE,
                         NEW p \in Slots(num) \cup {Elsewhere}, Passed(y, p),
                         Search(o, y, p), o # "Exists" => num < MAXSIZE
                  PROVE  IInv'
<1> USE Constants DEF IInv, Search
<1>1. TypeOK'
  BY DEF TypeOK
<1>2. RoomToInsert'
  BY DEF RoomToInsert
<1>3. Sorted'
  BY DEF Sorted
<1>4. LowerBound'
  BY DEF LowerBound, TypeOK, Slots
<1>5. RefersToX' /\ IdleRefersNowhere'
  BY DEF RefersToX, IdleRefersNowhere, Passed, Elsewhere, Slots, TypeOK
<1> QED
  BY <1>1, <1>2, <1>3, <1>4, <1>5

(* A comparison with the record in the middle decides for all the records
   before it or for all the records from it on.                            *)
LEMMA HalveOK == ASSUME IInv, Halve PROVE IInv'
<1> DEFINE c == (a + b) \div 2
<1>1. op # "none" /\ a < b /\ a \in Nat /\ b \in Nat /\ b <= num /\ num \in Nat /\ num <= MAXSIZE
  BY Constants DEF IInv, TypeOK, LowerBound, Halve
<1>2. c \in Nat /\ a <= c /\ c < b
  BY <1>1, Middle
<1>3. UNCHANGED <<list, num, op, x, at>> /\ x \in OBJTYPE
  BY DEF Halve, IInv, TypeOK
<1>4. \/ Less(list[c], x) /\ a' = c + 1 /\ b' = b
      \/ ~Less(list[c], x) /\ b' = c /\ a' = a
  BY DEF Halve
<1> HIDE DEF c
<1>5. TypeOK'
  BY <1>1, <1>2, <1>3, <1>4, Constants DEF IInv, TypeOK
<1>6. RoomToInsert' /\ Sorted' /\ RefersToX' /\ IdleRefersNowhere'
  BY <1>3 DEF IInv, RoomToInsert, Sorted, RefersToX, IdleRefersNowhere
<1>7. \A s, t \in Slots(num) : s <= t => Key[list[s]] <= Key[list[t]]
  <2> TAKE s, t \in Slots(num)
  <2> HAVE s <= t
  <2>1. s \in Int /\ t \in Int /\ (s = t \/ s < t)
    BY <1>1 DEF Slots
  <2>2. Key[list[s]] \in Int
    BY Constants DEF IInv, Sorted
  <2> QED
    BY <2>1, <2>2 DEF IInv, Sorted
<1>8. c \in Slots(num) /\ \A s \in Slots(num) : list[s] \in OBJTYPE /\ Key[list[s]] \in Int
  BY <1>1, <1>2, Constants DEF IInv, Sorted, Slots
<1>9. CASE Less(list[c], x) /\ a' = c + 1 /\ b' = b
  <2>1. \A s \in Slots(c + 1) : Less(list[s], x)
    <3> TAKE s \in Slots(c + 1)
    <3>1. s \in Slots(num) /\ s <= c
      BY <1>1, <1>2 DEF Slots
    <3>2. Key[list[s]] <= Key[list[c]]
      BY <1>7, <1>8, <3>1
    <3> QED
      BY <1>3, <1>8, <1>9, <3>1, <3>2, Constants DEF Less
  <2>2. \A s \in b .. num - 1 : ~Less(list[s], x)
    BY <1>1 DEF IInv, LowerBound
  <2>3. a' <= b /\ b <= num
    BY <1>1, <1>2, <1>9
  <2>4. LowerBound'
    BY <1>3, <1>9, <2>1, <2>2, <2>3 DEF LowerBound, Less
  <2> QED
    BY <1>5, <1>6, <2>4 DEF IInv
<1>10. CASE ~Less(list[c], x) /\ b' = c /\ a' = a
  <2>1. \A s \in c .. num - 1 : ~Less(list[s], x)
    <3> TAKE s \in c .. num - 1
    <3>1. s \in Slots(num) /\ c <= s
      BY <1>1, <1>2 DEF Slots
    <3>2. Key[list[c]] <= Key[list[s]]
      BY <1>7, <1>8, <3>1
    <3> QED
      BY <1>3, <1>8, <1>10, <3>1, <3>2, Constants DEF Less
  <2>2. \A s \in Slots(a) : Less(list[s], x)
    BY <1>1 DEF IInv, LowerBound
  <2>3. a <= c /\ c <= num
    BY <1>1, <1>2
  <2>4. LowerBound'
    BY <1>3, <1>10, <2>1, <2>2, <2>3 DEF LowerBound, Less
  <2> QED
    BY <1>5, <1>6, <2>4 DEF IInv
<1> QED
  BY <1>4, <1>9, <1>10

(* What Put copies is equal to x, if it is not x itself. *)
LEMMA ShiftedIsEqual ==
    ASSUME IInv, op \in {"Put", "PutUnique"}, a >= b
    PROVE  Shifted \in OBJTYPE /\ Key[Shifted] = Key[x]
<1>1. /\ a \in Nat /\ a <= num /\ num \in Nat /\ num < MAXSIZE /\ x \in OBJTYPE /\ a = b
      /\ Key[x] \in Int /\ at \in 0 .. MAXSIZE
  BY Constants DEF IInv, TypeOK, RoomToInsert, LowerBound, Slots, Elsewhere
<1>2. CASE at # Elsewhere /\ at > a
  <2>1. at < num /\ list[at] = x
    BY <1>2 DEF IInv, RefersToX
  <2>2. /\ at - 1 \in b .. num - 1 /\ at - 1 \in Slots(num) /\ at \in Slots(num) /\ at - 1 < at
    BY <1>1, <1>2, <2>1 DEF Slots
  <2>3. /\ list[at - 1] \in OBJTYPE /\ Key[list[at - 1]] \in Int
        /\ Key[list[at - 1]] <= Key[list[at]]
    BY <2>2, Constants DEF IInv, Sorted
  <2>4. ~Less(list[at - 1], x)
    BY <1>1, <2>2 DEF IInv, LowerBound
  <2> QED
    BY <1>1, <1>2, <2>1, <2>3, <2>4 DEF Less, Shifted
<1> QED
  BY <1>1, <1>2 DEF Shifted

(* x comes after the records that are smaller and before those that are not. *)
LEMMA InsertOK == ASSUME IInv, op \in {"Put", "PutUnique"}, a >= b, Insert PROVE IInv'
<1> DEFINE z == Shifted
           new(s) == IF s = a THEN z ELSE IF a < s /\ s <= num THEN list[s - 1] ELSE list[s]
<1>1. /\ list' = [s \in Slots(MAXSIZE) |-> new(s)]
      /\ num' = num + 1 /\ op' = "none"
      /\ UNCHANGED <<x, a, b>> /\ at' = Elsewhere
  BY DEF Insert, Return
<1>2. a \in Nat /\ a <= num /\ num \in Nat /\ num < MAXSIZE /\ x \in OBJTYPE /\ a = b
  BY Constants DEF IInv, TypeOK, RoomToInsert, LowerBound
<1>3. \A s \in Slots(num) : list[s] \in OBJTYPE /\ Key[list[s]] \in Int
  BY Constants DEF IInv, Sorted
<1>4. z \in OBJTYPE /\ Key[z] = Key[x] /\ Key[z] \in Int
  BY <1>2, Constants, ShiftedIsEqual
<1>5. \A s \in Slots(a) : Key[list[s]] < Key[z]
  BY <1>2, <1>4 DEF IInv, LowerBound, Less
<1>6. \A s \in a .. num - 1 : Key[z] <= Key[list[s]]
  <2> TAKE s \in a .. num - 1
  <2>1. s \in Slots(num)
    BY <1>2 DEF Slots
  <2> QED
    BY <1>2, <1>3, <1>4, <2>1 DEF IInv, LowerBound, Less
<1>7. \A s, t \in Slots(num) : s < t => Key[list[s]] <= Key[list[t]]
  BY DEF IInv, Sorted
<1>8. \A s \in Slots(num + 1) : \/ s < a /\ s \in Slots(num) /\ s \in Slots(a) /\ new(s) = list[s]
                                \/ s = a /\ new(s) = z
                                \/ /\ s > a /\ new(s) = list[s - 1]
                                   /\ s - 1 \in Slots(num) /\ s - 1 \in a .. num - 1
  BY <1>2 DEF Slots
<1>9. \A s \in Slots(num + 1) : list'[s] = new(s)
  BY <1>1, <1>2, Constants DEF Slots
<1> HIDE DEF new, z
<1>10. \A s \in Slots(num + 1) : new(s) \in OBJTYPE
  BY <1>2, <1>3, <1>4, <1>8
<1>11. \A s, t \in Slots(num + 1) : s < t => Key[new(s)] <= Key[new(t)]
  <2> TAKE s, t \in Slots(num + 1)
  <2> HAVE s < t
  <2>1. s \in Int /\ t \in Int
    BY <1>2 DEF Slots
  <2>2. CASE t < a
    BY <1>2, <1>7, <1>8, <2>1, <2>2
  <2>3. CASE t = a
    BY <1>2, <1>3, <1>4, <1>5, <1>8, <2>1, <2>3
  <2>4. CASE t > a /\ s < a
    <3>1. Key[new(s)] < Key[z] /\ Key[new(s)] \in Int
      BY <1>2, <1>3, <1>5, <1>8, <2>1, <2>4
    <3>2. Key[z] <= Key[new(t)] /\ Key[new(t)] \in Int
      BY <1>2, <1>3, <1>6, <1>8, <2>1, <2>4
    <3> QED
      BY <1>4, <3>1, <3>2
  <2>5. CASE t > a /\ s = a
    BY <1>2, <1>6, <1>8, <2>1, <2>5
  <2>6. CASE t > a /\ s > a
    <3>1. new(s) = list[s - 1] /\ new(t) = list[t - 1]
          /\ s - 1 \in Slots(num) /\ t - 1 \in Slots(num) /\ s - 1 < t - 1
      BY <1>2, <1>8, <2>1, <2>6
    <3> QED
      BY <1>7, <3>1
  <2> QED
    BY <1>2, <2>1, <2>2, <2>3, <2>4, <2>5, <2>6
<1>12. Sorted'
  BY <1>1, <1>9, <1>10, <1>11 DEF Sorted
<1>13. TypeOK'
  <2>1. list' \in [Slots(MAXSIZE) -> Cell]
    <3> SUFFICES ASSUME NEW s \in Slots(MAXSIZE) PROVE new(s) \in Cell
      BY <1>1
    <3>1. CASE s \in Slots(num + 1)
      BY <1>10, <3>1 DEF Cell
    <3>2. CASE s \notin Slots(num + 1)
      <4>1. s > num /\ s \in Nat
        BY <1>2, <3>2, Constants DEF Slots
      <4>2. new(s) = list[s]
        BY <1>2, <4>1 DEF new
      <4> QED
        BY <4>2 DEF IInv, TypeOK
    <3> QED
      BY <3>1, <3>2
  <2> QED
    BY <1>1, <1>2, <2>1, Constants DEF IInv, TypeOK
<1>14. RoomToInsert' /\ LowerBound' /\ RefersToX' /\ IdleRefersNowhere'
  BY <1>1 DEF RoomToInsert, LowerBound, RefersToX, IdleRefersNowhere, Elsewhere
<1> QED
  BY <1>12, <1>13, <1>14 DEF IInv

(* The records after the one removed move down by one. *)
LEMMA RemoveOK == ASSUME IInv, NEW i \in Slots(MAXSIZE), Remove(i) PROVE IInv'
<1>1. op = "none" /\ UNCHANGED <<op, x, at, a, b>>
  BY DEF Remove
<1>2. RoomToInsert' /\ LowerBound' /\ RefersToX' /\ IdleRefersNowhere' /\ at' = Elsewhere
  BY <1>1 DEF RoomToInsert, LowerBound, RefersToX, IdleRefersNowhere, IInv
<1>3. i \in Nat /\ num \in Nat /\ num <= MAXSIZE
  BY Constants DEF IInv, TypeOK, Slots
<1>4. CASE UNCHANGED <<list, num>>
  BY <1>1, <1>2, <1>4 DEF IInv, TypeOK, Sorted
<1>5. CASE /\ i < num
           /\ list' = [s \in Slots(MAXSIZE) |->
                          IF i <= s /\ s < num - 1 THEN list[s + 1] ELSE list[s]]
           /\ num' = num - 1
  <2>1. \A s \in Slots(num - 1) :
           \/ s < i /\ s \in Slots(num) /\ list'[s] = list[s]
           \/ i <= s /\ s + 1 \in Slots(num) /\ list'[s] = list[s + 1]
    BY <1>3, <1>5, Constants DEF Slots
  <2>2. \A s \in Slots(num - 1) : list'[s] \in OBJTYPE
    BY <2>1 DEF IInv, Sorted
  <2>3. \A s, t \in Slots(num - 1) : s < t => Key[list'[s]] <= Key[list'[t]]
    <3> TAKE s, t \in Slots(num - 1)
    <3> HAVE s < t
    <3>1. s \in Int /\ t \in Int
      BY <1>3 DEF Slots
    <3>2. PICK k \in Slots(num) : list'[s] = list[k] /\ (k = s \/ (k = s + 1 /\ i <= s))
      BY <2>1
    <3>3. PICK l \in Slots(num) : list'[t] = list[l] /\ ((l = t /\ t < i) \/ l = t + 1)
      BY <2>1
    <3>4. k < l
      BY <1>3, <3>1, <3>2, <3>3
    <3> QED
      BY <3>2, <3>3, <3>4 DEF IInv, Sorted
  <2>4. Sorted'
    BY <1>5, <2>2, <2>3 DEF Sorted
  <2>5. list' \in [Slots(MAXSIZE) -> Cell]
    <3> SUFFICES ASSUME NEW s \in Slots(MAXSIZE)
                 PROVE (IF i <= s /\ s < num - 1 THEN list[s + 1] ELSE list[s]) \in Cell
      BY <1>5
    <3>1. i <= s /\ s < num - 1 => s + 1 \in Slots(MAXSIZE)
      BY <1>3, Constants DEF Slots
    <3> QED
      BY <3>1 DEF IInv, TypeOK
  <2>6. num' \in 0 .. MAXSIZE
    BY <1>3, <1>5, Constants
  <2> QED
    BY <1>1, <1>2, <2>4, <2>5, <2>6 DEF IInv, TypeOK
<1> QED
  BY <1>4, <1>5 DEF Remove

(* A call that ends without a change of the list. *)
LEMMA ReturnOK ==
    ASSUME IInv, op' = "none", at' = Elsewhere, UNCHANGED <<list, num, x, a, b>> PROVE IInv'
BY DEF IInv, TypeOK, RoomToInsert, Sorted, LowerBound, RefersToX, IdleRefersNowhere, Elsewhere

LEMMA NextOK == IInv /\ [Next]_vars => IInv'
<1> SUFFICES ASSUME IInv, [Next]_vars PROVE IInv'
  OBVIOUS
<1>1. ASSUME NEW y \in OBJTYPE, ListFull(y) PROVE IInv'
  BY <1>1, ReturnOK DEF ListFull, IInv, IdleRefersNowhere
<1>2. ASSUME NEW y \in OBJTYPE, NEW p \in Slots(num) \cup {Elsewhere}, Passed(y, p),
             Put(y, p)
      PROVE  IInv'
  BY <1>1, <1>2, SearchOK DEF Put
<1>3. ASSUME NEW y \in OBJTYPE, NEW p \in Slots(num) \cup {Elsewhere}, Passed(y, p),
             PutUnique(y, p)
      PROVE  IInv'
  BY <1>1, <1>3, SearchOK DEF PutUnique
<1>4. ASSUME NEW y \in OBJTYPE, NEW p \in Slots(num) \cup {Elsewhere}, Passed(y, p),
             Exists(y, p)
      PROVE  IInv'
  BY <1>4, SearchOK DEF Exists
<1>5. CASE Halve
  BY <1>5, HalveOK
<1>6. CASE PutEnds
  BY <1>6, InsertOK DEF PutEnds
<1>7. CASE PutUniqueEnds
  BY <1>7, InsertOK, ReturnOK DEF PutUniqueEnds, Return
<1>8. CASE ExistsEnds
  BY <1>8, ReturnOK DEF ExistsEnds, Return
<1>9. ASSUME NEW i \in Slots(MAXSIZE), Remove(i) PROVE IInv'
  BY <1>9, RemoveOK
<1>10. CASE UNCHANGED vars
  BY <1>10 
     DEF vars, IInv, TypeOK, RoomToInsert, Sorted, LowerBound, RefersToX, IdleRefersNowhere
<1> QED
  BY <1>2, <1>3, <1>4, <1>5, <1>6, <1>7, <1>8, <1>9, <1>10 DEF Next

LEMMA Invariant == Spec => []IInv
BY InitOK, NextOK, PTL DEF Spec

-----------------------------------------------------------------------------
(* The variables keep their types; in particular the interval of the search
   and the number of records stay within MAXSIZE (SortedList.cpp 74-143).  *)
THEOREM TypeCorrect == Spec => []TypeOK
<1>1. IInv => TypeOK
  BY DEF IInv
<1> QED
  BY <1>1, Invariant, PTL

(* The records are in the order of operator < after any sequence of calls
   (SortedList.cpp 95-143).                                                *)
THEOREM ListSorted == Spec => []Sorted
<1>1. IInv => Sorted
  BY DEF IInv
<1> QED
  BY <1>1, Invariant, PTL

(* The binary search closes in on the first record that is not smaller than x
   (SortedList.cpp 74-93).                                                 *)
THEOREM SearchFinds == Spec => []LowerBound
<1>1. IInv => LowerBound
  BY DEF IInv
<1> QED
  BY <1>1, Invariant, PTL

(* g is f, of n records, with one more record z in place p; how often a record
   is found in both.                                                       *)
IsWith(g, f, len, p, z) ==
    \A s \in 0 .. len : g[s] = IF s < p THEN f[s] ELSE IF s = p THEN z ELSE f[s - 1]

HowMany(f, len, y) == Cardinality({s \in Slots(len) : f[s] = y})

LEMMA CountWith ==
    ASSUME NEW len \in Nat, NEW p \in 0 .. len, NEW f, NEW g, NEW z, NEW y,
           IsWith(g, f, len, p, z)
    PROVE  /\ HowMany(f, len, y) \in Nat
           /\ HowMany(g, len + 1, y) = HowMany(f, len, y) + (IF y = z THEN 1 ELSE 0)
<1> DEFINE S == {s \in 0 .. len - 1 : f[s] = y}
           T == {s \in 0 .. len : g[s] = y}
           h == [s \in S |-> IF s < p THEN s ELSE s + 1]
<1>1. IsFiniteSet(S) /\ IsFiniteSet(T)
  <2>1. IsFiniteSet(0 .. len - 1) /\ IsFiniteSet(0 .. len)
    BY FS_Interval
  <2> QED
    BY <2>1, FS_Subset
<1>2. \A s \in 0 .. len - 1 :
         /\ s < p => s \in 0 .. len /\ s # p /\ g[s] = f[s]
         /\ ~(s < p) => s + 1 \in 0 .. len /\ s + 1 # p /\ g[s + 1] = f[s]
  BY DEF IsWith
<1>3. h \in [S -> T \ {p}]
  <2> SUFFICES ASSUME NEW s \in S PROVE h[s] \in T \ {p}
    OBVIOUS
  <2> QED
    BY <1>2
<1>4. \A s, t \in S : h[s] = h[t] => s = t
  OBVIOUS
<1>5. \A t \in T \ {p} : \E s \in S : h[s] = t
  <2> TAKE t \in T \ {p}
  <2>1. CASE t < p
    <3>1. t \in S /\ h[t] = t
      BY <2>1 DEF IsWith
    <3> QED
      BY <3>1
  <2>2. CASE t > p
    <3>1. t - 1 \in S /\ h[t - 1] = t
      BY <2>2 DEF IsWith
    <3> QED
      BY <3>1
  <2> QED
    BY <2>1, <2>2
<1>6. ExistsBijection(S, T \ {p})
  <2> HIDE DEF h
  <2> QED
    BY <1>3, <1>4, <1>5 DEF ExistsBijection, Bijection, Injection, Surjection, IsInjective
<1> HIDE DEF S, T, h
<1>7. Cardinality(T \ {p}) = Cardinality(S) /\ Cardinality(S) \in Nat /\ Cardinality(T) \in Nat
  BY <1>1, <1>6, FS_Bijection, FS_CardinalityType
<1>8. Cardinality(T \ {p}) = IF p \in T THEN Cardinality(T) - 1 ELSE Cardinality(T)
  BY <1>1, FS_RemoveElement
<1>9. p \in T <=> y = z
  BY DEF T, IsWith
<1>10. Slots(len) = 0 .. len - 1 /\ Slots(len + 1) = 0 .. len
  BY DEF Slots
<1>11. Cardinality(T) = Cardinality(S) + (IF y = z THEN 1 ELSE 0)
  BY <1>7, <1>8, <1>9
<1>12. HowMany(f, len, y) = Cardinality(S) /\ HowMany(g, len + 1, y) = Cardinality(T)
  BY <1>10 DEF S, T, HowMany
<1> QED
  BY <1>7, <1>11, <1>12

(* Insert adds what memmove left of its argument, and nothing else. *)
LEMMA InsertAdds ==
    ASSUME IInv, op \in {"Put", "PutUnique"}, a >= b, Insert PROVE Adds(Shifted)
<1>1. a \in 0 .. num /\ num \in Nat /\ num < MAXSIZE
  BY Constants DEF IInv, TypeOK, RoomToInsert, LowerBound
<1> DEFINE z == Shifted
<1>2. num' = num + 1 /\ IsWith(list', list, num, a, z)
  <2>1. list' = [s \in Slots(MAXSIZE) |->
                     IF s = a THEN z ELSE IF a < s /\ s <= num THEN list[s - 1] ELSE list[s]]
    BY DEF Insert
  <2> HIDE DEF z
  <2> QED BY <1>1, <2>1, Constants DEF Insert, Slots, IsWith
<1> HIDE DEF z
<1>3. ASSUME NEW y \in OBJTYPE
      PROVE  Count(y)' = Count(y) + (IF y = z THEN 1 ELSE 0)
  <2>1. Count(y)' = HowMany(list', num + 1, y) /\ Count(y) = HowMany(list, num, y)
    BY <1>2 DEF Count, HowMany
  <2> QED
    BY <1>1, <1>2, <2>1, CountWith
<1> QED
  BY <1>3 DEF Adds, z

LEMMA SameCounts == ASSUME UNCHANGED <<list, num>> PROVE Keeps
BY DEF Keeps, Count

(* What the search has found when it ends: the first record equal to x. *)
LEMMA FoundIsEqual ==
    ASSUME IInv, op # "none", a >= b
    PROVE  /\ AnyEqual <=> Found
           /\ \A s \in Slots(num) : Key[list[s]] = Key[x] => a <= s
<1>1. /\ a \in Nat /\ num \in Nat /\ a <= num /\ a = b /\ Key[x] \in Int
      /\ \A s \in Slots(num) : list[s] \in OBJTYPE /\ Key[list[s]] \in Int
  BY Constants DEF IInv, TypeOK, LowerBound, Sorted
<1>2. \A s \in Slots(a) : Key[list[s]] < Key[x]
  BY DEF IInv, LowerBound, Less
<1>3. ASSUME NEW s \in Slots(num), Key[list[s]] = Key[x] PROVE a <= s
  <2>1. s \notin Slots(a)
    BY <1>1, <1>2, <1>3
  <2> QED
    BY <1>1, <2>1 DEF Slots
<1>4. ASSUME Found PROVE AnyEqual
  <2>1. a \in Slots(num) /\ a \in b .. num - 1 /\ ~(Key[list[a]] < Key[x]) /\ ~(Key[x] < Key[list[a]])
    BY <1>1, <1>4 DEF Found, Less, Slots, IInv, LowerBound
  <2> QED
    BY <1>1, <2>1 DEF AnyEqual
<1>5. ASSUME AnyEqual PROVE Found
  <2>1. PICK s \in Slots(num) : Key[list[s]] = Key[x]
    BY <1>5 DEF AnyEqual
  <2>2. a <= s /\ s \in Nat /\ s < num /\ a \in Slots(num)
    BY <1>1, <1>3, <2>1 DEF Slots
  <2>3. Key[list[a]] <= Key[list[s]]
    <3>1. CASE a = s
      BY <1>1, <3>1, <2>2
    <3>2. CASE a < s
      BY <2>2, <3>2 DEF IInv, Sorted
    <3> QED
      BY <1>1, <2>2, <3>1, <3>2
  <2> QED
    BY <1>1, <2>1, <2>2, <2>3 DEF Found, Less
<1> QED
  BY <1>3, <1>4, <1>5

(* What memmove leaves is the record before x's if that one is equal to x. *)
LEMMA ShiftedIsStored ==
    ASSUME IInv, op \in {"Put", "PutUnique"}, a >= b PROVE Shifted = Stored
<1>1. /\ a \in Nat /\ a <= num /\ num \in Nat /\ num < MAXSIZE /\ a = b
      /\ at \in 0 .. MAXSIZE
  BY Constants DEF IInv, TypeOK, RoomToInsert, LowerBound, Slots, Elsewhere
<1>2. CASE at = Elsewhere
  BY <1>2 DEF Shifted, Stored
<1>3. CASE at # Elsewhere /\ at > a
  <2>1. Key[Shifted] = Key[x] /\ Shifted = list[at - 1] /\ at > 0
    BY <1>1, <1>3, ShiftedIsEqual DEF Shifted
  <2> QED BY <1>3, <2>1 DEF Stored
<1>4. CASE at # Elsewhere /\ ~(at > a)
  <2>1. ASSUME at > 0, Key[list[at - 1]] = Key[x] PROVE FALSE
    <3>1. at - 1 \in Slots(num)
      BY <1>1, <1>4, <2>1 DEF IInv, RefersToX, Slots
    <3>2. a <= at - 1
      BY <2>1, <3>1, FoundIsEqual
    <3> QED BY <1>1, <1>4, <3>2
  <2> QED BY <1>4, <2>1 DEF Shifted, Stored
<1> QED BY <1>2, <1>3, <1>4

(* PutUnique never inserts a record of the list: it finds it. *)
LEMMA NewIsElsewhere ==
    ASSUME IInv, op = "PutUnique", a >= b, ~Found PROVE Shifted = x
<1>1. ~AnyEqual
  BY FoundIsEqual
<1>2. at # Elsewhere => at \in Slots(num) /\ list[at] = x
  BY DEF IInv, TypeOK, RefersToX
<1>3. at = Elsewhere
  BY <1>1, <1>2 DEF AnyEqual
<1> QED BY <1>3 DEF Shifted

(* What a step must do if it ends a call. *)
CallIsRight ==
    /\ op = "Put" /\ op' = "none" => Adds(Stored)
    /\ op = "PutUnique" /\ op' = "none" => IF AnyEqual THEN Keeps ELSE Adds(x)
    /\ op = "Exists" /\ op' = "none" =>
          /\ Keeps
          /\ (result' # <<0>>) <=> AnyEqual
          /\ AnyEqual => \A s \in Slots(num) :
                Key[list[s]] = Key[x] => result'[2] <= s
    /\ op = "none" /\ op' = "none" /\ num' # num =>
          \E z \in OBJTYPE : \A y \in OBJTYPE :
              Count(y)' = Count(y) - (IF y = z THEN 1 ELSE 0)

LEMMA RemoveIsRight == ASSUME IInv, NEW i \in Slots(MAXSIZE), Remove(i) PROVE CallIsRight
<1>1. op = "none" /\ num \in Nat /\ num <= MAXSIZE /\ i \in Nat
  BY Constants DEF IInv, TypeOK, Remove, Slots
<1> SUFFICES ASSUME num' # num
             PROVE  \E z \in OBJTYPE : \A y \in OBJTYPE :
                       Count(y)' = Count(y) - (IF y = z THEN 1 ELSE 0)
  BY <1>1 DEF CallIsRight
<1>2. /\ i < num /\ num' = num - 1
      /\ list' = [s \in Slots(MAXSIZE) |->
                     IF i <= s /\ s < num - 1 THEN list[s + 1] ELSE list[s]]
  BY DEF Remove
<1> DEFINE m == num - 1
<1>3. m \in Nat /\ i \in 0 .. m /\ num' = m /\ num = m + 1 /\ i \in Slots(num)
  BY <1>1, <1>2 DEF Slots
<1>4. IsWith(list, list', m, i, list[i])
  <2> SUFFICES ASSUME NEW s \in 0 .. m
               PROVE  list[s] = IF s < i THEN list'[s]
                                ELSE IF s = i THEN list[i] ELSE list'[s - 1]
    BY DEF IsWith
  <2>1. CASE s < i
    <3>1. s \in Slots(MAXSIZE) /\ ~(i <= s)
      BY <1>1, <2>1, Constants DEF Slots
    <3> QED
      BY <1>2, <2>1, <3>1
  <2>2. CASE s > i
    <3>1. s - 1 \in Slots(MAXSIZE) /\ i <= s - 1 /\ s - 1 < num - 1 /\ (s - 1) + 1 = s
      BY <1>1, <2>2, Constants DEF Slots
    <3> QED
      BY <1>1, <1>2, <2>2, <3>1
  <2> QED
    BY <1>1, <2>1, <2>2
<1>5. list[i] \in OBJTYPE
  BY <1>3 DEF IInv, Sorted
<1> HIDE DEF m
<1>6. ASSUME NEW y \in OBJTYPE
      PROVE  Count(y)' = Count(y) - (IF y = list[i] THEN 1 ELSE 0)
  <2>1. Count(y)' = HowMany(list', m, y) /\ Count(y) = HowMany(list, m + 1, y)
    BY <1>3 DEF Count, HowMany
  <2>2. /\ HowMany(list', m, y) \in Nat
        /\ HowMany(list, m + 1, y) = HowMany(list', m, y) + (IF y = list[i] THEN 1 ELSE 0)
    BY <1>3, <1>4, CountWith
  <2> QED
    BY <2>1, <2>2
<1> QED
  BY <1>5, <1>6

LEMMA ExistsIsRight == ASSUME IInv, ExistsEnds PROVE CallIsRight
<1>1. op = "Exists" /\ a >= b /\ UNCHANGED <<list, num, x, a, b>>
      /\ result' = IF a >= num \/ Less(x, list[a]) THEN <<0>> ELSE <<1, a>>
  BY DEF ExistsEnds, Return
<1>2. Keeps
  BY <1>1, SameCounts
<1>3. a >= num <=> ~(a < num)
  BY Constants DEF IInv, TypeOK
<1>4. result' = IF Found THEN <<1, a>> ELSE <<0>>
  BY <1>1, <1>3 DEF Found
<1>5. (result' # <<0>>) <=> AnyEqual
  BY <1>1, <1>4, FoundIsEqual
<1>6. ASSUME AnyEqual, NEW s \in Slots(num), Key[list[s]] = Key[x] PROVE result'[2] <= s
  BY <1>1, <1>4, <1>6, FoundIsEqual
<1> QED
  BY <1>1, <1>2, <1>5, <1>6 DEF CallIsRight

LEMMA StepIsRight == ASSUME IInv, [Next]_vars PROVE CallIsRight
<1>1. ASSUME NEW y \in OBJTYPE, ListFull(y) PROVE CallIsRight
  BY <1>1 DEF ListFull, CallIsRight
<1>2. ASSUME NEW y \in OBJTYPE, NEW o \in {"Put", "PutUnique", "Exists"}, NEW p, Search(o, y, p)
      PROVE  CallIsRight
  BY <1>2 DEF Search, CallIsRight
<1>3. CASE Halve
  BY <1>3 DEF Halve, CallIsRight
<1>4. CASE PutEnds
  BY <1>4, InsertAdds, ShiftedIsStored DEF PutEnds, CallIsRight
<1>5. CASE PutUniqueEnds
  <2>1. op = "PutUnique" /\ a >= b
    BY <1>5 DEF PutUniqueEnds
  <2>2. CASE Found /\ UNCHANGED <<list, num>>
    BY <2>1, <2>2, FoundIsEqual, SameCounts DEF CallIsRight
  <2>3. CASE ~Found /\ Insert
    BY <2>1, <2>3, FoundIsEqual, InsertAdds, NewIsElsewhere DEF CallIsRight
  <2> QED
    BY <1>5, <2>2, <2>3 DEF PutUniqueEnds
<1>6. CASE ExistsEnds
  BY <1>6, ExistsIsRight
<1>7. ASSUME NEW i \in Slots(MAXSIZE), Remove(i) PROVE CallIsRight
  BY <1>7, RemoveIsRight
<1>8. CASE UNCHANGED vars
  BY <1>8 DEF vars, CallIsRight, IInv, TypeOK
<1> QED
  BY <1>1, <1>2, <1>3, <1>4, <1>5, <1>6, <1>7, <1>8 DEF Next, Put, PutUnique, Exists

(* A call does what it returns: Put adds one record, its argument but for a record
   of the list that an equal one precedes, PutUnique adds its argument exactly if
   no record is equal, Exists tells whether one is and which is the first, Remove
   takes one record or nothing (SortedList.cpp 74-153).                    *)
THEOREM CallsRight == Spec => CallsAreRight
<1>1. IInv /\ [Next]_vars => [CallIsRight]_vars
  BY StepIsRight
<1> QED
  BY <1>1, Invariant, PTL DEF Spec, CallsAreRight, CallIsRight

-----------------------------------------------------------------------------
(* The other classes.  What the assumptions say of their objects. *)
LEMMA ObjectsAreRight ==
    /\ Zero \in Chars /\ Chars \subseteq OBJTYPE /\ Junk \notin Chars
    /\ MAXSIZE \in Nat /\ MAXSIZE > 0
    /\ AllocateSpace \in Nat /\ AllocateSpace > 0 /\ MaxEntries \in Nat
BY ContainersAssumption, CharsAssumption

(* A ring of cap slots holds len objects from slot t on; a block holds len
   objects from slot 0 on.                                                 *)
Place(t, i, cap) == Wrap(t + i, cap)
Ring(buf, t, len, cap) == [i \in 1 .. len |-> buf[Wrap(t + i - 1, cap)]]
HoldsRing(buf, t, len, cap) == \A i \in 0 .. len - 1 : buf[Place(t, i, cap)] \in Chars

(* buf2 is buf, of cap slots, with y in slot p. *)
IsWritten(buf2, buf, p, y, cap) ==
    /\ DOMAIN buf = 0 .. cap - 1
    /\ buf2 = [buf EXCEPT ![p] = y]

Block(buf, len) == [i \in 1 .. len |-> buf[i - 1]]
HoldsBlock(buf, len) == \A i \in 0 .. len - 1 : buf[i] \in Chars

(* A slot is in the ring, and two objects have two slots. *)
LEMMA Places ==
    ASSUME NEW cap \in Nat, NEW t \in 0 .. cap - 1
    PROVE  /\ \A i \in 0 .. cap - 1 : Place(t, i, cap) \in 0 .. cap - 1
           /\ \A i, j \in 0 .. cap - 1 : Place(t, i, cap) = Place(t, j, cap) => i = j
           /\ \A i \in 0 .. cap - 1 :
                 /\ Place(Wrap(t + 1, cap), i, cap) = Place(t, i + 1, cap)
                 /\ Wrap(Place(t, i, cap) + 1, cap) = Place(t, i + 1, cap)
           /\ Place(t, 0, cap) = t /\ Place(t, cap, cap) = t
           /\ Wrap(t + 1, cap) \in 0 .. cap - 1
BY DEF Place, Wrap

LEMMA FcnIsSeq ==
    ASSUME NEW S, NEW len \in Nat, NEW f \in [1 .. len -> S]
    PROVE  f \in Seq(S) /\ Len(f) = len
OBVIOUS

(* Sequences that agree everywhere are the same. *)
LEMMA SameSeq ==
    ASSUME NEW S, NEW len \in Nat, NEW f \in [1 .. len -> S], NEW g \in Seq(S), Len(g) = len,
           \A i \in 1 .. len : f[i] = g[i]
    PROVE  f = g
<1>1. f \in Seq(S) /\ Len(f) = len
  BY FcnIsSeq
<1> QED
  BY <1>1, SeqEqual

IsRing(r, buf, t, len, cap) ==
    /\ r \in [1 .. len -> Chars] /\ r \in Seq(Chars) /\ Len(r) = len
    /\ \A i \in 1 .. len : r[i] = buf[Place(t, i - 1, cap)]

LEMMA RingIsSeq ==
    ASSUME NEW buf, NEW cap \in Nat, NEW t \in Nat, NEW len \in Nat, HoldsRing(buf, t, len, cap)
    PROVE  IsRing(Ring(buf, t, len, cap), buf, t, len, cap)
<1>1. \A i \in 1 .. len : i - 1 \in 0 .. len - 1 /\ t + i - 1 = t + (i - 1)
  OBVIOUS
<1>2. \A i \in 1 .. len : Ring(buf, t, len, cap)[i] = buf[Place(t, i - 1, cap)]
  BY <1>1 DEF Ring, Place
<1>3. Ring(buf, t, len, cap) \in [1 .. len -> Chars]
  BY <1>1 DEF Ring, Place, HoldsRing
<1>4. Ring(buf, t, len, cap) \in Seq(Chars) /\ Len(Ring(buf, t, len, cap)) = len
  BY <1>3, FcnIsSeq
<1> QED
  BY <1>2, <1>3, <1>4 DEF IsRing

(* An object is put behind the last one, got from the first place, or written
   over another one; or the ring moves to the beginning of another buffer.  *)
LEMMA RingPut ==
    ASSUME NEW cap \in Nat, NEW t \in 0 .. cap - 1, NEW len \in 0 .. cap - 1,
           NEW buf, HoldsRing(buf, t, len, cap), NEW y \in Chars,
           NEW buf2, IsWritten(buf2, buf, Place(t, len, cap), y, cap)
    PROVE  /\ HoldsRing(buf2, t, len + 1, cap)
           /\ Ring(buf2, t, len + 1, cap) = Append(Ring(buf, t, len, cap), y)
<1>0. t \in Nat /\ len \in Nat /\ len + 1 \in Nat
  OBVIOUS
<1>1. /\ Place(t, len, cap) \in 0 .. cap - 1 /\ buf2[Place(t, len, cap)] = y
      /\ \A i \in 0 .. len - 1 : buf2[Place(t, i, cap)] = buf[Place(t, i, cap)]
  <2>0. \A i \in 0 .. len - 1 : i \in 0 .. cap - 1 /\ i # len
    OBVIOUS
  <2>1. \A i \in 0 .. len - 1 : Place(t, i, cap) \in 0 .. cap - 1
                                /\ Place(t, i, cap) # Place(t, len, cap)
    <3>1. \A i \in 0 .. cap - 1 : Place(t, i, cap) \in 0 .. cap - 1
      BY Places
    <3>2. \A i, j \in 0 .. cap - 1 : Place(t, i, cap) = Place(t, j, cap) => i = j
      BY Places
    <3> QED
      BY <2>0, <3>1, <3>2
  <2>2. Place(t, len, cap) \in 0 .. cap - 1
    BY Places
  <2> QED
    BY <2>1, <2>2 DEF IsWritten
<1>2. HoldsRing(buf2, t, len + 1, cap)
  BY <1>1 DEF HoldsRing
<1>3. IsRing(Ring(buf2, t, len + 1, cap), buf2, t, len + 1, cap)
  BY <1>0, <1>2, RingIsSeq
<1>4. IsRing(Ring(buf, t, len, cap), buf, t, len, cap)
  BY <1>0, RingIsSeq
<1> DEFINE r == Ring(buf, t, len, cap)
           r2 == Ring(buf2, t, len + 1, cap)
<1>4a. /\ r \in Seq(Chars) /\ Len(r) = len
       /\ \A i \in 1 .. len : r[i] = buf[Place(t, i - 1, cap)]
       /\ r2 \in [1 .. len + 1 -> Chars]
       /\ \A i \in 1 .. len + 1 : r2[i] = buf2[Place(t, i - 1, cap)]
  BY <1>3, <1>4 DEF IsRing
<1> HIDE DEF r, r2
<1>5. /\ Append(r, y) \in Seq(Chars) /\ Len(Append(r, y)) = len + 1
      /\ \A i \in 1 .. len : Append(r, y)[i] = r[i]
      /\ Append(r, y)[len + 1] = y
  BY <1>4a, AppendProperties
<1>6. \A i \in 1 .. len + 1 : r2[i] = Append(r, y)[i]
  <2>1. ASSUME NEW i \in 1 .. len PROVE r2[i] = r[i]
    <3>1. i - 1 \in 0 .. len - 1 /\ i \in 1 .. len + 1
      OBVIOUS
    <3> QED
      BY <1>1, <1>4a, <3>1
  <2>2. r2[len + 1] = y
    <3>1. len + 1 \in 1 .. len + 1 /\ (len + 1) - 1 = len
      OBVIOUS
    <3> QED
      BY <1>1, <1>4a, <3>1
  <2>3. \A i \in 1 .. len + 1 : i \in 1 .. len \/ i = len + 1
    OBVIOUS
  <2> QED
    BY <1>5, <2>1, <2>2, <2>3
<1>7. r2 = Append(r, y)
  BY <1>0, <1>4a, <1>5, <1>6, SameSeq
<1> QED
  BY <1>2, <1>7 DEF r, r2

LEMMA RingGet ==
    ASSUME NEW cap \in Nat, NEW t \in 0 .. cap - 1, NEW len \in 1 .. cap,
           NEW buf, HoldsRing(buf, t, len, cap), NEW t2, t2 = Wrap(t + 1, cap)
    PROVE  /\ HoldsRing(buf, t2, len - 1, cap)
           /\ Ring(buf, t, len, cap) # <<>>
           /\ Head(Ring(buf, t, len, cap)) = buf[t]
           /\ Tail(Ring(buf, t, len, cap)) = Ring(buf, t2, len - 1, cap)
<1> DEFINE r == Ring(buf, t, len, cap)
<1>0. t \in Nat /\ len \in Nat /\ len - 1 \in Nat
  OBVIOUS
<1>1. /\ t2 \in Nat
      /\ \A i \in 0 .. (len - 1) - 1 : i + 1 \in 0 .. len - 1
                                       /\ Place(t2, i, cap) = Place(t, i + 1, cap)
  <2>1. t2 \in Nat
    BY DEF Wrap
  <2>2. ASSUME NEW i \in 0 .. (len - 1) - 1
        PROVE  i + 1 \in 0 .. len - 1 /\ Place(t2, i, cap) = Place(t, i + 1, cap)
    <3>1. i \in 0 .. cap - 1 /\ i + 1 # cap /\ i + 1 \in 0 .. len - 1
      OBVIOUS
    <3> QED
      BY <3>1, Places
  <2> QED
    BY <2>1, <2>2
<1>2. HoldsRing(buf, t2, len - 1, cap)
  BY <1>1 DEF HoldsRing
<1> DEFINE r2 == Ring(buf, t2, len - 1, cap)
<1>2a. IsRing(Ring(buf, t, len, cap), buf, t, len, cap)
  BY <1>0, RingIsSeq
<1>2b. IsRing(Ring(buf, t2, len - 1, cap), buf, t2, len - 1, cap)
  BY <1>0, <1>1, <1>2, RingIsSeq
<1>3. /\ r \in Seq(Chars) /\ Len(r) = len
      /\ \A i \in 1 .. len : r[i] = buf[Place(t, i - 1, cap)]
  BY <1>2a DEF IsRing
<1>4. /\ r2 \in [1 .. len - 1 -> Chars]
      /\ \A i \in 1 .. len - 1 : r2[i] = buf[Place(t2, i - 1, cap)]
  BY <1>2b DEF IsRing
<1> HIDE DEF r, r2
<1>5. r # <<>> /\ Head(r) = r[1] /\ Tail(r) \in Seq(Chars) /\ Len(Tail(r)) = len - 1
      /\ \A i \in 1 .. len - 1 : Tail(r)[i] = r[i + 1]
  <2>1. r # <<>>
    BY <1>3, EmptySeq
  <2> QED
    BY <1>3, <2>1, HeadTailProperties
<1>6. Place(t, 0, cap) = t
  BY DEF Place, Wrap
<1>7. Head(r) = buf[t]
  BY <1>3, <1>5, <1>6
<1>8. \A i \in 1 .. len - 1 : r2[i] = Tail(r)[i]
  <2> TAKE i \in 1 .. len - 1
  <2>1. Place(t2, i - 1, cap) = Place(t, i, cap)
    <3>1. i - 1 \in 0 .. (len - 1) - 1 /\ (i - 1) + 1 = i
      OBVIOUS
    <3> QED
      BY <1>1, <3>1
  <2>2. i + 1 \in 1 .. len /\ (i + 1) - 1 = i
    OBVIOUS
  <2> QED
    BY <1>3, <1>4, <1>5, <2>1, <2>2
<1>9. r2 = Tail(r)
  BY <1>0, <1>4, <1>5, <1>8, SameSeq
<1> QED
  BY <1>2, <1>5, <1>7, <1>9 DEF r, r2

LEMMA RingAssign ==
    ASSUME NEW cap \in Nat, NEW t \in 0 .. cap - 1, NEW len \in 0 .. cap,
           NEW buf, HoldsRing(buf, t, len, cap), NEW y \in Chars,
           NEW i \in 0 .. len - 1, NEW buf2, IsWritten(buf2, buf, Place(t, i, cap), y, cap)
    PROVE  /\ HoldsRing(buf2, t, len, cap)
           /\ Ring(buf2, t, len, cap) = [Ring(buf, t, len, cap) EXCEPT ![i + 1] = y]
<1>0. t \in Nat /\ len \in Nat
  OBVIOUS
<1>1. \A j \in 0 .. len - 1 :
         buf2[Place(t, j, cap)] = IF j = i THEN y ELSE buf[Place(t, j, cap)]
  <2>0. \A j \in 0 .. len - 1 : j \in 0 .. cap - 1
    OBVIOUS
  <2>1. \A j \in 0 .. len - 1 : Place(t, j, cap) \in 0 .. cap - 1
                                /\ (Place(t, j, cap) = Place(t, i, cap) => i = j)
    <3>1. \A j \in 0 .. cap - 1 : Place(t, j, cap) \in 0 .. cap - 1
      BY Places
    <3>2. \A j, k \in 0 .. cap - 1 : Place(t, j, cap) = Place(t, k, cap) => j = k
      BY Places
    <3> QED
      BY <2>0, <3>1, <3>2
  <2> QED
    BY <2>1 DEF IsWritten
<1>2. HoldsRing(buf2, t, len, cap)
  BY <1>1 DEF HoldsRing
<1>3. IsRing(Ring(buf, t, len, cap), buf, t, len, cap)
  BY <1>0, RingIsSeq
<1>4. IsRing(Ring(buf2, t, len, cap), buf2, t, len, cap)
  BY <1>0, <1>2, RingIsSeq
<1>5. ASSUME NEW j \in 1 .. len
      PROVE  Ring(buf2, t, len, cap)[j] = IF j = i + 1 THEN y ELSE Ring(buf, t, len, cap)[j]
  <2>1. j - 1 \in 0 .. len - 1 /\ (j - 1 = i <=> j = i + 1)
    OBVIOUS
  <2> QED
    BY <1>1, <1>3, <1>4, <2>1 DEF IsRing
<1> DEFINE r == Ring(buf, t, len, cap)
           r2 == Ring(buf2, t, len, cap)
<1>6. /\ r \in [1 .. len -> Chars] /\ r2 \in [1 .. len -> Chars]
      /\ \A j \in 1 .. len : r2[j] = IF j = i + 1 THEN y ELSE r[j]
  BY <1>3, <1>4, <1>5 DEF IsRing
<1> HIDE DEF r, r2
<1>7. r2 = [r EXCEPT ![i + 1] = y]
  BY <1>6
<1> QED
  BY <1>2, <1>7 DEF r, r2

LEMMA RingMove ==
    ASSUME NEW cap \in Nat, NEW t \in Nat, NEW len \in Nat, NEW buf, HoldsRing(buf, t, len, cap),
           NEW cap2 \in Nat, len <= cap2, NEW buf2,
           \A i \in 0 .. len - 1 : buf2[i] = buf[Place(t, i, cap)]
    PROVE  /\ HoldsRing(buf2, 0, len, cap2)
           /\ Ring(buf2, 0, len, cap2) = Ring(buf, t, len, cap)
<1>1. \A i \in 0 .. len - 1 : Place(0, i, cap2) = i
  BY DEF Place, Wrap
<1>2. HoldsRing(buf2, 0, len, cap2)
  BY <1>1 DEF HoldsRing
<1>3. IsRing(Ring(buf, t, len, cap), buf, t, len, cap)
  BY RingIsSeq
<1>4. IsRing(Ring(buf2, 0, len, cap2), buf2, 0, len, cap2)
  <2>1. 0 \in Nat
    OBVIOUS
  <2> QED
    BY <1>2, <2>1, RingIsSeq
<1>5. ASSUME NEW j \in 1 .. len
      PROVE  Ring(buf2, 0, len, cap2)[j] = Ring(buf, t, len, cap)[j]
  <2>1. j - 1 \in 0 .. len - 1
    OBVIOUS
  <2> QED
    BY <1>1, <1>3, <1>4, <2>1 DEF IsRing
<1> QED
  BY <1>2, <1>3, <1>4, <1>5 DEF IsRing


-----------------------------------------------------------------------------
(* FIFOlist: the head is where the next object of the ring goes.            *)
ListInv == /\ List!TypeOK
           /\ fHead = Wrap(fTail + fN, MAXSIZE)
           /\ HoldsRing(fList, fTail, fN, MAXSIZE)

LEMMA ListFacts ==
    ASSUME List!TypeOK
    PROVE  /\ fTail \in 0 .. MAXSIZE - 1 /\ fHead \in 0 .. MAXSIZE - 1 /\ fN \in 0 .. MAXSIZE
           /\ fList \in [0 .. MAXSIZE - 1 -> List!Cell]
           /\ List!Queued = Ring(fList, fTail, fN, MAXSIZE)
BY DEF List!TypeOK, List!Slots, List!Queued, Ring, List!Wrap, Wrap

LEMMA ListFacts2 ==
    ASSUME List!TypeOK'
    PROVE  List!Queued' = Ring(fList', fTail', fN', MAXSIZE)
BY DEF List!Queued, Ring, List!Wrap, Wrap

LEMMA ListInitOK == ASSUME List!Init PROVE ListInv /\ List!Fifo!Init
<1> USE ObjectsAreRight
<1>1. List!TypeOK
  BY DEF List!Init, List!TypeOK, List!Slots, List!Cell
<1>2. fHead = Wrap(fTail + fN, MAXSIZE) /\ HoldsRing(fList, fTail, fN, MAXSIZE)
  BY DEF List!Init, Wrap, HoldsRing
<1>3. List!Queued = <<>>
  BY DEF List!Init, List!Queued
<1> QED
  BY <1>1, <1>2, <1>3 DEF ListInv, List!Fifo!Init, List!Init

LEMMA ListStep == ASSUME ListInv, List!Next PROVE ListInv' /\ List!Fifo!Next
<1> USE ObjectsAreRight DEF ListInv
<1>0. /\ fTail \in 0 .. MAXSIZE - 1 /\ fHead \in 0 .. MAXSIZE - 1 /\ fN \in 0 .. MAXSIZE
      /\ fList \in [0 .. MAXSIZE - 1 -> List!Cell]
      /\ List!Queued = Ring(fList, fTail, fN, MAXSIZE)
      /\ fStatus = "running"
  BY ListFacts DEF List!Next
<1>1. CASE \E y \in Chars : List!Put(y) /\ fN < MAXSIZE
  <2>1. PICK y \in Chars : List!Put(y) /\ fN < MAXSIZE
    BY <1>1
  <2>2. /\ fN' = fN + 1 /\ fList' = [fList EXCEPT ![fHead] = y]
        /\ fHead' = Wrap(fHead + 1, MAXSIZE) /\ fResult' = <<1>>
        /\ fTail' = fTail /\ fStatus' = fStatus
    BY <1>0, <2>1 DEF List!Put, List!Wrap, Wrap
  <2>3. fHead = Place(fTail, fN, MAXSIZE) /\ fN \in 0 .. MAXSIZE - 1 /\ fN \in Nat
    BY <1>0, <2>1 DEF Place
  <2>4. List!TypeOK'
    <3>1. fList' \in [0 .. MAXSIZE - 1 -> List!Cell]
      BY <1>0, <2>2 DEF List!Cell
    <3>2. fHead' \in 0 .. MAXSIZE - 1 /\ fN' \in 0 .. MAXSIZE
      BY <1>0, <2>2, <2>3 DEF Wrap
    <3> QED
      BY <1>0, <2>2, <3>1, <3>2 DEF List!TypeOK, List!Slots
  <2>5. fHead' = Wrap(fTail' + fN', MAXSIZE)
    <3>1. Wrap(Place(fTail, fN, MAXSIZE) + 1, MAXSIZE) = Place(fTail, fN + 1, MAXSIZE)
      BY <1>0, <2>3, Places
    <3> QED
      BY <2>2, <2>3, <3>1 DEF Place
  <2>6. /\ HoldsRing(fList', fTail, fN + 1, MAXSIZE)
        /\ Ring(fList', fTail, fN + 1, MAXSIZE) = Append(Ring(fList, fTail, fN, MAXSIZE), y)
    <3>1. IsWritten(fList', fList, Place(fTail, fN, MAXSIZE), y, MAXSIZE)
      BY <1>0, <2>2, <2>3 DEF IsWritten
    <3>2. HoldsRing(fList, fTail, fN, MAXSIZE)
      OBVIOUS
    <3> QED
      BY <1>0, <2>3, <3>1, <3>2, RingPut
  <2>7. List!Queued' = Append(List!Queued, y)
    BY <1>0, <2>2, <2>4, <2>6, ListFacts2
  <2>8. List!Fifo!Put(y)
    BY <2>2, <2>7 DEF List!Fifo!Put
  <2> QED
    BY <1>0, <2>2, <2>4, <2>5, <2>6, <2>8 DEF List!Fifo!Next
<1>2. CASE \E y \in Chars : List!Put(y) /\ ~(fN < MAXSIZE)
  <2>1. /\ fResult' = <<0>> /\ fN' = fN /\ fList' = fList /\ fHead' = fHead
        /\ fTail' = fTail /\ fStatus' = fStatus /\ fN = MAXSIZE
    BY <1>0, <1>2 DEF List!Put
  <2>2. ListInv'
    BY <2>1 DEF List!TypeOK
  <2>3. List!Queued' = List!Queued
    BY <2>1 DEF List!Queued
  <2>4. Len(List!Queued) = MAXSIZE
    BY <1>0, <2>1, RingIsSeq DEF IsRing
  <2>5. List!Fifo!Refuse
    BY <2>1, <2>3, <2>4 DEF List!Fifo!Refuse
  <2> QED
    BY <1>0, <2>2, <2>5 DEF List!Fifo!Next
<1>3. CASE List!Get /\ fN > 0
  <2>1. /\ fN' = fN - 1 /\ fTail' = Wrap(fTail + 1, MAXSIZE) /\ fResult' = <<fList[fTail]>>
        /\ fHead' = fHead /\ fList' = fList /\ fStatus' = fStatus /\ fN \in 1 .. MAXSIZE
    BY <1>0, <1>3 DEF List!Get, List!Wrap, Wrap
  <2>2. List!TypeOK'
    BY <1>0, <2>1 DEF List!TypeOK, List!Slots, Wrap
  <2>3. /\ HoldsRing(fList, fTail', fN - 1, MAXSIZE)
        /\ Ring(fList, fTail, fN, MAXSIZE) # <<>>
        /\ Head(Ring(fList, fTail, fN, MAXSIZE)) = fList[fTail]
        /\ Tail(Ring(fList, fTail, fN, MAXSIZE)) = Ring(fList, fTail', fN - 1, MAXSIZE)
    BY <1>0, <2>1, RingGet
  <2>4. fHead' = Wrap(fTail' + fN', MAXSIZE)
    BY <1>0, <2>1 DEF Wrap
  <2>5. List!Queued' = Tail(List!Queued)
    BY <1>0, <2>1, <2>2, <2>3, ListFacts2
  <2>6. List!Fifo!Get
    BY <1>0, <2>1, <2>3, <2>5 DEF List!Fifo!Get
  <2> QED
    BY <1>0, <2>1, <2>2, <2>3, <2>4, <2>6 DEF List!Fifo!Next
<1>4. CASE List!Get /\ ~(fN > 0)
  <2>1. /\ fStatus' = "exited" /\ fResult' = fResult /\ fN' = fN /\ fList' = fList
        /\ fHead' = fHead /\ fTail' = fTail
    BY <1>0, <1>4 DEF List!Get
  <2>2. ListInv'
    BY <2>1 DEF List!TypeOK
  <2>3. List!Queued' = List!Queued
    BY <2>1 DEF List!Queued
  <2>4. List!Fifo!Exit
    BY <2>1, <2>3 DEF List!Fifo!Exit
  <2> QED
    BY <1>0, <2>2, <2>4 DEF List!Fifo!Next
<1> QED
  BY <1>1, <1>2, <1>3, <1>4 DEF List!Next

-----------------------------------------------------------------------------
(* DynamicQueue: the same, and there is nothing in a queue without a buffer. *)
QueueInv == /\ Queue!TypeOK
            /\ tail < MaxNum \/ (MaxNum = 0 /\ tail = 0)
            /\ head = Wrap(tail + NumEntries, MaxNum)
            /\ HoldsRing(Buffer, tail, NumEntries, MaxNum)

LEMMA QueueFacts ==
    ASSUME QueueInv
    PROVE  /\ MaxNum \in Nat /\ NumEntries \in 0 .. MaxNum /\ NumEntries \in Nat
           /\ head \in Nat /\ tail \in Nat /\ DOMAIN Buffer = 0 .. MaxNum - 1
           /\ Buffer \in [0 .. MaxNum - 1 -> Queue!Cell]
           /\ Queue!Queued = Ring(Buffer, tail, NumEntries, MaxNum)
           /\ Queue!Queued \in Seq(Chars) /\ Len(Queue!Queued) = NumEntries
<1> USE DEF QueueInv
<1>1. /\ MaxNum \in Nat /\ NumEntries \in 0 .. MaxNum /\ NumEntries \in Nat
      /\ head \in Nat /\ tail \in Nat /\ DOMAIN Buffer = 0 .. MaxNum - 1
      /\ Buffer \in [0 .. MaxNum - 1 -> Queue!Cell]
  BY DEF Queue!TypeOK, Queue!Slots
<1>2. Queue!Queued = Ring(Buffer, tail, NumEntries, MaxNum)
  BY <1>1 DEF Queue!Queued, Ring, Queue!Wrap, Wrap
<1>3. IsRing(Ring(Buffer, tail, NumEntries, MaxNum), Buffer, tail, NumEntries, MaxNum)
  BY <1>1, RingIsSeq
<1> QED
  BY <1>1, <1>2, <1>3 DEF IsRing

LEMMA QueuedNext == Queue!Queued' = Ring(Buffer', tail', NumEntries', MaxNum')
BY DEF Queue!Queued, Ring, Queue!Wrap, Wrap

LEMMA QueueInitOK == ASSUME Queue!Init PROVE QueueInv /\ Queue!Fifo!Init
<1> USE ObjectsAreRight
<1>1. Queue!TypeOK
  BY DEF Queue!Init, Queue!TypeOK, Queue!Slots, Queue!Cell, Queue!NullBuffer
<1>2. /\ tail < MaxNum \/ (MaxNum = 0 /\ tail = 0)
      /\ head = Wrap(tail + NumEntries, MaxNum)
      /\ HoldsRing(Buffer, tail, NumEntries, MaxNum)
  BY DEF Queue!Init, Wrap, HoldsRing
<1>3. Queue!Queued = <<>>
  BY DEF Queue!Init, Queue!Queued
<1> QED
  BY <1>1, <1>2, <1>3 DEF QueueInv, Queue!Fifo!Init, Queue!Init

(* The memory, and with it the queue, stays as it is. *)
LEMMA QueueSame ==
    ASSUME QueueInv, UNCHANGED Queue!memory, qStatus' \in {"running", "exited"}
    PROVE  QueueInv' /\ Queue!Queued' = Queue!Queued
<1>1. /\ Buffer' = Buffer /\ head' = head /\ tail' = tail /\ MaxNum' = MaxNum
      /\ NumEntries' = NumEntries
  BY DEF Queue!memory
<1> QED
  BY <1>1 DEF QueueInv, Queue!TypeOK, Queue!Queued

LEMMA QueueError ==
    ASSUME QueueInv, Queue!Error, qStatus = "running" PROVE QueueInv' /\ Queue!Fifo!Next
<1>1. QueueInv' /\ Queue!Queued' = Queue!Queued
  BY QueueSame DEF Queue!Error
<1>2. Queue!Fifo!Exit
  BY <1>1 DEF Queue!Fifo!Exit, Queue!Error
<1> QED
  BY <1>1, <1>2 DEF Queue!Fifo!Next

(* A new buffer starts with the objects of the old one, in their order,
   whether or not the trail wraps around.                                *)
LEMMA QueueMoves ==
    ASSUME QueueInv, NEW m \in Nat, m > MaxNum
    PROVE  /\ Queue!Moved(m) \in [0 .. m - 1 -> Queue!Cell]
           /\ DOMAIN Queue!Moved(m) = 0 .. m - 1
           /\ HoldsRing(Queue!Moved(m), 0, NumEntries, m)
           /\ Ring(Queue!Moved(m), 0, NumEntries, m) = Queue!Queued
<1>0. /\ MaxNum \in Nat /\ NumEntries \in 0 .. MaxNum /\ NumEntries \in Nat /\ NumEntries <= m
      /\ head \in Nat /\ tail \in Nat
      /\ Buffer \in [0 .. MaxNum - 1 -> Queue!Cell]
      /\ Queue!Queued = Ring(Buffer, tail, NumEntries, MaxNum)
      /\ tail < MaxNum \/ (MaxNum = 0 /\ tail = 0)
      /\ head = Wrap(tail + NumEntries, MaxNum)
      /\ HoldsRing(Buffer, tail, NumEntries, MaxNum)
  BY QueueFacts DEF QueueInv
<1>1. ASSUME NEW s \in 0 .. m - 1 PROVE Queue!Moved(m)[s] \in Queue!Cell
  <2>0. /\ Junk \in Queue!Cell
        /\ tail < head => head = tail + NumEntries /\ head < MaxNum
        /\ tail >= head /\ NumEntries > 0 => head = tail + NumEntries - MaxNum
    BY <1>0 DEF Queue!Cell, Wrap
  <2>1. CASE tail < head /\ s < NumEntries
    <3>1. Queue!Moved(m)[s] = Buffer[tail + s]
      BY <1>0, <2>1 DEF Queue!Moved, Queue!Slots
    <3>2. tail + s \in 0 .. MaxNum - 1
      BY <1>0, <2>0, <2>1
    <3> QED
      BY <1>0, <3>1, <3>2
  <2>2. CASE tail >= head /\ NumEntries > 0 /\ s < MaxNum - tail
    <3>1. Queue!Moved(m)[s] = Buffer[tail + s]
      BY <1>0, <2>2 DEF Queue!Moved, Queue!Slots
    <3>2. tail + s \in 0 .. MaxNum - 1
      BY <1>0, <2>2
    <3> QED
      BY <1>0, <3>1, <3>2
  <2>3. CASE tail >= head /\ NumEntries > 0 /\ s >= MaxNum - tail /\ s < (MaxNum - tail) + head
    <3>1. Queue!Moved(m)[s] = Buffer[s - (MaxNum - tail)]
      BY <1>0, <2>3 DEF Queue!Moved, Queue!Slots
    <3>2. s - (MaxNum - tail) \in 0 .. MaxNum - 1
      BY <1>0, <2>0, <2>3
    <3> QED
      BY <1>0, <3>1, <3>2
  <2>4. CASE /\ ~(tail < head /\ s < NumEntries)
             /\ ~(tail >= head /\ NumEntries > 0 /\ s < MaxNum - tail)
             /\ ~(tail >= head /\ NumEntries > 0 /\ s >= MaxNum - tail
                  /\ s < (MaxNum - tail) + head)
    <3>1. Queue!Moved(m)[s] = Junk
      BY <2>4 DEF Queue!Moved, Queue!Slots
    <3> QED
      BY <2>0, <3>1
  <2> QED
    BY <2>1, <2>2, <2>3, <2>4
<1>2. DOMAIN Queue!Moved(m) = 0 .. m - 1
  BY DEF Queue!Moved, Queue!Slots
<1>3. Queue!Moved(m) \in [0 .. m - 1 -> Queue!Cell]
  BY <1>1 DEF Queue!Moved, Queue!Slots
<1>4. ASSUME NEW i \in 0 .. NumEntries - 1
      PROVE  Queue!Moved(m)[i] = Buffer[Place(tail, i, MaxNum)]
  <2>0. /\ i \in 0 .. m - 1 /\ NumEntries > 0 /\ tail < MaxNum
        /\ tail < head => head = tail + NumEntries /\ head < MaxNum
        /\ tail >= head => head = tail + NumEntries - MaxNum
    BY <1>0 DEF Wrap
  <2>1. CASE tail < head
    <3>1. Place(tail, i, MaxNum) = tail + i
      BY <1>0, <2>0, <2>1 DEF Place, Wrap
    <3> QED
      BY <1>0, <2>0, <2>1, <3>1 DEF Queue!Moved, Queue!Slots
  <2>2. CASE tail >= head /\ i < MaxNum - tail
    <3>1. Place(tail, i, MaxNum) = tail + i
      BY <1>0, <2>0, <2>2 DEF Place, Wrap
    <3> QED
      BY <1>0, <2>0, <2>2, <3>1 DEF Queue!Moved, Queue!Slots
  <2>3. CASE tail >= head /\ i >= MaxNum - tail
    <3>1. Place(tail, i, MaxNum) = i - (MaxNum - tail) /\ i < (MaxNum - tail) + head
      BY <1>0, <2>0, <2>3 DEF Place, Wrap
    <3> QED
      BY <1>0, <2>0, <2>3, <3>1 DEF Queue!Moved, Queue!Slots
  <2> QED
    BY <1>0, <2>1, <2>2, <2>3
<1>5. /\ HoldsRing(Queue!Moved(m), 0, NumEntries, m)
      /\ Ring(Queue!Moved(m), 0, NumEntries, m) = Ring(Buffer, tail, NumEntries, MaxNum)
  <2>1. /\ MaxNum \in Nat /\ tail \in Nat /\ NumEntries \in Nat /\ NumEntries <= m
        /\ HoldsRing(Buffer, tail, NumEntries, MaxNum)
    BY <1>0
  <2>2. \A i \in 0 .. NumEntries - 1 : Queue!Moved(m)[i] = Buffer[Place(tail, i, MaxNum)]
    BY <1>4
  <2> QED
    BY <2>1, <2>2, RingMove
<1> QED
  BY <1>0, <1>2, <1>3, <1>5

LEMMA QueueReserve ==
    ASSUME QueueInv, qStatus = "running", NEW m \in Int, Queue!Reserve(m)
    PROVE  QueueInv' /\ Queue!Fifo!Next
<1>0. MaxNum \in Nat /\ NumEntries \in 0 .. MaxNum /\ NumEntries \in Nat
  BY QueueFacts
<1>1. CASE m = 0 /\ Queue!Deallocate /\ qResult' = <<>> /\ UNCHANGED qStatus
  <2>1. Queue!TypeOK'
    BY <1>1 DEF QueueInv, Queue!TypeOK, Queue!Deallocate, Queue!Slots, Queue!NullBuffer
  <2>2. QueueInv'
    BY <1>1, <2>1 DEF QueueInv, Queue!Deallocate, HoldsRing, Wrap
  <2>3. Queue!Queued' = <<>>
    BY <1>1 DEF Queue!Deallocate, Queue!Queued
  <2>4. Queue!Fifo!Discard
    BY <1>1, <2>3 DEF Queue!Fifo!Discard
  <2> QED
    BY <2>2, <2>4 DEF Queue!Fifo!Next
<1>2. CASE qResult' = <<>> /\ UNCHANGED <<Queue!memory, qStatus>>
  <2>1. QueueInv' /\ Queue!Queued' = Queue!Queued
    BY <1>2, QueueSame
  <2>2. Queue!Fifo!Keep
    BY <1>2, <2>1 DEF Queue!Fifo!Keep
  <2> QED
    BY <2>1, <2>2 DEF Queue!Fifo!Next
<1>3. CASE m > MaxNum /\ Queue!ReAllocate(m) /\ qResult' = <<>> /\ UNCHANGED qStatus
  <2>0. m \in Nat
    BY <1>0, <1>3
  <2>1. /\ Buffer' = Queue!Moved(m) /\ tail' = 0 /\ head' = NumEntries
        /\ MaxNum' = m /\ NumEntries' = NumEntries
    BY <1>3 DEF Queue!ReAllocate
  <2>2. /\ Queue!Moved(m) \in [0 .. m - 1 -> Queue!Cell]
        /\ HoldsRing(Queue!Moved(m), 0, NumEntries, m)
        /\ Ring(Queue!Moved(m), 0, NumEntries, m) = Queue!Queued
    BY <1>3, <2>0, QueueMoves
  <2>3. Queue!TypeOK'
    BY <1>0, <1>3, <2>0, <2>1, <2>2 DEF Queue!TypeOK, Queue!Slots
  <2>4. tail' < MaxNum' /\ head' = Wrap(tail' + NumEntries', MaxNum')
    BY <1>0, <1>3, <2>0, <2>1 DEF Wrap
  <2>5. QueueInv'
    BY <2>1, <2>2, <2>3, <2>4 DEF QueueInv
  <2>6. Queue!Queued' = Queue!Queued
    BY <2>1, <2>2, QueuedNext
  <2>7. Queue!Fifo!Keep
    BY <1>3, <2>6 DEF Queue!Fifo!Keep
  <2> QED
    BY <2>5, <2>7 DEF Queue!Fifo!Next
<1> QED
  BY <1>1, <1>2, <1>3, QueueError DEF Queue!Reserve

LEMMA QueuePut ==
    ASSUME QueueInv, qStatus = "running", NEW y \in Chars, Queue!Put(y)
    PROVE  QueueInv' /\ Queue!Fifo!Next
<1>0. /\ MaxNum \in Nat /\ NumEntries \in 0 .. MaxNum /\ NumEntries \in Nat
      /\ head \in Nat /\ tail \in Nat /\ DOMAIN Buffer = 0 .. MaxNum - 1
      /\ Buffer \in [0 .. MaxNum - 1 -> Queue!Cell]
      /\ Queue!Queued = Ring(Buffer, tail, NumEntries, MaxNum)
      /\ tail < MaxNum \/ (MaxNum = 0 /\ tail = 0)
      /\ head = Wrap(tail + NumEntries, MaxNum)
      /\ HoldsRing(Buffer, tail, NumEntries, MaxNum)
      /\ y \in Queue!Cell
  BY QueueFacts DEF QueueInv, Queue!Cell
<1>1. ASSUME Queue!Queued' = Append(Queue!Queued, y), qResult' = <<>>, UNCHANGED qStatus
      PROVE  Queue!Fifo!Next
  BY <1>1 DEF Queue!Fifo!Next, Queue!Fifo!Put
<1>2. CASE Queue!PutInRoom(y)
  <2>1. /\ NumEntries < MaxNum /\ Buffer' = [Buffer EXCEPT ![head] = y]
        /\ head' = Wrap(head + 1, MaxNum) /\ NumEntries' = NumEntries + 1 /\ qResult' = <<>>
        /\ tail' = tail /\ MaxNum' = MaxNum /\ qStatus' = qStatus
    BY <1>2 DEF Queue!PutInRoom, Queue!Wrap, Wrap
  <2>2. /\ head = Place(tail, NumEntries, MaxNum) /\ NumEntries \in 0 .. MaxNum - 1
        /\ tail \in 0 .. MaxNum - 1
    BY <1>0, <2>1 DEF Place
  <2>3. IsWritten(Buffer', Buffer, Place(tail, NumEntries, MaxNum), y, MaxNum)
    BY <1>0, <2>1, <2>2 DEF IsWritten
  <2>4. /\ HoldsRing(Buffer', tail, NumEntries + 1, MaxNum)
        /\ Ring(Buffer', tail, NumEntries + 1, MaxNum)
             = Append(Ring(Buffer, tail, NumEntries, MaxNum), y)
    BY <1>0, <2>2, <2>3, RingPut
  <2>5. Queue!TypeOK'
    <3>1. Buffer' \in [0 .. MaxNum - 1 -> Queue!Cell]
      BY <1>0, <2>1
    <3>2. head' \in Nat /\ NumEntries' \in 0 .. MaxNum
      BY <1>0, <2>1 DEF Wrap
    <3> QED
      BY <1>0, <2>1, <3>1, <3>2 DEF QueueInv, Queue!TypeOK, Queue!Slots
  <2>6. head' = Wrap(tail' + NumEntries', MaxNum')
    BY <1>0, <2>1 DEF Wrap
  <2>7. QueueInv'
    BY <2>1, <2>2, <2>4, <2>5, <2>6 DEF QueueInv
  <2>8. Queue!Queued' = Append(Queue!Queued, y)
    BY <1>0, <2>1, <2>4, QueuedNext
  <2> QED
    BY <1>1, <2>1, <2>7, <2>8
<1>3. CASE Queue!PutGrows(y)
  <2> DEFINE m == Queue!NewSize(MaxNum)
  <2>1. /\ Buffer' = [Queue!Moved(m) EXCEPT ![NumEntries] = y]
        /\ head' = Wrap(NumEntries + 1, m) /\ MaxNum' = m /\ tail' = 0
        /\ NumEntries' = NumEntries + 1 /\ qResult' = <<>> /\ qStatus' = qStatus
    BY <1>3 DEF Queue!PutGrows, Queue!Wrap, Wrap
  <2>2. m \in Nat /\ m > MaxNum
    BY <1>0, ObjectsAreRight DEF Queue!NewSize
  <2> HIDE DEF m
  <2>3. /\ Queue!Moved(m) \in [0 .. m - 1 -> Queue!Cell]
        /\ DOMAIN Queue!Moved(m) = 0 .. m - 1
        /\ HoldsRing(Queue!Moved(m), 0, NumEntries, m)
        /\ Ring(Queue!Moved(m), 0, NumEntries, m) = Queue!Queued
    BY <2>2, QueueMoves
  <2>4. /\ NumEntries = Place(0, NumEntries, m) /\ NumEntries \in 0 .. m - 1 /\ 0 \in 0 .. m - 1
    BY <1>0, <2>2 DEF Place, Wrap
  <2>5. IsWritten(Buffer', Queue!Moved(m), Place(0, NumEntries, m), y, m)
    BY <2>1, <2>3, <2>4 DEF IsWritten
  <2>6. /\ HoldsRing(Buffer', 0, NumEntries + 1, m)
        /\ Ring(Buffer', 0, NumEntries + 1, m)
             = Append(Ring(Queue!Moved(m), 0, NumEntries, m), y)
    BY <2>2, <2>3, <2>4, <2>5, RingPut
  <2>7. Queue!TypeOK'
    <3>1. Buffer' \in [0 .. m - 1 -> Queue!Cell]
      BY <1>0, <2>1, <2>3
    <3>2. head' \in Nat /\ NumEntries' \in 0 .. m
      BY <1>0, <2>1, <2>2 DEF Wrap
    <3> QED
      BY <2>1, <2>2, <3>1, <3>2 DEF QueueInv, Queue!TypeOK, Queue!Slots
  <2>8. tail' < MaxNum' /\ head' = Wrap(tail' + NumEntries', MaxNum')
    BY <1>0, <2>1, <2>2 DEF Wrap
  <2>9. QueueInv'
    BY <2>1, <2>6, <2>7, <2>8 DEF QueueInv
  <2>10. Queue!Queued' = Append(Queue!Queued, y)
    BY <2>1, <2>3, <2>6, QueuedNext
  <2> QED
    BY <1>1, <2>1, <2>9, <2>10
<1> QED
  BY <1>2, <1>3, QueueError DEF Queue!Put, Queue!PutFails

LEMMA QueueIndex ==
    ASSUME QueueInv, NEW i \in Int, Queue!ValidIndex(i, NumEntries)
    PROVE  /\ i \in 0 .. NumEntries - 1 /\ Queue!Slot(i) = Place(tail, i, MaxNum)
           /\ Buffer[Queue!Slot(i)] \in Chars
           /\ i + 1 \in 1 .. Len(Queue!Queued)
           /\ Queue!Queued[i + 1] = Buffer[Queue!Slot(i)]
<1>0. MaxNum \in Nat /\ NumEntries \in Nat /\ tail \in Nat /\ Len(Queue!Queued) = NumEntries
  BY QueueFacts
<1>1. i \in 0 .. NumEntries - 1 /\ i + 1 \in 1 .. NumEntries /\ (i + 1) - 1 = i
  BY <1>0 DEF Queue!ValidIndex
<1>2. Queue!Slot(i) = Place(tail, i, MaxNum)
  BY <1>0, <1>1 DEF Queue!Slot, Queue!Wrap, Place, Wrap
<1>3. Buffer[Queue!Slot(i)] \in Chars
  BY <1>1, <1>2 DEF QueueInv, HoldsRing
<1>4. Queue!Queued[i + 1] = Buffer[Place(tail, i, MaxNum)]
  <2>1. IsRing(Ring(Buffer, tail, NumEntries, MaxNum), Buffer, tail, NumEntries, MaxNum)
    BY <1>0, RingIsSeq DEF QueueInv
  <2> QED
    BY <1>1, <2>1, QueueFacts DEF IsRing
<1> QED
  BY <1>0, <1>1, <1>2, <1>3, <1>4

LEMMA QueueGet ==
    ASSUME QueueInv, qStatus = "running", Queue!Get PROVE QueueInv' /\ Queue!Fifo!Next
<1>0. /\ MaxNum \in Nat /\ NumEntries \in 0 .. MaxNum /\ NumEntries \in Nat
      /\ head \in Nat /\ tail \in Nat
      /\ Queue!Queued = Ring(Buffer, tail, NumEntries, MaxNum)
      /\ tail < MaxNum \/ (MaxNum = 0 /\ tail = 0)
      /\ head = Wrap(tail + NumEntries, MaxNum)
      /\ HoldsRing(Buffer, tail, NumEntries, MaxNum)
  BY QueueFacts DEF QueueInv
<1>1. CASE NumEntries > 0
  <2>1. /\ qResult' = <<Buffer[tail]>> /\ tail' = Wrap(tail + 1, MaxNum)
        /\ NumEntries' = NumEntries - 1
        /\ Buffer' = Buffer /\ head' = head /\ MaxNum' = MaxNum /\ qStatus' = qStatus
    BY <1>0, <1>1 DEF Queue!Get, Queue!Wrap, Wrap
  <2>2. NumEntries \in 1 .. MaxNum /\ tail \in 0 .. MaxNum - 1
    BY <1>0, <1>1
  <2>3. /\ HoldsRing(Buffer, tail', NumEntries - 1, MaxNum)
        /\ Ring(Buffer, tail, NumEntries, MaxNum) # <<>>
        /\ Head(Ring(Buffer, tail, NumEntries, MaxNum)) = Buffer[tail]
        /\ Tail(Ring(Buffer, tail, NumEntries, MaxNum)) = Ring(Buffer, tail', NumEntries - 1, MaxNum)
    BY <1>0, <2>1, <2>2, RingGet
  <2>4. /\ tail' \in Nat /\ tail' < MaxNum' /\ NumEntries' \in 0 .. MaxNum
        /\ head' = Wrap(tail' + NumEntries', MaxNum')
    BY <1>0, <2>1, <2>2 DEF Wrap
  <2>5. QueueInv'
    BY <2>1, <2>3, <2>4 DEF QueueInv, Queue!TypeOK
  <2>6. Queue!Queued' = Tail(Queue!Queued)
    BY <1>0, <2>1, <2>3, QueuedNext
  <2>7. Queue!Fifo!Get
    BY <1>0, <2>1, <2>3, <2>6 DEF Queue!Fifo!Get
  <2> QED
    BY <2>5, <2>7 DEF Queue!Fifo!Next
<1> QED
  BY <1>0, <1>1, QueueError DEF Queue!Get

LEMMA QueueRead ==
    ASSUME QueueInv, qStatus = "running", NEW i \in Int, Queue!Read(i)
    PROVE  QueueInv' /\ Queue!Fifo!Next
<1>1. CASE Queue!ValidIndex(i, NumEntries) /\ qResult' = <<Buffer[Queue!Slot(i)]>>
           /\ UNCHANGED <<Queue!memory, qStatus>>
  <2>1. QueueInv' /\ Queue!Queued' = Queue!Queued
    BY <1>1, QueueSame
  <2>2. i + 1 \in 1 .. Len(Queue!Queued) /\ Queue!Queued[i + 1] = Buffer[Queue!Slot(i)]
    BY <1>1, QueueIndex
  <2>3. Queue!Fifo!Read(i + 1)
    BY <1>1, <2>1, <2>2 DEF Queue!Fifo!Read
  <2> QED
    BY <2>1, <2>2, <2>3 DEF Queue!Fifo!Next
<1> QED
  BY <1>1, QueueError DEF Queue!Read

LEMMA QueueAssign ==
    ASSUME QueueInv, qStatus = "running", NEW i \in Int, NEW y \in Chars, Queue!Assign(i, y)
    PROVE  QueueInv' /\ Queue!Fifo!Next
<1>0. /\ MaxNum \in Nat /\ NumEntries \in 0 .. MaxNum /\ NumEntries \in Nat
      /\ tail \in Nat /\ DOMAIN Buffer = 0 .. MaxNum - 1
      /\ Buffer \in [0 .. MaxNum - 1 -> Queue!Cell]
      /\ Queue!Queued = Ring(Buffer, tail, NumEntries, MaxNum)
      /\ tail < MaxNum \/ (MaxNum = 0 /\ tail = 0)
      /\ HoldsRing(Buffer, tail, NumEntries, MaxNum)
      /\ y \in Queue!Cell
  BY QueueFacts DEF QueueInv, Queue!Cell
<1>1. /\ Queue!ValidIndex(i, NumEntries) /\ Buffer' = [Buffer EXCEPT ![Queue!Slot(i)] = y]
      /\ qResult' = <<i + 1, y>> /\ head' = head /\ tail' = tail /\ MaxNum' = MaxNum
      /\ NumEntries' = NumEntries /\ qStatus' = qStatus
  BY DEF Queue!Assign
<1>2. /\ i \in 0 .. NumEntries - 1 /\ Queue!Slot(i) = Place(tail, i, MaxNum)
      /\ i + 1 \in 1 .. Len(Queue!Queued)
  BY <1>1, QueueIndex
<1>3. IsWritten(Buffer', Buffer, Place(tail, i, MaxNum), y, MaxNum)
  BY <1>0, <1>1, <1>2 DEF IsWritten
<1>4. /\ HoldsRing(Buffer', tail, NumEntries, MaxNum)
      /\ Ring(Buffer', tail, NumEntries, MaxNum)
           = [Ring(Buffer, tail, NumEntries, MaxNum) EXCEPT ![i + 1] = y]
  <2>1. tail \in 0 .. MaxNum - 1
    BY <1>0, <1>2
  <2> QED
    BY <1>0, <1>2, <1>3, <2>1, RingAssign
<1>5. Queue!TypeOK'
  <2>1. Buffer' \in [0 .. MaxNum - 1 -> Queue!Cell]
    BY <1>0, <1>1
  <2> QED
    BY <1>1, <2>1 DEF QueueInv, Queue!TypeOK, Queue!Slots
<1>6. QueueInv'
  BY <1>1, <1>4, <1>5 DEF QueueInv
<1>7. Queue!Queued' = [Queue!Queued EXCEPT ![i + 1] = y]
  BY <1>0, <1>1, <1>4, QueuedNext
<1>8. Queue!Fifo!Assign(i + 1, y)
  BY <1>1, <1>7 DEF Queue!Fifo!Assign
<1> QED
  BY <1>2, <1>6, <1>8 DEF Queue!Fifo!Next

LEMMA QueueStep == ASSUME QueueInv, Queue!Next PROVE QueueInv' /\ Queue!Fifo!Next
<1>0. qStatus = "running"
  BY DEF Queue!Next
<1>1. CASE \E m \in -1 .. MaxEntries : Queue!Reserve(m)
  BY <1>0, <1>1, QueueReserve
<1>2. CASE \E y \in Chars : Queue!Put(y)
  BY <1>0, <1>2, QueuePut
<1>3. CASE \E i \in Queue!Slots(MaxEntries) : Queue!PutOwn(i)
  <2>1. PICK i \in Queue!Slots(MaxEntries) : Queue!PutOwn(i)
    BY <1>3
  <2>2. i \in Int
    BY DEF Queue!Slots
  <2>3. Buffer[Queue!Slot(i)] \in Chars /\ Queue!Put(Buffer[Queue!Slot(i)])
    BY <2>1, <2>2, QueueIndex DEF Queue!PutOwn
  <2> QED
    BY <1>0, <2>3, QueuePut
<1>4. CASE Queue!Get
  BY <1>0, <1>4, QueueGet
<1>5. CASE \E i \in -1 .. MaxEntries : Queue!Read(i)
  BY <1>0, <1>5, QueueRead
<1>6. CASE \E i \in Queue!Slots(MaxEntries), y \in Chars : Queue!Assign(i, y)
  BY <1>0, <1>6, QueueAssign DEF Queue!Slots
<1> QED
  BY <1>1, <1>2, <1>3, <1>4, <1>5, <1>6 DEF Queue!Next

-----------------------------------------------------------------------------
(* Objects in slots from 0 on: as a sequence, and what the operations of a
   zeroed array do to it.                                                 *)
IsBlock(r, buf, len) ==
    /\ r \in [1 .. len -> Chars] /\ r \in Seq(Chars) /\ Len(r) = len
    /\ \A i \in 1 .. len : r[i] = buf[i - 1]

LEMMA BlockIsSeq ==
    ASSUME NEW buf, NEW len \in Nat, HoldsBlock(buf, len)
    PROVE  IsBlock(Block(buf, len), buf, len)
<1>1. \A i \in 1 .. len : i - 1 \in 0 .. len - 1
  OBVIOUS
<1>2. Block(buf, len) \in [1 .. len -> Chars]
  BY <1>1 DEF Block, HoldsBlock
<1>3. Block(buf, len) \in Seq(Chars) /\ Len(Block(buf, len)) = len
  BY <1>2, FcnIsSeq
<1> QED
  BY <1>2, <1>3 DEF IsBlock, Block

(* Every block is a sequence of the same length that reads its slots. *)
LEMMA IsBlockUnique ==
    ASSUME NEW buf, NEW len \in Nat, HoldsBlock(buf, len), NEW s \in Seq(Chars), Len(s) = len,
           \A i \in 1 .. len : s[i] = buf[i - 1]
    PROVE  Block(buf, len) = s
<1>1. /\ Block(buf, len) \in [1 .. len -> Chars]
      /\ \A i \in 1 .. len : Block(buf, len)[i] = buf[i - 1]
  BY BlockIsSeq DEF IsBlock
<1>2. \A i \in 1 .. len : Block(buf, len)[i] = s[i]
  BY <1>1
<1> QED
  BY <1>1, <1>2, SameSeq

Copies(y, k) == [i \in 1 .. k |-> y]
IsPush(r2, r, k, y) == r2 = r \o Copies(y, k)
IsRead(s, r, i, k) == i + k - 1 <= Len(r) /\ s = SubSeq(r, i, i + k - 1)
IsWrite(r2, r, i, k, y) ==
    /\ i + k - 1 <= Len(r)
    /\ r2 = [j \in DOMAIN r |-> IF j \in i .. i + k - 1 THEN y ELSE r[j]]

LEMMA BlockPush ==
    ASSUME NEW buf, NEW len \in Nat, HoldsBlock(buf, len), NEW k \in Nat, NEW y \in Chars,
           NEW buf2, \A i \in 0 .. len - 1 : buf2[i] = buf[i],
           \A i \in len .. len + k - 1 : buf2[i] = y
    PROVE  /\ HoldsBlock(buf2, len + k)
           /\ IsPush(Block(buf2, len + k), Block(buf, len), k, y)
<1> DEFINE r == Block(buf, len)
           c == Copies(y, k)
<1>1. /\ r \in Seq(Chars) /\ Len(r) = len /\ \A i \in 1 .. len : r[i] = buf[i - 1]
  BY BlockIsSeq DEF IsBlock
<1>2. c \in [1 .. k -> Chars] /\ \A i \in 1 .. k : c[i] = y
  BY DEF Copies
<1>3. c \in Seq(Chars) /\ Len(c) = k
  BY <1>2, FcnIsSeq
<1>4. HoldsBlock(buf2, len + k)
  BY DEF HoldsBlock
<1> HIDE DEF r, c
<1>5. /\ r \o c \in Seq(Chars) /\ Len(r \o c) = len + k
      /\ \A i \in 1 .. len + k : (r \o c)[i] = IF i <= len THEN r[i] ELSE c[i - len]
  <2>0. r \in Seq(Chars) /\ c \in Seq(Chars)
    BY <1>1, <1>3
  <2>1. /\ r \o c \in Seq(Chars)
        /\ Len(r \o c) = Len(r) + Len(c)
        /\ \A i \in 1 .. Len(r) + Len(c) :
              (r \o c)[i] = IF i <= Len(r) THEN r[i] ELSE c[i - Len(r)]
    BY <2>0, ConcatProperties
  <2>2. Len(r) = len /\ Len(c) = k
    BY <1>1, <1>3
  <2> QED
    BY <2>1, <2>2
<1>6. \A i \in 1 .. len + k : (r \o c)[i] = buf2[i - 1]
  <2> TAKE i \in 1 .. len + k
  <2>1. CASE i <= len
    <3>1. i \in 1 .. len /\ i - 1 \in 0 .. len - 1
      BY <2>1
    <3> QED
      BY <1>1, <1>5, <2>1, <3>1
  <2>2. CASE ~(i <= len)
    <3>1. i - len \in 1 .. k /\ i - 1 \in len .. len + k - 1
      BY <2>2
    <3> QED
      BY <1>2, <1>5, <2>2, <3>1
  <2> QED
    BY <2>1, <2>2
<1>7. len + k \in Nat
  OBVIOUS
<1>8. Block(buf2, len + k) = r \o c
  BY <1>4, <1>5, <1>6, <1>7, IsBlockUnique
<1> QED
  BY <1>4, <1>8 DEF r, c, IsPush

LEMMA BlockRead ==
    ASSUME NEW buf, NEW len \in Nat, HoldsBlock(buf, len), NEW i \in Nat, NEW k \in Nat,
           i + k <= len
    PROVE  IsRead([j \in 1 .. k |-> buf[i + j - 1]], Block(buf, len), i + 1, k)
<1> DEFINE r == Block(buf, len)
           s == SubSeq(r, i + 1, (i + 1) + k - 1)
           f == [j \in 1 .. k |-> buf[i + j - 1]]
<1>1. /\ r \in Seq(Chars) /\ Len(r) = len /\ \A j \in 1 .. len : r[j] = buf[j - 1]
  BY BlockIsSeq DEF IsBlock
<1> HIDE DEF r
<1>2. /\ i + 1 \in 1 .. Len(r) + 1 /\ (i + 1) + k - 1 \in i .. Len(r)
      /\ (i + 1) + k - 1 = i + k
  BY <1>1
<1>3. /\ s \in Seq(Chars) /\ Len(s) = k
      /\ \A j \in 1 .. k : s[j] = r[i + j]
  <2>1. /\ Len(SubSeq(r, i + 1, i + k)) = IF i + 1 <= i + k THEN (i + k) - (i + 1) + 1 ELSE 0
        /\ \A j \in 1 .. (i + k) - (i + 1) + 1 :
              SubSeq(r, i + 1, i + k)[j] = r[(i + 1) + j - 1]
        /\ SubSeq(r, i + 1, i + k) \in Seq(Chars)
    BY <1>1, <1>2, SubSeqProperties
  <2>2. /\ (i + k) - (i + 1) + 1 = k
        /\ (IF i + 1 <= i + k THEN (i + k) - (i + 1) + 1 ELSE 0) = k
        /\ \A j \in 1 .. k : (i + 1) + j - 1 = i + j
    OBVIOUS
  <2> QED
    BY <1>2, <2>1, <2>2
<1>4. f \in [1 .. k -> Chars] /\ \A j \in 1 .. k : f[j] = r[i + j]
  <2>1. ASSUME NEW j \in 1 .. k
        PROVE  /\ i + j \in 1 .. len /\ (i + j) - 1 = i + j - 1
               /\ i + j - 1 \in 0 .. len - 1
    OBVIOUS
  <2> QED
    BY <1>1, <2>1 DEF HoldsBlock
<1> HIDE DEF s, f
<1>5. \A j \in 1 .. k : f[j] = s[j]
  BY <1>3, <1>4
<1>6. f = s
  BY <1>3, <1>4, <1>5, SameSeq
<1>7. (i + 1) + k - 1 <= Len(r)
  BY <1>1
<1> QED
  BY <1>6, <1>7 DEF f, s, r, IsRead

LEMMA BlockPop ==
    ASSUME NEW buf, NEW len \in Nat, len > 0, HoldsBlock(buf, len)
    PROVE  /\ HoldsBlock(buf, len - 1)
           /\ Block(buf, len) # <<>> /\ Len(Block(buf, len)) = len
           /\ Block(buf, len)[len] = buf[len - 1]
           /\ Block(buf, len - 1) = SubSeq(Block(buf, len), 1, len - 1)
<1>1. /\ Block(buf, len) \in Seq(Chars) /\ Len(Block(buf, len)) = len
      /\ \A j \in 1 .. len : Block(buf, len)[j] = buf[j - 1]
  BY BlockIsSeq DEF IsBlock
<1>2. HoldsBlock(buf, len - 1)
  BY DEF HoldsBlock
<1> DEFINE r == Block(buf, len)
           s == SubSeq(r, 1, len - 1)
<1>3. s \in Seq(Chars) /\ Len(s) = len - 1 /\ \A j \in 1 .. len - 1 : s[j] = r[j]
  <2> HIDE DEF r
  <2>1. 1 \in 1 .. Len(r) + 1 /\ len - 1 \in 0 .. Len(r) /\ len - 1 \in Nat
    BY <1>1 DEF r
  <2>2. /\ Len(SubSeq(r, 1, len - 1)) = IF 1 <= len - 1 THEN (len - 1) - 1 + 1 ELSE 0
        /\ \A j \in 1 .. (len - 1) - 1 + 1 : SubSeq(r, 1, len - 1)[j] = r[1 + j - 1]
        /\ SubSeq(r, 1, len - 1) \in Seq(Chars)
    BY <1>1, <2>1, SubSeqProperties DEF r
  <2>3. /\ (len - 1) - 1 + 1 = len - 1
        /\ (IF 1 <= len - 1 THEN (len - 1) - 1 + 1 ELSE 0) = len - 1
        /\ \A j \in 1 .. len - 1 : 1 + j - 1 = j
    OBVIOUS
  <2> QED
    BY <2>2, <2>3
<1> HIDE DEF s
<1>4. \A j \in 1 .. len - 1 : s[j] = buf[j - 1]
  BY <1>1, <1>3
<1>5. Block(buf, len - 1) = s
  <2>1. len - 1 \in Nat
    OBVIOUS
  <2> QED
    BY <1>2, <1>3, <1>4, <2>1, IsBlockUnique
<1>6. Block(buf, len) # <<>> /\ Block(buf, len)[len] = buf[len - 1]
  <2>1. len \in 1 .. len
    OBVIOUS
  <2> QED
    BY <1>1, <2>1, EmptySeq
<1> QED
  BY <1>1, <1>2, <1>5, <1>6 DEF s

LEMMA BlockSetNum ==
    ASSUME NEW buf, NEW len \in Nat, HoldsBlock(buf, len), NEW buf2, NEW m \in Nat,
           \A i \in 0 .. m - 1 : buf2[i] = IF i < len THEN buf[i] ELSE Zero
    PROVE  /\ HoldsBlock(buf2, m) /\ Len(Block(buf2, m)) = m
           /\ Block(buf2, m) = [i \in 1 .. m |-> IF i <= Len(Block(buf, len))
                                                 THEN Block(buf, len)[i] ELSE Zero]
<1>1. /\ Len(Block(buf, len)) = len
      /\ \A j \in 1 .. len : Block(buf, len)[j] = buf[j - 1]
  BY BlockIsSeq DEF IsBlock
<1>2. HoldsBlock(buf2, m)
  BY ObjectsAreRight DEF HoldsBlock
<1>3. Len(Block(buf2, m)) = m
  BY <1>2, BlockIsSeq DEF IsBlock
<1>4. ASSUME NEW i \in 1 .. m
      PROVE  buf2[i - 1] = IF i <= len THEN Block(buf, len)[i] ELSE Zero
  <2>1. i - 1 \in 0 .. m - 1 /\ (i - 1 < len <=> i <= len) /\ (i <= len => i \in 1 .. len)
    OBVIOUS
  <2> QED
    BY <1>1, <2>1
<1> QED
  BY <1>1, <1>2, <1>3, <1>4 DEF Block

LEMMA BlockWrite ==
    ASSUME NEW buf, NEW len \in Nat, HoldsBlock(buf, len), NEW i \in Nat, NEW k \in Nat,
           i + k <= len, NEW y \in Chars, NEW buf2,
           \A j \in 0 .. len - 1 : buf2[j] = IF i <= j /\ j < i + k THEN y ELSE buf[j]
    PROVE  /\ HoldsBlock(buf2, len)
           /\ IsWrite(Block(buf2, len), Block(buf, len), i + 1, k, y)
<1>1. /\ Len(Block(buf, len)) = len /\ DOMAIN Block(buf, len) = 1 .. len
      /\ \A j \in 1 .. len : Block(buf, len)[j] = buf[j - 1]
  BY BlockIsSeq DEF IsBlock
<1>2. HoldsBlock(buf2, len)
  BY DEF HoldsBlock
<1>3. ASSUME NEW j \in 1 .. len
      PROVE  buf2[j - 1] = IF j \in i + 1 .. (i + 1) + k - 1 THEN y ELSE Block(buf, len)[j]
  <2>1. /\ j - 1 \in 0 .. len - 1
        /\ i <= j - 1 /\ j - 1 < i + k <=> j \in i + 1 .. (i + 1) + k - 1
    OBVIOUS
  <2> QED
    BY <1>1, <2>1
<1> QED
  BY <1>1, <1>2, <1>3 DEF Block, IsWrite

(* The same for one object. *)
LEMMA BlockReadOne ==
    ASSUME NEW buf, NEW len \in Nat, HoldsBlock(buf, len), NEW i \in Nat, i < len
    PROVE  IsRead(<<buf[i]>>, Block(buf, len), i + 1, 1)
<1>1. PICK k \in Nat : k = 1
  OBVIOUS
<1>2. i + k <= len
  BY <1>1
<1>3. IsRead([j \in 1 .. k |-> buf[i + j - 1]], Block(buf, len), i + 1, k)
  BY <1>2, BlockRead
<1>4. [j \in 1 .. k |-> buf[i + j - 1]] = <<buf[i]>>
  BY <1>1
<1> QED
  BY <1>1, <1>3, <1>4

LEMMA BlockWriteOne ==
    ASSUME NEW buf, NEW len \in Nat, HoldsBlock(buf, len), NEW i \in Nat, i < len,
           NEW y \in Chars, NEW buf2,
           \A j \in 0 .. len - 1 : buf2[j] = IF j = i THEN y ELSE buf[j]
    PROVE  /\ HoldsBlock(buf2, len)
           /\ IsWrite(Block(buf2, len), Block(buf, len), i + 1, 1, y)
<1>1. PICK k \in Nat : k = 1
  OBVIOUS
<1>2. i + k <= len
  BY <1>1
<1>3. \A j \in 0 .. len - 1 : buf2[j] = IF i <= j /\ j < i + k THEN y ELSE buf[j]
  BY <1>1
<1>4. /\ HoldsBlock(buf2, len)
      /\ IsWrite(Block(buf2, len), Block(buf, len), i + 1, k, y)
  BY <1>2, <1>3, BlockWrite
<1> QED
  BY <1>1, <1>4

LEMMA BlockPushOne ==
    ASSUME NEW buf, NEW len \in Nat, HoldsBlock(buf, len), NEW y \in Chars,
           NEW buf2, \A i \in 0 .. len - 1 : buf2[i] = buf[i], buf2[len] = y
    PROVE  /\ HoldsBlock(buf2, len + 1)
           /\ IsPush(Block(buf2, len + 1), Block(buf, len), 1, y)
<1>1. PICK k \in Nat : k = 1
  OBVIOUS
<1>2. \A i \in len .. len + k - 1 : buf2[i] = y
  <2>1. \A i \in len .. len + k - 1 : i = len
    BY <1>1
  <2> QED
    BY <2>1
<1>3. /\ HoldsBlock(buf2, len + k)
      /\ IsPush(Block(buf2, len + k), Block(buf, len), k, y)
  <2>1. \A i \in 0 .. len - 1 : buf2[i] = buf[i]
    OBVIOUS
  <2> HIDE <1>1
  <2> QED
    BY <1>2, <2>1, BlockPush
<1> QED
  BY <1>1, <1>3

-----------------------------------------------------------------------------
(* FILOlist: top is where the next object of the block goes. *)
StackInv == Stack!TypeOK /\ top = n /\ HoldsBlock(stack, n)

LEMMA StackInitOK == ASSUME Stack!Init PROVE StackInv /\ Stack!Stack!Init
<1> USE ObjectsAreRight
<1>1. Stack!TypeOK /\ top = n /\ HoldsBlock(stack, n)
  BY DEF Stack!Init, Stack!TypeOK, Stack!Slots, Stack!Cell, HoldsBlock
<1>2. [i \in 1 .. n |-> stack[i - 1]] = <<>>
  BY DEF Stack!Init
<1>3. <<>> \in Seq({Zero})
  OBVIOUS
<1> QED
  BY <1>1, <1>2, <1>3 DEF StackInv, Stack!Stack!Init, Stack!Init

LEMMA StackStep == ASSUME StackInv, Stack!Next PROVE StackInv' /\ Stack!Stack!Next
<1> USE ObjectsAreRight
<1>0. /\ n \in 0 .. MAXSIZE /\ n \in Nat /\ top = n /\ HoldsBlock(stack, n)
      /\ stack \in [0 .. MAXSIZE - 1 -> Stack!Cell] /\ DOMAIN stack = 0 .. MAXSIZE - 1
      /\ sStatus = "running"
  BY DEF StackInv, Stack!TypeOK, Stack!Slots, Stack!Next
<1>1. CASE \E y \in Chars : Stack!Put(y) /\ n < MAXSIZE
  <2>1. PICK y \in Chars : Stack!Put(y) /\ n < MAXSIZE
    BY <1>1
  <2>2. /\ n' = n + 1 /\ top' = top + 1 /\ stack' = [stack EXCEPT ![n] = y]
        /\ sResult' = <<1>> /\ sStatus' = sStatus
    BY <1>0, <2>1 DEF Stack!Put
  <2>3. /\ \A i \in 0 .. n - 1 : stack'[i] = stack[i]
        /\ stack'[n] = y
    BY <1>0, <2>1, <2>2
  <2>4. /\ HoldsBlock(stack', n + 1)
        /\ IsPush(Block(stack', n + 1), Block(stack, n), 1, y)
    BY <1>0, <2>3, BlockPushOne
  <2>5. Stack!TypeOK'
    <3>1. stack' \in [0 .. MAXSIZE - 1 -> Stack!Cell]
      BY <1>0, <2>2 DEF Stack!Cell
    <3>2. n' \in 0 .. MAXSIZE /\ top' \in 0 .. MAXSIZE /\ sStatus' = "running"
      BY <1>0, <2>1, <2>2
    <3> QED
      BY <3>1, <3>2 DEF Stack!TypeOK, Stack!Slots
  <2>6. StackInv'
    BY <1>0, <2>2, <2>4, <2>5 DEF StackInv
  <2>7. Block(stack', n') = Block(stack, n) \o Copies(y, 1)
    BY <2>2, <2>4 DEF IsPush
  <2>8. Stack!Stack!Push(y, 1)
    BY <2>2, <2>7 DEF Stack!Stack!Push, Block, Copies
  <2> QED
    BY <1>0, <2>6, <2>8 DEF Stack!Stack!Next
<1>2. ASSUME n' = n, stack' = stack, top' = top, sStatus' \in {"running", "exited"}
      PROVE  StackInv' /\ Block(stack, n)' = Block(stack, n)
  BY <1>2 DEF StackInv, Stack!TypeOK, Block
<1>3. CASE \E y \in Chars : Stack!Put(y) /\ ~(n < MAXSIZE)
  <2>1. /\ n' = n /\ stack' = stack /\ top' = top /\ sStatus' = sStatus
        /\ sResult' = <<0>> /\ n = MAXSIZE
    BY <1>0, <1>3 DEF Stack!Put
  <2>2. StackInv' /\ Block(stack, n)' = Block(stack, n)
    BY <1>0, <1>2, <2>1
  <2>3. Len(Block(stack, n)) >= MAXSIZE
    BY <1>0, <2>1, BlockIsSeq DEF IsBlock
  <2>4. Stack!Stack!Refuse
    BY <2>1, <2>2, <2>3 DEF Stack!Stack!Refuse, Block
  <2> QED
    BY <1>0, <2>2, <2>4 DEF Stack!Stack!Next
<1>4. CASE Stack!Get /\ n > 0
  <2>1. /\ n' = n - 1 /\ top' = top - 1 /\ sResult' = <<stack[n - 1]>>
        /\ stack' = stack /\ sStatus' = sStatus
    BY <1>0, <1>4 DEF Stack!Get
  <2>2. /\ HoldsBlock(stack, n - 1)
        /\ Block(stack, n) # <<>> /\ Len(Block(stack, n)) = n
        /\ Block(stack, n)[n] = stack[n - 1]
        /\ Block(stack, n - 1) = SubSeq(Block(stack, n), 1, n - 1)
    BY <1>0, <1>4, BlockPop
  <2>3. StackInv'
    BY <1>0, <1>4, <2>1, <2>2 DEF StackInv, Stack!TypeOK
  <2>4. /\ Block(stack', n') = SubSeq(Block(stack, n), 1, Len(Block(stack, n)) - 1)
        /\ sResult' = <<Block(stack, n)[Len(Block(stack, n))]>>
    BY <2>1, <2>2
  <2>5. Stack!Stack!Pop
    BY <2>1, <2>2, <2>4 DEF Stack!Stack!Pop, Block
  <2> QED
    BY <1>0, <2>3, <2>5 DEF Stack!Stack!Next
<1>5. CASE Stack!Get /\ ~(n > 0)
  <2>1. /\ n' = n /\ stack' = stack /\ top' = top /\ sStatus' = "exited"
        /\ sResult' = sResult
    BY <1>0, <1>5 DEF Stack!Get
  <2>2. StackInv' /\ Block(stack, n)' = Block(stack, n)
    BY <1>2, <2>1
  <2>3. Stack!Stack!Exit
    BY <2>1, <2>2 DEF Stack!Stack!Exit, Block
  <2> QED
    BY <1>0, <2>2, <2>3 DEF Stack!Stack!Next
<1> QED
  BY <1>1, <1>3, <1>4, <1>5 DEF Stack!Next

-----------------------------------------------------------------------------
(* SafeArray: every slot holds an object. *)
SafeInv == Safe!TypeOK /\ HoldsBlock(entries, MAXSIZE)

LEMMA SafeInitOK == ASSUME Safe!Init PROVE SafeInv /\ Safe!Entries!Init
<1> USE ObjectsAreRight
<1>1. Safe!TypeOK /\ HoldsBlock(entries, MAXSIZE)
  BY DEF Safe!Init, Safe!TypeOK, Safe!Slots, HoldsBlock
<1>2. [i \in 1 .. MAXSIZE |-> entries[i - 1]] \in [1 .. MAXSIZE -> {Zero}]
  BY DEF Safe!Init, Safe!Slots
<1>3. [i \in 1 .. MAXSIZE |-> entries[i - 1]] \in Seq({Zero})
  BY <1>2, FcnIsSeq
<1> QED
  BY <1>1, <1>3 DEF SafeInv, Safe!Entries!Init, Safe!Init

LEMMA SafeStep == ASSUME SafeInv, Safe!Next PROVE SafeInv' /\ Safe!Entries!Next
<1> USE ObjectsAreRight
<1>0. /\ HoldsBlock(entries, MAXSIZE) /\ entries \in [0 .. MAXSIZE - 1 -> Chars]
      /\ eStatus = "running"
      /\ Len(Block(entries, MAXSIZE)) = MAXSIZE
  BY BlockIsSeq DEF SafeInv, Safe!TypeOK, Safe!Slots, Safe!Next, IsBlock
<1>1. ASSUME entries' = entries, eStatus' \in {"running", "exited"}
      PROVE  SafeInv' /\ Block(entries, MAXSIZE)' = Block(entries, MAXSIZE)
  BY <1>1 DEF SafeInv, Safe!TypeOK, Block
<1>2. CASE \E i \in -1 .. MAXSIZE : Safe!Read(i) /\ ~Safe!ValidIndex(i, MAXSIZE)
  <2>1. entries' = entries /\ eStatus' = "exited" /\ eResult' = eResult
    BY <1>2 DEF Safe!Read, Safe!NullReference
  <2>2. SafeInv' /\ Block(entries, MAXSIZE)' = Block(entries, MAXSIZE)
    BY <1>1, <2>1
  <2>3. Safe!Entries!Exit
    BY <2>1, <2>2 DEF Safe!Entries!Exit, Block
  <2> QED
    BY <1>0, <2>2, <2>3 DEF Safe!Entries!Next
<1>3. CASE \E i \in -1 .. MAXSIZE : Safe!Read(i) /\ Safe!ValidIndex(i, MAXSIZE)
  <2>1. PICK i \in -1 .. MAXSIZE : Safe!Read(i) /\ Safe!ValidIndex(i, MAXSIZE)
    BY <1>3
  <2>2. /\ eResult' = <<entries[i]>> /\ entries' = entries /\ eStatus' = eStatus
        /\ i \in Nat /\ i < MAXSIZE /\ i + 1 \in 1 .. MAXSIZE
    BY <2>1 DEF Safe!Read, Safe!ValidIndex
  <2>3. SafeInv' /\ Block(entries, MAXSIZE)' = Block(entries, MAXSIZE)
    BY <1>0, <1>1, <2>2
  <2>4. IsRead(<<entries[i]>>, Block(entries, MAXSIZE), i + 1, 1)
    BY <1>0, <2>2, BlockReadOne
  <2>5. Safe!Entries!Read(i + 1, 1)
    BY <2>2, <2>3, <2>4 DEF IsRead, Safe!Entries!Read, Block
  <2> QED
    BY <1>0, <2>2, <2>3, <2>5 DEF Safe!Entries!Next, Block
<1>4. CASE \E i \in -1 .. MAXSIZE, y \in Chars : Safe!Assign(i, y)
  <2>1. PICK i \in -1 .. MAXSIZE, y \in Chars : Safe!Assign(i, y)
    BY <1>4
  <2>2. /\ entries' = [entries EXCEPT ![i] = y] /\ eResult' = <<i + 1, 1, y>>
        /\ eStatus' = eStatus
        /\ i \in Nat /\ i < MAXSIZE /\ i + 1 \in 1 .. MAXSIZE
    BY <2>1 DEF Safe!Assign, Safe!ValidIndex
  <2>3. \A j \in 0 .. MAXSIZE - 1 :
           entries'[j] = IF j = i THEN y ELSE entries[j]
    BY <1>0, <2>2
  <2>4. /\ HoldsBlock(entries', MAXSIZE)
        /\ IsWrite(Block(entries', MAXSIZE), Block(entries, MAXSIZE), i + 1, 1, y)
    BY <1>0, <2>2, <2>3, BlockWriteOne
  <2>5. SafeInv'
    <3>1. entries' \in [0 .. MAXSIZE - 1 -> Chars]
      BY <1>0, <2>2
    <3> QED
      BY <1>0, <2>2, <2>4, <3>1 DEF SafeInv, Safe!TypeOK, Safe!Slots
  <2>6. Safe!Entries!Write(i + 1, 1, y)
    BY <2>2, <2>4 DEF IsWrite, Safe!Entries!Write, Block
  <2> QED
    BY <1>0, <2>2, <2>5, <2>6 DEF Safe!Entries!Next, Block
<1> QED
  BY <1>2, <1>3, <1>4 DEF Safe!Next

-----------------------------------------------------------------------------
(* DynamicArray: the entries in use hold objects, the slots behind them may be
   junk.                                                                     *)
ArrayInv == Array!TypeOK /\ HoldsBlock(dBuffer, dNumEntries)

LEMMA ArrayFacts ==
    ASSUME ArrayInv
    PROVE  /\ dMaxNum \in Nat /\ dNumEntries \in 0 .. dMaxNum /\ dNumEntries \in Nat
           /\ dBuffer \in [0 .. dMaxNum - 1 -> Array!Cell]
           /\ HoldsBlock(dBuffer, dNumEntries)
           /\ Len(Block(dBuffer, dNumEntries)) = dNumEntries
           /\ Junk \in Array!Cell /\ Zero \in Array!Cell /\ Chars \subseteq Array!Cell
<1>1. /\ dMaxNum \in Nat /\ dNumEntries \in 0 .. dMaxNum /\ dNumEntries \in Nat
      /\ dBuffer \in [0 .. dMaxNum - 1 -> Array!Cell]
      /\ HoldsBlock(dBuffer, dNumEntries)
  BY DEF ArrayInv, Array!TypeOK, Array!Slots
<1>2. Len(Block(dBuffer, dNumEntries)) = dNumEntries
  BY <1>1, BlockIsSeq DEF IsBlock
<1> QED
  BY <1>1, <1>2, ObjectsAreRight DEF Array!Cell

LEMMA ArrayInitOK == ASSUME Array!Init PROVE ArrayInv /\ Array!Entries!Init
<1> USE ObjectsAreRight
<1>1. Array!TypeOK /\ HoldsBlock(dBuffer, dNumEntries)
  BY DEF Array!Init, Array!TypeOK, Array!Slots, Array!Cell, Array!NullBuffer, HoldsBlock
<1>2. [i \in 1 .. dNumEntries |-> dBuffer[i - 1]] = <<>>
  BY DEF Array!Init
<1>3. <<>> \in Seq({Zero})
  OBVIOUS
<1> QED
  BY <1>1, <1>2, <1>3 DEF ArrayInv, Array!Entries!Init, Array!Init

LEMMA ArrayError ==
    ASSUME ArrayInv, Array!Error, dStatus = "running" PROVE ArrayInv' /\ Array!Entries!Next
<1>1. /\ dBuffer' = dBuffer /\ dMaxNum' = dMaxNum /\ dNumEntries' = dNumEntries
      /\ dResult' = dResult /\ dStatus' = "exited"
  BY DEF Array!Error, Array!memory
<1>2. ArrayInv'
  BY <1>1 DEF ArrayInv, Array!TypeOK
<1>3. Array!Entries!Exit
  BY <1>1 DEF Array!Entries!Exit
<1> QED
  BY <1>2, <1>3 DEF Array!Entries!Next

(* Whatever keeps the old entries and adds zeroes sets the number of entries. *)
LEMMA ArraySetsNum ==
    ASSUME ArrayInv, dStatus = "running", dStatus' = dStatus, dResult' = <<>>,
           NEW m \in Nat, dNumEntries' = m, Array!TypeOK',
           \A i \in 0 .. m - 1 : dBuffer'[i] = IF i < dNumEntries THEN dBuffer[i] ELSE Zero
    PROVE  ArrayInv' /\ Array!Entries!Next
<1>1. /\ HoldsBlock(dBuffer', m) /\ Len(Block(dBuffer', m)) = m
      /\ Block(dBuffer', m) = [i \in 1 .. m |-> IF i <= Len(Block(dBuffer, dNumEntries))
                                               THEN Block(dBuffer, dNumEntries)[i] ELSE Zero]
  BY ArrayFacts, BlockSetNum
<1>2. ArrayInv'
  BY <1>1 DEF ArrayInv
<1>3. Block(dBuffer, dNumEntries)'
         = [i \in 1 .. Len(Block(dBuffer, dNumEntries)') |->
              IF i <= Len(Block(dBuffer, dNumEntries)) THEN Block(dBuffer, dNumEntries)[i] ELSE Zero]
  BY <1>1
<1>4. Array!Entries!Next
  BY <1>3 DEF Array!Entries!Next, Array!Entries!SetNum, Block
<1> QED
  BY <1>2, <1>4

LEMMA ArrayReserve ==
    ASSUME ArrayInv, dStatus = "running", NEW m \in Int, Array!Reserve(m)
    PROVE  ArrayInv' /\ Array!Entries!Next
<1> USE ArrayFacts
<1>1. CASE /\ m = 0 /\ dBuffer' = Array!NullBuffer /\ dMaxNum' = 0 /\ dNumEntries' = 0
           /\ dResult' = <<>> /\ UNCHANGED dStatus
  <2>1. Array!TypeOK'
    BY <1>1 DEF Array!TypeOK, Array!Slots, Array!NullBuffer
  <2>2. \A i \in 0 .. 0 - 1 : dBuffer'[i] = IF i < dNumEntries THEN dBuffer[i] ELSE Zero
    OBVIOUS
  <2> QED
    BY <1>1, <2>1, <2>2, ArraySetsNum
<1>2. CASE dResult' = <<>> /\ UNCHANGED <<Array!memory, dStatus>>
  <2>1. dBuffer' = dBuffer /\ dMaxNum' = dMaxNum /\ dNumEntries' = dNumEntries
    BY <1>2 DEF Array!memory
  <2>2. Array!TypeOK'
    BY <1>2, <2>1 DEF ArrayInv, Array!TypeOK
  <2>3. \A i \in 0 .. dNumEntries - 1 :
           dBuffer'[i] = IF i < dNumEntries THEN dBuffer[i] ELSE Zero
    BY <2>1
  <2> QED
    BY <1>2, <2>1, <2>2, <2>3, ArraySetsNum
<1>3. CASE /\ m > dMaxNum /\ dBuffer' = Array!ReAllocated(m) /\ dMaxNum' = m
           /\ dResult' = <<>> /\ UNCHANGED <<dNumEntries, dStatus>>
  <2>1. dBuffer' \in [0 .. m - 1 -> Array!Cell]
    BY <1>3 DEF Array!ReAllocated, Array!Slots
  <2>2. m \in Nat /\ dNumEntries \in 0 .. m
    BY <1>3
  <2>3. Array!TypeOK'
    BY <1>3, <2>1, <2>2 DEF Array!TypeOK, Array!Slots
  <2>4. \A i \in 0 .. dNumEntries - 1 :
           dBuffer'[i] = IF i < dNumEntries THEN dBuffer[i] ELSE Zero
    BY <1>3, <2>2 DEF Array!ReAllocated, Array!Slots
  <2> QED
    BY <1>3, <2>3, <2>4, ArraySetsNum
<1> QED
  BY <1>1, <1>2, <1>3, ArrayError DEF Array!Reserve

LEMMA ArraySetNum ==
    ASSUME ArrayInv, dStatus = "running", NEW m \in Int, Array!SetNum(m)
    PROVE  ArrayInv' /\ Array!Entries!Next
<1> USE ArrayFacts
<1>1. CASE /\ 0 <= m /\ m <= dMaxNum /\ dBuffer' = Array!Cleared(dBuffer, m)
           /\ dNumEntries' = m /\ dResult' = <<>> /\ UNCHANGED <<dMaxNum, dStatus>>
  <2>1. dBuffer' \in [0 .. dMaxNum - 1 -> Array!Cell]
    BY <1>1 DEF Array!Cleared
  <2>2. m \in Nat /\ m \in 0 .. dMaxNum
    BY <1>1
  <2>3. Array!TypeOK'
    BY <1>1, <2>1, <2>2 DEF Array!TypeOK, Array!Slots
  <2>4. \A i \in 0 .. m - 1 : dBuffer'[i] = IF i < dNumEntries THEN dBuffer[i] ELSE Zero
    BY <1>1, <2>2 DEF Array!Cleared
  <2> QED
    BY <1>1, <2>2, <2>3, <2>4, ArraySetsNum
<1>2. CASE /\ m > dMaxNum /\ dBuffer' = Array!Cleared(Array!ReAllocated(m), m) /\ dMaxNum' = m
           /\ dNumEntries' = m /\ dResult' = <<>> /\ UNCHANGED dStatus
  <2>1. Array!ReAllocated(m) \in [0 .. m - 1 -> Array!Cell]
    BY <1>2 DEF Array!ReAllocated, Array!Slots
  <2>2. dBuffer' \in [0 .. m - 1 -> Array!Cell]
    BY <1>2, <2>1 DEF Array!Cleared
  <2>3. m \in Nat /\ m \in 0 .. m
    BY <1>2
  <2>4. Array!TypeOK'
    BY <1>2, <2>2, <2>3 DEF Array!TypeOK, Array!Slots
  <2>5. \A i \in 0 .. m - 1 : dBuffer'[i] = IF i < dNumEntries THEN dBuffer[i] ELSE Zero
    BY <1>2, <2>3 DEF Array!Cleared, Array!ReAllocated, Array!Slots
  <2> QED
    BY <1>2, <2>3, <2>4, <2>5, ArraySetsNum
<1> QED
  BY <1>1, <1>2, ArrayError DEF Array!SetNum

LEMMA ArrayPush ==
    ASSUME ArrayInv, dStatus = "running", NEW y \in Chars, Array!Push(y)
    PROVE  ArrayInv' /\ Array!Entries!Next
<1> USE ArrayFacts
<1>1. CASE /\ Array!PushInRoom(y) \/ Array!PushGrows(y)
           /\ dNumEntries' = dNumEntries + 1 /\ dResult' = <<dNumEntries>> /\ UNCHANGED dStatus
  <2>1. /\ dMaxNum' \in Nat /\ dNumEntries + 1 \in 0 .. dMaxNum'
        /\ dBuffer' \in [0 .. dMaxNum' - 1 -> Array!Cell]
        /\ \A i \in 0 .. dNumEntries - 1 : dBuffer'[i] = dBuffer[i]
        /\ dBuffer'[dNumEntries] = y
    <3>1. CASE Array!PushInRoom(y)
      <4>1. /\ dNumEntries < dMaxNum /\ dBuffer' = [dBuffer EXCEPT ![dNumEntries] = y]
            /\ dMaxNum' = dMaxNum
        BY <3>1 DEF Array!PushInRoom
      <4> QED
        BY <4>1
    <3>2. CASE Array!PushGrows(y)
      <4> DEFINE m == Array!NewSize(dMaxNum)
      <4>1. /\ dBuffer' = [Array!ReAllocated(m) EXCEPT ![dNumEntries] = y] /\ dMaxNum' = m
        BY <3>2 DEF Array!PushGrows
      <4>2. m \in Nat /\ m > dMaxNum
        BY ObjectsAreRight DEF Array!NewSize
      <4> HIDE DEF m
      <4>3. /\ Array!ReAllocated(m) \in [0 .. m - 1 -> Array!Cell]
            /\ \A i \in 0 .. dNumEntries - 1 : Array!ReAllocated(m)[i] = dBuffer[i]
        BY <4>2 DEF Array!ReAllocated, Array!Slots
      <4>4. dNumEntries \in 0 .. m - 1
        BY <4>2
      <4> QED
        BY <4>1, <4>2, <4>3, <4>4
    <3> QED
      BY <1>1, <3>1, <3>2
  <2>2. Array!TypeOK'
    BY <1>1, <2>1 DEF ArrayInv, Array!TypeOK, Array!Slots
  <2>3. /\ HoldsBlock(dBuffer', dNumEntries + 1)
        /\ IsPush(Block(dBuffer', dNumEntries + 1), Block(dBuffer, dNumEntries), 1, y)
    BY <2>1, BlockPushOne
  <2>4. ArrayInv'
    BY <1>1, <2>2, <2>3 DEF ArrayInv
  <2>5. Block(dBuffer', dNumEntries') = Block(dBuffer, dNumEntries) \o Copies(y, 1)
    BY <1>1, <2>3 DEF IsPush
  <2>6. Array!Entries!Push(y, 1)
    BY <1>1, <2>5 DEF Array!Entries!Push, Block, Copies
  <2> QED
    BY <2>4, <2>6 DEF Array!Entries!Next
<1> QED
  BY <1>1, ArrayError DEF Array!Push

LEMMA ArrayPop ==
    ASSUME ArrayInv, dStatus = "running", Array!Pop PROVE ArrayInv' /\ Array!Entries!Next
<1> USE ArrayFacts
<1>1. CASE dNumEntries > 0
  <2>1. /\ dNumEntries' = dNumEntries - 1 /\ dResult' = <<dBuffer[dNumEntries - 1]>>
        /\ dBuffer' = dBuffer /\ dMaxNum' = dMaxNum /\ dStatus' = dStatus
    BY <1>1 DEF Array!Pop
  <2>2. /\ HoldsBlock(dBuffer, dNumEntries - 1)
        /\ Block(dBuffer, dNumEntries) # <<>>
        /\ Block(dBuffer, dNumEntries)[dNumEntries] = dBuffer[dNumEntries - 1]
        /\ Block(dBuffer, dNumEntries - 1) = SubSeq(Block(dBuffer, dNumEntries), 1, dNumEntries - 1)
    BY <1>1, BlockPop
  <2>3. ArrayInv'
    BY <1>1, <2>1, <2>2 DEF ArrayInv, Array!TypeOK
  <2>4. Block(dBuffer', dNumEntries')
           = SubSeq(Block(dBuffer, dNumEntries), 1, Len(Block(dBuffer, dNumEntries)) - 1)
    BY <2>1, <2>2
  <2>5. dResult' = <<Block(dBuffer, dNumEntries)[Len(Block(dBuffer, dNumEntries))]>>
    BY <2>1, <2>2
  <2>6. Array!Entries!Pop
    BY <2>1, <2>2, <2>4, <2>5 DEF Array!Entries!Pop, Block
  <2> QED
    BY <2>3, <2>6 DEF Array!Entries!Next
<1> QED
  BY <1>1, ArrayError DEF Array!Pop

LEMMA ArrayRead ==
    ASSUME ArrayInv, dStatus = "running", NEW i \in Int, Array!Read(i)
    PROVE  ArrayInv' /\ Array!Entries!Next
<1> USE ArrayFacts
<1>1. CASE /\ Array!ValidIndex(i, dNumEntries) /\ dResult' = <<dBuffer[i]>>
           /\ UNCHANGED <<Array!memory, dStatus>>
  <2>1. /\ dBuffer' = dBuffer /\ dMaxNum' = dMaxNum /\ dNumEntries' = dNumEntries
        /\ dStatus' = dStatus
    BY <1>1 DEF Array!memory
  <2>2. i \in Nat /\ i < dNumEntries /\ i + 1 \in 1 .. dNumEntries
    BY <1>1 DEF Array!ValidIndex
  <2>3. IsRead(<<dBuffer[i]>>, Block(dBuffer, dNumEntries), i + 1, 1)
    BY <2>2, BlockReadOne
  <2>4. Array!Entries!Read(i + 1, 1)
    BY <1>1, <2>1, <2>3 DEF IsRead, Array!Entries!Read, Block
  <2>5. ArrayInv'
    BY <2>1 DEF ArrayInv, Array!TypeOK
  <2> QED
    BY <2>2, <2>4, <2>5 DEF Array!Entries!Next, Block
<1> QED
  BY <1>1, ArrayError DEF Array!Read

LEMMA ArrayAssign ==
    ASSUME ArrayInv, dStatus = "running", NEW i \in Int, NEW y \in Chars, Array!Assign(i, y)
    PROVE  ArrayInv' /\ Array!Entries!Next
<1> USE ArrayFacts
<1>1. /\ dBuffer' = [dBuffer EXCEPT ![i] = y] /\ dResult' = <<i + 1, 1, y>>
      /\ dMaxNum' = dMaxNum /\ dNumEntries' = dNumEntries /\ dStatus' = dStatus
      /\ i \in Nat /\ i < dNumEntries /\ i + 1 \in 1 .. dNumEntries
  BY DEF Array!Assign, Array!ValidIndex
<1>2. \A j \in 0 .. dNumEntries - 1 : dBuffer'[j] = IF j = i THEN y ELSE dBuffer[j]
  BY <1>1
<1>3. /\ HoldsBlock(dBuffer', dNumEntries)
      /\ IsWrite(Block(dBuffer', dNumEntries), Block(dBuffer, dNumEntries), i + 1, 1, y)
  BY <1>1, <1>2, BlockWriteOne
<1>4. dBuffer' \in [0 .. dMaxNum - 1 -> Array!Cell]
  BY <1>1
<1>5. ArrayInv'
  BY <1>1, <1>3, <1>4 DEF ArrayInv, Array!TypeOK, Array!Slots
<1>6. Array!Entries!Write(i + 1, 1, y)
  BY <1>1, <1>3 DEF IsWrite, Array!Entries!Write, Block
<1> QED
  BY <1>1, <1>5, <1>6 DEF Array!Entries!Next, Block

LEMMA ArrayStep == ASSUME ArrayInv, Array!Next PROVE ArrayInv' /\ Array!Entries!Next
<1>0. dStatus = "running"
  BY DEF Array!Next
<1>1. CASE \E m \in -1 .. MaxEntries : Array!Reserve(m) \/ Array!SetNum(m)
  BY <1>0, <1>1, ArrayReserve, ArraySetNum
<1>2. CASE \E y \in Chars : Array!Push(y)
  BY <1>0, <1>2, ArrayPush
<1>3. CASE \E i \in Array!Slots(MaxEntries) : Array!PushOwn(i)
  <2>1. PICK i \in Array!Slots(MaxEntries) : Array!PushOwn(i)
    BY <1>3
  <2>2. i \in 0 .. dNumEntries - 1
    BY <2>1, ArrayFacts DEF Array!PushOwn, Array!ValidIndex, Array!Slots
  <2>3. dBuffer[i] \in Chars /\ Array!Push(dBuffer[i])
    BY <2>1, <2>2, ArrayFacts DEF HoldsBlock, Array!PushOwn
  <2> QED
    BY <1>0, <2>3, ArrayPush
<1>4. CASE Array!Pop
  BY <1>0, <1>4, ArrayPop
<1>5. CASE \E i \in -1 .. MaxEntries : Array!Read(i)
  BY <1>0, <1>5, ArrayRead
<1>6. CASE \E i \in Array!Slots(MaxEntries), y \in Chars : Array!Assign(i, y)
  BY <1>0, <1>6, ArrayAssign DEF Array!Slots
<1> QED
  BY <1>1, <1>2, <1>3, <1>4, <1>5, <1>6 DEF Array!Next


-----------------------------------------------------------------------------
(* AlignedArray: as DynamicArray; where the buffer lies is said further down. *)
AlignInv == Align!TypeOK /\ HoldsBlock(data, aNumEntries)

LEMMA AlignFacts ==
    ASSUME AlignInv
    PROVE  /\ aMaxNum \in Nat /\ aNumEntries \in 0 .. aMaxNum /\ aNumEntries \in Nat
           /\ data \in [0 .. aMaxNum - 1 -> Align!Cell]
           /\ HoldsBlock(data, aNumEntries)
           /\ Len(Block(data, aNumEntries)) = aNumEntries
           /\ Junk \in Align!Cell /\ Zero \in Align!Cell /\ Chars \subseteq Align!Cell
           /\ ElementsPerVector \in Nat /\ ElementsPerVector > 0
<1>1. /\ aMaxNum \in Nat /\ aNumEntries \in 0 .. aMaxNum /\ aNumEntries \in Nat
      /\ data \in [0 .. aMaxNum - 1 -> Align!Cell]
      /\ HoldsBlock(data, aNumEntries)
  BY DEF AlignInv, Align!TypeOK, Align!Slots
<1>2. Len(Block(data, aNumEntries)) = aNumEntries
  BY <1>1, BlockIsSeq DEF IsBlock
<1> QED
  BY <1>1, <1>2, ObjectsAreRight, VectorAssumption DEF Align!Cell

LEMMA AlignInitOK == ASSUME Align!Init PROVE AlignInv /\ Align!Entries!Init
<1> USE ObjectsAreRight
<1>1. Align!TypeOK /\ HoldsBlock(data, aNumEntries)
  BY DEF Align!Init, Align!TypeOK, Align!Slots, Align!Cell, Align!NullBuffer, HoldsBlock
<1>2. [i \in 1 .. aNumEntries |-> data[i - 1]] = <<>>
  BY DEF Align!Init
<1>3. <<>> \in Seq({Zero})
  OBVIOUS
<1> QED
  BY <1>1, <1>2, <1>3 DEF AlignInv, Align!Entries!Init, Align!Init

LEMMA AlignError ==
    ASSUME AlignInv, Align!Error, aStatus = "running" PROVE AlignInv' /\ Align!Entries!Next
<1>1. /\ data' = data /\ aMaxNum' = aMaxNum /\ aNumEntries' = aNumEntries
      /\ aResult' = aResult /\ aStatus' = "exited"
  BY DEF Align!Error, Align!memory
<1>2. AlignInv'
  BY <1>1 DEF AlignInv, Align!TypeOK
<1>3. Align!Entries!Exit
  BY <1>1 DEF Align!Entries!Exit
<1> QED
  BY <1>2, <1>3 DEF Align!Entries!Next

LEMMA AlignSetsNum ==
    ASSUME AlignInv, aStatus = "running", aStatus' = aStatus, aResult' = <<>>,
           NEW m \in Nat, aNumEntries' = m, Align!TypeOK',
           \A i \in 0 .. m - 1 : data'[i] = IF i < aNumEntries THEN data[i] ELSE Zero
    PROVE  AlignInv' /\ Align!Entries!Next
<1>1. /\ HoldsBlock(data', m) /\ Len(Block(data', m)) = m
      /\ Block(data', m) = [i \in 1 .. m |-> IF i <= Len(Block(data, aNumEntries))
                                             THEN Block(data, aNumEntries)[i] ELSE Zero]
  BY AlignFacts, BlockSetNum
<1>2. AlignInv'
  BY <1>1 DEF AlignInv
<1>3. Block(data, aNumEntries)'
         = [i \in 1 .. Len(Block(data, aNumEntries)') |->
              IF i <= Len(Block(data, aNumEntries)) THEN Block(data, aNumEntries)[i] ELSE Zero]
  BY <1>1
<1>4. Align!Entries!Next
  BY <1>3 DEF Align!Entries!Next, Align!Entries!SetNum, Block
<1> QED
  BY <1>2, <1>4

LEMMA AlignReserve ==
    ASSUME AlignInv, aStatus = "running", NEW m \in Int, Align!Reserve(m)
    PROVE  AlignInv' /\ Align!Entries!Next
<1> USE AlignFacts
<1>1. CASE /\ m = 0 /\ data' = Align!NullBuffer /\ aMaxNum' = 0 /\ aNumEntries' = 0
           /\ aResult' = <<>> /\ UNCHANGED aStatus
  <2>1. Align!TypeOK'
    BY <1>1 DEF Align!TypeOK, Align!Slots, Align!NullBuffer
  <2>2. \A i \in 0 .. 0 - 1 : data'[i] = IF i < aNumEntries THEN data[i] ELSE Zero
    OBVIOUS
  <2> QED
    BY <1>1, <2>1, <2>2, AlignSetsNum
<1>2. CASE aResult' = <<>> /\ UNCHANGED <<Align!memory, aStatus>>
  <2>1. data' = data /\ aMaxNum' = aMaxNum /\ aNumEntries' = aNumEntries
    BY <1>2 DEF Align!memory
  <2>2. Align!TypeOK'
    BY <1>2, <2>1 DEF AlignInv, Align!TypeOK
  <2>3. \A i \in 0 .. aNumEntries - 1 :
           data'[i] = IF i < aNumEntries THEN data[i] ELSE Zero
    BY <2>1
  <2> QED
    BY <1>2, <2>1, <2>2, <2>3, AlignSetsNum
<1>3. CASE /\ m > aMaxNum /\ data' = Align!Moved(m) /\ aMaxNum' = m
           /\ aResult' = <<>> /\ UNCHANGED <<aNumEntries, aStatus>>
  <2>1. data' \in [0 .. m - 1 -> Align!Cell]
    BY <1>3 DEF Align!Moved, Align!Slots
  <2>2. m \in Nat /\ aNumEntries \in 0 .. m
    BY <1>3
  <2>3. Align!TypeOK'
    BY <1>3, <2>1, <2>2 DEF Align!TypeOK, Align!Slots
  <2>4. \A i \in 0 .. aNumEntries - 1 :
           data'[i] = IF i < aNumEntries THEN data[i] ELSE Zero
    BY <1>3, <2>2 DEF Align!Moved, Align!Slots
  <2> QED
    BY <1>3, <2>3, <2>4, AlignSetsNum
<1> QED
  BY <1>1, <1>2, <1>3, AlignError DEF Align!Reserve, Align!Allocate

LEMMA AlignSetNum ==
    ASSUME AlignInv, aStatus = "running", NEW m \in Int, Align!SetNum(m)
    PROVE  AlignInv' /\ Align!Entries!Next
<1> USE AlignFacts
<1>1. CASE /\ 0 <= m /\ m <= aMaxNum /\ data' = Align!Cleared(data, m)
           /\ aNumEntries' = m /\ aResult' = <<>> /\ UNCHANGED <<aMaxNum, aStatus>>
  <2>1. data' \in [0 .. aMaxNum - 1 -> Align!Cell]
    BY <1>1 DEF Align!Cleared
  <2>2. m \in Nat /\ m \in 0 .. aMaxNum
    BY <1>1
  <2>3. Align!TypeOK'
    BY <1>1, <2>1, <2>2 DEF Align!TypeOK, Align!Slots
  <2>4. \A i \in 0 .. m - 1 : data'[i] = IF i < aNumEntries THEN data[i] ELSE Zero
    BY <1>1, <2>2 DEF Align!Cleared
  <2> QED
    BY <1>1, <2>2, <2>3, <2>4, AlignSetsNum
<1>2. CASE /\ m > aMaxNum /\ data' = Align!Cleared(Align!Moved(m), m) /\ aMaxNum' = m
           /\ aNumEntries' = m /\ aResult' = <<>> /\ UNCHANGED aStatus
  <2>1. Align!Moved(m) \in [0 .. m - 1 -> Align!Cell]
    BY <1>2 DEF Align!Moved, Align!Slots
  <2>2. data' \in [0 .. m - 1 -> Align!Cell]
    BY <1>2, <2>1 DEF Align!Cleared
  <2>3. m \in Nat /\ m \in 0 .. m
    BY <1>2
  <2>4. Align!TypeOK'
    BY <1>2, <2>2, <2>3 DEF Align!TypeOK, Align!Slots
  <2>5. \A i \in 0 .. m - 1 : data'[i] = IF i < aNumEntries THEN data[i] ELSE Zero
    BY <1>2, <2>3 DEF Align!Cleared, Align!Moved, Align!Slots
  <2> QED
    BY <1>2, <2>3, <2>4, <2>5, AlignSetsNum
<1> QED
  BY <1>1, <1>2, AlignError DEF Align!SetNum, Align!Allocate

(* A read of k entries, one or a vector. *)
LEMMA AlignReads ==
    ASSUME AlignInv, aStatus = "running", NEW i \in Nat, NEW k \in {1, ElementsPerVector},
           i + k <= aNumEntries, aResult' = [j \in 1 .. k |-> data[i + j - 1]],
           UNCHANGED <<Align!memory, aStatus>>
    PROVE  AlignInv' /\ Align!Entries!Next
<1>1. /\ data' = data /\ aMaxNum' = aMaxNum /\ aNumEntries' = aNumEntries
      /\ aStatus' = aStatus
  BY DEF Align!memory
<1>2. k \in Nat /\ k > 0 /\ i + 1 \in 1 .. aNumEntries
  BY AlignFacts
<1>3. IsRead([j \in 1 .. k |-> data[i + j - 1]], Block(data, aNumEntries), i + 1, k)
  BY <1>2, AlignFacts, BlockRead
<1>4. Align!Entries!Read(i + 1, k)
  BY <1>1, <1>3 DEF IsRead, Align!Entries!Read, Block
<1>5. AlignInv'
  BY <1>1 DEF AlignInv, Align!TypeOK
<1>6. i + 1 \in 1 .. Len(Block(data, aNumEntries))
  BY <1>2, AlignFacts
<1> QED
  BY <1>4, <1>5, <1>6 DEF Align!Entries!Next, Block

LEMMA AlignRead ==
    ASSUME AlignInv, aStatus = "running", NEW i \in Int, Align!Read(i)
    PROVE  AlignInv' /\ Align!Entries!Next
<1>1. CASE /\ Align!ValidIndex(i, aNumEntries) /\ aResult' = <<data[i]>>
           /\ UNCHANGED <<Align!memory, aStatus>>
  <2>1. i \in Nat /\ i < aNumEntries
    BY <1>1, AlignFacts DEF Align!ValidIndex
  <2>2. PICK k \in {1, ElementsPerVector} : k = 1
    OBVIOUS
  <2>3. i + k <= aNumEntries
    BY <2>1, <2>2, AlignFacts
  <2>4. aResult' = [j \in 1 .. k |-> data[i + j - 1]]
    BY <1>1, <2>1, <2>2
  <2> QED
    BY <1>1, <2>1, <2>3, <2>4, AlignReads
<1> QED
  BY <1>1, AlignError DEF Align!Read

LEMMA AlignReadVect ==
    ASSUME AlignInv, aStatus = "running", NEW i \in -1 .. MaxEntries, Align!ReadVect(i)
    PROVE  AlignInv' /\ Align!Entries!Next
<1>1. CASE /\ Align!ValidVector(i) /\ UNCHANGED <<Align!memory, aStatus>>
           /\ aResult' = [k \in 1 .. ElementsPerVector |-> data[i + k - 1]]
  <2>1. i + ElementsPerVector <= aNumEntries
    BY <1>1, AlignFacts DEF Align!ValidVector, Align!ValidIndex
  <2>2. i \in Nat
    <3>1. 0 <= ElementsPerVector - 1 + i /\ i % ElementsPerVector = 0
      BY <1>1 DEF Align!ValidVector, Align!ValidIndex
    <3> QED
      BY <3>1, AlignFacts, ObjectsAreRight
  <2> QED
    BY <1>1, <2>1, <2>2, AlignReads
<1> QED
  BY <1>1, AlignError DEF Align!ReadVect

(* A write of k entries, one or a vector. *)
LEMMA AlignWrites ==
    ASSUME AlignInv, aStatus = "running", NEW i \in Nat, NEW k \in {1, ElementsPerVector},
           i + k <= aNumEntries, NEW y \in Chars,
           data' \in [0 .. aMaxNum - 1 -> Align!Cell],
           \A j \in 0 .. aNumEntries - 1 :
              data'[j] = IF i <= j /\ j < i + k THEN y ELSE data[j],
           aResult' = <<i + 1, k, y>>, UNCHANGED <<aMaxNum, aNumEntries, aStatus>>
    PROVE  AlignInv' /\ Align!Entries!Next
<1>1. k \in Nat /\ k > 0 /\ i + 1 \in 1 .. aNumEntries
  BY AlignFacts
<1>2. /\ HoldsBlock(data', aNumEntries)
      /\ IsWrite(Block(data', aNumEntries), Block(data, aNumEntries), i + 1, k, y)
  BY <1>1, AlignFacts, BlockWrite
<1>3. AlignInv'
  BY <1>2 DEF AlignInv, Align!TypeOK, Align!Slots
<1>4. Align!Entries!Write(i + 1, k, y)
  BY <1>2 DEF IsWrite, Align!Entries!Write, Block
<1>5. i + 1 \in 1 .. Len(Block(data, aNumEntries))
  BY <1>1, AlignFacts
<1> QED
  BY <1>3, <1>4, <1>5 DEF Align!Entries!Next, Block

LEMMA AlignAssign ==
    ASSUME AlignInv, aStatus = "running", NEW i \in Int, NEW y \in Chars, Align!Assign(i, y)
    PROVE  AlignInv' /\ Align!Entries!Next
<1>1. /\ data' = [data EXCEPT ![i] = y] /\ aResult' = <<i + 1, 1, y>>
      /\ UNCHANGED <<aMaxNum, aNumEntries, aStatus>>
      /\ i \in Nat /\ i < aNumEntries
  BY AlignFacts DEF Align!Assign, Align!ValidIndex
<1>2. data' \in [0 .. aMaxNum - 1 -> Align!Cell]
  BY <1>1, AlignFacts
<1>3. PICK k \in {1, ElementsPerVector} : k = 1
  OBVIOUS
<1>4. /\ \A j \in 0 .. aNumEntries - 1 : data'[j] = IF i <= j /\ j < i + k THEN y ELSE data[j]
      /\ i + k <= aNumEntries
  BY <1>1, <1>3, AlignFacts
<1>5. aResult' = <<i + 1, k, y>>
  BY <1>1, <1>3
<1> QED
  BY <1>1, <1>2, <1>4, <1>5, AlignWrites

LEMMA AlignAssignVect ==
    ASSUME AlignInv, aStatus = "running", NEW i \in Align!Slots(MaxEntries), NEW y \in Chars,
           Align!AssignVect(i, y)
    PROVE  AlignInv' /\ Align!Entries!Next
<1>0. i \in Nat /\ MaxEntries \in Nat
  BY ObjectsAreRight DEF Align!Slots
<1>1. /\ i + ElementsPerVector <= aNumEntries
      /\ aResult' = <<i + 1, ElementsPerVector, y>>
      /\ UNCHANGED <<aMaxNum, aNumEntries, aStatus>>
  BY <1>0, AlignFacts DEF Align!AssignVect, Align!ValidVector, Align!ValidIndex
<1>2. data' = [s \in 0 .. aMaxNum - 1 |->
                  IF s \in i .. i + ElementsPerVector - 1 THEN y ELSE data[s]]
  BY AlignFacts DEF Align!AssignVect
<1>3. data' \in [0 .. aMaxNum - 1 -> Align!Cell]
  BY <1>2, AlignFacts
<1>4. \A j \in 0 .. aNumEntries - 1 :
         data'[j] = IF i <= j /\ j < i + ElementsPerVector THEN y ELSE data[j]
  BY <1>0, <1>2, AlignFacts
<1> QED
  BY <1>0, <1>1, <1>3, <1>4, AlignWrites

LEMMA AlignStep == ASSUME AlignInv, Align!Next PROVE AlignInv' /\ Align!Entries!Next
<1>0. aStatus = "running"
  BY DEF Align!Next
<1>1. CASE \E m \in -1 .. MaxEntries : Align!Reserve(m) \/ Align!SetNum(m)
  BY <1>0, <1>1, AlignReserve, AlignSetNum
<1>2. CASE \E i \in -1 .. MaxEntries : Align!Read(i) \/ Align!ReadVect(i)
  BY <1>0, <1>2, AlignRead, AlignReadVect
<1>3. CASE \E i \in Align!Slots(MaxEntries), y \in Chars : Align!Assign(i, y)
  BY <1>0, <1>3, AlignAssign DEF Align!Slots
<1>4. CASE \E i \in Align!Slots(MaxEntries), y \in Chars : Align!AssignVect(i, y)
  BY <1>0, <1>4, AlignAssignVect
<1> QED
  BY <1>1, <1>2, <1>3, <1>4 DEF Align!Next

-----------------------------------------------------------------------------
(* MixedPool: the bytes behind the data are zero, so that the pool can grow
   over them.                                                              *)
MixedInv == /\ Mixed!TypeOK
            /\ \A i \in DataSize .. BufferSize - 1 : buffer[i] = Zero

LEMMA RoundUp ==
    ASSUME NEW m \in Nat, NEW g \in Nat, g > 0
    PROVE  /\ Mixed!RoundedUp(m, g) \in Nat /\ Mixed!RoundedUp(m, g) >= m
           /\ Mixed!RoundedUp(m, g) % g = 0
<1> DEFINE y == m + g - 1
           q == y \div g
<1>1. y \in Nat
  OBVIOUS
<1>2. q \in Nat /\ y - g < q * g
  <2> HIDE DEF y
  <2> QED
    BY <1>1
<1>3. Mixed!RoundedUp(m, g) = q * g
  BY DEF Mixed!RoundedUp
<1> HIDE DEF q
<1>4. q * g \in Nat
  BY <1>2
<1>5. (q * g) % g = 0
  BY <1>2
<1>6. q * g >= m
  BY <1>2, <1>4
<1> QED
  BY <1>3, <1>4, <1>5, <1>6

LEMMA MixedFacts ==
    ASSUME MixedInv
    PROVE  /\ BufferSize \in Nat /\ DataSize \in Nat /\ DataSize <= BufferSize
           /\ mNumEntries \in Nat
           /\ BufferSize % Granule = 0 /\ Granule \in Nat /\ Granule > 0
           /\ buffer \in [0 .. BufferSize - 1 -> Chars]
           /\ \A i \in DataSize .. BufferSize - 1 : buffer[i] = Zero
           /\ HoldsBlock(buffer, DataSize) /\ Len(Block(buffer, DataSize)) = DataSize
           /\ Zero \in Chars /\ AllocateSpace \in Nat /\ MaxEntries \in Nat
<1>1. /\ BufferSize \in Nat /\ DataSize \in Nat /\ DataSize <= BufferSize
      /\ mNumEntries \in Nat
      /\ BufferSize % Granule = 0 /\ Granule \in Nat /\ Granule > 0
      /\ buffer \in [0 .. BufferSize - 1 -> Chars]
  BY GranuleAssumption DEF MixedInv, Mixed!TypeOK, Mixed!Slots
<1>2. HoldsBlock(buffer, DataSize)
  BY <1>1 DEF HoldsBlock
<1>3. Len(Block(buffer, DataSize)) = DataSize
  BY <1>1, <1>2, BlockIsSeq DEF IsBlock
<1> QED
  BY <1>1, <1>2, <1>3, ObjectsAreRight DEF MixedInv

LEMMA MixedInitOK == ASSUME Mixed!Init PROVE MixedInv /\ Mixed!Bytes!Init
<1> USE ObjectsAreRight, GranuleAssumption
<1>1. 0 % Granule = 0
  OBVIOUS
<1>2. MixedInv
  BY <1>1 DEF MixedInv, Mixed!Init, Mixed!TypeOK, Mixed!Slots, Mixed!NullBuffer
<1>3. [i \in 1 .. DataSize |-> buffer[i - 1]] = <<>>
  BY DEF Mixed!Init
<1>4. <<>> \in Seq({Zero})
  OBVIOUS
<1> QED
  BY <1>2, <1>3, <1>4 DEF Mixed!Bytes!Init, Mixed!Init

LEMMA MixedError ==
    ASSUME MixedInv, Mixed!Error, mStatus = "running" PROVE MixedInv' /\ Mixed!Bytes!Next
<1>1. /\ buffer' = buffer /\ BufferSize' = BufferSize /\ mNumEntries' = mNumEntries
      /\ DataSize' = DataSize /\ mResult' = mResult /\ mStatus' = "exited"
  BY DEF Mixed!Error, Mixed!memory
<1>2. MixedInv'
  BY <1>1 DEF MixedInv, Mixed!TypeOK
<1>3. Mixed!Bytes!Exit
  BY <1>1 DEF Mixed!Bytes!Exit
<1> QED
  BY <1>2, <1>3 DEF Mixed!Bytes!Next

(* A new buffer holds the old data and zeroes. *)
IsMoved(buf, m) == /\ buf \in [0 .. m - 1 -> Chars]
                   /\ \A i \in 0 .. DataSize - 1 : buf[i] = buffer[i]
                   /\ \A i \in DataSize .. m - 1 : buf[i] = Zero

LEMMA MixedMoves ==
    ASSUME MixedInv, NEW m \in Nat, m >= BufferSize PROVE IsMoved(Mixed!Moved(m), m)
<1> USE MixedFacts DEF Mixed!Moved, Mixed!Slots
<1>1. Mixed!Moved(m) \in [0 .. m - 1 -> Chars]
  OBVIOUS
<1>2. \A i \in 0 .. DataSize - 1 : Mixed!Moved(m)[i] = buffer[i]
  OBVIOUS
<1>3. \A i \in DataSize .. m - 1 : Mixed!Moved(m)[i] = Zero
  OBVIOUS
<1> QED
  BY <1>1, <1>2, <1>3 DEF IsMoved

LEMMA MixedStays == ASSUME MixedInv PROVE IsMoved(buffer, BufferSize)
BY MixedFacts DEF IsMoved

LEMMA MixedInvNext ==
    ASSUME MixedInv, NEW m \in Nat, BufferSize' = m, m % Granule = 0, DataSize' \in 0 .. m,
           mNumEntries' \in Nat, mStatus' = "running", buffer' \in [0 .. m - 1 -> Chars],
           \A i \in DataSize' .. m - 1 : buffer'[i] = Zero
    PROVE  MixedInv'
BY DEF MixedInv, Mixed!TypeOK, Mixed!Slots

(* The two ways in which the data changes its size: to m bytes, zeroes when
   there are more, or by size bytes of an object.                           *)
LEMMA MixedSetsSize ==
    ASSUME MixedInv, mStatus = "running", mStatus' = mStatus, mResult' = <<>>, MixedInv',
           \A i \in 0 .. DataSize' - 1 : buffer'[i] = IF i < DataSize THEN buffer[i] ELSE Zero
    PROVE  Mixed!Bytes!Next
<1>0. DataSize' \in Nat
  BY DEF MixedInv, Mixed!TypeOK
<1>1. /\ HoldsBlock(buffer', DataSize') /\ Len(Block(buffer', DataSize')) = DataSize'
      /\ Block(buffer', DataSize')
           = [i \in 1 .. DataSize' |-> IF i <= Len(Block(buffer, DataSize))
                                       THEN Block(buffer, DataSize)[i] ELSE Zero]
  BY <1>0, MixedFacts, BlockSetNum
<1>2. Block(buffer, DataSize)'
         = [i \in 1 .. Len(Block(buffer, DataSize)') |->
              IF i <= Len(Block(buffer, DataSize)) THEN Block(buffer, DataSize)[i] ELSE Zero]
  BY <1>1
<1> QED
  BY <1>2 DEF Mixed!Bytes!Next, Mixed!Bytes!SetNum, Block

LEMMA MixedPushes ==
    ASSUME MixedInv, mStatus = "running", mStatus' = mStatus, mResult' = <<DataSize>>,
           NEW size \in Sizes, NEW y \in Chars, DataSize' = DataSize + size,
           \A i \in 0 .. DataSize - 1 : buffer'[i] = buffer[i],
           \A i \in DataSize .. DataSize + size - 1 : buffer'[i] = y
    PROVE  Mixed!Bytes!Next
<1>0. size \in Nat
  BY GranuleAssumption
<1>1. IsPush(Block(buffer', DataSize + size), Block(buffer, DataSize), size, y)
  BY <1>0, MixedFacts, BlockPush
<1>2. Block(buffer', DataSize') = Block(buffer, DataSize) \o Copies(y, size)
  BY <1>1 DEF IsPush
<1>3. mResult' = <<Len(Block(buffer, DataSize))>>
  BY MixedFacts
<1>4. Mixed!Bytes!Push(y, size)
  BY <1>2, <1>3 DEF Mixed!Bytes!Push, Block, Copies
<1> QED
  BY <1>4 DEF Mixed!Bytes!Next

LEMMA MixedReserve ==
    ASSUME MixedInv, mStatus = "running", NEW size \in Int, Mixed!ReserveSize(size)
    PROVE  MixedInv' /\ Mixed!Bytes!Next
<1> USE MixedFacts
<1>1. CASE /\ size = 0 /\ buffer' = Mixed!NullBuffer /\ mNumEntries' = 0 /\ DataSize' = 0
           /\ BufferSize' = 0 /\ mResult' = <<>> /\ UNCHANGED mStatus
  <2>1. 0 % Granule = 0
    OBVIOUS
  <2>2. MixedInv'
    BY <1>1, <2>1 DEF MixedInv, Mixed!TypeOK, Mixed!Slots, Mixed!NullBuffer
  <2> QED
    BY <1>1, <2>2, MixedSetsSize
<1>2. CASE mResult' = <<>> /\ UNCHANGED <<Mixed!memory, mStatus>>
  <2>1. /\ buffer' = buffer /\ BufferSize' = BufferSize /\ mNumEntries' = mNumEntries
        /\ DataSize' = DataSize /\ mStatus' = mStatus
    BY <1>2 DEF Mixed!memory
  <2>2. MixedInv'
    BY <2>1 DEF MixedInv, Mixed!TypeOK
  <2>3. \A i \in 0 .. DataSize' - 1 : buffer'[i] = IF i < DataSize THEN buffer[i] ELSE Zero
    BY <2>1
  <2> QED
    BY <1>2, <2>2, <2>3, MixedSetsSize
<1>3. CASE /\ size > BufferSize /\ Mixed!Grow(size) /\ mResult' = <<>>
           /\ UNCHANGED <<mNumEntries, DataSize, mStatus>>
  <2> DEFINE m == Mixed!RoundedUp(size, Granule)
  <2>1. buffer' = Mixed!Moved(m) /\ BufferSize' = m
    BY <1>3 DEF Mixed!Grow
  <2>2. size \in Nat /\ size >= BufferSize /\ BufferSize \in Nat
    BY <1>3
  <2>3. m \in Nat /\ m >= BufferSize /\ m % Granule = 0
    <3>1. m \in Nat /\ m >= size /\ m % Granule = 0
      BY <2>2, RoundUp
    <3> HIDE DEF m
    <3> QED
      BY <2>2, <3>1
  <2> HIDE DEF m
  <2>4. IsMoved(buffer', m)
    BY <2>1, <2>3, MixedMoves
  <2>5. MixedInv'
    BY <1>3, <2>1, <2>3, <2>4, MixedInvNext DEF IsMoved
  <2>6. \A i \in 0 .. DataSize' - 1 : buffer'[i] = IF i < DataSize THEN buffer[i] ELSE Zero
    BY <1>3, <2>4 DEF IsMoved
  <2> QED
    BY <1>3, <2>5, <2>6, MixedSetsSize
<1> QED
  BY <1>1, <1>2, <1>3, MixedError DEF Mixed!ReserveSize

LEMMA MixedSetDataSize ==
    ASSUME MixedInv, mStatus = "running", NEW size \in Int, Mixed!SetDataSize(size)
    PROVE  MixedInv' /\ Mixed!Bytes!Next
<1> USE MixedFacts
<1>1. CASE ~Mixed!Error
  <2>1. /\ size \in Nat /\ DataSize' = size /\ mResult' = <<>> /\ mNumEntries' = mNumEntries
        /\ mStatus' = mStatus
    BY <1>1 DEF Mixed!SetDataSize
  <2>2. CASE size > BufferSize /\ Mixed!Grow(Mixed!RoundedUp(size + AllocateSpace, Granule))
    <3> DEFINE m1 == Mixed!RoundedUp(size + AllocateSpace, Granule)
               m == Mixed!RoundedUp(m1, Granule)
    <3>1. size + AllocateSpace \in Nat
      BY <2>1
    <3>2. m1 \in Nat /\ m1 >= size + AllocateSpace
      BY <3>1, RoundUp
    <3>3. buffer' = Mixed!Moved(m) /\ BufferSize' = m
      BY <2>2 DEF Mixed!Grow
    <3> HIDE DEF m1
    <3>4. m \in Nat /\ m >= m1 /\ m % Granule = 0
      BY <3>2, RoundUp
    <3> HIDE DEF m
    <3>5. m >= BufferSize /\ size \in 0 .. m
      BY <2>1, <2>2, <3>2, <3>4
    <3>6. IsMoved(buffer', m)
      BY <3>3, <3>4, <3>5, MixedMoves
    <3>7. \A i \in size .. m - 1 : buffer'[i] = Zero
      BY <2>2, <2>1, <3>6 DEF IsMoved
    <3>8. MixedInv'
      BY <2>1, <3>3, <3>4, <3>5, <3>6, <3>7, MixedInvNext DEF IsMoved
    <3>9. \A i \in 0 .. DataSize' - 1 : buffer'[i] = IF i < DataSize THEN buffer[i] ELSE Zero
      BY <2>1, <3>4, <3>5, <3>6 DEF IsMoved
    <3> QED
      BY <2>1, <3>8, <3>9, MixedSetsSize
  <2>3. CASE /\ size <= BufferSize /\ size < DataSize /\ BufferSize' = BufferSize
             /\ buffer' = Mixed!Filled(buffer, size, DataSize - size, Zero)
    <3>1. buffer' = [i \in 0 .. BufferSize - 1 |->
                        IF size <= i /\ i < size + (DataSize - size) THEN Zero ELSE buffer[i]]
      BY <2>3 DEF Mixed!Filled
    <3>2. buffer' \in [0 .. BufferSize - 1 -> Chars]
      BY <3>1
    <3>3. \A i \in size .. BufferSize - 1 : buffer'[i] = Zero
      BY <2>1, <2>3, <3>1
    <3>4. \A i \in 0 .. size - 1 : buffer'[i] = buffer[i] /\ i < DataSize
      BY <2>1, <2>3, <3>1
    <3>5. MixedInv'
      <4>1. /\ DataSize' \in 0 .. BufferSize
            /\ BufferSize' = BufferSize /\ BufferSize % Granule = 0 /\ BufferSize \in Nat
            /\ mNumEntries' \in Nat /\ mStatus' = "running"
        BY <2>1, <2>3
      <4>2. \A i \in DataSize' .. BufferSize - 1 : buffer'[i] = Zero
        BY <2>1, <3>3
      <4> QED
        BY <3>2, <4>1, <4>2, MixedInvNext
    <3> QED
      BY <2>1, <3>4, <3>5, MixedSetsSize
  <2>4. CASE DataSize <= size /\ size <= BufferSize /\ UNCHANGED <<buffer, BufferSize>>
    <3>1. \A i \in size .. BufferSize - 1 : buffer'[i] = Zero
      BY <2>1, <2>4
    <3>2. MixedInv'
      <4>1. /\ DataSize' \in 0 .. BufferSize /\ buffer' \in [0 .. BufferSize - 1 -> Chars]
            /\ BufferSize' = BufferSize /\ BufferSize % Granule = 0 /\ BufferSize \in Nat
            /\ mNumEntries' \in Nat /\ mStatus' = "running"
        BY <2>1, <2>4
      <4>2. \A i \in DataSize' .. BufferSize - 1 : buffer'[i] = Zero
        BY <2>1, <3>1
      <4> QED
        BY <4>1, <4>2, MixedInvNext
    <3>3. \A i \in 0 .. DataSize' - 1 : buffer'[i] = IF i < DataSize THEN buffer[i] ELSE Zero
      BY <2>1, <2>4
    <3> QED
      BY <2>1, <3>2, <3>3, MixedSetsSize
  <2> QED
    BY <1>1, <2>2, <2>3, <2>4 DEF Mixed!SetDataSize
<1> QED
  BY <1>1, MixedError

(* What a buffer reads after size bytes from d on are written. *)
LEMMA Written ==
    ASSUME NEW m \in Nat, NEW d \in Nat, NEW size \in Nat, d + size <= m, NEW y, NEW buf, NEW new,
           new = [i \in 0 .. m - 1 |-> IF d <= i /\ i < d + size THEN y ELSE buf[i]]
    PROVE  /\ \A i \in 0 .. d - 1 : new[i] = buf[i]
           /\ \A i \in d .. d + size - 1 : new[i] = y
           /\ \A i \in d + size .. m - 1 : new[i] = buf[i]
OBVIOUS

(* Where a push or Align finds its place: a buffer of m bytes, the old one or
   a new one, with the old data and zeroes behind.                            *)
LEMMA MixedGrows ==
    ASSUME MixedInv, NEW NewOffset \in Nat, NewOffset >= DataSize, NewOffset > BufferSize
    PROVE  LET m == Mixed!RoundedUp(NewOffset * 2 + AllocateSpace, Granule)
           IN  /\ m \in Nat /\ m % Granule = 0 /\ NewOffset <= m
               /\ IsMoved(Mixed!Moved(m), m)
<1> DEFINE m == Mixed!RoundedUp(NewOffset * 2 + AllocateSpace, Granule)
<1>1. NewOffset * 2 + AllocateSpace \in Nat
  BY MixedFacts
<1>2. m \in Nat /\ m >= NewOffset * 2 + AllocateSpace /\ m % Granule = 0
  BY <1>1, MixedFacts, RoundUp
<1> HIDE DEF m
<1>3. m >= BufferSize /\ NewOffset <= m
  BY <1>2, MixedFacts
<1>4. IsMoved(Mixed!Moved(m), m)
  BY <1>2, <1>3, MixedMoves
<1> QED
  BY <1>2, <1>3, <1>4 DEF m

LEMMA MixedPushIn ==
    ASSUME MixedInv, mStatus = "running", mStatus' = mStatus, mResult' = <<DataSize>>,
           NEW size \in Sizes, NEW y \in Chars, DataSize' = DataSize + size,
           mNumEntries' = IF size = 0 THEN mNumEntries ELSE mNumEntries + 1,
           NEW m \in Nat, m % Granule = 0, DataSize + size <= m, BufferSize' = m,
           NEW buf, IsMoved(buf, m), buffer' = Mixed!Filled(buf, DataSize, size, y)
    PROVE  MixedInv' /\ Mixed!Bytes!Next
<1>0. size \in Nat /\ DataSize \in Nat /\ mNumEntries \in Nat
  BY MixedFacts, GranuleAssumption
<1>1. /\ buf \in [0 .. m - 1 -> Chars]
      /\ \A i \in 0 .. DataSize - 1 : buf[i] = buffer[i]
      /\ \A i \in DataSize .. m - 1 : buf[i] = Zero
  BY DEF IsMoved
<1>2. buffer' = [i \in 0 .. m - 1 |->
                   IF DataSize <= i /\ i < DataSize + size THEN y ELSE buf[i]]
  BY <1>1 DEF Mixed!Filled
<1>3. /\ \A i \in 0 .. DataSize - 1 : buffer'[i] = buf[i]
      /\ \A i \in DataSize .. DataSize + size - 1 : buffer'[i] = y
      /\ \A i \in DataSize + size .. m - 1 : buffer'[i] = buf[i]
  BY <1>0, <1>2, Written
<1>4. buffer' \in [0 .. m - 1 -> Chars]
  BY <1>1, <1>2
<1>5. \A i \in DataSize' .. m - 1 : buffer'[i] = Zero
  <2> SUFFICES ASSUME NEW i \in DataSize + size .. m - 1 PROVE buffer'[i] = Zero
    OBVIOUS
  <2>1. i \in DataSize .. m - 1
    BY <1>0
  <2> QED
    BY <1>1, <1>3, <2>1
<1>6. MixedInv'
  <2>1. DataSize' \in 0 .. m /\ mNumEntries' \in Nat /\ mStatus' = "running"
    BY <1>0
  <2> QED
    BY <1>4, <1>5, <2>1, MixedInvNext
<1>7. \A i \in 0 .. DataSize - 1 : buffer'[i] = buffer[i]
  BY <1>1, <1>3
<1> QED
  BY <1>3, <1>6, <1>7, MixedPushes

LEMMA MixedPush ==
    ASSUME MixedInv, mStatus = "running", NEW size \in Sizes, NEW y \in Chars,
           Mixed!Push(y, size)
    PROVE  MixedInv' /\ Mixed!Bytes!Next
<1> DEFINE NewOffset == DataSize + size
           m == Mixed!RoundedUp(NewOffset * 2 + AllocateSpace, Granule)
<1>0. NewOffset \in Nat /\ NewOffset >= DataSize
  BY MixedFacts, GranuleAssumption
<1>1. CASE ~Mixed!Error
  <2>1. /\ DataSize' = NewOffset /\ mResult' = <<DataSize>> /\ mStatus' = mStatus
        /\ mNumEntries' = IF size = 0 THEN mNumEntries ELSE mNumEntries + 1
    BY <1>1 DEF Mixed!Push
  <2>2. CASE /\ NewOffset > BufferSize /\ BufferSize' = m
             /\ buffer' = Mixed!Filled(Mixed!Moved(m), DataSize, size, y)
    <3>1. m \in Nat /\ m % Granule = 0 /\ NewOffset <= m /\ IsMoved(Mixed!Moved(m), m)
      BY <1>0, <2>2, MixedGrows
    <3> HIDE DEF m
    <3> QED
      BY <2>1, <2>2, <3>1, MixedPushIn
  <2>3. CASE /\ NewOffset <= BufferSize /\ BufferSize' = BufferSize
             /\ buffer' = Mixed!Filled(buffer, DataSize, size, y)
    <3>1. BufferSize \in Nat /\ BufferSize % Granule = 0 /\ IsMoved(buffer, BufferSize)
      BY MixedFacts, MixedStays
    <3> QED
      BY <2>1, <2>3, <3>1, MixedPushIn
  <2> QED
    BY <1>1, <2>2, <2>3 DEF Mixed!Push
<1> QED
  BY <1>1, MixedError

LEMMA MixedPushNull ==
    ASSUME MixedInv, mStatus = "running", NEW size \in Sizes, Mixed!PushNull(size)
    PROVE  MixedInv' /\ Mixed!Bytes!Next
<1> USE MixedFacts
<1> DEFINE NewOffset == DataSize + size
           m == Mixed!RoundedUp(NewOffset * 2 + AllocateSpace, Granule)
<1>0. NewOffset \in Nat /\ NewOffset >= DataSize /\ size \in Nat
  BY GranuleAssumption
<1>1. /\ DataSize' = NewOffset /\ mResult' = <<DataSize>> /\ mStatus' = mStatus
      /\ mNumEntries' = IF size = 0 THEN mNumEntries ELSE mNumEntries + 1
  BY DEF Mixed!PushNull
<1>2. \E k \in Nat : /\ BufferSize' = k /\ k % Granule = 0 /\ NewOffset <= k
                     /\ IsMoved(buffer', k)
  <2>1. CASE NewOffset > BufferSize
    <3>1. buffer' = Mixed!Moved(m) /\ BufferSize' = m
      BY <2>1 DEF Mixed!PushNull
    <3>2. m \in Nat /\ m % Granule = 0 /\ NewOffset <= m /\ IsMoved(Mixed!Moved(m), m)
      BY <1>0, <2>1, MixedGrows
    <3> HIDE DEF m
    <3> QED
      BY <3>1, <3>2
  <2>2. CASE ~(NewOffset > BufferSize)
    <3>1. buffer' = buffer /\ BufferSize' = BufferSize
      BY <2>2 DEF Mixed!PushNull
    <3> QED
      BY <1>0, <2>2, <3>1, MixedStays
  <2> QED
    BY <2>1, <2>2
<1>3. PICK k \in Nat : /\ BufferSize' = k /\ k % Granule = 0 /\ NewOffset <= k
                       /\ IsMoved(buffer', k)
  BY <1>2
<1>4. buffer' = Mixed!Filled(buffer', DataSize, size, Zero)
  <2>1. /\ buffer' \in [0 .. k - 1 -> Chars]
        /\ \A i \in DataSize .. k - 1 : buffer'[i] = Zero
    BY <1>3 DEF IsMoved
  <2>2. \A i \in 0 .. k - 1 :
           buffer'[i] = IF DataSize <= i /\ i < DataSize + size THEN Zero ELSE buffer'[i]
    BY <2>1
  <2> QED
    BY <2>1, <2>2 DEF Mixed!Filled
<1> QED
  BY <1>1, <1>3, <1>4, MixedPushIn

LEMMA MixedAlign ==
    ASSUME MixedInv, mStatus = "running", NEW g \in Nat, g > 0, Mixed!Align(g)
    PROVE  MixedInv' /\ Mixed!Bytes!Next
<1> USE MixedFacts
<1> DEFINE NewOffset == Mixed!RoundedUp(DataSize, g)
           m == Mixed!RoundedUp(NewOffset * 2 + AllocateSpace, Granule)
<1>0. NewOffset \in Nat /\ NewOffset >= DataSize
  BY RoundUp
<1>1. /\ DataSize' = NewOffset /\ mResult' = <<>> /\ mStatus' = mStatus
      /\ mNumEntries' = mNumEntries
  BY DEF Mixed!Align
<1>2. NewOffset > BufferSize => buffer' = Mixed!Moved(m) /\ BufferSize' = m
  BY DEF Mixed!Align, Mixed!Grow
<1>3. ~(NewOffset > BufferSize) => buffer' = buffer /\ BufferSize' = BufferSize
  BY DEF Mixed!Align
<1> HIDE DEF NewOffset
<1>4. \E k \in Nat : /\ BufferSize' = k /\ k % Granule = 0 /\ NewOffset <= k
                     /\ IsMoved(buffer', k)
  <2>1. CASE NewOffset > BufferSize
    <3>1. m \in Nat /\ m % Granule = 0 /\ NewOffset <= m /\ IsMoved(Mixed!Moved(m), m)
      BY <1>0, <2>1, MixedGrows
    <3> HIDE DEF m
    <3> QED
      BY <1>2, <2>1, <3>1
  <2>2. CASE ~(NewOffset > BufferSize)
    BY <1>0, <1>3, <2>2, MixedStays
  <2> QED
    BY <2>1, <2>2
<1>5. PICK k \in Nat : /\ BufferSize' = k /\ k % Granule = 0 /\ NewOffset <= k
                       /\ IsMoved(buffer', k)
  BY <1>4
<1>6. \A i \in NewOffset .. k - 1 : buffer'[i] = Zero
  BY <1>0, <1>5 DEF IsMoved
<1>7. MixedInv'
  BY <1>0, <1>1, <1>5, <1>6, MixedInvNext DEF IsMoved
<1>8. \A i \in 0 .. DataSize' - 1 : buffer'[i] = IF i < DataSize THEN buffer[i] ELSE Zero
  BY <1>0, <1>1, <1>5 DEF IsMoved
<1> QED
  BY <1>1, <1>7, <1>8, MixedSetsSize

LEMMA MixedGet ==
    ASSUME MixedInv, mStatus = "running", NEW i \in Nat, NEW size \in Sizes, Mixed!Get(i, size)
    PROVE  MixedInv' /\ Mixed!Bytes!Next
<1> USE MixedFacts
<1>1. CASE /\ i + size <= DataSize /\ i < DataSize
           /\ mResult' = [k \in 1 .. size |-> buffer[i + k - 1]]
           /\ UNCHANGED <<Mixed!memory, mStatus>>
  <2>1. /\ buffer' = buffer /\ BufferSize' = BufferSize /\ mNumEntries' = mNumEntries
        /\ DataSize' = DataSize /\ mStatus' = mStatus
    BY <1>1 DEF Mixed!memory
  <2>2. size \in Nat /\ i + 1 \in 1 .. Len(Block(buffer, DataSize))
    BY <1>1, GranuleAssumption
  <2>3. IsRead([k \in 1 .. size |-> buffer[i + k - 1]], Block(buffer, DataSize), i + 1, size)
    BY <1>1, <2>2, BlockRead
  <2>4. Mixed!Bytes!Read(i + 1, size)
    BY <1>1, <2>1, <2>3 DEF IsRead, Mixed!Bytes!Read, Block
  <2>5. MixedInv'
    BY <2>1 DEF MixedInv, Mixed!TypeOK
  <2> QED
    BY <2>2, <2>4, <2>5 DEF Mixed!Bytes!Next, Block
<1> QED
  BY <1>1, MixedError DEF Mixed!Get

LEMMA MixedAssign ==
    ASSUME MixedInv, mStatus = "running", NEW i \in Nat, NEW size \in Sizes, NEW y \in Chars,
           Mixed!Assign(i, size, y)
    PROVE  MixedInv' /\ Mixed!Bytes!Next
<1> USE MixedFacts
<1>1. /\ i + size <= DataSize /\ i < DataSize /\ mResult' = <<i + 1, size, y>>
      /\ BufferSize' = BufferSize /\ mNumEntries' = mNumEntries /\ DataSize' = DataSize
      /\ mStatus' = mStatus
  BY DEF Mixed!Assign
<1>2. size \in Nat /\ i + 1 \in 1 .. Len(Block(buffer, DataSize))
  BY <1>1, GranuleAssumption
<1>3. buffer' = [j \in 0 .. BufferSize - 1 |->
                   IF i <= j /\ j < i + size THEN y ELSE buffer[j]]
  BY DEF Mixed!Assign, Mixed!Filled
<1>4. \A j \in 0 .. DataSize - 1 : buffer'[j] = IF i <= j /\ j < i + size THEN y ELSE buffer[j]
  BY <1>3
<1>5. IsWrite(Block(buffer', DataSize), Block(buffer, DataSize), i + 1, size, y)
  BY <1>1, <1>2, <1>4, BlockWrite
<1>6. Mixed!Bytes!Write(i + 1, size, y)
  BY <1>1, <1>5 DEF IsWrite, Mixed!Bytes!Write, Block
<1>7. buffer' \in [0 .. BufferSize - 1 -> Chars]
  BY <1>3
<1>8. ASSUME NEW j \in DataSize .. BufferSize - 1 PROVE buffer'[j] = Zero
  <2>1. j \in 0 .. BufferSize - 1 /\ ~(j < i + size) /\ buffer[j] = Zero
    BY <1>1, <1>2
  <2>2. buffer'[j] = IF i <= j /\ j < i + size THEN y ELSE buffer[j]
    BY <1>3, <2>1
  <2> QED
    BY <2>1, <2>2
<1>9. MixedInv'
  <2>1. /\ DataSize' \in 0 .. BufferSize /\ BufferSize \in Nat /\ BufferSize' = BufferSize
        /\ BufferSize % Granule = 0 /\ mNumEntries' \in Nat /\ mStatus' = "running"
    BY <1>1
  <2>2. \A j \in DataSize' .. BufferSize - 1 : buffer'[j] = Zero
    BY <1>1, <1>8
  <2> QED
    BY <1>7, <2>1, <2>2, MixedInvNext
<1> QED
  BY <1>2, <1>6, <1>9 DEF Mixed!Bytes!Next, Block

LEMMA MixedStep == ASSUME MixedInv, Mixed!Next PROVE MixedInv' /\ Mixed!Bytes!Next
<1>0. mStatus = "running"
  BY DEF Mixed!Next
<1>1. CASE \E size \in -1 .. MaxEntries : Mixed!ReserveSize(size) \/ Mixed!SetDataSize(size)
  BY <1>0, <1>1, MixedReserve, MixedSetDataSize
<1>2. CASE \E i \in Mixed!Slots(MaxEntries) : Mixed!PushOwn(i)
  <2>1. PICK i \in Mixed!Slots(MaxEntries) : Mixed!PushOwn(i)
    BY <1>2
  <2>2. i \in 0 .. DataSize - 1
    BY <2>1, MixedFacts DEF Mixed!PushOwn, Mixed!ValidIndex, Mixed!Slots
  <2>3. buffer[i] \in Chars /\ Mixed!Push(buffer[i], 1) /\ 1 \in Sizes
    BY <2>1, <2>2, MixedFacts, GranuleAssumption DEF HoldsBlock, Mixed!PushOwn
  <2> QED
    BY <1>0, <2>3, MixedPush
<1>3. CASE \E g \in 1 .. MaxEntries : Mixed!Align(g)
  BY <1>0, <1>3, MixedAlign
<1>4. CASE \E size \in Sizes : Mixed!PushNull(size)
  BY <1>0, <1>4, MixedPushNull
<1>5. CASE \E size \in Sizes, y \in Chars : Mixed!Push(y, size)
  BY <1>0, <1>5, MixedPush
<1>6. CASE \E size \in Sizes, i \in Mixed!Slots(MaxEntries + 1) : Mixed!Get(i, size)
  BY <1>0, <1>6, MixedGet, ObjectsAreRight DEF Mixed!Slots
<1>7. CASE \E size \in Sizes, i \in Mixed!Slots(MaxEntries + 1), y \in Chars :
              Mixed!Assign(i, size, y)
  BY <1>0, <1>7, MixedAssign, ObjectsAreRight DEF Mixed!Slots
<1> QED
  BY <1>1, <1>2, <1>3, <1>4, <1>5, <1>6, <1>7 DEF Mixed!Next

-----------------------------------------------------------------------------
(* Where the buffer of an AlignedArray lies: at an address that is divisible by
   AlignBy, in memory with room for that.                                      *)
AlignPlaced == /\ bufferU \in Nat /\ bufferA \in Nat
               /\ bufferU <= bufferA /\ bufferA <= bufferU + AlignBy - 1
               /\ bufferA % AlignBy = 0
               /\ aMaxNum > 0 => allocated = aMaxNum * SizeTX + AlignBy - 1

LEMMA Divided ==
    ASSUME NEW y \in Nat, NEW g \in Nat, g > 0, y % g = 0
    PROVE  \E q \in Nat : y = q * g
<1>1. (y \div g) \in Nat /\ y = (y \div g) * g + (y % g)
  OBVIOUS
<1>2. y = (y \div g) * g
  BY <1>1
<1> QED
  BY <1>1, <1>2

LEMMA Multiple == ASSUME NEW q \in Nat, NEW g \in Nat, g > 0 PROVE (q * g) % g = 0
OBVIOUS

LEMMA Rest ==
    ASSUME NEW y \in Nat, NEW g \in Nat, g > 0
    PROVE  y % g \in 0 .. g - 1 /\ y - (y % g) \in Nat /\ (y - (y % g)) % g = 0
<1>1. (y \div g) \in Nat /\ y = (y \div g) * g + (y % g) /\ y % g \in Nat /\ y % g < g
  OBVIOUS
<1>2. (y \div g) * g \in Nat /\ y - (y % g) = (y \div g) * g
  BY <1>1
<1>3. ((y \div g) * g) % g = 0
  BY <1>1, Multiple
<1> QED
  BY <1>1, <1>2, <1>3

LEMMA RoundDown ==
    ASSUME NEW U \in Nat, NEW g \in Nat, g > 0, NEW y, y = U + g - 1
    PROVE  /\ y - (y % g) \in Nat /\ U <= y - (y % g) /\ y - (y % g) <= U + g - 1
           /\ (y - (y % g)) % g = 0
<1>1. y \in Nat
  OBVIOUS
<1>2. y % g \in 0 .. g - 1 /\ y - (y % g) \in Nat /\ (y - (y % g)) % g = 0
  BY <1>1, Rest
<1>3. \A r \in 0 .. g - 1 : U <= y - r /\ y - r <= U + g - 1
  OBVIOUS
<1> QED
  BY <1>2, <1>3

LEMMA AlignPlacedInit == ASSUME Align!Init PROVE AlignPlaced
<1> USE VectorAssumption
<1>1. 0 % AlignBy = 0
  OBVIOUS
<1> QED
  BY <1>1 DEF Align!Init, AlignPlaced

LEMMA AlignAllocates ==
    ASSUME NEW m \in Nat, Align!Allocate(m) PROVE AlignPlaced'
<1>1. PICK U \in Addresses : /\ bufferU' = U
                             /\ allocated' = m * SizeTX + AlignBy - 1
                             /\ bufferA' = Align!RoundedDown(U + AlignBy - 1)
                             /\ aMaxNum' = m
  BY DEF Align!Allocate
<1>2. U \in Nat /\ AlignBy \in Nat /\ AlignBy > 0
  BY VectorAssumption
<1>3. PICK y : y = U + AlignBy - 1
  OBVIOUS
<1>4. bufferA' = y - (y % AlignBy)
  BY <1>1, <1>3 DEF Align!RoundedDown
<1>5. /\ y - (y % AlignBy) \in Nat /\ U <= y - (y % AlignBy)
      /\ y - (y % AlignBy) <= U + AlignBy - 1
      /\ (y - (y % AlignBy)) % AlignBy = 0
  BY <1>2, <1>3, RoundDown
<1> QED
  BY <1>1, <1>2, <1>4, <1>5 DEF AlignPlaced

LEMMA AlignPlacedStep == ASSUME AlignInv, AlignPlaced, Align!Next PROVE AlignPlaced'
<1>0. /\ aMaxNum \in Nat
      /\ \A m \in Int : m > aMaxNum => m \in Nat
  BY AlignFacts
<1>1. CASE bufferU' = bufferU /\ bufferA' = bufferA /\ allocated' = allocated
           /\ aMaxNum' = aMaxNum
  BY <1>1 DEF AlignPlaced
<1>2. CASE \E m \in Int : m > aMaxNum /\ Align!Allocate(m)
  BY <1>0, <1>2, AlignAllocates
<1>3. CASE bufferU' = 0 /\ bufferA' = 0 /\ allocated' = 0 /\ aMaxNum' = 0
  <2>1. 0 % AlignBy = 0
    BY VectorAssumption
  <2> QED
    BY <1>3, <2>1, VectorAssumption DEF AlignPlaced
<1>4. ASSUME NEW m \in -1 .. MaxEntries, Align!Reserve(m) \/ Align!SetNum(m) PROVE AlignPlaced'
  <2>1. m \in Int
    BY ObjectsAreRight
  <2> QED
    BY <1>1, <1>2, <1>3, <1>4, <2>1
       DEF Align!Reserve, Align!SetNum, Align!Error, Align!memory
<1>5. ASSUME NEW i \in -1 .. MaxEntries, Align!Read(i) \/ Align!ReadVect(i) PROVE AlignPlaced'
  BY <1>1, <1>5 DEF Align!Read, Align!ReadVect, Align!Error, Align!memory
<1>6. ASSUME NEW i \in Align!Slots(MaxEntries), NEW y \in Chars,
             Align!Assign(i, y) \/ Align!AssignVect(i, y)
      PROVE  AlignPlaced'
  BY <1>1, <1>6 DEF Align!Assign, Align!AssignVect
<1> QED
  BY <1>4, <1>5, <1>6 DEF Align!Next

LEMMA VectorsFit == ASSUME AlignInv, AlignPlaced PROVE Align!VectorsInBuffer
<1> SUFFICES ASSUME NEW i \in Align!Slots(MaxEntries), Align!ValidVector(i)
             PROVE  /\ (bufferA + i * SizeTX) % (ElementsPerVector * SizeTX) = 0
                    /\ bufferU <= bufferA + i * SizeTX
                    /\ (bufferA + i * SizeTX) + ElementsPerVector * SizeTX <= bufferU + allocated
  BY DEF Align!VectorsInBuffer
<1> DEFINE size == ElementsPerVector * SizeTX
<1>0. /\ i \in Nat /\ i % ElementsPerVector = 0
      /\ i + ElementsPerVector <= aNumEntries
      /\ aNumEntries \in Nat /\ aMaxNum \in Nat /\ aNumEntries <= aMaxNum
      /\ ElementsPerVector \in Nat /\ ElementsPerVector > 0
      /\ SizeTX \in Nat /\ SizeTX > 0 /\ AlignBy \in Nat /\ AlignBy > 0
  BY AlignFacts, ObjectsAreRight, VectorAssumption
     DEF Align!Slots, Align!ValidVector, Align!ValidIndex
<1>1. /\ bufferU \in Nat /\ bufferA \in Nat
      /\ bufferU <= bufferA /\ bufferA <= bufferU + AlignBy - 1
      /\ bufferA % AlignBy = 0
      /\ allocated = aMaxNum * SizeTX + AlignBy - 1
  BY <1>0 DEF AlignPlaced
<1>2. size \in Nat /\ size > 0 /\ AlignBy % size = 0
  BY <1>0, VectorAssumption
<1>3. (bufferA + i * SizeTX) % size = 0
  <2>1. PICK q \in Nat : bufferA = q * AlignBy
    BY <1>0, <1>1, Divided
  <2>2. PICK r \in Nat : AlignBy = r * size
    <3> HIDE DEF size
    <3> QED
      BY <1>0, <1>2, Divided
  <2>3. PICK j \in Nat : i = j * ElementsPerVector
    BY <1>0, Divided
  <2>4. i * SizeTX = j * size
    BY <1>0, <2>3
  <2> HIDE DEF size
  <2>5. bufferA = (q * r) * size
    BY <1>2, <2>1, <2>2
  <2>6. bufferA + i * SizeTX = (q * r + j) * size
    BY <1>2, <2>4, <2>5
  <2>7. q * r + j \in Nat
    OBVIOUS
  <2> QED
    BY <1>2, <2>6, <2>7, Multiple
<1>4. i * SizeTX \in Nat
  BY <1>0
<1>5. i * SizeTX + size <= aMaxNum * SizeTX
  <2>1. i * SizeTX + size = (i + ElementsPerVector) * SizeTX
    BY <1>0
  <2>2. PICK k \in Nat : aMaxNum = (i + ElementsPerVector) + k
    <3>1. aMaxNum - (i + ElementsPerVector) \in Nat
      BY <1>0
    <3> QED
      BY <1>0, <3>1
  <2>3. aMaxNum * SizeTX = (i + ElementsPerVector) * SizeTX + k * SizeTX /\ k * SizeTX >= 0
    BY <1>0, <2>2
  <2>4. (i + ElementsPerVector) * SizeTX \in Nat /\ k * SizeTX \in Nat
    BY <1>0
  <2> QED
    BY <2>1, <2>3, <2>4
<1>6. aMaxNum * SizeTX \in Nat
  BY <1>0
<1> HIDE DEF size
<1>7. /\ bufferU <= bufferA + i * SizeTX
      /\ (bufferA + i * SizeTX) + size <= bufferU + allocated
  BY <1>0, <1>1, <1>2, <1>4, <1>5, <1>6
<1> QED
  BY <1>3, <1>7 DEF size

-----------------------------------------------------------------------------
(* The classes side by side. *)
ClassesInv == /\ QueueInv /\ ListInv /\ StackInv
              /\ ArrayInv /\ AlignInv /\ SafeInv /\ MixedInv

LEMMA ClassesStay ==
    ASSUME ClassesInv
    PROVE  /\ UNCHANGED queueVars => QueueInv'
           /\ UNCHANGED listVars => ListInv'
           /\ UNCHANGED stackVars => StackInv'
           /\ UNCHANGED arrayVars => ArrayInv'
           /\ UNCHANGED alignVars => AlignInv'
           /\ UNCHANGED safeVars => SafeInv'
           /\ UNCHANGED mixedVars => MixedInv'
<1>1. UNCHANGED queueVars => QueueInv'
  BY DEF ClassesInv, queueVars, QueueInv, Queue!TypeOK
<1>2. UNCHANGED listVars => ListInv'
  BY DEF ClassesInv, listVars, ListInv, List!TypeOK
<1>3. UNCHANGED stackVars => StackInv'
  BY DEF ClassesInv, stackVars, StackInv, Stack!TypeOK
<1>4. UNCHANGED arrayVars => ArrayInv'
  BY DEF ClassesInv, arrayVars, ArrayInv, Array!TypeOK
<1>5. UNCHANGED alignVars => AlignInv'
  BY DEF ClassesInv, alignVars, AlignInv, Align!TypeOK
<1>6. UNCHANGED safeVars => SafeInv'
  BY DEF ClassesInv, safeVars, SafeInv, Safe!TypeOK
<1>7. UNCHANGED mixedVars => MixedInv'
  BY DEF ClassesInv, mixedVars, MixedInv, Mixed!TypeOK
<1> QED
  BY <1>1, <1>2, <1>3, <1>4, <1>5, <1>6, <1>7

LEMMA ClassesInit ==
    ASSUME MCInit
    PROVE  /\ ClassesInv
           /\ Queue!Fifo!Init /\ List!Fifo!Init /\ Stack!Stack!Init
           /\ Array!Entries!Init /\ Align!Entries!Init /\ Safe!Entries!Init /\ Mixed!Bytes!Init
BY QueueInitOK, ListInitOK, StackInitOK, ArrayInitOK, AlignInitOK, SafeInitOK, MixedInitOK
   DEF MCInit, ClassesInv

(* What a step of the subject s is to its abstract specification. *)
LEMMA SubjectSteps ==
    ASSUME ClassesInv, MCNext
    PROVE  /\ ClassesInv'
           /\ subject = "DynamicQueue" => Queue!Fifo!Next
           /\ subject = "FIFOlist" => List!Fifo!Next
           /\ subject = "FILOlist" => Stack!Stack!Next
           /\ subject = "DynamicArray" => Array!Entries!Next
           /\ subject = "AlignedArray" => Align!Entries!Next
           /\ subject = "SafeArray" => Safe!Entries!Next
           /\ subject = "MixedPool" => Mixed!Bytes!Next
<1>1. /\ subject = "DynamicQueue" => Queue!Next
      /\ subject = "FIFOlist" => List!Next
      /\ subject = "FILOlist" => Stack!Next
      /\ subject = "DynamicArray" => Array!Next
      /\ subject = "AlignedArray" => Align!Next
      /\ subject = "SafeArray" => Safe!Next
      /\ subject = "MixedPool" => Mixed!Next
  BY DEF MCNext
<1>2. /\ subject # "DynamicQueue" => UNCHANGED queueVars
      /\ subject # "FIFOlist" => UNCHANGED listVars
      /\ subject # "FILOlist" => UNCHANGED stackVars
      /\ subject # "DynamicArray" => UNCHANGED arrayVars
      /\ subject # "AlignedArray" => UNCHANGED alignVars
      /\ subject # "SafeArray" => UNCHANGED safeVars
      /\ subject # "MixedPool" => UNCHANGED mixedVars
  BY DEF MCNext, Only
<1>3. /\ QueueInv /\ ListInv /\ StackInv
      /\ ArrayInv /\ AlignInv /\ SafeInv /\ MixedInv
  BY DEF ClassesInv
<1>4. /\ Queue!Next => QueueInv' /\ Queue!Fifo!Next
      /\ List!Next => ListInv' /\ List!Fifo!Next
      /\ Stack!Next => StackInv' /\ Stack!Stack!Next
      /\ Array!Next => ArrayInv' /\ Array!Entries!Next
      /\ Align!Next => AlignInv' /\ Align!Entries!Next
      /\ Safe!Next => SafeInv' /\ Safe!Entries!Next
      /\ Mixed!Next => MixedInv' /\ Mixed!Bytes!Next
  BY <1>3, QueueStep, ListStep, StackStep, ArrayStep, AlignStep, SafeStep, MixedStep
<1>5. /\ QueueInv' /\ ListInv' /\ StackInv'
      /\ ArrayInv' /\ AlignInv' /\ SafeInv' /\ MixedInv'
  BY <1>1, <1>2, <1>4, ClassesStay
<1>6. ClassesInv'
  BY <1>5 DEF ClassesInv
<1> QED
  BY <1>1, <1>4, <1>6

LEMMA ClassesKept == ClassesInv /\ [MCNext]_MCvars => ClassesInv'
<1>1. ClassesInv /\ MCNext => ClassesInv'
  BY SubjectSteps
<1>2. ClassesInv /\ UNCHANGED MCvars => ClassesInv'
  <2>1. UNCHANGED MCvars =>
           /\ UNCHANGED queueVars /\ UNCHANGED listVars /\ UNCHANGED stackVars
           /\ UNCHANGED arrayVars /\ UNCHANGED alignVars /\ UNCHANGED safeVars
           /\ UNCHANGED mixedVars
    BY DEF MCvars
  <2>2. ASSUME ClassesInv, UNCHANGED MCvars
        PROVE  /\ QueueInv' /\ ListInv' /\ StackInv'
               /\ ArrayInv' /\ AlignInv' /\ SafeInv' /\ MixedInv'
    BY <2>1, <2>2, ClassesStay
  <2> QED
    BY <2>2 DEF ClassesInv
<1> QED
  BY <1>1, <1>2

(* The queues are queues and the stack, the arrays and the pool of mixed objects
   are zeroed arrays, for any objects, sizes and sequence of calls: a step of a
   class is a step of its abstract specification (DynamicQueue.cpp 55-217,
   FIFOlist.cpp 43-66, FILOlist.cpp 43-60, DynamicArray.cpp 101-228,
   AlignedArray.cpp 124-207, SafeArray.cpp 43-52, MixedPool.cpp 127-260).      *)
THEOREM ClassesImplement == MCSpec => ListsImplement
<1>1. MCInit => /\ ClassesInv
                /\ Queue!Fifo!Init /\ List!Fifo!Init /\ Stack!Stack!Init
                /\ Array!Entries!Init /\ Align!Entries!Init /\ Safe!Entries!Init
                /\ Mixed!Bytes!Init
  BY ClassesInit
<1>2. ClassesInv /\ [MCNext]_MCvars => ClassesInv'
  BY ClassesKept
<1>3. ClassesInv /\ [MCNext]_MCvars =>
        [CASE subject = "DynamicQueue" -> [Queue!Fifo!Next]_(Queue!Fifo!vars)
            [] subject = "FIFOlist" -> [List!Fifo!Next]_(List!Fifo!vars)
            [] subject = "FILOlist" -> [Stack!Stack!Next]_(Stack!Stack!vars)
            [] subject = "DynamicArray" -> [Array!Entries!Next]_(Array!Entries!vars)
            [] subject = "AlignedArray" -> [Align!Entries!Next]_(Align!Entries!vars)
            [] subject = "SafeArray" -> [Safe!Entries!Next]_(Safe!Entries!vars)
            [] subject = "MixedPool" -> [Mixed!Bytes!Next]_(Mixed!Bytes!vars)
            [] OTHER -> TRUE]_MCvars
  BY SubjectSteps
<1> QED
  BY <1>1, <1>2, <1>3, PTL DEF MCSpec, ListsImplement

(* Wherever new[] finds its memory, a vector that Vect accepts lies at an address
   divisible by its size and inside what was allocated (AlignedArray.cpp 89-98,
   133-158): the aligned load or store that the caller makes of it is sound.     *)
THEOREM VectorsAligned == MCSpec => []Align!VectorsInBuffer
<1>1. MCInit => ClassesInv /\ AlignPlaced
  BY ClassesInit, AlignPlacedInit DEF MCInit
<1>2. ClassesInv /\ AlignPlaced /\ [MCNext]_MCvars => (ClassesInv /\ AlignPlaced)'
  <2>1. ASSUME ClassesInv, AlignPlaced, MCNext PROVE AlignPlaced'
    <3>1. AlignInv
      BY <2>1 DEF ClassesInv
    <3>2. Align!Next \/ UNCHANGED alignVars
      BY <2>1 DEF MCNext, Only
    <3>3. UNCHANGED alignVars => AlignPlaced'
      BY <2>1 DEF alignVars, AlignPlaced
    <3> QED
      BY <2>1, <3>1, <3>2, <3>3, AlignPlacedStep
  <2>2. ASSUME AlignPlaced, UNCHANGED MCvars PROVE AlignPlaced'
    BY <2>2 DEF MCvars, alignVars, AlignPlaced
  <2> QED
    BY <2>1, <2>2, ClassesKept
<1>3. ClassesInv /\ AlignPlaced => Align!VectorsInBuffer
  BY VectorsFit DEF ClassesInv
<1> QED
  BY <1>1, <1>2, <1>3, PTL DEF MCSpec

(* Every variable of every class has its type (SortedList.cpp 46-140,
   DynamicArray.cpp 101-228 and the rest; StringPoolL.cpp 253-544): the invariants
   of the classes, side by side.                                               *)
THEOREM AllTypesCorrect ==
    ASSUME {"grow", "clear", "long", "self"} \subseteq Rules
    PROVE  MCSpec => []TypesOK
<1>1. MCInit => IInv /\ ClassesInv /\ PoolsInv
  BY InitOK, ClassesInit, PoolsInitOK DEF MCInit
<1>2. IInv /\ ClassesInv /\ PoolsInv /\ [MCNext]_MCvars => (IInv /\ ClassesInv /\ PoolsInv)'
  <2>1. [MCNext]_MCvars => [Next]_vars
    BY DEF MCNext, Only, MCvars
  <2> QED
    BY <2>1, NextOK, ClassesKept, PoolsKept
<1>3. IInv /\ ClassesInv /\ PoolsInv => TypesOK
  <2>1. ClassesInv => /\ Queue!TypeOK /\ List!TypeOK /\ Stack!TypeOK /\ Array!TypeOK
                      /\ Align!TypeOK /\ Safe!TypeOK /\ Mixed!TypeOK
    BY DEF ClassesInv, QueueInv, ListInv, StackInv, ArrayInv, AlignInv, SafeInv, MixedInv
  <2> QED
    BY <2>1, PoolsTypesOK DEF TypesOK, IInv
<1> QED
  BY <1>1, <1>2, <1>3, PTL DEF MCSpec

(* What is accessed without a check lies within its memory: the vectors of an
   AlignedArray (AlignedArray.cpp 89-98), the data and the garbage of the string
   pools, and the end of a string that its length word says (StringPoolL.cpp
   451-472), for any sizes and any client that keeps the four rules.           *)
THEOREM AccessesInMemory ==
    ASSUME {"grow", "clear", "long", "self"} \subseteq Rules
    PROVE  MCSpec => []AccessInMemory
<1>1. MCSpec => []Align!VectorsInBuffer
  BY VectorsAligned
<1>2. MCInit => PoolsInv
  BY PoolsInitOK
<1>3. PoolsInv /\ [MCNext]_MCvars => PoolsInv'
  BY PoolsKept
<1>4. Align!VectorsInBuffer /\ PoolsInv => AccessInMemory
  BY PoolsTypesOK, LengthsOK DEF AccessInMemory
<1> QED
  BY <1>1, <1>2, <1>3, <1>4, PTL DEF MCSpec

=============================================================================
