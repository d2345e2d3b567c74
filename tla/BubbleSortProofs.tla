-------------------------- MODULE BubbleSortProofs --------------------------
(***************************************************************************)
(* Proofs about BubbleSort, for every length and every array.              *)
(*                                                                         *)
(* Within a sort the invariant says what the passes have achieved so far:  *)
(* the tail beyond the bound is final (TailInPlace), cell i holds the      *)
(* largest of the cells passed (MaxBubbled), and what the sort will use to *)
(* stop early is true: no swap means in order (NoSwapPrefix), and nothing  *)
(* is out of order behind the last swap (AfterLastSwap).                   *)
(* Between the sorts it says what becomes of the numbers: BubbleSort1 may  *)
(* exchange one with the quadword behind the array, but then leaves the    *)
(* largest there, which BubbleSort2 therefore never moves.                 *)
(***************************************************************************)
EXTENDS BubbleSort, FiniteSetTheorems, TLAPS

Result == [numbers : [1..N -> Int], iterations : Nat, swaps : Nat]

(* The sorts are under way. *)
InLoop == pc \in {"for", "until"}

LoopBounds ==
    /\ pc = "for" => i <= Bound \/ i = 1
    /\ pc = "for" /\ run = 2 => r10 >= 1
    /\ pc = "until" => i = IF Bound >= 1 THEN Bound + 1 ELSE 2

TypeInv == TypeOK /\ LoopBounds /\ results \in Seq(Result)

LEMMA NType == N \in Nat /\ N >= 2
BY NAssumption

LEMMA ArraysType == \A a \in Arrays : a \in [1..N -> Int]
BY ArraysAssumption

LEMMA SwapType ==
    ASSUME NEW a \in [1..(N + 1) -> Int], NEW k \in 1..N
    PROVE  /\ Swap(a, k) \in [1..(N + 1) -> Int]
           /\ Swap(a, k)[k] = a[k + 1]
           /\ Swap(a, k)[k + 1] = a[k]
           /\ \A j \in 1..(N + 1) \ {k, k + 1} : Swap(a, k)[j] = a[j]
BY NType DEF Swap

LEMMA TypeInit == Init => TypeInv
<1> SUFFICES ASSUME Init PROVE TypeInv
  OBVIOUS
<1>1. work_array \in [1..(N + 1) -> Int] /\ start = work_array
  BY NType DEF Init
<1>2. TypeOK /\ LoopBounds
  BY <1>1, NType DEF Init, TypeOK, LoopBounds, Runs
<1>3. results \in Seq(Result)
  BY DEF Init
<1> QED BY <1>2, <1>3 DEF TypeInv

(* What a run writes, and what it leaves as it is. *)
Shown == [numbers |-> [k \in 1..N |-> work_array[k]], iterations |-> r8, swaps |-> r9]

LEMMA ShownType == TypeOK => Shown \in Result
BY NType DEF TypeOK, Shown, Result

LEMMA PrintRest ==
    PrintResults =>
        /\ pc = "print"
        /\ IF run = 2 THEN pc' = "exit" /\ run' = run
                      ELSE pc' = "reset" /\ run' = run + 1
        /\ df' = 1
        /\ orig_array' = orig_array /\ work_array' = work_array /\ start' = start
        /\ i' = i /\ r10' = r10 /\ newn' = newn /\ isSwapped' = isSwapped
        /\ r8' = r8 /\ r9' = r9
BY DEF PrintResults, counters

LEMMA PrintRun ==
    ASSUME run \in Runs, PrintResults
    PROVE  run' \in Runs /\ pc' \in {"reset", "exit"}
<1>1. CASE run = 2
  BY <1>1, PrintRest DEF Runs
<1>2. run # 2 => run + 1 \in Runs
  BY DEF Runs
<1> QED BY <1>1, <1>2, PrintRest

LEMMA TypeStep == TypeInv /\ [Next]_vars => TypeInv'
<1> SUFFICES ASSUME TypeOK, LoopBounds, results \in Seq(Result), [Next]_vars
             PROVE  TypeOK' /\ LoopBounds' /\ (results \in Seq(Result))'
  BY DEF TypeInv
<1> USE NType DEF TypeOK, LoopBounds, Bound, Runs, counters
<1>1. CASE Reset
  <2>1. work_array' \in [1..(N + 1) -> Int]
    BY <1>1, ArraysType DEF Reset, ResetWorkArray
  <2> QED BY <2>1, <1>1 DEF Reset, ResetWorkArray
<1>2. CASE For
  <2>1. i \in 1..N /\ Bound \in Int /\ Bound <= N
    BY <1>2 DEF For, Compare
  <2>2. work_array' \in [1..(N + 1) -> Int]
    BY <2>1, <1>2, SwapType DEF For, Compare
  <2>3. TypeOK'
    BY <2>1, <2>2, <1>2 DEF For, Compare
  <2>4. LoopBounds'
    BY <2>1, <1>2 DEF For, Compare
  <2> QED BY <2>3, <2>4, <1>2 DEF For, Compare
<1>3. CASE Until0 \/ Until1 \/ Until2
  <2>1. CASE Until0
    BY <2>1 DEF Until0, Repeat
  <2>2. CASE Until1
    BY <2>2 DEF Until1, Repeat
  <2>3. CASE Until2
    BY <2>3 DEF Until2, Repeat
  <2> QED BY <1>3, <2>1, <2>2, <2>3
<1>4. CASE PrintResults
  <2>1. results' = Append(results, Shown)
    BY <1>4 DEF PrintResults, Shown
  <2>2. TypeOK'
    <3>1. run' \in Runs /\ pc' \in {"reset", "exit"}
      BY <1>4, PrintRun
    <3>2. /\ orig_array' = orig_array /\ work_array' = work_array /\ start' = start
          /\ i' = i /\ r10' = r10 /\ newn' = newn /\ isSwapped' = isSwapped
          /\ r8' = r8 /\ r9' = r9 /\ df' = 1
      BY <1>4, PrintRest
    <3> QED BY <3>1, <3>2
  <2>3. LoopBounds'
    BY <1>4, PrintRest
  <2>4. results' \in Seq(Result)
    BY <2>1, ShownType
  <2> QED BY <2>2, <2>3, <2>4
<1>5. CASE UNCHANGED vars
  BY <1>5 DEF vars
<1> QED
  BY <1>1, <1>2, <1>3, <1>4, <1>5 DEF Next, Done

(* Every variable keeps its type, and every comparison stays inside work_array
   and the one quadword behind it.                                         *)
THEOREM TypeCorrect == Spec => []TypeOK
<1>1. TypeInv => TypeOK
  BY DEF TypeInv
<1> QED
  BY <1>1, TypeInit, TypeStep, PTL DEF Spec

(* The copy of the array and the loads of the sorts run upwards in memory: each
   begins with the direction flag clear, which the conversion of the run before
   has left set.                                                           *)
THEOREM StringsGoUpwards == Spec => []StringsGoUp
<1>1. Init => StringsGoUp
  BY DEF Init, StringsGoUp
<1>2. StringsGoUp /\ [Next]_vars => StringsGoUp'
  BY DEF StringsGoUp, Next, Reset, ResetWorkArray, For, Compare, Until0, Until1, Until2,
         Repeat, PrintResults, Done, vars
<1> QED
  BY <1>1, <1>2, PTL DEF Spec

-----------------------------------------------------------------------------
(* Cell i holds the largest of the cells passed. *)
MaxBubbled == InLoop => \A j \in 1..i : work_array[j] <= work_array[i]

(* A pass that has not swapped has found its cells in order. *)
NoSwapPrefix == InLoop /\ run # 2 /\ isSwapped = 0 => InOrder(work_array, 1..i)

(* Behind the last swap everything passed is in order. *)
AfterLastSwap ==
    InLoop /\ run = 2 =>
        /\ newn < i
        /\ \A j, k \in 1..i : j < k /\ k > newn => work_array[j] <= work_array[k]

OrderInv == TailInPlace /\ MaxBubbled /\ NoSwapPrefix /\ AfterLastSwap /\ EndIsSorted

LEMMA OrderFor == TypeInv /\ OrderInv /\ For => OrderInv'
<1> SUFFICES ASSUME TypeInv, OrderInv, For PROVE OrderInv'
  OBVIOUS
<1> DEFINE a == work_array
           b == work_array'
           less == a[i + 1] < a[i]
<1>1. /\ N \in Nat /\ N >= 2 /\ i \in 1..N /\ a \in [1..(N + 1) -> Int]
      /\ r10 \in Int /\ newn \in 0..N /\ run \in 0..2 /\ isSwapped \in {0, 1}
      /\ Bound \in Int /\ (i <= Bound \/ i = 1)
  BY NType DEF TypeInv, TypeOK, LoopBounds, For, Compare, Bound, Runs
<1>2. /\ pc = "for" /\ pc' \in {"for", "until"} /\ i' = i + 1 /\ run' = run /\ r10' = r10
      /\ isSwapped' = IF run # 2 /\ less THEN 1 ELSE isSwapped
      /\ newn' = IF run = 2 /\ less THEN i ELSE newn
  BY DEF For, Compare
<1>3. \A j \in 1..i : a[j] <= a[i]
  BY <1>2 DEF OrderInv, MaxBubbled, InLoop
<1>4. CASE less
  <2>1. /\ b[i] = a[i + 1] /\ b[i + 1] = a[i]
        /\ \A j \in 1..(N + 1) \ {i, i + 1} : b[j] = a[j]
    BY <1>1, <1>4, SwapType DEF For, Compare
  <2>2. TailInPlace'
    <3>1. SUFFICES ASSUME run > 0, NEW j \in 1..(N + 1), NEW k \in 1..(N + 1),
                          j < k, k > r10 + 1
                   PROVE  b[j] <= b[k]
      BY <1>1, <1>2 DEF TailInPlace, Sorting
    <3>2. \A l, m \in 1..(N + 1) : l < m /\ m > r10 + 1 => a[l] <= a[m]
      BY <3>1, <1>1, <1>2 DEF OrderInv, TailInPlace, Sorting
    <3>3. i <= r10
      <4>1. CASE i > r10
        <5>1. i = 1 /\ 2 > r10 + 1 /\ 2 \in 1..(N + 1) /\ 1 \in 1..(N + 1)
          BY <4>1, <3>1, <1>1 DEF Bound
        <5>2. a[1] <= a[2]
          BY <5>1, <3>2
        <5> QED BY <5>1, <5>2, <1>1, <1>4
      <4> QED BY <4>1, <1>1
    <3> QED BY <3>1, <3>2, <3>3, <1>1, <2>1
  <2>3. MaxBubbled'
    BY <1>1, <1>2, <1>3, <1>4, <2>1 DEF MaxBubbled
  <2>4. NoSwapPrefix'
    BY <1>1, <1>2, <1>4 DEF NoSwapPrefix
  <2>5. AfterLastSwap'
    BY <1>1, <1>2, <1>3, <1>4, <2>1 DEF AfterLastSwap
  <2>6. EndIsSorted'
    BY <1>2 DEF EndIsSorted
  <2> QED BY <2>2, <2>3, <2>4, <2>5, <2>6 DEF OrderInv
<1>5. CASE ~less
  <2>1. b = a
    BY <1>5 DEF For, Compare
  <2>2. TailInPlace'
    BY <1>2, <2>1 DEF OrderInv, TailInPlace, Sorting
  <2>3. MaxBubbled'
    BY <1>1, <1>2, <1>3, <1>5, <2>1 DEF MaxBubbled
  <2>4. NoSwapPrefix'
    BY <1>1, <1>2, <1>3, <1>5, <2>1 DEF OrderInv, NoSwapPrefix, InOrder, InLoop
  <2>5. AfterLastSwap'
    BY <1>1, <1>2, <1>3, <1>5, <2>1 DEF OrderInv, AfterLastSwap, InLoop
  <2>6. EndIsSorted'
    BY <1>2 DEF EndIsSorted
  <2> QED BY <2>2, <2>3, <2>4, <2>5, <2>6 DEF OrderInv
<1> QED BY <1>4, <1>5

LEMMA OrderUntil == TypeInv /\ OrderInv /\ (Until0 \/ Until1 \/ Until2) => OrderInv'
<1> SUFFICES ASSUME TypeInv, OrderInv, Until0 \/ Until1 \/ Until2 PROVE OrderInv'
  OBVIOUS
<1> DEFINE a == work_array
<1>1. /\ N \in Nat /\ N >= 2 /\ a \in [1..(N + 1) -> Int] /\ newn \in 0..N
      /\ r10 \in Int /\ r10 <= N /\ run \in 0..2 /\ isSwapped \in {0, 1}
  BY NType DEF TypeInv, TypeOK, Runs
<1>2. /\ pc = "until" /\ pc' \in {"for", "print"} /\ i' = 1 /\ newn' = 0 /\ isSwapped' = 0
      /\ run' = run /\ work_array' = work_array
  BY DEF Until0, Until1, Until2, Repeat
<1>3. i = IF Bound >= 1 THEN Bound + 1 ELSE 2
  BY <1>2 DEF TypeInv, LoopBounds
<1>4. \A j \in 1..i : a[j] <= a[i]
  BY <1>2 DEF OrderInv, MaxBubbled, InLoop
<1>5. MaxBubbled' /\ NoSwapPrefix' /\ AfterLastSwap'
  BY <1>1, <1>2 DEF MaxBubbled, NoSwapPrefix, AfterLastSwap, InOrder
<1>6. TailInPlace' /\ EndIsSorted'
  <2>1. CASE Until0
    <3>1. run = 0 /\ i = N /\ Sorting = 1..N
      BY <2>1, <1>1, <1>3 DEF Until0, Bound, Sorting
    <3>2. TailInPlace'
      BY <3>1, <1>2 DEF TailInPlace
    <3>3. pc' = "print" => isSwapped = 0
      BY <2>1, <1>1 DEF Until0, Repeat
    <3> QED BY <3>1, <3>2, <3>3, <1>2 DEF EndIsSorted, OrderInv, NoSwapPrefix, InLoop, Sorting
  <2>2. CASE Until1
    <3>1. run = 1 /\ r10' = r10 - 1 /\ Sorting = 1..(N + 1) /\ Sorting' = 1..(N + 1)
      BY <2>2, <1>1, <1>2 DEF Until1, Sorting
    <3>2. \A j, k \in 1..(N + 1) : j < k /\ k > r10 + 1 => a[j] <= a[k]
      BY <3>1, <1>2 DEF OrderInv, TailInPlace
    <3>3. TailInPlace'
      BY <3>1, <3>2, <1>1, <1>2, <1>3, <1>4 DEF TailInPlace, Bound
    <3>4. pc' = "print" => InOrder(a, 1..i)
      BY <2>2, <3>1, <1>1, <1>2 DEF Until1, Repeat, OrderInv, NoSwapPrefix, InLoop
    <3>5. EndIsSorted'
      BY <3>1, <3>2, <3>4, <1>1, <1>2, <1>3 DEF EndIsSorted, InOrder, Bound
    <3> QED BY <3>3, <3>5
  <2>3. CASE Until2
    <3>1. /\ run = 2 /\ r10' = newn - 1 /\ (pc' = "print" => r10' <= 0)
          /\ Sorting = 1..(N + 1) /\ Sorting' = 1..(N + 1)
      BY <2>3, <1>1, <1>2 DEF Until2, Repeat, Sorting
    <3>2. \A j, k \in 1..(N + 1) : j < k /\ k > r10 + 1 => a[j] <= a[k]
      BY <3>1, <1>2 DEF OrderInv, TailInPlace
    <3>3. \A j, k \in 1..i : j < k /\ k > newn => a[j] <= a[k]
      BY <3>1, <1>2 DEF OrderInv, AfterLastSwap, InLoop
    <3>4. \A j, k \in 1..(N + 1) : j < k /\ k > newn => a[j] <= a[k]
      BY <3>1, <3>2, <3>3, <1>1, <1>3 DEF Bound
    <3>5. TailInPlace'
      BY <3>1, <3>4, <1>1, <1>2 DEF TailInPlace
    <3>6. EndIsSorted'
      BY <3>1, <3>4, <1>1, <1>2 DEF EndIsSorted, InOrder
    <3> QED BY <3>5, <3>6
  <2> QED BY <2>1, <2>2, <2>3
<1> QED BY <1>5, <1>6 DEF OrderInv

LEMMA OrderStep == TypeInv /\ OrderInv /\ [Next]_vars => OrderInv'
<1> SUFFICES ASSUME TypeInv, OrderInv, [Next]_vars PROVE OrderInv'
  OBVIOUS
<1>1. CASE Reset
  <2>1. /\ N \in Nat /\ run \in 0..2 /\ work_array' \in [1..(N + 1) -> Int]
    BY <1>1, NType, TypeStep DEF TypeInv, TypeOK, Runs
  <2>2. pc' = "for" /\ i' = 1 /\ newn' = 0 /\ r10' = N /\ run' = run
    BY <1>1 DEF Reset
  <2> QED
    BY <2>1, <2>2 DEF OrderInv, TailInPlace, MaxBubbled, NoSwapPrefix, AfterLastSwap,
                      EndIsSorted, InOrder, Sorting
<1>2. CASE PrintResults
  BY <1>2 DEF PrintResults, OrderInv, TailInPlace, MaxBubbled, NoSwapPrefix, AfterLastSwap,
              EndIsSorted, InLoop
<1>3. CASE UNCHANGED vars
  BY <1>3 DEF vars, OrderInv, TailInPlace, MaxBubbled, NoSwapPrefix, AfterLastSwap,
              EndIsSorted, InLoop, InOrder, Sorting
<1> QED
  BY <1>1, <1>2, <1>3, OrderFor, OrderUntil DEF Next, Done

LEMMA OrderInit == Init => OrderInv
BY DEF Init, OrderInv, TailInPlace, MaxBubbled, NoSwapPrefix, AfterLastSwap, EndIsSorted, InLoop

(* Each of the three sorts ends with its cells in order, whatever the array and
   whichever passes it has shortened or left out.                          *)
THEOREM EverySortSorts == Spec => []EndIsSorted
<1>1. OrderInv => EndIsSorted
  BY DEF OrderInv
<1> QED
  BY <1>1, TypeInit, TypeStep, OrderInit, OrderStep, PTL DEF Spec

-----------------------------------------------------------------------------
(* Where a swap at k finds the number that it puts in cell m. *)
Exchanged(k, m) == IF m = k THEN k + 1 ELSE IF m = k + 1 THEN k ELSE m

LEMMA SwapExchanges ==
    ASSUME NEW a \in [1..(N + 1) -> Int], NEW k \in 1..N, NEW m \in 1..(N + 1)
    PROVE  /\ Exchanged(k, m) \in 1..(N + 1)
           /\ Exchanged(k, Exchanged(k, m)) = m
           /\ Swap(a, k)[m] = a[Exchanged(k, m)]
<1>1. N \in Nat /\ k + 1 \in 1..(N + 1) /\ k \in 1..(N + 1) /\ k # k + 1
  BY NType
<1>2. CASE m = k
  BY <1>1, <1>2, SwapType DEF Exchanged
<1>3. CASE m = k + 1
  BY <1>1, <1>3, SwapType DEF Exchanged
<1>4. CASE m # k /\ m # k + 1
  BY <1>4, SwapType DEF Exchanged
<1> QED BY <1>2, <1>3, <1>4

(* A swap among the first n cells keeps what occurs in them. *)
LEMMA SwapOccurrences ==
    ASSUME NEW a \in [1..(N + 1) -> Int], NEW n \in 1..(N + 1), NEW k \in 1..(n - 1), NEW v
    PROVE  Occurrences(Swap(a, k), 1..n, v) = Occurrences(a, 1..n, v)
<1> DEFINE b == Swap(a, k)
           S == {m \in 1..n : a[m] = v}
           T == {m \in 1..n : b[m] = v}
           f == [m \in S |-> Exchanged(k, m)]
<1>1. n \in Nat /\ k \in 1..N /\ \A m \in 1..n : m \in 1..(N + 1) /\ Exchanged(k, m) \in 1..n
  BY NType DEF Exchanged
<1>2. \A m \in 1..n : b[m] = a[Exchanged(k, m)] /\ Exchanged(k, Exchanged(k, m)) = m
  BY <1>1, SwapExchanges
<1>3. \A m \in S : Exchanged(k, m) \in T
  BY <1>1, <1>2
<1>4. \A m \in T : Exchanged(k, m) \in S
  BY <1>1, <1>2
<1>5. f \in Bijection(S, T)
  <2>1. f \in [S -> T]
    BY <1>3
  <2>2. \A x, y \in S : f[x] = f[y] => x = y
    BY <1>2
  <2>3. \A y \in T : f[Exchanged(k, y)] = y /\ Exchanged(k, y) \in S
    BY <1>2, <1>4
  <2> HIDE DEF f, S, T
  <2>4. f \in Injection(S, T)
    BY <2>1, <2>2 DEF Injection, IsInjective
  <2>5. f \in Surjection(S, T)
    BY <2>1, <2>3 DEF Surjection
  <2> QED BY <2>4, <2>5 DEF Bijection
<1>6. IsFiniteSet(S)
  <2>1. IsFiniteSet(1..n)
    BY <1>1, FS_Interval
  <2>2. S \in SUBSET (1..n)
    OBVIOUS
  <2> QED BY <2>1, <2>2, FS_Subset
<1> QED BY <1>5, <1>6, FS_Bijection DEF Occurrences, ExistsBijection

Running == pc \in {"for", "until", "print"}

(* The first and the third sort move the numbers of orig_array within its length. *)
NumbersStay ==
    Running /\ run # 1 =>
        \A v \in Int : Occurrences(work_array, 1..N, v) = Occurrences(orig_array, 1..N, v)

(* The second sort may put one behind. *)
NoneLost ==
    Running /\ run = 1 => \A k \in 1..N : \E m \in 1..(N + 1) : work_array[m] = orig_array[k]

(* It leaves the largest there, where the third one never swaps. *)
LargestBehind ==
    run = 2 =>
        /\ \A k \in 1..N : orig_array[k] <= work_array[N + 1]
        /\ Running => \A k \in 1..N : work_array[k] <= work_array[N + 1]

OneResultPerRun == Len(results) = IF pc = "exit" THEN 3 ELSE run

NumbersInv == OneResultPerRun /\ NumbersStay /\ NoneLost /\ LargestBehind /\ Run1And3Sort

LEMMA NumbersInit == Init => NumbersInv
BY DEF Init, NumbersInv, OneResultPerRun, NumbersStay, NoneLost, LargestBehind, Run1And3Sort, Running

LEMMA NumbersFor == TypeInv /\ NumbersInv /\ For => NumbersInv'
<1> SUFFICES ASSUME TypeInv, NumbersInv, For PROVE NumbersInv'
  OBVIOUS
<1> DEFINE a == work_array
           b == work_array'
<1>1. /\ N \in Nat /\ N >= 2 /\ i \in 1..N /\ a \in [1..(N + 1) -> Int]
      /\ run \in 0..2 /\ (run = 0 => i < N)
  BY NType DEF TypeInv, TypeOK, LoopBounds, For, Compare, Bound, Runs
<1>2. /\ Running /\ pc # "exit" /\ pc' # "exit"
      /\ run' = run /\ results' = results /\ orig_array' = orig_array
  BY DEF For, Compare, Running
<1>3. OneResultPerRun' /\ Run1And3Sort'
  BY <1>2 DEF NumbersInv, OneResultPerRun, Run1And3Sort
<1>4. CASE a[i + 1] < a[i]
  <2>1. b = Swap(a, i)
    BY <1>4 DEF For, Compare
  <2>2. run = 2 => i < N
    BY <1>1, <1>2, <1>4 DEF NumbersInv, LargestBehind
  <2>3. NumbersStay'
    <3>1. SUFFICES ASSUME run # 1, NEW v \in Int
                   PROVE  Occurrences(b, 1..N, v) = Occurrences(orig_array, 1..N, v)
      BY <1>2 DEF NumbersStay
    <3>2. N \in 1..(N + 1) /\ i \in 1..(N - 1)
      BY <3>1, <2>2, <1>1
    <3>3. Occurrences(b, 1..N, v) = Occurrences(a, 1..N, v)
      BY <3>2, <2>1, <1>1, SwapOccurrences
    <3> QED BY <3>1, <3>3, <1>2 DEF NumbersInv, NumbersStay
  <2>4. NoneLost'
    <3>1. SUFFICES ASSUME run = 1, NEW k \in 1..N
                   PROVE  \E m \in 1..(N + 1) : b[m] = orig_array[k]
      BY <1>2 DEF NoneLost
    <3>2. PICK m \in 1..(N + 1) : a[m] = orig_array[k]
      BY <3>1, <1>2 DEF NumbersInv, NoneLost
    <3>3. Exchanged(i, m) \in 1..(N + 1) /\ b[Exchanged(i, m)] = a[m]
      <4>1. /\ Exchanged(i, m) \in 1..(N + 1)
            /\ Exchanged(i, Exchanged(i, m)) = m
        BY <1>1, SwapExchanges
      <4>2. Swap(a, i)[Exchanged(i, m)] = a[Exchanged(i, Exchanged(i, m))]
        BY <4>1, <1>1, SwapExchanges
      <4> QED BY <4>1, <4>2, <2>1
    <3> QED BY <3>2, <3>3
  <2>5. LargestBehind'
    <3>1. SUFFICES ASSUME run = 2
                   PROVE  /\ b[N + 1] = a[N + 1]
                          /\ \A k \in 1..N : b[k] <= a[N + 1]
      BY <1>2 DEF NumbersInv, LargestBehind
    <3>2. \A k \in 1..N : a[k] <= a[N + 1]
      BY <3>1, <1>2 DEF NumbersInv, LargestBehind
    <3>3. N + 1 \in 1..(N + 1) \ {i, i + 1}
      BY <3>1, <2>2, <1>1
    <3>4. b[N + 1] = a[N + 1]
      BY <3>3, <2>1, <1>1, SwapType
    <3>5. ASSUME NEW k \in 1..N PROVE b[k] <= a[N + 1]
      <4>1. b[k] = a[Exchanged(i, k)]
        <5>1. k \in 1..(N + 1)
          BY <1>1
        <5> QED BY <5>1, <1>1, <2>1, SwapExchanges
      <4>2. Exchanged(i, k) \in 1..N
        BY <3>1, <2>2, <1>1 DEF Exchanged
      <4> QED BY <4>1, <4>2, <3>2
    <3> QED BY <3>4, <3>5
  <2> QED BY <1>3, <2>3, <2>4, <2>5 DEF NumbersInv
<1>5. CASE ~(a[i + 1] < a[i])
  <2>1. b = a
    BY <1>5 DEF For, Compare
  <2> QED
    BY <2>1, <1>2, <1>3 DEF NumbersInv, NumbersStay, NoneLost, LargestBehind
<1> QED BY <1>4, <1>5

LEMMA NumbersReset == TypeInv /\ NumbersInv /\ Reset => NumbersInv'
<1> SUFFICES ASSUME TypeInv, NumbersInv, Reset PROVE NumbersInv'
  OBVIOUS
<1>1. /\ N \in Nat /\ run \in 0..2 /\ pc = "reset" /\ pc' = "for" /\ run' = run
      /\ results' = results /\ orig_array' = orig_array
  BY NType DEF Reset, TypeInv, TypeOK, Runs
<1>2. /\ \A k \in 1..N : work_array'[k] = orig_array[k]
      /\ work_array'[N + 1] = work_array[N + 1]
  BY <1>1 DEF Reset, ResetWorkArray
<1>3. OneResultPerRun' /\ Run1And3Sort'
  BY <1>1 DEF NumbersInv, OneResultPerRun, Run1And3Sort
<1>4. NumbersStay'
  <2>1. \A v : {k \in 1..N : work_array'[k] = v} = {k \in 1..N : orig_array[k] = v}
    BY <1>2
  <2> QED BY <2>1, <1>1 DEF NumbersStay, Occurrences
<1>5. NoneLost'
  BY <1>1, <1>2 DEF NoneLost
<1>6. LargestBehind'
  BY <1>1, <1>2 DEF NumbersInv, LargestBehind
<1> QED BY <1>3, <1>4, <1>5, <1>6 DEF NumbersInv

LEMMA NumbersPrint == TypeInv /\ OrderInv /\ NumbersInv /\ PrintResults => NumbersInv'
<1> SUFFICES ASSUME TypeInv, OrderInv, NumbersInv, PrintResults PROVE NumbersInv'
  OBVIOUS
<1> DEFINE a == work_array
           shown == [k \in 1..N |-> a[k]]
<1>1. /\ N \in Nat /\ N >= 2 /\ run \in 0..2 /\ a \in [1..(N + 1) -> Int]
      /\ orig_array \in [1..N -> Int] /\ results \in Seq(Result)
  BY NType, ArraysType DEF TypeInv, TypeOK, Runs
<1>2. /\ pc = "print" /\ work_array' = a /\ orig_array' = orig_array
      /\ IF run = 2 THEN pc' = "exit" /\ run' = run ELSE pc' = "reset" /\ run' = run + 1
  BY PrintRest DEF TypeInv
<1>3. Running /\ ~Running'
  BY <1>2 DEF Running
<1>4. results' = Append(results, Shown) /\ Shown.numbers = shown /\ Shown \in Result
  BY ShownType DEF PrintResults, Shown, TypeInv
<1>5. InOrder(a, Sorting)
  BY <1>2 DEF OrderInv, EndIsSorted
<1>6. Len(results) = run
  BY <1>2 DEF NumbersInv, OneResultPerRun
<1>7. /\ Len(results') = run + 1 /\ DOMAIN results = 1..run /\ DOMAIN results' = 1..(run + 1)
      /\ results'[run + 1] = Shown
      /\ \A r \in 1..run : results'[r] = results[r]
  <2>1. run = Len(results) /\ results \in Seq(Result) /\ Shown \in Result
    BY <1>1, <1>4, <1>6
  <2> QED BY <2>1, <1>4
<1>8. OneResultPerRun'
  <2>1. Len(results') = run + 1
    BY <1>7
  <2>2. IF run = 2 THEN pc' = "exit" ELSE pc' = "reset" /\ run' = run + 1
    BY <1>2
  <2>3. CASE run = 2
    BY <2>1, <2>2, <2>3 DEF OneResultPerRun
  <2>4. CASE run # 2
    BY <2>1, <2>2, <2>4 DEF OneResultPerRun
  <2> QED BY <2>3, <2>4
<1>9. NumbersStay' /\ NoneLost'
  BY <1>3 DEF NumbersStay, NoneLost
<1>10. LargestBehind'
  <2>1. ASSUME run = 1, NEW k \in 1..N PROVE orig_array[k] <= a[N + 1]
    <3>1. PICK m \in 1..(N + 1) : a[m] = orig_array[k]
      BY <2>1, <1>3 DEF NumbersInv, NoneLost
    <3>2. m = N + 1 \/ a[m] <= a[N + 1]
      BY <2>1, <1>1, <1>5 DEF InOrder, Sorting
    <3> QED BY <3>1, <3>2, <1>1
  <2>2. ASSUME run = 2, NEW k \in 1..N PROVE orig_array[k] <= a[N + 1]
    BY <2>2 DEF NumbersInv, LargestBehind
  <2> QED BY <2>1, <2>2, <1>1, <1>2, <1>3 DEF LargestBehind
<1>11. Run1And3Sort'
  <2>1. ASSUME run # 1 PROVE IsSortOf(shown, orig_array)
    <3>1. InOrder(shown, 1..N)
      BY <1>1, <1>5, <2>1 DEF InOrder, Sorting
    <3>2. \A v : {k \in 1..N : shown[k] = v} = {k \in 1..N : a[k] = v}
      OBVIOUS
    <3>3. \A v \in Int : Occurrences(shown, 1..N, v) = Occurrences(orig_array, 1..N, v)
      BY <3>2, <2>1, <1>3 DEF NumbersInv, NumbersStay, Occurrences
    <3> QED BY <3>1, <3>3, <1>1 DEF IsSortOf
  <2>2. \A r \in 1..run \ {2} : IsSortOf(results[r].numbers, orig_array)
    BY <1>7 DEF NumbersInv, Run1And3Sort
  <2>3. SUFFICES ASSUME NEW r \in 1..(run + 1) \ {2}
                 PROVE  IsSortOf(results'[r].numbers, orig_array)
    BY <1>2, <1>7 DEF Run1And3Sort
  <2>4. CASE r = run + 1
    BY <2>4, <2>1, <2>3, <1>1, <1>4, <1>7
  <2>5. CASE r \in 1..run
    BY <2>5, <2>2, <2>3, <1>7
  <2> QED BY <2>3, <2>4, <2>5, <1>1
<1> QED BY <1>8, <1>9, <1>10, <1>11 DEF NumbersInv

LEMMA NumbersStep == TypeInv /\ OrderInv /\ NumbersInv /\ [Next]_vars => NumbersInv'
<1> SUFFICES ASSUME TypeInv, OrderInv, NumbersInv, [Next]_vars PROVE NumbersInv'
  OBVIOUS
<1>1. CASE Until0 \/ Until1 \/ Until2
  BY <1>1 DEF Until0, Until1, Until2, Repeat, NumbersInv, OneResultPerRun, NumbersStay, NoneLost,
              LargestBehind, Run1And3Sort, Running
<1>2. CASE UNCHANGED vars
  BY <1>2 DEF vars, NumbersInv, OneResultPerRun, NumbersStay, NoneLost,
              LargestBehind, Run1And3Sort, Running
<1> QED
  BY <1>1, <1>2, NumbersFor, NumbersReset, NumbersPrint DEF Next, Done

(* RUN 1 and RUN 3 show the numbers of orig_array in order, for every array,
   although RUN 3 starts its first pass one cell too far, as RUN 2 does.    *)
THEOREM FirstAndThirdRunSort == Spec => []Run1And3Sort
<1>1. NumbersInv => Run1And3Sort
  BY DEF NumbersInv
<1> QED
  BY <1>1, TypeInit, TypeStep, OrderInit, OrderStep, NumbersInit, NumbersStep, PTL DEF Spec

-----------------------------------------------------------------------------
(* The pairs of cells 1..n that stand in the wrong order. *)
WrongPairs(a, n) == {p \in (1..n) \X (1..n) : p[1] < p[2] /\ a[p[1]] > a[p[2]]}

LEMMA WrongPairsFinite ==
    ASSUME NEW a, NEW n \in Nat PROVE IsFiniteSet(WrongPairs(a, n))
<1>1. IsFiniteSet((1..n) \X (1..n))
  <2>1. IsFiniteSet(1..n)
    BY FS_Interval
  <2> QED BY <2>1, FS_Product
<1>2. WrongPairs(a, n) \in SUBSET ((1..n) \X (1..n))
  BY DEF WrongPairs
<1> QED BY <1>1, <1>2, FS_Subset

(* The swap of two neighbours that stand in the wrong order removes their pair
   and renames the others.                                                 *)
LEMMA SwapRemovesOne ==
    ASSUME NEW a \in [1..(N + 1) -> Int], NEW n \in 1..(N + 1), NEW k \in 1..(n - 1),
           a[k + 1] < a[k]
    PROVE  Cardinality(WrongPairs(Swap(a, k), n)) = Cardinality(WrongPairs(a, n)) - 1
<1> DEFINE b == Swap(a, k)
           e(m) == Exchanged(k, m)
           S == WrongPairs(a, n) \ {<<k, k + 1>>}
           T == WrongPairs(b, n)
           f == [p \in S |-> <<e(p[1]), e(p[2])>>]
<1>1. /\ N \in Nat /\ n \in Nat /\ k \in 1..N /\ k + 1 \in 1..n /\ k \in 1..n
      /\ \A m \in 1..n : m \in 1..(N + 1) /\ e(m) \in 1..n
  BY NType DEF Exchanged
<1>2. \A m \in 1..n : e(e(m)) = m /\ b[m] = a[e(m)] /\ b[e(m)] = a[m]
  <2>1. \A m \in 1..n : e(e(m)) = m /\ b[m] = a[e(m)]
    BY <1>1, SwapExchanges
  <2> QED BY <2>1, <1>1
<1>3. \A l, m \in 1..n : l < m /\ ~(l = k /\ m = k + 1) => e(l) < e(m)
  BY <1>1 DEF Exchanged
<1>4. \A p \in S : <<e(p[1]), e(p[2])>> \in T
  <2>1. SUFFICES ASSUME NEW l \in 1..n, NEW m \in 1..n, l < m, a[l] > a[m], ~(l = k /\ m = k + 1)
                 PROVE  <<e(l), e(m)>> \in T
    BY DEF WrongPairs
  <2>2. e(l) \in 1..n /\ e(m) \in 1..n /\ e(l) < e(m) /\ b[e(l)] > b[e(m)]
    BY <2>1, <1>1, <1>2, <1>3
  <2> QED BY <2>2 DEF WrongPairs
<1>5. \A p \in T : <<e(p[1]), e(p[2])>> \in S
  <2>1. SUFFICES ASSUME NEW l \in 1..n, NEW m \in 1..n, l < m, b[l] > b[m]
                 PROVE  <<e(l), e(m)>> \in S
    BY DEF WrongPairs
  <2>2. b[k] = a[k + 1] /\ b[k + 1] = a[k]
    BY <1>1, SwapType
  <2>3. ~(l = k /\ m = k + 1)
    <3>1. a[k] \in Int /\ a[k + 1] \in Int
      BY <1>1
    <3> QED BY <2>1, <2>2, <3>1
  <2>4. e(l) \in 1..n /\ e(m) \in 1..n /\ e(l) < e(m) /\ a[e(l)] > a[e(m)]
    BY <2>1, <2>3, <1>1, <1>2, <1>3
  <2>5. ~(e(l) = k /\ e(m) = k + 1)
    BY <2>1, <1>1 DEF Exchanged
  <2> QED BY <2>4, <2>5 DEF WrongPairs
<1>6. \A p \in S \cup T : p = <<p[1], p[2]>> /\ p[1] \in 1..n /\ p[2] \in 1..n
  BY DEF WrongPairs
<1>7. ExistsBijection(S, T)
  <2>1. f \in [S -> T]
    BY <1>4
  <2>2. ASSUME NEW p \in S, NEW q \in S, f[p] = f[q] PROVE p = q
    <3>1. e(p[1]) = e(q[1]) /\ e(p[2]) = e(q[2])
      BY <2>2
    <3>2. p[1] = q[1] /\ p[2] = q[2]
      BY <3>1, <1>2, <1>6
    <3> QED BY <3>2, <1>6
  <2>3. ASSUME NEW q \in T PROVE \E p \in S : f[p] = q
    <3>1. <<e(q[1]), e(q[2])>> \in S
      BY <1>5
    <3>2. f[<<e(q[1]), e(q[2])>>] = <<e(e(q[1])), e(e(q[2]))>>
      BY <3>1
    <3>3. <<e(e(q[1])), e(e(q[2]))>> = q
      BY <1>2, <1>6
    <3> QED BY <3>1, <3>2, <3>3
  <2> HIDE DEF f, S, T
  <2>4. f \in Injection(S, T)
    BY <2>1, <2>2 DEF Injection, IsInjective
  <2>5. f \in Surjection(S, T)
    BY <2>1, <2>3 DEF Surjection
  <2> QED BY <2>4, <2>5 DEF Bijection, ExistsBijection
<1>8. IsFiniteSet(WrongPairs(a, n)) /\ <<k, k + 1>> \in WrongPairs(a, n)
  <2>1. <<k, k + 1>> \in WrongPairs(a, n)
    <3>1. /\ k \in 1..n /\ k + 1 \in 1..n /\ k \in Int /\ a[k] \in Int /\ a[k + 1] \in Int
      BY <1>1
    <3>2. k < k + 1 /\ a[k] > a[k + 1]
      BY <3>1
    <3> QED BY <3>1, <3>2 DEF WrongPairs
  <2> QED BY <2>1, <1>1, WrongPairsFinite
<1>9. IsFiniteSet(S) /\ Cardinality(S) = Cardinality(WrongPairs(a, n)) - 1
  BY <1>8, FS_RemoveElement
<1> QED BY <1>7, <1>9, FS_Bijection

LEMMA InversionsAreWrongPairs ==
    \A a : Inversions(a) = Cardinality(WrongPairs(a, IF run = 0 THEN N ELSE N + 1))
BY DEF Inversions, WrongPairs, Sorting

LEMMA SwapsInit == Init => SwapsAreInversions
BY DEF Init, SwapsAreInversions

LEMMA SwapsStep == TypeInv /\ SwapsAreInversions /\ [Next]_vars => SwapsAreInversions'
<1> SUFFICES ASSUME TypeInv, SwapsAreInversions, [Next]_vars PROVE SwapsAreInversions'
  OBVIOUS
<1> DEFINE n == IF run = 0 THEN N ELSE N + 1
<1>1. /\ N \in Nat /\ run \in 0..2 /\ work_array \in [1..(N + 1) -> Int] /\ r9 \in Nat
      /\ n \in Nat /\ n \in 1..(N + 1)
  BY NType DEF TypeInv, TypeOK, Runs
<1>2. run' = run => \A a : Inversions(a)' = Cardinality(WrongPairs(a', n))
  BY DEF Inversions, Sorting, WrongPairs
<1>3. CASE Reset
  <2>1. r9' = 0 /\ start' = work_array' /\ run' = run
    BY <1>3 DEF Reset
  <2>2. Inversions(start)' = Inversions(work_array)'
    BY <2>1 DEF Inversions, Sorting
  <2>3. Inversions(work_array)' \in Nat
    BY <2>1, <1>1, <1>2, WrongPairsFinite, FS_CardinalityType
  <2> QED BY <2>1, <2>2, <2>3 DEF SwapsAreInversions
<1>4. CASE For
  <2> DEFINE less == work_array[i + 1] < work_array[i]
  <2>1. /\ pc = "for" /\ pc' \in {"for", "until"} /\ run' = run /\ start' = start
        /\ work_array' = IF less THEN Swap(work_array, i) ELSE work_array
        /\ r9' = IF less THEN r9 + 1 ELSE r9
    BY <1>4 DEF For, Compare
  <2>2. r9 + Cardinality(WrongPairs(work_array, n)) = Cardinality(WrongPairs(start, n))
    BY <2>1, InversionsAreWrongPairs DEF SwapsAreInversions
  <2>3. i \in 1..(n - 1)
    BY <2>1, NType DEF TypeInv, TypeOK, LoopBounds, Bound, Runs
  <2>4. r9' + Cardinality(WrongPairs(work_array', n)) = Cardinality(WrongPairs(start, n))
    <3>1. CASE less
      <4>1. Cardinality(WrongPairs(work_array', n)) = Cardinality(WrongPairs(work_array, n)) - 1
        BY <3>1, <2>1, <2>3, <1>1, SwapRemovesOne
      <4>2. Cardinality(WrongPairs(work_array, n)) \in Nat
        BY <1>1, WrongPairsFinite, FS_CardinalityType
      <4> QED BY <3>1, <4>1, <4>2, <2>1, <2>2, <1>1
    <3>2. CASE ~less
      BY <3>2, <2>1, <2>2
    <3> QED BY <3>1, <3>2
  <2>5. (r9 + Inversions(work_array) = Inversions(start))'
    BY <2>1, <2>4 DEF Inversions, Sorting, WrongPairs
  <2> QED BY <2>5 DEF SwapsAreInversions
<1>5. CASE Until0 \/ Until1 \/ Until2
  BY <1>5 DEF Until0, Until1, Until2, Repeat, counters, SwapsAreInversions, Inversions, Sorting
<1>6. CASE PrintResults
  BY <1>6 DEF PrintResults, SwapsAreInversions
<1>7. CASE UNCHANGED vars
  BY <1>7 DEF vars, SwapsAreInversions, Inversions, Sorting
<1> QED
  BY <1>3, <1>4, <1>5, <1>6, <1>7 DEF Next, Done

(* The number of swaps that a run writes is the number of inversions of the
   array it was given: each swap removes exactly one.                      *)
THEOREM EverySwapRemovesAnInversion == Spec => []SwapsAreInversions
BY TypeInit, TypeStep, SwapsInit, SwapsStep, PTL DEF Spec
=============================================================================
