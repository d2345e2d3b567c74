--------------------------- MODULE ThreadsProofs ---------------------------
(***************************************************************************)
(* Proofs about the programs that MCThreads puts side by side, each for    *)
(* every value of its constants.                                           *)
(*                                                                         *)
(* Threads, for every number of threads and of lines: the inductive        *)
(* invariant adds to the checked ones where main stands in the order of    *)
(* creation: only workers already created can move.                        *)
(*                                                                         *)
(* MessageQueue, for every set of kirks and spocks, every number of lines  *)
(* and every limit of the queue: the inductive invariant adds to Delivered *)
(* where a process stands with respect to the queue it opened, and for a   *)
(* kirk that is still at work which of its lines are in that queue.        *)
(***************************************************************************)
EXTENDS MCThreads, FiniteSetTheorems, SequenceTheorems, TLAPS

(* Main creates workers in order, and those still to come have not run. *)
CreationOrder ==
    /\ pc[Main] # "unborn"
    /\ pc[Main] \in {"mmap", "clone"} => creating <= NThreads
    /\ \A w \in Workers : pc[w] \notin {"mmap", "clone"}
    /\ \A w \in Workers : w >= creating => pc[w] = "unborn"

(* Main is the one thread that can be killed before any other. *)
KillTakesMain == InPC("killed") # {} => pc[Main] = "killed" /\ Terminated

(* Values drawn and not yet printed lie above count. *)
DrawnAboveCount == \A t \in InPC("puts") : rax[t] > count

TypeInv == TypeOK /\ CreationOrder
Inv == TypeInv /\ LinesConserved /\ OvershootIsExited

LEMMA ConstantsAreNat == NThreads \in Nat /\ MAX_LINES \in Nat
BY NThreadsAssumption, MaxLinesAssumption

LEMMA TypeInvInit == Init => TypeInv
BY ConstantsAreNat
   DEF Init, TypeInv, TypeOK, CreationOrder, Threads, Main, Workers, PC, Running

LEMMA TypeInvStep == TypeInv /\ [Next]_vars => TypeInv'
<1> SUFFICES ASSUME TypeInv, [Next]_vars PROVE TypeInv'
  OBVIOUS
<1> USE ConstantsAreNat DEF TypeInv, TypeOK, CreationOrder, Threads, Main, Workers, PC, Running
<1>1. CASE StackCreate
  BY <1>1 DEF StackCreate
<1>2. CASE StackCreateFails
  BY <1>2 DEF StackCreateFails
<1>3. ASSUME NEW born \in BOOLEAN, ThreadCreate(born) PROVE TypeInv'
  <2>1. creating \in 1..NThreads
    BY <1>3 DEF ThreadCreate
  <2> QED BY <2>1, <1>3 DEF ThreadCreate
<1>4. ASSUME NEW t \in Threads, CheckCount(t) PROVE TypeInv'
  BY <1>4 DEF CheckCount, Drawn
<1>5. ASSUME NEW t \in Threads, Puts(t) PROVE TypeInv'
  BY <1>5 DEF Puts
<1>6. CASE UNCHANGED vars
  BY <1>6 DEF vars
<1> QED
  BY <1>1, <1>2, <1>3, <1>4, <1>5, <1>6 DEF Next, Create, Loop, Done

(* Every variable keeps its type: a thread only ever stands at one of the
   places of the program, and main creates no thread past the last.        *)
THEOREM TypeCorrect == Spec => []TypeOK
<1>1. TypeInv => TypeOK
  BY DEF TypeInv
<1> QED
  BY <1>1, TypeInvInit, TypeInvStep, PTL DEF Spec

-----------------------------------------------------------------------------
(* Sets of threads are finite, so that they can be counted. *)
LEMMA InPCFinite ==
    ASSUME NEW p PROVE IsFiniteSet(InPC(p)) /\ Cardinality(InPC(p)) \in Nat
<1>1. IsFiniteSet(0..NThreads)
  BY ConstantsAreNat, FS_Interval
<1>2. InPC(p) \in SUBSET (0..NThreads)
  BY ConstantsAreNat DEF InPC, Threads, Main, Workers
<1> QED BY <1>1, <1>2, FS_Subset, FS_CardinalityType

(* What a step that moves one thread does to the sets InPC. *)
LEMMA MoveOne ==
    ASSUME TypeOK, NEW t \in Threads, NEW q, NEW p, pc' = [pc EXCEPT ![t] = q]
    PROVE  InPC(p)' = IF q = p THEN InPC(p) \cup {t} ELSE InPC(p) \ {t}
BY DEF TypeOK, InPC

LEMMA CountInit == Init => LinesConserved /\ OvershootIsExited
<1> SUFFICES ASSUME Init PROVE LinesConserved /\ OvershootIsExited
  OBVIOUS
<1>1. InPC("puts") = {} /\ InPC("exited") = {}
  BY DEF Init, InPC
<1> QED
  BY <1>1, FS_EmptySet, ConstantsAreNat DEF Init, LinesConserved, OvershootIsExited, Left

LEMMA CountStep == Inv /\ [Next]_vars => (LinesConserved /\ OvershootIsExited)'
<1> SUFFICES ASSUME Inv, [Next]_vars PROVE (LinesConserved /\ OvershootIsExited)'
  OBVIOUS
<1> DEFINE Goal == (LinesConserved /\ OvershootIsExited)'
<1>0. TypeOK /\ CreationOrder /\ LinesConserved /\ OvershootIsExited
  BY DEF Inv, TypeInv
<1>0a. \A p : IsFiniteSet(InPC(p)) /\ Cardinality(InPC(p)) \in Nat
  BY InPCFinite
<1>0b. count \in Int /\ printed \in Nat /\ MAX_LINES \in Nat
  BY <1>0, ConstantsAreNat DEF TypeOK
<1>0c. ASSUME UNCHANGED <<count, printed>>,
              \A p \in {"puts", "exited", "killed"} : InPC(p)' = InPC(p)
       PROVE  Goal
  BY <1>0, <1>0c DEF LinesConserved, OvershootIsExited, Left
<1>1. CASE StackCreate
  <2>1. \A p \in {"puts", "exited", "killed"} : InPC(p)' = InPC(p)
    BY <1>0, <1>1 DEF StackCreate, InPC, TypeOK
  <2> QED BY <2>1, <1>1, <1>0c DEF StackCreate
<1>2. CASE StackCreateFails
  <2>1. InPC("puts")' = {} /\ InPC("exited")' = InPC("exited")
    BY <1>0, <1>2 DEF StackCreateFails, InPC, TypeOK, Running
  <2>2. InPC("killed")' # {}
    BY <1>0, <1>2 DEF StackCreateFails, InPC, TypeOK, Running, Threads
  <2>3. Cardinality(InPC("puts")') = 0
    BY <2>1, FS_EmptySet
  <2>4. count' = count /\ printed' = printed
    BY <1>2 DEF StackCreateFails
  <2>5. OvershootIsExited'
    BY <2>1, <2>4, <1>0 DEF OvershootIsExited
  <2>6. LinesConserved'
    BY <2>2, <2>3, <2>4, <1>0, <1>0a, <1>0b DEF LinesConserved, Left
  <2> QED BY <2>5, <2>6
<1>3. ASSUME NEW born \in BOOLEAN, ThreadCreate(born) PROVE Goal
  <2>1. creating \in Workers /\ pc[creating] = "unborn"
    BY <1>0, <1>3, ConstantsAreNat DEF ThreadCreate, TypeOK, CreationOrder, Workers
  <2>2. \A p \in {"puts", "exited", "killed"} : InPC(p)' = InPC(p)
    BY <1>0, <1>3, <2>1 DEF ThreadCreate, InPC, TypeOK, Threads
  <2> QED BY <2>2, <1>3, <1>0c DEF ThreadCreate
<1>4. ASSUME NEW t \in Threads, CheckCount(t) PROVE Goal
  <2>1. t \notin InPC("puts") /\ t \notin InPC("exited") /\ t \notin InPC("killed")
    BY <1>4 DEF CheckCount, Drawn, InPC
  <2>2. CASE count - 1 < 0
    <3>1. /\ InPC("exited")' = InPC("exited") \cup {t}
          /\ InPC("puts")' = InPC("puts")
          /\ InPC("killed")' = InPC("killed")
      BY <1>0, <1>4, <2>1, <2>2, MoveOne DEF CheckCount, Drawn, TypeOK, InPC
    <3>2. Cardinality(InPC("exited")') = Cardinality(InPC("exited")) + 1
      BY <3>1, <2>1, <1>0a, FS_AddElement
    <3>3. OvershootIsExited'
      BY <3>2, <2>2, <1>0, <1>0b, <1>4 DEF CheckCount, Drawn, OvershootIsExited
    <3>4. LinesConserved'
      BY <3>1, <2>2, <1>0, <1>0a, <1>0b, <1>4 DEF CheckCount, Drawn, LinesConserved, Left
    <3> QED BY <3>3, <3>4
  <2>3. CASE ~(count - 1 < 0)
    <3>1. /\ InPC("puts")' = InPC("puts") \cup {t}
          /\ InPC("exited")' = InPC("exited")
          /\ InPC("killed")' = InPC("killed")
      BY <1>0, <1>4, <2>1, <2>3, MoveOne DEF CheckCount, Drawn, TypeOK, InPC
    <3>2. Cardinality(InPC("puts")') = Cardinality(InPC("puts")) + 1
      BY <3>1, <2>1, <1>0a, FS_AddElement
    <3>3. OvershootIsExited'
      BY <3>1, <2>3, <1>0, <1>0b, <1>4 DEF CheckCount, Drawn, OvershootIsExited
    <3>4. LinesConserved'
      BY <3>1, <3>2, <2>3, <1>0, <1>0a, <1>0b, <1>4 DEF CheckCount, Drawn, LinesConserved, Left
    <3> QED BY <3>3, <3>4
  <2> QED BY <2>2, <2>3
<1>5. ASSUME NEW t \in Threads, Puts(t) PROVE Goal
  <2>1. t \in InPC("puts") /\ t \notin InPC("exited") /\ t \notin InPC("killed")
    BY <1>5 DEF Puts, InPC
  <2>2. /\ InPC("puts")' = InPC("puts") \ {t}
        /\ InPC("exited")' = InPC("exited")
        /\ InPC("killed")' = InPC("killed")
    BY <1>0, <1>5, <2>1 DEF Puts, TypeOK, InPC
  <2>3. Cardinality(InPC("puts")') = Cardinality(InPC("puts")) - 1
    BY <2>1, <2>2, <1>0a, FS_RemoveElement
  <2>4. OvershootIsExited'
    BY <2>2, <1>0, <1>5 DEF Puts, OvershootIsExited
  <2>5. LinesConserved'
    BY <2>2, <2>3, <1>0, <1>0a, <1>0b, <1>5 DEF Puts, LinesConserved, Left
  <2> QED BY <2>4, <2>5
<1>6. CASE UNCHANGED vars
  BY <1>6, <1>0c DEF vars, InPC
<1> QED
  BY <1>1, <1>2, <1>3, <1>4, <1>5, <1>6 DEF Next, Create, Loop, Done

THEOREM Invariance == Spec => []Inv
<1>1. Init => Inv
  BY TypeInvInit, CountInit DEF Inv
<1>2. Inv /\ [Next]_vars => Inv'
  BY TypeInvStep, CountStep DEF Inv
<1> QED
  BY <1>1, <1>2, PTL DEF Spec

(* No line is lost and none is promised twice, however the xadd and the writes
   of the threads interleave and whichever clone fails.                    *)
THEOREM LinesAreConserved == Spec => []LinesConserved
<1>1. Inv => LinesConserved
  BY DEF Inv
<1> QED BY <1>1, Invariance, PTL

(* count undershoots zero by the number of threads that ended and no more, so
   the 64-bit counter never wraps.                                         *)
THEOREM OvershootIsBounded == Spec => [](OvershootIsExited /\ count >= -(NThreads + 1))
<1>1. Inv => OvershootIsExited /\ count >= -(NThreads + 1)
  <2> SUFFICES ASSUME Inv PROVE OvershootIsExited /\ count >= -(NThreads + 1)
    OBVIOUS
  <2>1. IsFiniteSet(0..NThreads) /\ Cardinality(0..NThreads) = NThreads + 1
    BY ConstantsAreNat, FS_Interval
  <2>2. InPC("exited") \in SUBSET (0..NThreads)
    BY ConstantsAreNat DEF InPC, Threads, Main, Workers
  <2>3. Cardinality(InPC("exited")) <= NThreads + 1
    BY <2>1, <2>2, FS_Subset
  <2> QED
    BY <2>3, InPCFinite, ConstantsAreNat DEF Inv, TypeInv, TypeOK, OvershootIsExited
<1> QED BY <1>1, Invariance, PTL

(* When the program ends by itself every line has been printed, and none more,
   for any number of threads, created or not.                              *)
THEOREM EndPrintsEveryLine == Spec => []AllLinesPrinted
<1>1. Inv => AllLinesPrinted
  <2> SUFFICES ASSUME Inv, Terminated, InPC("killed") = {} PROVE printed = MAX_LINES
    BY DEF AllLinesPrinted
  <2>0. TypeOK /\ CreationOrder /\ LinesConserved /\ OvershootIsExited
    BY DEF Inv, TypeInv
  <2>1. InPC("puts") = {}
    BY DEF Terminated, InPC, Running
  <2>2. Main \in InPC("exited")
    BY <2>0 DEF Terminated, InPC, Running, Threads, TypeOK, PC, CreationOrder
  <2>3. Cardinality(InPC("exited")) # 0
    BY <2>2, InPCFinite, FS_EmptySet
  <2>4. count < 0
    BY <2>3, <2>0 DEF OvershootIsExited
  <2>5. Cardinality(InPC("puts")) = 0
    BY <2>1, FS_EmptySet
  <2> QED
    BY <2>0, <2>4, <2>5, ConstantsAreNat DEF LinesConserved, Left, TypeOK
<1> QED BY <1>1, Invariance, PTL

-----------------------------------------------------------------------------
LEMMA TicketsInit == Init => DrawnAboveCount /\ TicketsUnique
BY DEF Init, DrawnAboveCount, TicketsUnique, InPC

LEMMA TicketsStep ==
    TypeInv /\ DrawnAboveCount /\ TicketsUnique /\ [Next]_vars
        => (DrawnAboveCount /\ TicketsUnique)'
<1> SUFFICES ASSUME TypeInv, DrawnAboveCount, TicketsUnique, [Next]_vars
             PROVE  (DrawnAboveCount /\ TicketsUnique)'
  OBVIOUS
<1> USE DEF DrawnAboveCount, TicketsUnique, InPC
<1>0. TypeOK /\ CreationOrder
  BY DEF TypeInv
<1>1. CASE StackCreate
  BY <1>0, <1>1 DEF StackCreate, TypeOK
<1>2. CASE StackCreateFails
  BY <1>0, <1>2 DEF StackCreateFails, TypeOK, Running
<1>3. ASSUME NEW born \in BOOLEAN, ThreadCreate(born)
      PROVE  (DrawnAboveCount /\ TicketsUnique)'
  BY <1>0, <1>3 DEF ThreadCreate, TypeOK
<1>4. ASSUME NEW t \in Threads, CheckCount(t) PROVE (DrawnAboveCount /\ TicketsUnique)'
  <2>1. \A u \in InPC("puts")' : u = t \/ (u # t /\ u \in InPC("puts"))
    BY <1>0, <1>4 DEF CheckCount, Drawn, TypeOK
  <2>2. rax'[t] = count /\ count' = count - 1 /\ \A u \in Threads : u # t => rax'[u] = rax[u]
    BY <1>0, <1>4 DEF CheckCount, Drawn, TypeOK
  <2>3. count \in Int /\ \A u \in Threads : rax[u] \in Int
    BY <1>0 DEF TypeOK
  <2>4. DrawnAboveCount'
    BY <2>1, <2>2, <2>3
  <2>5. \A u \in InPC("puts")' : u # t => rax'[u] > rax'[t]
    BY <2>1, <2>2, <2>3
  <2>6. TicketsUnique'
    <3> SUFFICES ASSUME NEW u \in InPC("puts")', NEW v \in InPC("puts")', u # v
                 PROVE  rax'[u] # rax'[v]
      OBVIOUS
    <3>1. rax'[u] \in Int /\ rax'[v] \in Int
      BY <2>2, <2>3
    <3>2. CASE u = t
      BY <3>1, <3>2, <2>5
    <3>3. CASE v = t
      BY <3>1, <3>3, <2>5
    <3>4. CASE u # t /\ v # t
      BY <3>4, <2>1, <2>2
    <3> QED BY <3>2, <3>3, <3>4
  <2> QED BY <2>4, <2>6
<1>5. ASSUME NEW t \in Threads, Puts(t) PROVE (DrawnAboveCount /\ TicketsUnique)'
  BY <1>0, <1>5 DEF Puts, TypeOK
<1>6. CASE UNCHANGED vars
  BY <1>6 DEF vars
<1> QED
  BY <1>1, <1>2, <1>3, <1>4, <1>5, <1>6 DEF Next, Create, Loop, Done

(* The locked xadd gives each value of count to one thread only. *)
THEOREM TicketsAreUnique == Spec => []TicketsUnique
BY TypeInvInit, TypeInvStep, TicketsInit, TicketsStep, PTL DEF Spec

-----------------------------------------------------------------------------
LEMMA KillInit == Init => KillTakesMain
BY DEF Init, KillTakesMain, InPC, Threads, Main

LEMMA KillStep == TypeInv /\ KillTakesMain /\ [Next]_vars => KillTakesMain'
<1> SUFFICES ASSUME TypeInv, KillTakesMain, [Next]_vars PROVE KillTakesMain'
  OBVIOUS
<1> USE DEF KillTakesMain, InPC, Terminated, Running
<1>0. TypeOK /\ CreationOrder /\ Main \in Threads
  BY DEF TypeInv, Threads
<1>1. CASE StackCreate
  BY <1>0, <1>1 DEF StackCreate, TypeOK
<1>2. CASE StackCreateFails
  BY <1>0, <1>2 DEF StackCreateFails, TypeOK
<1>3. ASSUME NEW born \in BOOLEAN, ThreadCreate(born) PROVE KillTakesMain'
  BY <1>0, <1>3 DEF ThreadCreate, TypeOK
<1>4. ASSUME NEW t \in Threads, CheckCount(t) PROVE KillTakesMain'
  BY <1>0, <1>4 DEF CheckCount, Drawn, TypeOK
<1>5. ASSUME NEW t \in Threads, Puts(t) PROVE KillTakesMain'
  BY <1>0, <1>5 DEF Puts, TypeOK
<1>6. CASE UNCHANGED vars
  BY <1>6 DEF vars
<1> QED
  BY <1>1, <1>2, <1>3, <1>4, <1>5, <1>6 DEF Next, Create, Loop, Done

(* A step of the threads draws one line, writes one drawn line, kills the
   process or leaves the budget alone.                                     *)
LEMMA BudgetStep ==
    Inv /\ Inv' /\ KillTakesMain /\ [Next]_vars => [Budget!Next]_(Budget!vars)
<1> SUFFICES ASSUME Inv, Inv', KillTakesMain, [Next]_vars
             PROVE  [Budget!Next]_(Budget!vars)
  OBVIOUS
<1> USE DEF Budget!vars
<1>0. TypeOK /\ CreationOrder /\ LinesConserved /\ OvershootIsExited
  BY DEF Inv, TypeInv
<1>0a. count \in Int /\ printed \in Nat /\ MAX_LINES \in Nat
  BY <1>0, ConstantsAreNat DEF TypeOK
<1>0b. ASSUME UNCHANGED <<count, printed>>, InPC("killed")' = InPC("killed")
       PROVE  UNCHANGED Budget!vars
  BY <1>0b DEF Left
<1>1. CASE StackCreate
  BY <1>0, <1>1, <1>0b DEF StackCreate, InPC, TypeOK
<1>2. CASE StackCreateFails
  <2>1. InPC("killed") = {}
    BY <1>2 DEF StackCreateFails, KillTakesMain
  <2>2. Main \in InPC("killed")'
    BY <1>0, <1>2 DEF StackCreateFails, InPC, TypeOK, Running, Threads
  <2> QED BY <1>2, <2>1, <2>2 DEF StackCreateFails, Budget!Next, Budget!Die, Left
<1>3. ASSUME NEW born \in BOOLEAN, ThreadCreate(born) PROVE UNCHANGED Budget!vars
  <2>1. creating \in Workers /\ pc[creating] = "unborn"
    BY <1>0, <1>3, ConstantsAreNat DEF ThreadCreate, TypeOK, CreationOrder, Workers
  <2>2. InPC("killed")' = InPC("killed")
    BY <1>0, <1>3, <2>1 DEF ThreadCreate, InPC, TypeOK, Threads
  <2> QED BY <2>2, <1>3, <1>0b DEF ThreadCreate
<1>4. ASSUME NEW t \in Threads, CheckCount(t) PROVE [Budget!Next]_(Budget!vars)
  <2>1. InPC("killed") = {}
    BY <1>4 DEF CheckCount, Drawn, KillTakesMain, Terminated, Running
  <2>2. InPC("killed")' = {}
    BY <1>0, <1>4, <2>1 DEF CheckCount, Drawn, InPC, TypeOK
  <2>3. count' = count - 1 /\ printed' = printed
    BY <1>4 DEF CheckCount, Drawn
  <2>4. CASE count > 0
    BY <2>1, <2>2, <2>3, <2>4, <1>0a DEF Budget!Next, Budget!Draw, Left
  <2>5. CASE ~(count > 0)
    BY <2>1, <2>2, <2>3, <2>5, <1>0a DEF Left
  <2> QED BY <2>4, <2>5
<1>5. ASSUME NEW t \in Threads, Puts(t) PROVE [Budget!Next]_(Budget!vars)
  <2>1. InPC("killed") = {}
    BY <1>5 DEF Puts, KillTakesMain, Terminated, Running
  <2>2. InPC("killed")' = {}
    BY <1>0, <1>5, <2>1 DEF Puts, InPC, TypeOK
  <2>3. count' = count /\ printed' = printed + 1
    BY <1>5 DEF Puts
  <2>4. t \in InPC("puts")
    BY <1>5 DEF Puts, InPC
  <2>5. Cardinality(InPC("puts")) \in Nat /\ Cardinality(InPC("puts")) # 0
    BY <2>4, InPCFinite, FS_EmptySet
  <2>6. printed < MAX_LINES - Left
    BY <2>5, <1>0, <1>0a DEF LinesConserved, Left
  <2> QED BY <2>1, <2>2, <2>3, <2>6, <1>0a DEF Budget!Next, Budget!Write, Left
<1>6. CASE UNCHANGED vars
  BY <1>6, <1>0b DEF vars, InPC
<1> QED
  BY <1>1, <1>2, <1>3, <1>4, <1>5, <1>6 DEF Next, Create, Loop, Done

(* The threads implement the budget of lines (its safety part): every step is
   one of its steps or leaves it alone.                                    *)
THEOREM ThreadsRefineBudget == Spec => Budget!Init /\ [][Budget!Next]_(Budget!vars)
<1>1. Init => Budget!Init
  BY ConstantsAreNat DEF Init, Budget!Init, Left, InPC, Threads, Main
<1> QED
  BY <1>1, Invariance, KillInit, KillStep, TypeInvInit, TypeInvStep, BudgetStep, PTL
     DEF Spec

-----------------------------------------------------------------------------
(***************************************************************************)
(* MessageQueue                                                            *)
(***************************************************************************)
(* A process opens at most one queue, and an identifier nobody was given names
   an empty one.                                                           *)
Started == {p \in Queue!Procs : qPc[p] # "msgget"}
Attached(p) == qPc[p] \in {"read", "msgsnd", "msgctl", "msgrcv", "write", "exit_0"}

Opened ==
    /\ lastId <= Cardinality(Started)
    /\ \A p \in Queue!Procs : /\ msqid[p] <= lastId
                              /\ qPc[p] = "msgget" => msqid[p] = 0
                              /\ Attached(p) => msqid[p] # 0
    /\ \A i \in Queue!Ids : i > lastId => sent[i] = <<>> /\ received[i] = <<>>

(* The messages of a kirk in a queue, and the lines they carry. *)
Own(k, q) == {j \in DOMAIN q : q[j].from = k}
LinesIn(k, q) == {q[j].line : j \in Own(k, q)}
Ascending(k, q) == \A i, j \in Own(k, q) : i < j => q[i].line < q[j].line

(* A kirk sends to the queue it opened, and a kirk that was neither killed nor
   refused has sent there every line it read, but for the one in its hands. *)
SentSoFar(k) == IF qPc[k] = "msgsnd" THEN typed[k] - 1 ELSE typed[k]

LinesSent ==
    /\ \A k \in Kirks, i \in Queue!Ids : Own(k, sent[i]) # {} => i = msqid[k]
    /\ \A k \in Kirks :
          /\ qPc[k] = "msgget" => typed[k] = 0
          /\ qPc[k] = "msgsnd" => typed[k] > 0
          /\ Attached(k) => /\ LinesIn(k, sent[msqid[k]]) = 1..SentSoFar(k)
                            /\ Ascending(k, sent[msqid[k]])

QInv == Queue!TypeOK /\ Opened /\ Queue!OnceAndInOrder /\ LinesSent

-----------------------------------------------------------------------------
(* The instance counts as this module does. *)
LEMMA Counting ==
    \A S : /\ Queue!IsFiniteSet(S) <=> IsFiniteSet(S)
           /\ Queue!Cardinality(S) = Cardinality(S)
BY DEF Queue!IsFiniteSet, IsFiniteSet, Queue!Cardinality, Cardinality

LEMMA ConstantsAreRight ==
    /\ ReadResults \subseteq (-133..200) \ {0}
    /\ Lines \in [Kirks -> Nat]
    /\ Privileged \in BOOLEAN
    /\ Kirks \cap Spocks = {}
    /\ IsFiniteSet(Queue!Procs)
    /\ Cardinality(Queue!Procs) \in Nat
    /\ QueueLimit \in Nat \ {0}
<1>1. Queue!ConstantsOK
  BY QueueAssumption
<1>2. IsFiniteSet(Queue!Procs)
  BY <1>1, Counting DEF Queue!ConstantsOK, Queue!Procs
<1> QED
  BY <1>1, <1>2, FS_CardinalityType DEF Queue!ConstantsOK, Queue!BUFFER_LENGTH

(* A prefix stays one when its whole gets longer. *)
LEMMA PrefixOfConcat ==
    ASSUME NEW S, NEW q \in Seq(S), NEW r \in Seq(S)
    PROVE  Queue!IsPrefix(q, q \o r)
<1>1. /\ Len(q \o r) = Len(q) + Len(r)
      /\ \A i \in 1..Len(q) : (q \o r)[i] = q[i]
  BY ConcatProperties
<1>2. Len(q) <= Len(q \o r)
  BY <1>1
<1>3. SubSeq(q, 1, Len(q)) = SubSeq(q \o r, 1, Len(q))
  BY <1>1
<1> QED BY <1>2, <1>3 DEF Queue!IsPrefix

(* A queue that got one more message, and one in front of another; both stay
   folded where these lemmas are used.                                     *)
IsAppend(r, q, m) == r = Append(q, m)
IsConcat(w, q, r) == w = q \o r

LEMMA AppendToConcat ==
    ASSUME NEW S, NEW q \in Seq(S), NEW r \in Seq(S), NEW e \in S,
           NEW w, IsConcat(w, q, r), NEW w2, IsAppend(w2, w, e), NEW r2, IsAppend(r2, r, e)
    PROVE  IsConcat(w2, q, r2)
<1>1. <<e>> \in Seq(S) /\ q \o r \in Seq(S)
  BY ConcatProperties
<1>2. Append(q \o r, e) = (q \o r) \o <<e>> /\ Append(r, e) = r \o <<e>>
  BY <1>1, AppendIsConcat
<1>3. (q \o r) \o <<e>> = q \o (r \o <<e>>)
  BY <1>1, ConcatAssociative
<1> QED BY <1>2, <1>3 DEF IsAppend, IsConcat

LEMMA HeadMoves ==
    ASSUME NEW S, NEW q \in Seq(S), NEW r \in Seq(S), r # <<>>
    PROVE  Append(q, Head(r)) \o Tail(r) = q \o r
<1>1. Head(r) \in S /\ Tail(r) \in Seq(S) /\ Len(r) \in Nat \ {0}
      /\ Len(Tail(r)) = Len(r) - 1 /\ \A i \in 1..Len(Tail(r)) : Tail(r)[i] = r[i + 1]
      /\ Head(r) = r[1]
  BY HeadTailProperties, EmptySeq, LenProperties
<1> QED BY <1>1

(* The messages of a kirk in a queue that got one more. *)
LEMMA OwnOfAppend ==
    ASSUME NEW q \in Seq(Queue!Message), NEW m \in Queue!Message, NEW k \in Kirks,
           NEW r, IsAppend(r, q, m)
    PROVE  /\ m.from = k => Own(k, r) = Own(k, q) \cup {Len(q) + 1}
           /\ m.from # k => Own(k, r) = Own(k, q)
           /\ \A j \in Own(k, q) : r[j] = q[j] /\ j <= Len(q)
           /\ r[Len(q) + 1] = m
BY AppendProperties DEF Own, IsAppend

LEMMA LinesOfAppend ==
    ASSUME NEW q \in Seq(Queue!Message), NEW m \in Queue!Message, NEW k \in Kirks,
           NEW n \in Nat \ {0},
           LinesIn(k, q) = 1..(n - 1), Ascending(k, q), m.from = k, m.line = n,
           NEW r, IsAppend(r, q, m)
    PROVE  LinesIn(k, r) = 1..n /\ Ascending(k, r)
<1>0. Own(k, r) = Own(k, q) \cup {Len(q) + 1}
  BY OwnOfAppend
<1>1. /\ Own(k, r) = Own(k, q) \cup {Len(q) + 1}
      /\ \A j \in Own(k, q) : r[j] = q[j] /\ j <= Len(q)
      /\ r[Len(q) + 1] = m
  BY <1>0, OwnOfAppend
<1>2. LinesIn(k, r) = LinesIn(k, q) \cup {n}
  BY <1>1 DEF LinesIn
<1>3. 1..n = 1..(n - 1) \cup {n}
  OBVIOUS
<1>4. \A j \in Own(k, q) : q[j].line \in 1..(n - 1)
  BY DEF LinesIn
<1>5. Len(q) \in Nat /\ Own(k, q) \subseteq Nat
  BY DEF Own
<1>6. Ascending(k, r)
  <2> SUFFICES ASSUME NEW i \in Own(k, r), NEW j \in Own(k, r), i < j
               PROVE  r[i].line < r[j].line
    BY DEF Ascending
  <2>1. i \in Own(k, q)
    BY <1>1, <1>5
  <2>2. CASE j \in Own(k, q)
    BY <2>1, <2>2, <1>1 DEF Ascending
  <2>3. CASE j = Len(q) + 1
    <3>1. r[i].line \in 1..(n - 1)
      BY <2>1, <1>1, <1>4
    <3>2. r[j].line = n
      BY <2>3, <1>1
    <3> QED BY <3>1, <3>2
  <2> QED BY <2>2, <2>3, <1>1
<1> QED BY <1>2, <1>3, <1>6

-----------------------------------------------------------------------------
LEMMA StartedFinite ==
    /\ IsFiniteSet(Started) /\ Cardinality(Started) \in Nat
    /\ Cardinality(Started) <= Cardinality(Queue!Procs)
BY ConstantsAreRight, FS_Subset, FS_CardinalityType DEF Started

(* A process that has yet to call msgget leaves an identifier for the queue it
   may create.                                                             *)
LEMMA IdLeft ==
    ASSUME QInv, NEW p \in Queue!Procs, qPc[p] = "msgget"
    PROVE  lastId + 1 \in Queue!Ids /\ Cardinality(Started) < Cardinality(Queue!Procs)
<1>1. Started \subseteq Queue!Procs \ {p}
  BY DEF Started
<1>2. IsFiniteSet(Queue!Procs \ {p})
      /\ Cardinality(Queue!Procs \ {p}) = Cardinality(Queue!Procs) - 1
  BY ConstantsAreRight, FS_RemoveElement
<1>3. Cardinality(Started) <= Cardinality(Queue!Procs) - 1
  BY <1>1, <1>2, FS_Subset
<1>4. lastId \in Nat /\ lastId <= Cardinality(Started)
  BY ConstantsAreRight DEF QInv, Opened, Queue!TypeOK, Queue!Ids
<1> QED BY <1>3, <1>4, ConstantsAreRight, StartedFinite, Counting DEF Queue!Ids

(* What happens to Started when a process leaves msgget, or another one moves. *)
LEMMA StartedStep ==
    ASSUME Queue!TypeOK, NEW p \in Queue!Procs, NEW label, qPc' = [qPc EXCEPT ![p] = label],
           label # "msgget"
    PROVE  /\ Cardinality(Started)' \in Nat
           /\ Cardinality(Started) <= Cardinality(Started)'
           /\ qPc[p] = "msgget" => Cardinality(Started)' = Cardinality(Started) + 1
<1>1. Started' = Started \cup {p}
  BY DEF Started, Queue!TypeOK, Queue!Procs
<1>2. IsFiniteSet(Started) /\ Cardinality(Started) \in Nat
  BY StartedFinite
<1>3. /\ IsFiniteSet(Started \cup {p})
      /\ Cardinality(Started \cup {p}) = IF p \in Started THEN Cardinality(Started)
                                          ELSE Cardinality(Started) + 1
  BY <1>2, FS_AddElement
<1>4. p \in Started <=> qPc[p] # "msgget"
  BY DEF Started
<1> QED BY <1>1, <1>2, <1>3, <1>4
-----------------------------------------------------------------------------
LEMMA QInvInit == Queue!Init => QInv
<1> SUFFICES ASSUME Queue!Init PROVE QInv
  OBVIOUS
<1>0. Queue!Ids \subseteq Nat \ {0} /\ Cardinality(Queue!Procs) \in Nat
  BY ConstantsAreRight, Counting DEF Queue!Ids
<1>1. Queue!TypeOK
  BY <1>0, ConstantsAreRight
     DEF Queue!Init, Queue!TypeOK, Queue!Procs, Queue!MTYPE_SIZE, Queue!BUFFER_LENGTH
<1>2. Opened
  BY <1>0, StartedFinite, ConstantsAreRight DEF Queue!Init, Opened, Attached
<1>3. Queue!OnceAndInOrder
  BY <1>0 DEF Queue!Init, Queue!OnceAndInOrder, Queue!IsPrefix
<1>4. LinesSent
  BY DEF Queue!Init, LinesSent, Own, Attached, Queue!Procs
<1> QED BY <1>1, <1>2, <1>3, <1>4 DEF QInv

(* A process that leaves by itself, is killed or refused, or goes on without
   touching the queue.                                                     *)
LEMMA MoveStep ==
    ASSUME QInv, NEW p \in Queue!Procs, NEW label, qPc' = [qPc EXCEPT ![p] = label],
           label # "msgget", Queue!TypeOK',
           UNCHANGED <<live, lastId, msgs, sent, received, msqid, typed>>,
           label \notin {"exit_1", "killed"} => Attached(p),
           qPc[p] = "msgsnd" => label \in {"exit_1", "killed"},
           label # "msgsnd"
    PROVE  QInv'
<1>1. Opened'
  <2>1. Cardinality(Started) \in Nat /\ Cardinality(Started)' \in Nat
        /\ Cardinality(Started) <= Cardinality(Started)'
    BY StartedStep, StartedFinite DEF QInv
  <2>2. lastId' <= Cardinality(Started)'
    BY <2>1, ConstantsAreRight DEF QInv, Opened, Queue!TypeOK, Queue!Ids
  <2>3. \A q \in Queue!Procs : Attached(q)' => Attached(q)
    BY DEF QInv, Attached, Queue!TypeOK
  <2> QED BY <2>2, <2>3 DEF QInv, Opened, Queue!TypeOK, Queue!Ids, Queue!Procs
<1>2. Queue!OnceAndInOrder'
  BY DEF QInv, Queue!OnceAndInOrder, Queue!Ids, Queue!Procs
<1>3. LinesSent'
  <2>1. \A k \in Kirks : Attached(k)' => Attached(k) /\ SentSoFar(k)' = SentSoFar(k)
    BY DEF QInv, Attached, Queue!TypeOK, SentSoFar
  <2>2. \A k \in Kirks : /\ qPc'[k] = "msgget" => qPc[k] = "msgget"
                         /\ qPc'[k] # "msgsnd" \/ qPc[k] = "msgsnd"
    BY DEF QInv, Queue!TypeOK, Queue!Procs
  <2>3. sent' = sent /\ msqid' = msqid /\ typed' = typed /\ Queue!Ids' = Queue!Ids
    BY DEF Queue!Ids, Queue!Procs
  <2> QED BY <2>1, <2>2, <2>3 DEF QInv, LinesSent
<1> QED BY <1>1, <1>2, <1>3 DEF QInv
(* Where the processes stand, and why they left. *)
Places ==
    /\ qPc \in [Queue!Procs -> {"msgget", "read", "msgsnd", "msgctl", "msgrcv", "write",
                                "exit_0", "exit_1", "killed"}]
    /\ \A k \in Kirks : qPc[k] \notin {"msgrcv", "write"}
    /\ \A s \in Spocks : qPc[s] \notin {"read", "msgsnd", "msgctl", "exit_0"}
    /\ errno \in [Queue!Procs -> {"none", "ENOENT", "EACCES", "EINVAL", "EIDRM", "E2BIG"}]

(* The places of a process: those of kirk.asm, or those of spock.asm. *)
PlacesOf(p) ==
    {"exit_1", "killed"} \cup
    IF p \in Kirks THEN {"msgget", "read", "msgsnd", "msgctl", "exit_0"}
                   ELSE {"msgget", "msgrcv", "write"}

LEMMA PlacesStep ==
    ASSUME Queue!TypeOK, NEW p \in Queue!Procs, NEW label \in PlacesOf(p),
           \/ Queue!GoTo(p, label)
           \/ /\ label = "exit_1"
              /\ \E e \in {"ENOENT", "EACCES", "EINVAL", "EIDRM", "E2BIG"} : Queue!ExitError(p, e)
    PROVE  Places' /\ qPc' = [qPc EXCEPT ![p] = label]
<1>1. qPc' = [qPc EXCEPT ![p] = label]
  BY DEF Queue!GoTo, Queue!ExitError
<1>2. errno' = errno \/ \E e \in {"ENOENT", "EACCES", "EINVAL", "EIDRM", "E2BIG"} :
                            errno' = [errno EXCEPT ![p] = e]
  BY DEF Queue!GoTo, Queue!ExitError
<1>3. errno' \in [Queue!Procs -> {"none", "ENOENT", "EACCES", "EINVAL", "EIDRM", "E2BIG"}]
  BY <1>2 DEF Queue!TypeOK
<1>4. Kirks \cap Spocks = {}
  BY ConstantsAreRight
<1> QED BY <1>1, <1>3, <1>4 DEF Queue!TypeOK, Places, PlacesOf, Queue!Procs

(* The rest of the type invariant. *)
Contents ==
    /\ live \in {0} \cup Queue!Ids /\ lastId \in {0} \cup Queue!Ids /\ live <= lastId
    /\ msgs \in Seq(Queue!Message) /\ Len(msgs) <= QueueLimit
    /\ msqid \in [Queue!Procs -> {0} \cup Queue!Ids]
    /\ nbytesread \in [Kirks -> {0} \cup ReadResults]
    /\ typed \in [Kirks -> Nat] /\ \A k \in Kirks : typed[k] <= Lines[k]
    /\ bytesreceived \in [Spocks -> -8..200]
    /\ sent \in [Queue!Ids -> Seq(Queue!Message)]
    /\ received \in [Queue!Ids -> Seq(Queue!Message)]

LEMMA TypeOKParts == Queue!TypeOK <=> Places /\ Contents
BY DEF Queue!TypeOK, Places, Contents, Queue!MTYPE_SIZE, Queue!BUFFER_LENGTH

(* Every action keeps the types. *)
LEMMA TypeStep == QInv /\ [Queue!Next]_(Queue!vars) => Queue!TypeOK'
<1> SUFFICES ASSUME QInv, [Queue!Next]_(Queue!vars) PROVE Places' /\ Contents'
  BY DEF Queue!TypeOK, Places, Contents, Queue!MTYPE_SIZE, Queue!BUFFER_LENGTH
<1>0. /\ Queue!TypeOK /\ Places /\ Contents
      /\ \A p \in Queue!Procs : Attached(p) => msqid[p] \in Queue!Ids
      /\ \A k \in Kirks : qPc[k] = "msgsnd" => typed[k] > 0
  BY TypeOKParts DEF QInv, Opened, LinesSent, Contents
<1>0a. Queue!Ids \subseteq Nat \ {0} /\ ReadResults \subseteq (-133..200) \ {0}
       /\ QueueLimit \in Nat \ {0} /\ Kirks \cap Spocks = {} /\ Lines \in [Kirks -> Nat]
       /\ Kirks \subseteq Queue!Procs /\ Spocks \subseteq Queue!Procs
  BY ConstantsAreRight, Counting DEF Queue!Ids, Queue!Procs
<1>0b. ASSUME UNCHANGED <<live, lastId, msgs, msqid, nbytesread, typed, bytesreceived,
                          sent, received>>
       PROVE  Contents'
  BY <1>0, <1>0b DEF Contents, Queue!Ids, Queue!Procs
<1> USE DEF Queue!kernel, Queue!history
<1>1. ASSUME NEW p \in Queue!Procs, Queue!Msgget(p) PROVE Places' /\ Contents'
  <2>1. lastId + 1 \in Queue!Ids
    BY <1>1, IdLeft DEF Queue!Msgget
  <2>2. \E label \in PlacesOf(p) :
           \/ Queue!GoTo(p, label)
           \/ label = "exit_1" /\ Queue!ExitError(p, "EACCES")
    BY <1>1 DEF Queue!Msgget, PlacesOf
  <2>3. Places'
    BY <1>0, <2>2, PlacesStep
  <2>4. CASE live = 0
    <3>1. /\ live' = lastId + 1 /\ lastId' = lastId + 1 /\ msgs' = <<>>
          /\ msqid' = [msqid EXCEPT ![p] = lastId + 1]
          /\ UNCHANGED <<nbytesread, typed, bytesreceived, sent, received>>
      BY <1>1, <2>4 DEF Queue!Msgget
    <3>2. live' \in Queue!Ids /\ live' <= lastId' /\ msgs' \in Seq(Queue!Message)
          /\ Len(msgs') <= QueueLimit
      BY <1>0a, <2>1, <3>1, EmptySeq
    <3>3. msqid' \in [Queue!Procs -> {0} \cup Queue!Ids]
      BY <1>0, <2>1, <3>1 DEF Contents
    <3> QED BY <1>0, <2>3, <3>1, <3>2, <3>3 DEF Contents
  <2>5. CASE live # 0
    <3>1. /\ UNCHANGED <<live, lastId, msgs, nbytesread, typed, bytesreceived, sent, received>>
          /\ msqid' \in {msqid, [msqid EXCEPT ![p] = live]}
      BY <1>1, <2>5 DEF Queue!Msgget
    <3>2. msqid' \in [Queue!Procs -> {0} \cup Queue!Ids]
      BY <1>0, <2>5, <3>1 DEF Contents
    <3> QED BY <1>0, <2>3, <3>1, <3>2 DEF Contents
  <2> QED BY <2>3, <2>4, <2>5
<1>2. ASSUME NEW k \in Kirks, Queue!Read(k) PROVE Places' /\ Contents'
  <2>1. \E label \in PlacesOf(k) : Queue!GoTo(k, label)
    BY <1>2 DEF Queue!Read, PlacesOf
  <2>2. Places'
    BY <1>0, <1>0a, <2>1, PlacesStep
  <2>3. typed' \in [Kirks -> Nat] /\ \A l \in Kirks : typed'[l] <= Lines[l]
    <3>1. \/ typed' = typed
          \/ typed' = [typed EXCEPT ![k] = typed[k] + 1] /\ typed[k] < Lines[k]
      BY <1>2 DEF Queue!Read
    <3>2. \A l \in Kirks : typed[l] \in Nat /\ Lines[l] \in Nat
      BY <1>0, <1>0a DEF Contents
    <3>3. typed \in [Kirks -> Nat] /\ \A l \in Kirks : typed[l] <= Lines[l]
      BY <1>0 DEF Contents
    <3>4. CASE typed' = typed
      BY <3>3, <3>4
    <3>5. CASE typed' = [typed EXCEPT ![k] = typed[k] + 1] /\ typed[k] < Lines[k]
      BY <3>2, <3>3, <3>5
    <3> QED BY <3>1, <3>4, <3>5
  <2>4. nbytesread' \in [Kirks -> {0} \cup ReadResults]
    <3>1. nbytesread \in [Kirks -> {0} \cup ReadResults]
      BY <1>0 DEF Contents
    <3>2. \/ nbytesread' = nbytesread
          \/ \E n \in ReadResults : nbytesread' = [nbytesread EXCEPT ![k] = n]
      BY <1>2 DEF Queue!Read
    <3> QED BY <3>1, <3>2
  <2>5. UNCHANGED <<live, lastId, msgs, msqid, bytesreceived, sent, received>>
    BY <1>2 DEF Queue!Read
  <2> QED BY <1>0, <2>2, <2>3, <2>4, <2>5 DEF Contents
<1>3. ASSUME NEW k \in Kirks, Queue!Msgsnd(k) PROVE Places' /\ Contents'
  <2> DEFINE m == [from |-> k, line |-> typed[k], size |-> nbytesread[k] + 8]
  <2>1. m.size >= 0 => m \in Queue!Message
    <3>1. typed[k] \in Nat \ {0}
      <4>1. typed[k] \in Nat /\ typed[k] > 0
        BY <1>0, <1>3 DEF Queue!Msgsnd, Contents
      <4> QED BY <4>1
    <3>2. nbytesread[k] \in -133..200
      <4>1. nbytesread[k] \in {0} \cup ReadResults
        BY <1>0 DEF Contents
      <4>2. \A n \in {0} \cup ReadResults : n \in -133..200
        BY ConstantsAreRight
      <4> QED BY <4>1, <4>2
    <3> QED BY <3>1, <3>2 DEF Queue!Message, Queue!BUFFER_LENGTH, Queue!MTYPE_SIZE
  <2>2. msqid[k] \in Queue!Ids
    BY <1>0, <1>0a, <1>3 DEF Attached, Queue!Msgsnd
  <2>3. CASE msgs' = Append(msgs, m) /\ m.size >= 0 /\ msqid[k] = live
             /\ sent' = [sent EXCEPT ![live] = Append(@, m)] /\ Len(msgs) < QueueLimit
             /\ Queue!GoTo(k, "read") /\ UNCHANGED <<live, lastId, received>>
    <3>1. msgs' \in Seq(Queue!Message) /\ Len(msgs') <= QueueLimit
      BY <1>0, <1>0a, <2>1, <2>3, AppendProperties DEF Contents
    <3>2. Append(sent[live], m) \in Seq(Queue!Message)
      BY <1>0, <2>1, <2>2, <2>3, AppendProperties DEF Contents
    <3>3. sent' \in [Queue!Ids -> Seq(Queue!Message)]
      BY <1>0, <2>2, <2>3, <3>2 DEF Contents
    <3>4. UNCHANGED <<live, lastId, msqid, nbytesread, typed, bytesreceived, received>>
      BY <1>3, <2>3 DEF Queue!Msgsnd
    <3>5. Places'
      BY <1>0, <1>0a, <2>3, PlacesStep DEF PlacesOf
    <3> QED BY <1>0, <3>1, <3>3, <3>4, <3>5 DEF Contents
  <2>4. CASE UNCHANGED <<live, lastId, msgs, sent, received>>
             /\ \E e \in {"EINVAL", "EIDRM"} : Queue!ExitError(k, e)
    <3>1. Places'
      BY <1>0, <1>0a, <2>4, PlacesStep DEF PlacesOf
    <3> QED BY <1>0b, <1>3, <2>4, <3>1 DEF Queue!Msgsnd
  <2> QED BY <1>3, <2>3, <2>4 DEF Queue!Msgsnd, Queue!MTYPE_SIZE
<1>4. ASSUME NEW k \in Kirks, Queue!Msgctl(k) PROVE Places' /\ Contents'
  <2>1. Places'
    BY <1>0, <1>0a, <1>4, PlacesStep DEF Queue!Msgctl, PlacesOf
  <2>2. CASE msqid[k] = live
    <3>1. live' = 0 /\ msgs' = <<>> /\ lastId' = lastId
          /\ UNCHANGED <<msqid, nbytesread, typed, bytesreceived, sent, received>>
      BY <1>4, <2>2 DEF Queue!Msgctl
    <3> QED BY <1>0, <1>0a, <2>1, <3>1 DEF Contents
  <2>3. CASE msqid[k] # live
    BY <1>0b, <1>4, <2>1, <2>3 DEF Queue!Msgctl
  <2> QED BY <2>2, <2>3
<1>5. ASSUME NEW s \in Spocks, Queue!Msgrcv(s) PROVE Places' /\ Contents'
  <2>0. s \notin Kirks
    BY <1>0a
  <2>1. CASE msgs # <<>> /\ Queue!Accept(s, Head(msgs).size - Queue!MTYPE_SIZE)
    <3>1. msgs' \in Seq(Queue!Message) /\ Len(msgs') <= QueueLimit
          /\ Head(msgs) \in Queue!Message
      BY <1>0, <1>0a, <2>1, HeadTailProperties DEF Queue!Accept, Contents
    <3>2. live \in Queue!Ids
      BY <1>0, <1>0a, <1>5, <2>1 DEF Attached, Queue!Accept, Queue!Msgrcv
    <3>3. Append(received[live], Head(msgs)) \in Seq(Queue!Message)
      BY <1>0, <3>1, <3>2, AppendProperties DEF Contents
    <3>4. Head(msgs).size \in 0..200
      <4>1. Head(msgs).size <= 200
        BY <2>1 DEF Queue!Accept, Queue!BUFFER_LENGTH
      <4>2. \A m \in Queue!Message : m.size \in 0..208
        BY DEF Queue!Message, Queue!BUFFER_LENGTH, Queue!MTYPE_SIZE
      <4>3. Head(msgs).size \in 0..208
        BY <3>1, <4>2, Zenon
      <4> QED BY <4>1, <4>3
    <3>5. UNCHANGED <<msqid, nbytesread, typed, sent, live, lastId>>
          /\ bytesreceived' = [bytesreceived EXCEPT ![s] = Head(msgs).size - 8]
          /\ received' = [received EXCEPT ![live] = Append(@, Head(msgs))]
          /\ Queue!GoTo(s, "write")
      BY <1>5, <2>1 DEF Queue!Msgrcv, Queue!Accept, Queue!MTYPE_SIZE
    <3>6. bytesreceived' \in [Spocks -> -8..200]
      BY <1>0, <3>4, <3>5 DEF Contents
    <3>7. received' \in [Queue!Ids -> Seq(Queue!Message)]
      BY <1>0, <3>2, <3>3, <3>5 DEF Contents
    <3>8. Places'
      BY <1>0, <1>0a, <2>0, <3>5, PlacesStep DEF PlacesOf
    <3> QED BY <1>0, <3>1, <3>5, <3>6, <3>7, <3>8 DEF Contents
  <2>2. CASE UNCHANGED <<live, lastId, msgs, bytesreceived, received>>
             /\ \E e \in {"EACCES", "EIDRM", "E2BIG"} : Queue!ExitError(s, e)
    <3>1. Places'
      BY <1>0, <1>0a, <2>2, PlacesStep DEF PlacesOf
    <3> QED BY <1>0b, <1>5, <2>2, <3>1 DEF Queue!Msgrcv
  <2> QED BY <1>5, <2>1, <2>2 DEF Queue!Msgrcv
<1>6. ASSUME NEW s \in Spocks, Queue!Write(s) PROVE Places' /\ Contents'
  <2>1. Places'
    BY <1>0, <1>0a, <1>6, PlacesStep DEF Queue!Write, PlacesOf
  <2> QED BY <1>0b, <1>6, <2>1 DEF Queue!Write
<1>7. ASSUME NEW p \in Queue!Procs, Queue!FtokFails(p) \/ Queue!Kill(p)
      PROVE  Places' /\ Contents'
  <2>1. Places'
    BY <1>0, <1>7, PlacesStep DEF Queue!FtokFails, Queue!Kill, PlacesOf
  <2> QED BY <1>0b, <1>7, <2>1 DEF Queue!FtokFails, Queue!Kill
<1>8. CASE UNCHANGED Queue!vars
  <2>1. Places'
    BY <1>0, <1>8 DEF Queue!vars, Places, Queue!Procs
  <2> QED BY <1>0b, <1>8, <2>1 DEF Queue!vars
<1> QED
  BY <1>1, <1>2, <1>3, <1>4, <1>5, <1>6, <1>7, <1>8
     DEF Queue!Next, Queue!Kirk, Queue!Spock, Queue!Procs
-----------------------------------------------------------------------------
(* A process that opens a queue finds no message of its own there. *)
LEMMA OpenStep ==
    ASSUME QInv, Queue!TypeOK', NEW p \in Queue!Procs, qPc[p] = "msgget",
           NEW id \in Queue!Ids, id <= lastId', lastId' \in {lastId, lastId + 1},
           msqid' = [msqid EXCEPT ![p] = id],
           NEW label \in {"read", "msgrcv"}, qPc' = [qPc EXCEPT ![p] = label],
           UNCHANGED <<sent, received, typed>>
    PROVE  Opened' /\ LinesSent'
<1>0. Queue!Ids \subseteq Nat \ {0} /\ lastId \in Nat
  BY ConstantsAreRight, Counting DEF Queue!Ids, QInv, Queue!TypeOK
<1>1. Opened'
  <2>1. lastId' <= Cardinality(Started)'
    <3>1. Cardinality(Started)' = Cardinality(Started) + 1 /\ Cardinality(Started) \in Nat
      BY StartedStep, StartedFinite DEF QInv
    <3> QED BY <3>1, <1>0 DEF QInv, Opened
  <2>2. \A q \in Queue!Procs : /\ msqid'[q] <= lastId'
                               /\ qPc'[q] = "msgget" => msqid'[q] = 0
                               /\ Attached(q)' => msqid'[q] # 0
    <3> SUFFICES ASSUME NEW q \in Queue!Procs
                 PROVE  /\ msqid'[q] <= lastId'
                        /\ qPc'[q] = "msgget" => msqid'[q] = 0
                        /\ Attached(q)' => msqid'[q] # 0
      OBVIOUS
    <3>1. CASE q = p
      BY <3>1, <1>0 DEF QInv, Queue!TypeOK
    <3>2. CASE q # p
      <4>1. qPc'[q] = qPc[q] /\ msqid'[q] = msqid[q]
        BY <3>2 DEF QInv, Queue!TypeOK
      <4>2. msqid[q] \in Nat /\ msqid[q] <= lastId
        <5>1. msqid[q] \in {0} \cup Queue!Ids
          BY DEF QInv, Queue!TypeOK
        <5>2. msqid[q] <= lastId
          BY DEF QInv, Opened
        <5>3. \A i \in {0} \cup Queue!Ids : i \in Nat
          BY <1>0
        <5>4. msqid[q] \in Nat
          BY <5>1, <5>3
        <5> QED BY <5>2, <5>4
      <4> QED BY <4>1, <4>2, <1>0 DEF QInv, Opened, Attached
    <3> QED BY <3>1, <3>2
  <2>3. \A i \in Queue!Ids : i > lastId' => sent'[i] = <<>> /\ received'[i] = <<>>
    <3>1. \A i \in Queue!Ids : i > lastId' => i > lastId
      BY <1>0
    <3> QED BY <3>1 DEF QInv, Opened
  <2> QED BY <2>1, <2>2, <2>3 DEF Opened, Queue!Ids, Queue!Procs
<1>2. LinesSent'
  <2>1. msqid[p] = 0 /\ msqid'[p] = id
    BY DEF QInv, Opened, Queue!TypeOK
  <2>2. \A k \in Kirks : k # p => qPc'[k] = qPc[k] /\ msqid'[k] = msqid[k]
    BY DEF QInv, Queue!TypeOK, Queue!Procs
  <2>3. ASSUME NEW k \in Kirks, NEW i \in Queue!Ids, Own(k, sent[i]) # {}
        PROVE  i = msqid'[k]
    BY <1>0, <2>1, <2>2, <2>3 DEF QInv, LinesSent
  <2>4. ASSUME NEW k \in Kirks, Attached(k)'
        PROVE  LinesIn(k, sent[msqid'[k]]) = 1..SentSoFar(k)' /\ Ascending(k, sent[msqid'[k]])
    <3>1. CASE k = p
      <4>1. Own(p, sent[id]) = {}
        BY <1>0, <2>1, <3>1 DEF QInv, LinesSent
      <4>2. SentSoFar(p)' = 0
        BY <3>1, <2>1 DEF QInv, LinesSent, SentSoFar, Queue!TypeOK
      <4> QED BY <4>1, <4>2, <3>1, <2>1 DEF LinesIn, Ascending
    <3>2. CASE k # p
      BY <2>2, <2>4, <3>2 DEF QInv, LinesSent, Attached, SentSoFar
    <3> QED BY <3>1, <3>2
  <2>5. \A k \in Kirks : /\ qPc'[k] = "msgget" => typed'[k] = 0
                         /\ qPc'[k] = "msgsnd" => typed'[k] > 0
    BY <2>2 DEF QInv, LinesSent, Queue!TypeOK
  <2>6. sent' = sent /\ Queue!Ids' = Queue!Ids
    BY DEF Queue!Ids, Queue!Procs
  <2> QED BY <2>3, <2>4, <2>5, <2>6 DEF LinesSent
<1> QED BY <1>1, <1>2

LEMMA MsggetStep ==
    ASSUME QInv, NEW p \in Queue!Procs, Queue!Msgget(p), Queue!TypeOK'
    PROVE  QInv'
<1>0. /\ lastId + 1 \in Queue!Ids /\ qPc[p] = "msgget"
      /\ Queue!Ids \subseteq Nat \ {0} /\ lastId \in Nat
      /\ live \in {0} \cup Queue!Ids /\ live <= lastId
  <2>1. qPc[p] = "msgget"
    BY DEF Queue!Msgget
  <2>2. lastId + 1 \in Queue!Ids
    BY <2>1, IdLeft
  <2>3. Queue!Ids \subseteq Nat \ {0}
    BY ConstantsAreRight, Counting DEF Queue!Ids
  <2>4. live \in {0} \cup Queue!Ids /\ lastId \in {0} \cup Queue!Ids /\ live <= lastId
    BY DEF QInv, Queue!TypeOK
  <2> QED BY <2>1, <2>2, <2>3, <2>4
<1>1. UNCHANGED <<typed, sent, received>>
  BY DEF Queue!Msgget, Queue!history
<1>2. CASE live = 0
  <2>1. /\ live' = lastId + 1 /\ lastId' = lastId + 1 /\ msgs' = <<>>
        /\ msqid' = [msqid EXCEPT ![p] = lastId + 1]
        /\ \E label \in {"read", "msgrcv"} : qPc' = [qPc EXCEPT ![p] = label]
    BY <1>2 DEF Queue!Msgget, Queue!GoTo
  <2>2. Opened' /\ LinesSent'
    <3>1. PICK label \in {"read", "msgrcv"} : qPc' = [qPc EXCEPT ![p] = label]
      BY <2>1
    <3>2. lastId + 1 \in Queue!Ids /\ lastId + 1 <= lastId' /\ lastId' \in {lastId, lastId + 1}
      BY <1>0, <2>1
    <3> QED BY <1>0, <1>1, <2>1, <3>1, <3>2, OpenStep
  <2>3. Queue!OnceAndInOrder'
    <3>1. sent[lastId + 1] = <<>> /\ received[lastId + 1] = <<>>
      BY <1>0 DEF QInv, Opened
    <3>2. \A i \in Queue!Ids : Queue!IsPrefix(received[i], sent[i])
      BY <1>0, <1>2 DEF QInv, Queue!OnceAndInOrder
    <3> QED BY <1>1, <2>1, <3>1, <3>2 DEF Queue!OnceAndInOrder, Queue!Ids, Queue!Procs
  <2> QED BY <2>2, <2>3 DEF QInv
<1>3. CASE live # 0 /\ Privileged
  <2>1. /\ UNCHANGED <<live, lastId, msgs>>
        /\ msqid' = [msqid EXCEPT ![p] = live]
        /\ \E label \in {"read", "msgrcv"} : qPc' = [qPc EXCEPT ![p] = label]
    BY <1>3 DEF Queue!Msgget, Queue!GoTo, Queue!kernel
  <2>2. Opened' /\ LinesSent'
    <3>1. PICK label \in {"read", "msgrcv"} : qPc' = [qPc EXCEPT ![p] = label]
      BY <2>1
    <3>2. live \in Queue!Ids /\ live <= lastId' /\ lastId' \in {lastId, lastId + 1}
      BY <1>0, <1>3, <2>1
    <3> QED BY <1>0, <1>1, <2>1, <3>1, <3>2, OpenStep
  <2>3. Queue!OnceAndInOrder'
    BY <1>1, <2>1 DEF QInv, Queue!OnceAndInOrder, Queue!Ids, Queue!Procs
  <2> QED BY <2>2, <2>3 DEF QInv
<1>4. CASE live # 0 /\ ~Privileged
  <2>1. UNCHANGED <<live, lastId, msgs, sent, received, msqid, typed>>
        /\ qPc' = [qPc EXCEPT ![p] = "exit_1"]
    BY <1>1, <1>4 DEF Queue!Msgget, Queue!ExitError, Queue!kernel
  <2> QED BY <2>1, MoveStep
<1> QED BY <1>2, <1>3, <1>4

LEMMA ReadStep ==
    ASSUME QInv, NEW k \in Kirks, Queue!Read(k), Queue!TypeOK'
    PROVE  QInv'
<1>0. k \in Queue!Procs /\ qPc[k] = "read" /\ typed[k] \in Nat
  BY DEF Queue!Procs, Queue!Read, QInv, Queue!TypeOK
<1>1. UNCHANGED <<live, lastId, msgs, sent, received, msqid>>
  BY DEF Queue!Read, Queue!kernel, Queue!history
<1>2. CASE typed' = typed /\ qPc' = [qPc EXCEPT ![k] = "msgctl"]
  BY <1>0, <1>1, <1>2, MoveStep DEF Attached
<1>3. CASE typed' = [typed EXCEPT ![k] = @ + 1] /\ qPc' = [qPc EXCEPT ![k] = "msgsnd"]
  <2>1. Opened'
    <3>1. Cardinality(Started)' \in Nat /\ Cardinality(Started) <= Cardinality(Started)'
          /\ Cardinality(Started) \in Nat /\ lastId \in Nat
      <4>1. lastId \in Nat
        BY ConstantsAreRight, Counting DEF QInv, Queue!TypeOK, Queue!Ids
      <4> QED BY <1>0, <1>3, <4>1, StartedStep, StartedFinite DEF QInv
    <3>2. \A q \in Queue!Procs : Attached(q)' = Attached(q)
      BY <1>0, <1>3 DEF QInv, Attached, Queue!TypeOK
    <3>3. \A q \in Queue!Procs : qPc'[q] = "msgget" => qPc[q] = "msgget"
      BY <1>3 DEF QInv, Queue!TypeOK
    <3>4. lastId' <= Cardinality(Started)'
      BY <1>1, <3>1 DEF QInv, Opened
    <3>5. \A q \in Queue!Procs : /\ msqid'[q] <= lastId'
                                 /\ qPc'[q] = "msgget" => msqid'[q] = 0
                                 /\ Attached(q)' => msqid'[q] # 0
      BY <1>1, <3>2, <3>3 DEF QInv, Opened
    <3>6. \A i \in Queue!Ids : i > lastId' => sent'[i] = <<>> /\ received'[i] = <<>>
      BY <1>1 DEF QInv, Opened
    <3> QED BY <3>4, <3>5, <3>6 DEF Opened, Queue!Ids, Queue!Procs
  <2>2. Queue!OnceAndInOrder'
    BY <1>1 DEF QInv, Queue!OnceAndInOrder, Queue!Ids, Queue!Procs
  <2>3. LinesSent'
    <3>1. \A l \in Kirks : Attached(l)' = Attached(l) /\ SentSoFar(l)' = SentSoFar(l)
      BY <1>0, <1>3 DEF QInv, Attached, Queue!TypeOK, SentSoFar
    <3>2. \A l \in Kirks : /\ qPc'[l] = "msgget" => typed'[l] = 0
                           /\ qPc'[l] = "msgsnd" => typed'[l] > 0
      <4> SUFFICES ASSUME NEW l \in Kirks
                   PROVE  /\ qPc'[l] = "msgget" => typed'[l] = 0
                          /\ qPc'[l] = "msgsnd" => typed'[l] > 0
        OBVIOUS
      <4>1. CASE l = k
        <5>1. qPc'[k] = "msgsnd" /\ typed'[k] = typed[k] + 1
          BY <1>0, <1>3 DEF QInv, Queue!TypeOK
        <5> QED BY <1>0, <4>1, <5>1
      <4>2. CASE l # k
        BY <1>3, <4>2 DEF QInv, LinesSent, Queue!TypeOK
      <4> QED BY <4>1, <4>2
    <3>3. Queue!Ids' = Queue!Ids
      BY DEF Queue!Ids, Queue!Procs
    <3> QED BY <1>1, <3>1, <3>2, <3>3 DEF QInv, LinesSent
  <2> QED BY <2>1, <2>2, <2>3 DEF QInv
<1> QED BY <1>2, <1>3 DEF Queue!Read, Queue!GoTo
(* A process that moves on within its queue changes neither who opened what. *)
LEMMA OpenedStays ==
    ASSUME QInv, NEW p \in Queue!Procs, Attached(p),
           NEW label \in {"read", "exit_0", "write"}, qPc' = [qPc EXCEPT ![p] = label],
           UNCHANGED <<lastId, msqid>>,
           \A i \in Queue!Ids : i > lastId => sent'[i] = sent[i] /\ received'[i] = received[i]
    PROVE  Opened'
<1>1. Cardinality(Started)' \in Nat /\ Cardinality(Started) <= Cardinality(Started)'
      /\ Cardinality(Started) \in Nat
  BY StartedStep, StartedFinite DEF QInv
<1>2. lastId \in Nat
  BY ConstantsAreRight, Counting DEF QInv, Queue!TypeOK, Queue!Ids
<1>3. lastId' <= Cardinality(Started)'
  BY <1>1, <1>2 DEF QInv, Opened
<1>4. \A q \in Queue!Procs : Attached(q)' = Attached(q)
  BY DEF QInv, Attached, Queue!TypeOK
<1>5. \A q \in Queue!Procs : qPc'[q] = "msgget" => qPc[q] = "msgget"
  BY DEF QInv, Queue!TypeOK
<1>6. \A q \in Queue!Procs : /\ msqid'[q] <= lastId'
                             /\ qPc'[q] = "msgget" => msqid'[q] = 0
                             /\ Attached(q)' => msqid'[q] # 0
  BY <1>4, <1>5 DEF QInv, Opened
<1>7. \A i \in Queue!Ids : i > lastId' => sent'[i] = <<>> /\ received'[i] = <<>>
  BY DEF QInv, Opened
<1> QED BY <1>3, <1>6, <1>7 DEF Opened, Queue!Ids, Queue!Procs

LEMMA MsgsndStep ==
    ASSUME QInv, NEW k \in Kirks, Queue!Msgsnd(k), Queue!TypeOK'
    PROVE  QInv'
<1> DEFINE m == [from |-> k, line |-> typed[k], size |-> nbytesread[k] + 8]
<1>0. /\ k \in Queue!Procs /\ qPc[k] = "msgsnd" /\ Attached(k) /\ msqid[k] \in Queue!Ids
      /\ typed[k] \in Nat \ {0} /\ msqid[k] <= lastId /\ lastId \in Nat
      /\ UNCHANGED <<msqid, typed>>
  <2>1. lastId \in Nat
    BY ConstantsAreRight, Counting DEF QInv, Queue!TypeOK, Queue!Ids
  <2>2. k \in Queue!Procs /\ qPc[k] = "msgsnd" /\ Attached(k) /\ UNCHANGED <<msqid, typed>>
    BY DEF Queue!Procs, Queue!Msgsnd, Attached
  <2>3. msqid[k] \in Queue!Ids /\ msqid[k] <= lastId
    BY <2>2 DEF QInv, Queue!TypeOK, Opened
  <2>4. typed[k] \in Nat /\ typed[k] > 0
    BY <2>2 DEF QInv, Queue!TypeOK, LinesSent
  <2>5. typed[k] \in Nat \ {0}
    BY <2>4
  <2> QED BY <2>1, <2>2, <2>3, <2>5
<1>1. CASE UNCHANGED <<live, lastId, msgs, sent, received>> /\ qPc' = [qPc EXCEPT ![k] = "exit_1"]
  BY <1>0, <1>1, MoveStep
<1>2. CASE /\ msgs' = Append(msgs, m) /\ m.size >= 0 /\ msqid[k] = live
           /\ sent' = [sent EXCEPT ![live] = Append(@, m)]
           /\ qPc' = [qPc EXCEPT ![k] = "read"] /\ UNCHANGED <<live, lastId, received>>
  <2>1. live \in Queue!Ids /\ m \in Queue!Message
    <3>1. msgs' \in Seq(Queue!Message) /\ msgs \in Seq(Queue!Message) /\ live \in Queue!Ids
      BY <1>0, <1>2 DEF QInv, Queue!TypeOK, Queue!Message
    <3>2. nbytesread[k] + 8 \in 0..208
      <4>1. nbytesread[k] \in {0} \cup ReadResults
        BY DEF QInv, Queue!TypeOK
      <4>2. \A n \in {0} \cup ReadResults : n \in -133..200
        BY ConstantsAreRight
      <4>3. nbytesread[k] + 8 >= 0
        BY <1>2
      <4>4. nbytesread[k] \in -133..200
        BY <4>1, <4>2
      <4> QED BY <4>3, <4>4
    <3>3. m \in Queue!Message
      BY <1>0, <3>2 DEF Queue!Message, Queue!BUFFER_LENGTH, Queue!MTYPE_SIZE
    <3> QED BY <3>1, <3>3
  <2> HIDE DEF m
  <2>2. /\ sent[live] \in Seq(Queue!Message) /\ received[live] \in Seq(Queue!Message)
        /\ msgs \in Seq(Queue!Message)
        /\ sent' = [sent EXCEPT ![live] = Append(sent[live], m)]
        /\ sent'[live] = Append(sent[live], m)
        /\ \A i \in Queue!Ids \ {live} : sent'[i] = sent[i]
    BY <1>2, <2>1 DEF QInv, Queue!TypeOK
  <2>2a. IsAppend(sent'[live], sent[live], m) /\ IsAppend(msgs', msgs, m)
    BY <1>2, <2>2 DEF IsAppend
  <2>3. Opened'
    <3>0. Queue!Ids \subseteq Nat
      BY ConstantsAreRight, Counting DEF Queue!Ids
    <3>0a. live <= lastId
      BY <1>0, <1>2
    <3>1. \A i \in Queue!Ids : i > lastId => i # live
      BY <1>0, <2>1, <3>0, <3>0a
    <3> QED BY <1>0, <1>2, <2>2, <3>1, OpenedStays
  <2>4. Queue!OnceAndInOrder'
    <3>1. IsConcat(sent[live], received[live], msgs)
      BY <2>1 DEF QInv, Queue!OnceAndInOrder, IsConcat
    <3>2. IsConcat(sent'[live], received[live], msgs')
      BY <2>1, <2>2, <2>2a, <3>1, AppendToConcat
    <3> QED BY <1>2, <2>1, <2>2, <3>2
                DEF QInv, Queue!OnceAndInOrder, Queue!Ids, Queue!Procs, IsConcat
  <2>5. LinesSent'
    <3>0. m.from = k /\ m.line = typed[k]
      BY DEF m
    <3>1. LinesIn(k, sent[live]) = 1..(typed[k] - 1) /\ Ascending(k, sent[live])
      BY <1>0, <1>2 DEF QInv, LinesSent, SentSoFar
    <3>2. LinesIn(k, sent'[live]) = 1..typed[k] /\ Ascending(k, sent'[live])
      BY <1>0, <2>1, <2>2, <2>2a, <3>0, <3>1, LinesOfAppend
    <3>3. \A l \in Kirks : l # k =>
             /\ Own(l, sent'[live]) = Own(l, sent[live])
             /\ \A j \in Own(l, sent[live]) : sent'[live][j] = sent[live][j]
      <4> SUFFICES ASSUME NEW l \in Kirks, l # k
                   PROVE  /\ Own(l, sent'[live]) = Own(l, sent[live])
                          /\ \A j \in Own(l, sent[live]) : sent'[live][j] = sent[live][j]
        OBVIOUS
      <4>0. sent[live] \in Seq(Queue!Message) /\ m \in Queue!Message
            /\ IsAppend(sent'[live], sent[live], m)
        BY <2>1, <2>2, <2>2a
      <4>1. Own(l, sent'[live]) = Own(l, sent[live])
        BY <3>0, <4>0, OwnOfAppend
      <4>2. \A j \in Own(l, sent[live]) : sent'[live][j] = sent[live][j]
        BY <4>0, OwnOfAppend
      <4> QED BY <3>0, <4>1, <4>2
    <3>4. ASSUME NEW l \in Kirks, NEW i \in Queue!Ids, Own(l, sent'[i]) # {}
          PROVE  i = msqid'[l]
      <4>1. CASE l = k /\ i = live
        BY <1>0, <1>2, <4>1
      <4>2. CASE l # k \/ i # live
        <5>1. Own(l, sent[i]) # {}
          BY <2>2, <3>3, <3>4, <4>2
        <5> QED BY <1>0, <5>1 DEF QInv, LinesSent
      <4> QED BY <4>1, <4>2
    <3>5. ASSUME NEW l \in Kirks, Attached(l)'
          PROVE  LinesIn(l, sent'[msqid'[l]]) = 1..SentSoFar(l)'
                 /\ Ascending(l, sent'[msqid'[l]])
      <4>1. CASE l = k
        <5>1. SentSoFar(k)' = typed[k]
          BY <1>0, <1>2 DEF SentSoFar, QInv, Queue!TypeOK
        <5> QED BY <1>0, <1>2, <3>2, <4>1, <5>1
      <4>2. CASE l # k
        <5>1. Attached(l) /\ SentSoFar(l)' = SentSoFar(l)
          BY <1>0, <1>2, <3>5, <4>2 DEF Attached, SentSoFar, QInv, Queue!TypeOK
        <5>2. msqid[l] \in Queue!Ids
          BY <5>1 DEF QInv, Queue!TypeOK, Opened, Queue!Procs
        <5>3. /\ Own(l, sent'[msqid[l]]) = Own(l, sent[msqid[l]])
              /\ \A j \in Own(l, sent[msqid[l]]) : sent'[msqid[l]][j] = sent[msqid[l]][j]
          BY <2>2, <3>3, <4>2, <5>2
        <5>4. /\ LinesIn(l, sent'[msqid[l]]) = LinesIn(l, sent[msqid[l]])
              /\ Ascending(l, sent'[msqid[l]]) = Ascending(l, sent[msqid[l]])
          BY <5>3 DEF LinesIn, Ascending
        <5> QED BY <1>0, <5>1, <5>4 DEF QInv, LinesSent
      <4> QED BY <4>1, <4>2
    <3>6. \A l \in Kirks : /\ qPc'[l] = "msgget" => typed'[l] = 0
                           /\ qPc'[l] = "msgsnd" => typed'[l] > 0
      BY <1>0, <1>2 DEF QInv, LinesSent, Queue!TypeOK
    <3> QED BY <3>4, <3>5, <3>6 DEF LinesSent, Queue!Ids, Queue!Procs
  <2> QED BY <2>3, <2>4, <2>5 DEF QInv
<1> QED
  BY <1>1, <1>2
     DEF Queue!Msgsnd, Queue!GoTo, Queue!ExitError, Queue!kernel, Queue!history, Queue!MTYPE_SIZE
(* A removed queue keeps what was taken from it as the beginning of what was
   sent to it.                                                             *)
LEMMA MsgctlStep ==
    ASSUME QInv, NEW k \in Kirks, Queue!Msgctl(k), Queue!TypeOK'
    PROVE  QInv'
<1>0. /\ k \in Queue!Procs /\ qPc[k] = "msgctl" /\ Attached(k)
      /\ UNCHANGED <<msqid, typed, sent, received>>
  BY DEF Queue!Procs, Queue!Msgctl, Attached, Queue!history
<1>1. CASE msqid[k] # live
  <2>1. UNCHANGED <<live, lastId, msgs>> /\ qPc' = [qPc EXCEPT ![k] = "exit_1"]
    BY <1>1 DEF Queue!Msgctl, Queue!ExitError, Queue!kernel
  <2> QED BY <1>0, <2>1, MoveStep
<1>2. CASE msqid[k] = live
  <2>1. live' = 0 /\ msgs' = <<>> /\ lastId' = lastId /\ qPc' = [qPc EXCEPT ![k] = "exit_0"]
    BY <1>2 DEF Queue!Msgctl, Queue!GoTo
  <2>2. Opened'
    BY <1>0, <2>1, OpenedStays
  <2>3. Queue!OnceAndInOrder'
    <3>0. 0 \notin Queue!Ids
      BY ConstantsAreRight, Counting DEF Queue!Ids
    <3>1. ASSUME NEW i \in Queue!Ids PROVE Queue!IsPrefix(received[i], sent[i])
      <4>1. CASE i = live
        <5>1. sent[i] = received[i] \o msgs
          BY <4>1 DEF QInv, Queue!OnceAndInOrder
        <5>2. received[i] \in Seq(Queue!Message) /\ msgs \in Seq(Queue!Message)
          BY DEF QInv, Queue!TypeOK
        <5> QED BY <5>1, <5>2, PrefixOfConcat
      <4>2. CASE i # live
        BY <4>2 DEF QInv, Queue!OnceAndInOrder
      <4> QED BY <4>1, <4>2
    <3> QED BY <1>0, <2>1, <3>0, <3>1 DEF Queue!OnceAndInOrder, Queue!Ids, Queue!Procs
  <2>4. LinesSent'
    <3>1. \A l \in Kirks : Attached(l)' = Attached(l) /\ SentSoFar(l)' = SentSoFar(l)
      BY <1>0, <2>1 DEF QInv, Attached, Queue!TypeOK, SentSoFar
    <3>2. \A l \in Kirks : /\ qPc'[l] = "msgget" => qPc[l] = "msgget"
                           /\ qPc'[l] = "msgsnd" => qPc[l] = "msgsnd"
      BY <2>1 DEF QInv, Queue!TypeOK
    <3>3. Queue!Ids' = Queue!Ids
      BY DEF Queue!Ids, Queue!Procs
    <3> QED BY <1>0, <3>1, <3>2, <3>3 DEF QInv, LinesSent
  <2> QED BY <2>2, <2>3, <2>4 DEF QInv
<1> QED BY <1>1, <1>2

(* A message that a spock takes moves from the queue to what was received. *)
LEMMA MsgrcvStep ==
    ASSUME QInv, NEW s \in Spocks, Queue!Msgrcv(s), Queue!TypeOK'
    PROVE  QInv'
<1>0. /\ s \in Queue!Procs /\ s \notin Kirks /\ qPc[s] = "msgrcv" /\ Attached(s)
      /\ UNCHANGED <<msqid, typed, sent>>
  BY ConstantsAreRight DEF Queue!Procs, Queue!Msgrcv, Attached
<1>1. CASE UNCHANGED <<live, lastId, msgs, received>> /\ qPc' = [qPc EXCEPT ![s] = "exit_1"]
  BY <1>0, <1>1, MoveStep
<1>2. CASE /\ msqid[s] = live /\ msgs # <<>> /\ msgs' = Tail(msgs)
           /\ received' = [received EXCEPT ![live] = Append(@, Head(msgs))]
           /\ qPc' = [qPc EXCEPT ![s] = "write"] /\ UNCHANGED <<live, lastId>>
  <2>1. live \in Queue!Ids /\ live <= lastId
    BY <1>0, <1>2 DEF QInv, Queue!TypeOK, Opened
  <2>2. /\ received[live] \in Seq(Queue!Message) /\ msgs \in Seq(Queue!Message)
        /\ received'[live] = Append(received[live], Head(msgs))
        /\ \A i \in Queue!Ids \ {live} : received'[i] = received[i]
    BY <1>2, <2>1 DEF QInv, Queue!TypeOK
  <2>3. Opened'
    <3>0. Queue!Ids \subseteq Nat /\ lastId \in Nat
      BY ConstantsAreRight, Counting DEF Queue!Ids, QInv, Queue!TypeOK
    <3>1. \A i \in Queue!Ids : i > lastId => i # live
      BY <2>1, <3>0
    <3> QED BY <1>0, <1>2, <2>2, <3>1, OpenedStays
  <2>4. Queue!OnceAndInOrder'
    <3>1. sent[live] = received[live] \o msgs
      BY <2>1 DEF QInv, Queue!OnceAndInOrder
    <3>2. Append(received[live], Head(msgs)) \o Tail(msgs) = received[live] \o msgs
      BY <1>2, <2>2, HeadMoves
    <3> QED BY <1>0, <1>2, <2>1, <2>2, <3>1, <3>2
            DEF QInv, Queue!OnceAndInOrder, Queue!Ids, Queue!Procs
  <2>5. LinesSent'
    <3>1. \A l \in Kirks : qPc'[l] = qPc[l]
      BY <1>0, <1>2 DEF QInv, Queue!TypeOK
    <3>2. Queue!Ids' = Queue!Ids
      BY DEF Queue!Ids, Queue!Procs
    <3> QED BY <1>0, <3>1, <3>2 DEF QInv, LinesSent, Attached, SentSoFar
  <2> QED BY <2>3, <2>4, <2>5 DEF QInv
<1> QED
  BY <1>0, <1>1, <1>2 DEF Queue!Msgrcv, Queue!Accept, Queue!GoTo, Queue!ExitError, Queue!kernel

-----------------------------------------------------------------------------
LEMMA QInvStep == QInv /\ [Queue!Next]_(Queue!vars) => QInv'
<1> SUFFICES ASSUME QInv, [Queue!Next]_(Queue!vars) PROVE QInv'
  OBVIOUS
<1>0. Queue!TypeOK'
  BY TypeStep
<1>1. ASSUME NEW p \in Queue!Procs, Queue!Msgget(p) PROVE QInv'
  BY <1>0, <1>1, MsggetStep
<1>2. ASSUME NEW k \in Kirks, Queue!Read(k) \/ Queue!Msgsnd(k) \/ Queue!Msgctl(k) PROVE QInv'
  BY <1>0, <1>2, ReadStep, MsgsndStep, MsgctlStep
<1>3. ASSUME NEW s \in Spocks, Queue!Msgrcv(s) PROVE QInv'
  BY <1>0, <1>3, MsgrcvStep
<1>4. ASSUME NEW s \in Spocks, Queue!Write(s) PROVE QInv'
  <2>1. s \in Queue!Procs /\ qPc[s] = "write" /\ Attached(s)
        /\ UNCHANGED <<live, lastId, msgs, sent, received, msqid, typed>>
        /\ qPc' = [qPc EXCEPT ![s] = "msgrcv"]
    BY <1>4 DEF Queue!Procs, Queue!Write, Attached, Queue!GoTo, Queue!kernel, Queue!history
  <2> QED BY <1>0, <2>1, MoveStep
<1>5. ASSUME NEW p \in Queue!Procs, Queue!FtokFails(p) \/ Queue!Kill(p) PROVE QInv'
  <2>1. UNCHANGED <<live, lastId, msgs, sent, received, msqid, typed>>
        /\ \E label \in {"exit_1", "killed"} : qPc' = [qPc EXCEPT ![p] = label]
    BY <1>5 DEF Queue!FtokFails, Queue!Kill, Queue!GoTo, Queue!ExitError, Queue!kernel,
                Queue!history
  <2> QED BY <1>0, <2>1, MoveStep
<1>6. CASE UNCHANGED Queue!vars
  <2>1. Started' = Started /\ Queue!Ids' = Queue!Ids
    BY <1>6 DEF Queue!vars, Started, Queue!Ids, Queue!Procs
  <2>2. Opened'
    BY <1>6, <2>1 DEF QInv, Opened, Attached, Queue!vars, Queue!Procs
  <2>3. Queue!OnceAndInOrder' /\ LinesSent'
    BY <1>6, <2>1 DEF QInv, Queue!OnceAndInOrder, LinesSent, Attached, SentSoFar, Queue!vars
  <2> QED BY <1>0, <2>2, <2>3 DEF QInv
<1> QED
  BY <1>1, <1>2, <1>3, <1>4, <1>5, <1>6
     DEF Queue!Next, Queue!Kirk, Queue!Spock, Queue!Procs

LEMMA QInvHolds == Queue!Spec => []QInv
BY QInvInit, QInvStep, PTL DEF Queue!Spec

(* A kirk that ends well has sent each of its lines, in order, to the queue it
   opened.                                                                 *)
LEMMA QInvDelivers == QInv => Delivered
<1> SUFFICES ASSUME QInv PROVE Delivered
  OBVIOUS
<1>1. Queue!EveryLineSent
  <2> SUFFICES ASSUME NEW k \in Kirks, qPc[k] = "exit_0"
               PROVE  LET all  == sent[msqid[k]]
                          mine == {i \in DOMAIN all : all[i].from = k}
                      IN  /\ {all[i].line : i \in mine} = 1..typed[k]
                          /\ \A i, j \in mine : i < j => all[i].line < all[j].line
    BY DEF Queue!EveryLineSent
  <2>1. LinesIn(k, sent[msqid[k]]) = 1..typed[k] /\ Ascending(k, sent[msqid[k]])
    BY DEF QInv, LinesSent, Attached, SentSoFar
  <2> QED BY <2>1 DEF LinesIn, Ascending, Own
<1> QED BY <1>1 DEF QInv, Delivered, Queue!Delivered

(* Every variable keeps its type; in particular the identifiers that msgget
   hands out never run past the number of processes, and what msgrcv leaves in
   bytesreceived is a length that fits the buffer (kirk.asm, spock.asm).   *)
THEOREM QueueTypeCorrect == Queue!Spec => []QueueTypeOK
<1>1. QInv => QueueTypeOK
  BY DEF QInv, QueueTypeOK
<1> QED BY <1>1, QInvHolds, PTL

(* What is typed at a kirk reaches the spocks once and in order: messages leave
   a queue in the order they came, none twice, and a kirk that ends with status
   0 has put every line it read there (kirk.asm 48-73, spock.asm 39-56).   *)
THEOREM EveryLineDelivered == Queue!Spec => []Delivered
BY QInvDelivers, QInvHolds, PTL
=============================================================================
