-------------------------- MODULE ProcessesProofs --------------------------
(***************************************************************************)
(* Proofs about the programs that MCProcesses puts side by side: FileLock, *)
(* HttpServer and PipeDemo3, each for every value of its constants.        *)
(*                                                                         *)
(* FileLock, for any processes, with arguments or without.  The kernel     *)
(* keeps conflicting locks apart; that the messages on the screens do so   *)
(* too needs to know, for every place of a process, what the kernel holds  *)
(* for it and what its terminal says, and that in turn needs a good        *)
(* descriptor in every process that has opened.                            *)
(***************************************************************************)
EXTENDS MCProcesses, SequenceTheorems, TLAPS

LEMMA InitOK == Init => TypeOK
BY DEF Init, TypeOK

LEMMA NextOK == TypeOK /\ [Next]_vars => TypeOK'
<1> SUFFICES ASSUME TypeOK, [Next]_vars PROVE TypeOK'
  OBVIOUS
<1> USE DEF TypeOK, GoTo, Release
<1>1. ASSUME NEW p \in Procs, Press(p) PROVE TypeOK'
  BY <1>1 DEF Press, PressToLock, PressToUnlock
<1>2. ASSUME NEW p \in Procs, Run(p) PROVE TypeOK'
  BY <1>2 
     DEF Run, Open, SetLockWait, WriteGotLock, Unlock, WriteUnlocked, Close, l_type
<1>3. ASSUME NEW p \in Procs, Kill(p) PROVE TypeOK'
  BY <1>3 DEF Kill
<1>4. CASE UNCHANGED vars
  BY <1>4 DEF vars
<1> QED
  BY <1>1, <1>2, <1>3, <1>4 DEF Next, Terminated

(* The variables keep their types: no process leaves the program's places. *)
THEOREM TypeCorrect == Spec => []TypeOK
BY InitOK, NextOK, PTL DEF Spec

-----------------------------------------------------------------------------
(* With the file there, every process that has opened it has a descriptor that
   fcntl accepts.                                                          *)
OpenedOK ==
    FileExists =>
        \A p \in Procs : pc[p] \notin {"open", "exit", "killed"} => fd[p] = "ok"

(* What the kernel guarantees, whatever the processes believe. *)
LocksAgree == \A p, q \in Procs : p # q => ~Conflict(lock[p], lock[q])

(* The lock is held from the fcntl that took it to the one that gives it back,
   and the terminal says so from one write to the other.                   *)
HeldHere ==
    FileExists =>
        \A p \in Procs : lock[p] = IF pc[p] \in {"granted", "got_lock", "unlock"}
                                  THEN l_type(p) ELSE "F_UNLCK"
SaidHere ==
    \A p \in Procs : /\ screen[p] = "got_lock" <=> pc[p] \in {"got_lock", "unlock", "released"}
                     /\ pc[p] = "granted" => screen[p] = "nothing"
                     /\ pc[p] \in {"open", "press_to_lock", "setlkw"} => screen[p] = "nothing"

LockInv == TypeOK /\ OpenedOK /\ HeldHere /\ SaidHere /\ LocksAgree

LEMMA LockInvInit == Init => LockInv
BY InitOK DEF Init, LockInv, OpenedOK, HeldHere, SaidHere, LocksAgree, Conflict, l_type

LEMMA LockInvStep == LockInv /\ [Next]_vars => LockInv'
<1> SUFFICES ASSUME LockInv, [Next]_vars PROVE LockInv'
  OBVIOUS
<1> USE DEF LockInv, TypeOK, OpenedOK, HeldHere, SaidHere, LocksAgree, GoTo, l_type
<1>0. TypeOK'
  BY NextOK
<1>1. ASSUME NEW p \in Procs, Press(p) PROVE LockInv'
  BY <1>0, <1>1 DEF Press, PressToLock, PressToUnlock
<1>2. ASSUME NEW p \in Procs, Run(p) PROVE LockInv'
  <2>1. CASE Open(p)
    BY <1>0, <2>1 DEF Open
  <2>2. CASE SetLockWait(p)
    BY <1>0, <2>2, FileExistsAssumption DEF SetLockWait, Conflict
  <2>3. CASE WriteGotLock(p)
    BY <1>0, <2>3 DEF WriteGotLock
  <2>4. CASE Unlock(p)
    BY <1>0, <2>4 DEF Unlock, Conflict
  <2>5. CASE WriteUnlocked(p)
    BY <1>0, <2>5 DEF WriteUnlocked
  <2>6. CASE Close(p)
    BY <1>0, <2>6 DEF Close, Release, Conflict
  <2> QED BY <1>2, <2>1, <2>2, <2>3, <2>4, <2>5, <2>6 DEF Run
<1>3. ASSUME NEW p \in Procs, Kill(p) PROVE LockInv'
  BY <1>0, <1>3 DEF Kill, Release, Conflict
<1>4. CASE UNCHANGED vars
  BY <1>0, <1>4 DEF vars
<1> QED
  BY <1>1, <1>2, <1>3, <1>4 DEF Next, Terminated

(* With the file there, what a terminal says and what the kernel holds are never
   more than one system call apart, for any number of processes, killed ones
   included: lockdemo.asm 104-111 and 132-139.                             *)
THEOREM MessagesAreTrue == Spec => []MessageIsTrue
<1>1. LockInv => MessageIsTrue
  BY DEF LockInv, HeldHere, SaidHere, MessageIsTrue, l_type
<1> QED
  BY <1>1, LockInvInit, LockInvStep, PTL DEF Spec

(* With the file there, the terminal of a process that asked for the write lock
   is alone in saying "got lock", but for a process between its unlock and the
   message of it: what the first lines of lockdemo.asm promise.            *)
THEOREM LockIsExclusive ==
    ASSUME FileExists PROVE Spec => []GotLockIsExclusive
<1>1. LockInv => GotLockIsExclusive
  BY DEF LockInv, HeldHere, SaidHere, LocksAgree, GotLockIsExclusive, Conflict, l_type
<1> QED
  BY <1>1, LockInvInit, LockInvStep, PTL DEF Spec
-----------------------------------------------------------------------------
(* HttpServer, for any clients, starts and length of the listening queue.  The
   inductive invariant follows one connection from the parent's accept to the
   end of its child: who has its descriptor open is told by where the parent and
   the child stand.                                                        *)
Serving == {"wait4_1", "wait4_2", "fork"}

(* The connection that the parent has just accepted. *)
InHand ==
    /\ hPc \in Serving \cup {"close"} => r12 \in Clients /\ conn[r12] = "accepted"
    /\ hPc \in Serving => child[r12] = "none" /\ fds[r12] = {Http!Parent}

(* A child has the descriptor until it closes it, and by then has answered. *)
ChildServes ==
    \A c \in Clients :
        /\ Http!Child \in fds[c] <=> child[c] \in {"read", "reply", "close"}
        /\ child[c] = "reply" => c \in sent \cup closed
        /\ child[c] \in {"close", "exit", "zombie"} => c \in replied \cup closed
        /\ child[c] = "reaped" => c \in replied \cup closed \cup interrupted

(* Only accepted connections have a descriptor or a child, and one that has no
   child yet is in the parent's hands, or had a failed fork, or lost its server. *)
Accepted ==
    \A c \in Clients :
        /\ lst[c] <= gen
        /\ conn[c] # "accepted" => fds[c] = {} /\ child[c] = "none"
        /\ (conn[c] = "accepted" /\ child[c] = "none" /\ c \notin forkFailed) =>
              Http!ServerGone(lst[c]) \/ (c = r12 /\ hPc \in Serving)

HttpInv ==
    Http!TypeOK /\ Http!ParentHoldsOne /\ InHand /\ ChildServes /\ Accepted

LEMMA HttpConstants ==
    /\ None \notin Clients /\ MaxStarts \in Nat \ {0}
    /\ Http!Gens \subseteq Nat \ {0}
BY HttpAssumption DEF Http!ConstantsOK, Http!Gens
LEMMA HttpInit == Http!Init => HttpInv
<1> SUFFICES ASSUME Http!Init PROVE HttpInv
  OBVIOUS
<1> USE DEF Http!Init
<1>1. Http!TypeOK
  BY HttpConstants DEF Http!TypeOK
<1>2. Http!ParentHoldsOne
  BY DEF Http!ParentHoldsOne
<1>3. InHand /\ ChildServes /\ Accepted
  BY DEF InHand, ChildServes, Accepted, Serving, Http!Child, Http!ServerGone
<1> QED BY <1>1, <1>2, <1>3 DEF HttpInv

(* The strings for the two owners of a descriptor differ. *)
LEMMA Owners == Http!Parent # Http!Child /\ Http!Parent = "parent" /\ Http!Child = "child"
BY DEF Http!Parent, Http!Child

LEMMA HttpTypeStep == HttpInv /\ [Http!Next]_(Http!vars) => Http!TypeOK'
<1> SUFFICES ASSUME HttpInv, [Http!Next]_(Http!vars) PROVE Http!TypeOK'
  OBVIOUS
<1>0. Http!TypeOK /\ InHand /\ ChildServes /\ gen \in Nat
  BY HttpConstants DEF HttpInv, Http!TypeOK
<1> USE DEF Http!TypeOK, Http!server, Http!client, Http!Bound
<1>1. CASE Http!Start
  <2>1. gen + 1 \in Http!Gens
    BY <1>0, <1>1, HttpConstants DEF Http!Start, Http!Gens
  <2> QED BY <1>0, <1>1, <2>1 DEF Http!Start
<1>2. CASE Http!BindSucceeds \/ Http!BindFails \/ Http!Listen
  BY <1>0, <1>2 DEF Http!BindSucceeds, Http!BindFails, Http!Listen
<1>3. ASSUME NEW c \in Clients, Http!Accept(c) PROVE Http!TypeOK'
  BY <1>0, <1>3, Owners DEF Http!Accept
<1>4. CASE Http!Wait4
  BY <1>0, <1>4 DEF Http!Wait4, Http!Zombies
<1>5. CASE Http!Fork
  BY <1>0, <1>5, Owners DEF Http!Fork, InHand, Serving
<1>6. CASE Http!Close
  BY <1>0, <1>6, Owners DEF Http!Close, Http!CloseFd
<1>7. ASSUME NEW c \in Clients, Http!ReadRequest(c) PROVE Http!TypeOK'
  BY <1>0, <1>7 DEF Http!ReadRequest
<1>8. ASSUME NEW c \in Clients, Http!Reply(c) PROVE Http!TypeOK'
  BY <1>0, <1>8 DEF Http!Reply, ChildServes
<1>9. ASSUME NEW c \in Clients, Http!ChildClose(c) PROVE Http!TypeOK'
  BY <1>0, <1>9, Owners DEF Http!ChildClose, Http!CloseFd
<1>10. ASSUME NEW c \in Clients, Http!ChildExit(c) PROVE Http!TypeOK'
  BY <1>0, <1>10 DEF Http!ChildExit, Http!Ended, Http!ResetQueue
<1>11. ASSUME NEW c \in Clients, Http!ChildKilled(c) PROVE Http!TypeOK'
  BY <1>0, <1>11, Owners DEF Http!ChildKilled, Http!Ended, Http!ResetQueue, Http!CloseFd
<1>12. ASSUME NEW c \in Clients, Http!Connect(c) \/ Http!Send(c) \/ Http!ClientClose(c)
       PROVE  Http!TypeOK'
  BY <1>0, <1>12 DEF Http!Connect, Http!Send, Http!ClientClose
<1>13. ASSUME NEW hit \in SUBSET Clients, Http!Stop(hit) PROVE Http!TypeOK'
  BY <1>0, <1>13 DEF Http!Stop, Http!ResetQueue
<1>14. CASE Http!TimeWaitEnds \/ UNCHANGED Http!vars
  BY <1>0, <1>14 DEF Http!TimeWaitEnds, Http!vars
<1>15. Http!Kill \/ Http!CtrlC => Http!TypeOK'
  BY <1>13 DEF Http!Kill, Http!CtrlC, Http!Holders
<1> QED
  BY <1>1, <1>2, <1>3, <1>4, <1>5, <1>6, <1>7, <1>8, <1>9, <1>10, <1>11, <1>12, <1>14, <1>15
     DEF Http!Next, Http!ParentStep, Http!ChildStep
LEMMA HttpStep == HttpInv /\ [Http!Next]_(Http!vars) => HttpInv'
<1> SUFFICES ASSUME HttpInv, [Http!Next]_(Http!vars)
             PROVE  Http!ParentHoldsOne' /\ InHand' /\ ChildServes' /\ Accepted'
  BY HttpTypeStep DEF HttpInv
<1> DEFINE Goal == Http!ParentHoldsOne' /\ InHand' /\ ChildServes' /\ Accepted'
<1>0. /\ Http!TypeOK /\ Http!ParentHoldsOne /\ InHand /\ ChildServes /\ Accepted
  BY DEF HttpInv
<1>0a. gen \in Nat /\ \A c \in Clients : lst[c] \in Nat
  <2>1. \A g \in {0} \cup Http!Gens : g \in Nat
    BY HttpConstants
  <2>2. gen \in {0} \cup Http!Gens /\ \A c \in Clients : lst[c] \in {0} \cup Http!Gens
    BY <1>0 DEF Http!TypeOK
  <2> QED BY <2>1, <2>2
<1> USE Owners DEF Http!TypeOK, Http!ParentHoldsOne, InHand, ChildServes, Accepted, Serving,
                   Http!ServerGone, Http!server, Http!client
<1>1. CASE Http!Start
  BY <1>0, <1>0a, <1>1 DEF Http!Start
<1>2. CASE Http!BindSucceeds \/ Http!BindFails \/ Http!Listen
  BY <1>0, <1>0a, <1>2 DEF Http!BindSucceeds, Http!BindFails, Http!Listen
<1>3. ASSUME NEW c \in Clients, Http!Accept(c) PROVE Goal
  BY <1>0, <1>0a, <1>3 DEF Http!Accept, Http!Queue
<1>4. CASE Http!Wait4
  BY <1>0, <1>0a, <1>4 DEF Http!Wait4, Http!Zombies
<1>5. CASE Http!Fork
  BY <1>0, <1>0a, <1>5 DEF Http!Fork
<1>6. CASE Http!Close
  BY <1>0, <1>0a, <1>6 DEF Http!Close, Http!CloseFd
<1>7. ASSUME NEW c \in Clients, Http!ReadRequest(c) PROVE Goal
  BY <1>0, <1>0a, <1>7 DEF Http!ReadRequest
<1>8. ASSUME NEW c \in Clients, Http!Reply(c) PROVE Goal
  BY <1>0, <1>0a, <1>8 DEF Http!Reply
<1>9. ASSUME NEW c \in Clients, Http!ChildClose(c) PROVE Goal
  BY <1>0, <1>0a, <1>9 DEF Http!ChildClose, Http!CloseFd
<1>10. ASSUME NEW c \in Clients, Http!ChildExit(c) PROVE Goal
  BY <1>0, <1>0a, <1>10 DEF Http!ChildExit, Http!Ended, Http!ResetQueue, Http!Queue
<1>11. ASSUME NEW c \in Clients, Http!ChildKilled(c) PROVE Goal
  BY <1>0, <1>0a, <1>11 DEF Http!ChildKilled, Http!Ended, Http!ResetQueue, Http!CloseFd, Http!Queue
<1>12. ASSUME NEW c \in Clients, Http!Connect(c) PROVE Goal
  BY <1>0, <1>0a, <1>12 DEF Http!Connect, Http!IsListening, Http!Gens
<1>13. ASSUME NEW c \in Clients, Http!Send(c) \/ Http!ClientClose(c) PROVE Goal
  BY <1>0, <1>0a, <1>13 DEF Http!Send, Http!ClientClose
<1>14. ASSUME NEW hit \in SUBSET Http!Holders(gen), Http!Stop(hit) PROVE Goal
  BY <1>0, <1>0a, <1>14
     DEF Http!Stop, Http!Holders, Http!Alive, Http!ResetQueue, Http!Queue, Http!Bound
<1>15. CASE Http!TimeWaitEnds \/ UNCHANGED Http!vars
  BY <1>0, <1>0a, <1>15 DEF Http!TimeWaitEnds, Http!vars
<1>16. Http!Kill \/ Http!CtrlC => Goal
  BY <1>14 DEF Http!Kill, Http!CtrlC
<1> QED
  BY <1>1, <1>2, <1>3, <1>4, <1>5, <1>6, <1>7, <1>8, <1>9, <1>10, <1>11, <1>12, <1>13, <1>15,
     <1>16 DEF Http!Next, Http!ParentStep, Http!ChildStep

(* Every connection ends right: the parent holds one connection at most and never
   while it waits in accept, and no client that stays sees its connection end
   without a reply, but for a failed fork, a child killed by ctrl-C or a server
   stopped between accept and fork (httpserver.asm 22, 153-189).           *)
THEOREM ConnectionsServed == Http!Spec => []ConnectionsEndRight
<1>1. HttpInv => ConnectionsEndRight
  <2> SUFFICES ASSUME HttpInv PROVE Http!EndOnlyAfterReply
    BY DEF HttpInv, ConnectionsEndRight
  <2> SUFFICES ASSUME NEW c \in Clients, conn[c] = "accepted", fds[c] = {}, c \notin closed
               PROVE  \/ c \in replied \cup forkFailed \cup interrupted
                      \/ child[c] = "none" /\ Http!ServerGone(lst[c])
    BY DEF Http!EndOnlyAfterReply
  <2>1. child[c] \in {"none", "exit", "zombie", "reaped"}
    BY DEF HttpInv, Http!TypeOK, ChildServes
  <2>2. CASE child[c] = "none"
    BY <2>2, Owners DEF HttpInv, Accepted, InHand
  <2> QED BY <2>1, <2>2 DEF HttpInv, ChildServes
<1> QED
  BY <1>1, HttpInit, HttpStep, PTL DEF Http!Spec
-----------------------------------------------------------------------------
(* PipeDemo3, for any message and any size of the pieces.  Who has which end of
   the pipe open is told by where the two processes stand, so that the reader
   sees the end of the pipe only when the writer has written or will not write. *)
EndsOpen ==
    /\ Demo3!Original \in readers <=>
           pPc[Demo3!Original] \in {"fork", "close_write", "read", "show", "close_pipe"}
    /\ Demo3!Original \in writers <=> pPc[Demo3!Original] \in {"fork", "close_write"}
    /\ Demo3!Forked \in readers <=> pPc[Demo3!Forked] = "close_read"
    /\ Demo3!Forked \in writers <=> pPc[Demo3!Forked] \in {"close_read", "write", "close"}

Born ==
    /\ pPc[Demo3!Original] \in {"pipe", "fork"} => pPc[Demo3!Forked] = "unborn"
    /\ pPc[Demo3!Original] \in {"close_write", "read", "show", "close_pipe"} =>
           pPc[Demo3!Forked] # "unborn"

(* Before the write there is nothing in the pipe or on the screen; as long as
   the reader goes on, the two together are nothing or the message.        *)
Unwritten == pPc[Demo3!Forked] \in {"unborn", "close_read", "write"}
Reading == pPc[Demo3!Original] \in {"pipe", "fork", "close_write", "read", "show", "close_pipe"}

TextFlows ==
    /\ shown \in Seq(1..MessageLength)
    /\ Unwritten => data = <<>> /\ shown = <<>>
    /\ Reading => shown \o data \in {<<>>, Demo3!message}
    /\ pPc[Demo3!Original] = "close_pipe" => data = <<>> /\ Demo3!Forked \notin writers

PipeInv == Demo3!TypeOK /\ EndsOpen /\ Born /\ TextFlows /\ TextIsShown

LEMMA PipeConstants ==
    /\ MessageLength \in Nat \ {0} /\ CHARSTOREAD \in Nat \ {0} /\ Capacity \in Nat
    /\ Demo3!message \in Seq(1..MessageLength) /\ Demo3!message # <<>>
    /\ Len(Demo3!message) = MessageLength
<1>1. MessageLength \in Nat \ {0} /\ CHARSTOREAD \in Nat \ {0} /\ Capacity \in Nat
  BY Demo3Assumption DEF Demo3!ConstantsOK
<1>2. Demo3!message \in [1..MessageLength -> 1..MessageLength]
  BY DEF Demo3!message
<1> QED BY <1>1, <1>2, LenProperties, EmptySeq
(* A read moves the first bytes of the pipe to the end of the screen. *)
Taken(s2, d2, s, d, n) == s2 = s \o SubSeq(d, 1, n) /\ d2 = SubSeq(d, n + 1, Len(d))
SameText(s2, d2, s, d) == s2 \o d2 = s \o d

LEMMA ReadMoves ==
    ASSUME NEW S, NEW s \in Seq(S), NEW d \in Seq(S), NEW n \in 0..Len(d),
           NEW s2, NEW d2, Taken(s2, d2, s, d, n)
    PROVE  s2 \in Seq(S) /\ d2 \in Seq(S) /\ SameText(s2, d2, s, d) /\ (n = 0 => d2 = d)
<1> DEFINE a == SubSeq(d, 1, n)
           b == SubSeq(d, n + 1, Len(d))
<1>1. Len(d) \in Nat /\ DOMAIN d = 1..Len(d) /\ \A i \in 1..Len(d) : d[i] \in S
  BY ElementOfSeq, LenProperties
<1>2. a \in Seq(S)
  BY <1>1, SubSeqProperties
<1>3. b \in Seq(S)
  <2>1. n + 1 \in Int /\ Len(d) \in Int /\ \A i \in (n + 1)..Len(d) : d[i] \in S
    BY <1>1
  <2> QED BY <2>1, SubSeqProperties
<1>4. a \o b = d
  <2>1. 1 \in 1..(Len(d) + 1) /\ n \in (1 - 1)..Len(d) /\ Len(d) \in n..Len(d)
    BY <1>1
  <2>2. SubSeq(d, 1, n) \o SubSeq(d, n + 1, Len(d)) = SubSeq(d, 1, Len(d))
    BY <2>1, ConcatAdjacentSubSeq
  <2> QED BY <2>2, SubSeqFull
<1>5. n = 0 => b = d
  BY SubSeqFull
<1> HIDE DEF a, b
<1>6. s2 = s \o a /\ d2 = b
  BY DEF Taken, a, b
<1>7. s \o a \in Seq(S)
  BY <1>2, ConcatProperties
<1>8. (s \o a) \o b = s \o (a \o b)
  BY <1>2, <1>3, ConcatAssociative
<1> QED BY <1>3, <1>4, <1>5, <1>6, <1>7, <1>8 DEF SameText

LEMMA PrefixOfText ==
    ASSUME NEW S, NEW s \in Seq(S), NEW d \in Seq(S)
    PROVE  Demo3!IsPrefix(s, s \o d)
<1>1. /\ Len(s \o d) = Len(s) + Len(d)
      /\ \A i \in 1..Len(s) : (s \o d)[i] = s[i]
  BY ConcatProperties
<1>2. Len(s) <= Len(s \o d)
  BY <1>1
<1>3. SubSeq(s, 1, Len(s)) = SubSeq(s \o d, 1, Len(s))
  BY <1>1
<1> QED BY <1>2, <1>3 DEF Demo3!IsPrefix

(* What TextIsShown says of a state whose screen and pipe hold nothing or the
   message between them.                                                   *)
LEMMA TextFollows ==
    ASSUME NEW s \in Seq(1..MessageLength), NEW d \in Seq(1..MessageLength),
           s \o d \in {<<>>, Demo3!message}
    PROVE  Demo3!IsPrefix(s, Demo3!message) /\ (d # <<>> => s \o d = Demo3!message)
<1>1. CASE s \o d = <<>>
  <2>1. s = <<>> /\ d = <<>>
    BY <1>1, ConcatSimplifications
  <2> QED BY <2>1, PipeConstants DEF Demo3!IsPrefix
<1>2. CASE s \o d = Demo3!message
  BY <1>2, PrefixOfText
<1> QED BY <1>1, <1>2

LEMMA TextStays ==
    ASSUME PipeInv, shown' = shown, data' = data \/ data' = <<>>
    PROVE  Demo3!TextIsMessage'
<1>1. Demo3!TextIsMessage
  BY DEF PipeInv, TextIsShown
<1>2. Demo3!message' = Demo3!message
  BY DEF Demo3!message
<1> QED BY <1>1, <1>2 DEF Demo3!TextIsMessage

(* A step of either process that neither reads nor writes: the pipe keeps its
   bytes, or loses them with its last descriptor.                          *)
LEMMA QuietStep ==
    ASSUME PipeInv, shown' = shown, data' = data \/ data' = <<>>,
           Reading' => Reading /\ data' = data,
           Unwritten' => Unwritten,
           pPc'[Demo3!Original] = "close_pipe" =>
               pPc[Demo3!Original] = "close_pipe" /\ writers' \subseteq writers,
           pPc'[Demo3!Original] = "exit" =>
               pPc[Demo3!Original] = "exit" \/ shown \in {<<>>, Demo3!message}
    PROVE  TextFlows' /\ TextIsShown'
<1>1. Demo3!message' = Demo3!message
  BY DEF Demo3!message
<1>2. TextFlows'
  BY <1>1 DEF PipeInv, TextFlows
<1>3. Demo3!AllOrNothing'
  BY <1>1 DEF PipeInv, TextIsShown, Demo3!AllOrNothing
<1> QED BY <1>2, <1>3, TextStays DEF TextIsShown

LEMMA PipeInit == Demo3!Init => PipeInv
<1> SUFFICES ASSUME Demo3!Init PROVE PipeInv
  OBVIOUS
<1>0. /\ shown = <<>> /\ data = <<>> /\ shown \in Seq(1..MessageLength)
      /\ data \in Seq(1..MessageLength) /\ pPc[Demo3!Original] = "pipe"
      /\ pPc[Demo3!Forked] = "unborn" /\ readers = {} /\ writers = {}
      /\ r8 = 0
  BY EmptySeq DEF Demo3!Init, Demo3!Original, Demo3!Forked, Demo3!Processes
<1>1. Demo3!TypeOK /\ EndsOpen /\ Born
  <2>1. Demo3!TypeOK
    <3>1. 0 \in 0..CHARSTOREAD
      BY PipeConstants
    <3>2. pPc = [p \in Demo3!Processes |-> IF p = Demo3!Original THEN "pipe" ELSE "unborn"]
      BY DEF Demo3!Init
    <3> QED BY <1>0, <3>1, <3>2 DEF Demo3!TypeOK
  <2>2. EndsOpen /\ Born
    BY <1>0 DEF EndsOpen, Born
  <2> QED BY <2>1, <2>2
<1>2. shown \o data = <<>>
  BY <1>0
<1>3. TextFlows
  BY <1>0, <1>2 DEF TextFlows
<1>4. TextIsShown
  BY <1>0, <1>2, TextFollows DEF TextIsShown, Demo3!TextIsMessage, Demo3!AllOrNothing
<1> QED BY <1>1, <1>3, <1>4 DEF PipeInv

LEMMA ReaderStep == PipeInv /\ Demo3!ReadBytes => PipeInv'
<1> SUFFICES ASSUME PipeInv, Demo3!ReadBytes PROVE PipeInv'
  OBVIOUS
<1> DEFINE n == IF Len(data) < CHARSTOREAD THEN Len(data) ELSE CHARSTOREAD
<1>0. /\ Demo3!TypeOK /\ EndsOpen /\ Born /\ TextFlows
      /\ pPc[Demo3!Original] = "read" /\ pPc[Demo3!Forked] # "unborn"
  BY DEF PipeInv, Demo3!ReadBytes, Demo3!Piece, Demo3!GoTo, Born
<1>1. /\ data # <<>> \/ writers = {}
      /\ r8' = n /\ UNCHANGED <<readers, writers>>
      /\ shown' = shown \o SubSeq(data, 1, n) /\ data' = SubSeq(data, n + 1, Len(data))
      /\ pPc' = [pPc EXCEPT ![Demo3!Original] = IF r8' = 0 THEN "close_pipe" ELSE "show"]
  BY DEF Demo3!ReadBytes, Demo3!Piece, Demo3!GoTo, Demo3!CanRead, Demo3!ReadCount,
         Demo3!ReadPipe, Demo3!TakePipe
<1>2. data \in Seq(1..MessageLength) /\ shown \in Seq(1..MessageLength)
  BY <1>0 DEF Demo3!TypeOK, TextFlows
<1>3. /\ Len(data) \in Nat /\ n \in 0..Len(data) /\ n \in 0..CHARSTOREAD
      /\ n = 0 <=> Len(data) = 0
  BY <1>2, PipeConstants, LenProperties
<1> HIDE DEF n
<1>4. /\ shown' \in Seq(1..MessageLength) /\ data' \in Seq(1..MessageLength)
      /\ shown' \o data' = shown \o data /\ (n = 0 => data' = data)
  <2>1. Taken(shown', data', shown, data, n)
    BY <1>1 DEF Taken
  <2> DEFINE S == 1..MessageLength
  <2>2. shown \in Seq(S) /\ data \in Seq(S) /\ n \in 0..Len(data)
    BY <1>2, <1>3
  <2> HIDE DEF S
  <2>3. shown' \in Seq(S) /\ data' \in Seq(S) /\ SameText(shown', data', shown, data)
        /\ (n = 0 => data' = data)
    BY <2>1, <2>2, ReadMoves
  <2> QED BY <2>3 DEF S, SameText
<1>5. n = 0 <=> data = <<>>
  BY <1>2, <1>3, EmptySeq
<1>6. Demo3!TypeOK' /\ EndsOpen' /\ Born'
  BY <1>0, <1>1, <1>3, <1>4
     DEF Demo3!TypeOK, EndsOpen, Born, Demo3!Original, Demo3!Forked, Demo3!Processes
<1>7. shown' \o data' \in {<<>>, Demo3!message}
  BY <1>0, <1>4 DEF TextFlows, Reading
<1>8. Unwritten' => data = <<>> /\ shown = <<>> /\ data' = <<>> /\ shown' = <<>>
  <2>1. Unwritten' => Unwritten
    BY <1>0, <1>1 DEF Unwritten, Demo3!TypeOK, Demo3!Original, Demo3!Forked
  <2>2. ASSUME data = <<>>, shown = <<>> PROVE data' = <<>> /\ shown' = <<>>
    <3>1. shown' \o data' = <<>>
      BY <1>4, <2>2
    <3> QED BY <1>4, <3>1, ConcatSimplifications
  <2> QED BY <1>0, <2>1, <2>2 DEF TextFlows
<1>9. pPc'[Demo3!Original] = "close_pipe" => data' = <<>> /\ Demo3!Forked \notin writers'
  <2>1. pPc'[Demo3!Original] = "close_pipe" => n = 0
    BY <1>0, <1>1, <1>3 DEF Demo3!TypeOK
  <2> QED BY <1>1, <1>4, <1>5, <2>1
<1>10. TextFlows'
  BY <1>4, <1>7, <1>8, <1>9 DEF TextFlows, Demo3!message
<1>11. Demo3!TextIsMessage'
  BY <1>4, <1>7, TextFollows DEF Demo3!TextIsMessage, Demo3!message
<1>12. Demo3!AllOrNothing'
  BY <1>0, <1>1 DEF Demo3!AllOrNothing, Demo3!TypeOK, Demo3!Original, Demo3!Forked
<1> QED BY <1>6, <1>10, <1>11, <1>12 DEF PipeInv, TextIsShown
LEMMA WriterStep == PipeInv /\ Demo3!Write => PipeInv'
<1> SUFFICES ASSUME PipeInv, Demo3!Write PROVE PipeInv'
  OBVIOUS
<1>0. /\ Demo3!TypeOK /\ EndsOpen /\ Born /\ TextFlows
      /\ pPc[Demo3!Forked] = "write" /\ UNCHANGED <<r8, shown>>
      /\ shown = <<>> /\ data = <<>>
  BY DEF PipeInv, Demo3!Write, Demo3!GoTo, TextFlows, Unwritten
<1>1. CASE /\ readers # {} /\ data' = data \o Demo3!message /\ UNCHANGED <<readers, writers>>
           /\ pPc' = [pPc EXCEPT ![Demo3!Forked] = "close"]
  <2>1. data' = Demo3!message /\ shown' = <<>> /\ shown' \o data' = Demo3!message
    BY <1>0, <1>1, PipeConstants
  <2>2. data' \in Seq(1..MessageLength) /\ shown' \in Seq(1..MessageLength)
    BY <2>1, PipeConstants, EmptySeq
  <2>3. pPc[Demo3!Original] \in {"fork", "close_write", "read", "show", "close_pipe"}
    BY <1>0, <1>1 DEF EndsOpen, Demo3!TypeOK, Demo3!Processes
  <2>4. pPc[Demo3!Original] # "close_pipe"
    BY <1>0 DEF TextFlows, EndsOpen
  <2>5. /\ pPc'[Demo3!Original] = pPc[Demo3!Original]
        /\ Demo3!TypeOK' /\ EndsOpen' /\ Born'
    BY <1>0, <1>1, <2>2
       DEF Demo3!TypeOK, EndsOpen, Born, Demo3!Original, Demo3!Forked, Demo3!Processes
  <2>6. TextFlows'
    BY <1>0, <1>1, <2>1, <2>2, <2>4, <2>5
       DEF TextFlows, Unwritten, Demo3!TypeOK, Demo3!message, Demo3!Forked, Demo3!Original
  <2>7. TextIsShown'
    BY <2>1, <2>2, <2>3, <2>5, TextFollows
       DEF TextIsShown, Demo3!TextIsMessage, Demo3!AllOrNothing, Demo3!message
  <2> QED BY <2>5, <2>6, <2>7 DEF PipeInv
<1>2. CASE readers = {} /\ Demo3!CloseEnds(Demo3!Forked)
           /\ pPc' = [pPc EXCEPT ![Demo3!Forked] = "killed"]
  <2>1. data' = <<>> /\ readers' = {} /\ writers' = writers \ {Demo3!Forked}
    BY <1>0, <1>2 DEF Demo3!CloseEnds
  <2>2. Demo3!TypeOK' /\ EndsOpen' /\ Born'
    BY <1>0, <1>2, <2>1, EmptySeq
       DEF Demo3!TypeOK, EndsOpen, Born, Demo3!Original, Demo3!Forked, Demo3!Processes
  <2>3. pPc'[Demo3!Original] = pPc[Demo3!Original]
    BY <1>0, <1>2 DEF Demo3!TypeOK, Demo3!Original, Demo3!Forked
  <2>4. TextFlows' /\ TextIsShown'
    BY <1>0, <1>2, <2>1, <2>3, QuietStep DEF Reading, Unwritten
  <2> QED BY <2>2, <2>4 DEF PipeInv
<1> QED
  BY <1>1, <1>2 DEF Demo3!Write, Demo3!GoTo, Demo3!CanWrite, Demo3!WritePipe, Demo3!Broken

LEMMA PipeStep == PipeInv /\ [Demo3!Next]_(Demo3!vars) => PipeInv'
<1> SUFFICES ASSUME PipeInv, [Demo3!Next]_(Demo3!vars) PROVE PipeInv'
  OBVIOUS
<1>0. Demo3!TypeOK /\ EndsOpen /\ Born /\ TextFlows /\ TextIsShown
  BY DEF PipeInv
<1>1. Demo3!Original # Demo3!Forked /\ Demo3!Processes = {Demo3!Original, Demo3!Forked}
  BY DEF Demo3!Original, Demo3!Forked, Demo3!Processes
<1>2. ASSUME data' = data \/ data' = <<>> PROVE data' \in Seq(1..MessageLength)
  BY <1>0, <1>2, EmptySeq DEF Demo3!TypeOK
<1>3. CASE Demo3!OpenPipe \/ Demo3!Fork \/ Demo3!CloseWrite \/ Demo3!CloseRead \/ Demo3!Show
           \/ Demo3!Wait4
  <2>1. data' = data /\ shown' = shown
    BY <1>3 DEF Demo3!OpenPipe, Demo3!Fork, Demo3!CloseWrite, Demo3!CloseRead, Demo3!Show,
                Demo3!Wait4, Demo3!pipe
  <2>2. Demo3!TypeOK' /\ EndsOpen' /\ Born'
    <3>1. Demo3!TypeOK'
      <4>1. data' \in Seq(1..MessageLength) /\ r8' \in 0..CHARSTOREAD
        BY <1>0, <1>2, <1>3, <2>1
           DEF Demo3!OpenPipe, Demo3!Fork, Demo3!CloseWrite, Demo3!CloseRead, Demo3!Show,
               Demo3!Wait4, Demo3!pipe, Demo3!TypeOK
      <4>2. readers' \subseteq Demo3!Processes /\ writers' \subseteq Demo3!Processes
        BY <1>0, <1>1, <1>3
           DEF Demo3!OpenPipe, Demo3!Fork, Demo3!CloseWrite, Demo3!CloseRead, Demo3!Show,
               Demo3!Wait4, Demo3!pipe, Demo3!TypeOK
      <4>3. pPc' \in [Demo3!Processes ->
                         {"pipe", "fork", "close_write", "read", "show", "close_pipe",
                          "unborn", "close_read", "write", "close", "wait4", "exit", "killed"}]
            /\ pPc'[Demo3!Original] \notin {"unborn", "close_read", "write", "close", "wait4"}
            /\ pPc'[Demo3!Forked] \notin {"pipe", "fork", "close_write", "read", "show",
                                          "close_pipe"}
        BY <1>0, <1>1, <1>3
           DEF Demo3!OpenPipe, Demo3!Fork, Demo3!CloseWrite, Demo3!CloseRead, Demo3!Show,
               Demo3!Wait4, Demo3!GoTo, Demo3!TypeOK
      <4> QED BY <4>1, <4>2, <4>3 DEF Demo3!TypeOK, Demo3!Processes, Demo3!Original,
                                      Demo3!Forked
    <3>2. Born'
      BY <1>0, <1>1, <1>3
         DEF Demo3!OpenPipe, Demo3!Fork, Demo3!CloseWrite, Demo3!CloseRead, Demo3!Show,
             Demo3!Wait4, Demo3!pipe, Demo3!GoTo, Demo3!TypeOK, Born
    <3>3. EndsOpen'
      BY <1>0, <1>1, <1>3
         DEF Demo3!OpenPipe, Demo3!Fork, Demo3!CloseWrite, Demo3!CloseRead, Demo3!Show,
             Demo3!Wait4, Demo3!pipe, Demo3!GoTo, Demo3!TypeOK, EndsOpen, Born
    <3> QED BY <3>1, <3>2, <3>3
  <2>3. /\ Reading' => Reading
        /\ Unwritten' => Unwritten
        /\ pPc'[Demo3!Original] \notin {"close_pipe", "exit"}
              \/ pPc'[Demo3!Original] = pPc[Demo3!Original]
        /\ pPc[Demo3!Original] = "close_pipe" => writers' \subseteq writers
    BY <1>0, <1>1, <1>3
       DEF Demo3!OpenPipe, Demo3!Fork, Demo3!CloseWrite, Demo3!CloseRead, Demo3!Show,
           Demo3!Wait4, Demo3!pipe, Demo3!GoTo, Demo3!TypeOK, Reading, Unwritten, Born
  <2>4. TextFlows' /\ TextIsShown'
    BY <2>1, <2>3, QuietStep
  <2> QED BY <2>2, <2>4 DEF PipeInv
<1>4. CASE Demo3!ReadBytes
  BY <1>4, ReaderStep
<1>5. CASE Demo3!Write
  BY <1>5, WriterStep
<1>6. CASE Demo3!ForkFails \/ Demo3!ClosePipe
  <2>1. /\ pPc[Demo3!Original] \in {"fork", "close_pipe"} /\ UNCHANGED <<r8, shown>>
        /\ pPc' = [pPc EXCEPT ![Demo3!Original] = "exit"]
        /\ readers' = readers \ {Demo3!Original} /\ writers' = writers \ {Demo3!Original}
        /\ data' = data \/ data' = <<>>
    BY <1>6 DEF Demo3!ForkFails, Demo3!ClosePipe, Demo3!GoTo, Demo3!CloseEnds
  <2>2. Demo3!TypeOK' /\ EndsOpen' /\ Born'
    BY <1>0, <1>1, <1>2, <2>1 DEF Demo3!TypeOK, EndsOpen, Born
  <2>3. shown \in {<<>>, Demo3!message}
    <3>1. data = <<>>
      BY <1>0, <2>1 DEF TextFlows, Born, Unwritten
    <3>2. shown \o data \in {<<>>, Demo3!message} /\ shown \in Seq(1..MessageLength)
      BY <1>0, <2>1 DEF TextFlows, Reading
    <3>3. shown \o <<>> = shown
      BY <3>2, ConcatEmptySeq
    <3> QED BY <3>1, <3>2, <3>3
  <2>4. pPc'[Demo3!Original] = "exit" /\ pPc'[Demo3!Forked] = pPc[Demo3!Forked]
    BY <1>0, <1>1, <2>1 DEF Demo3!TypeOK
  <2>5. TextFlows' /\ TextIsShown'
    BY <2>1, <2>3, <2>4, QuietStep DEF Reading, Unwritten
  <2> QED BY <2>2, <2>5 DEF PipeInv
<1>7. CASE Demo3!Close \/ \E p \in Demo3!Processes : Demo3!Kill(p)
  <2>1. PICK p \in Demo3!Processes, label \in {"wait4", "killed"} :
          /\ pPc' = [pPc EXCEPT ![p] = label] /\ UNCHANGED <<r8, shown>>
          /\ pPc[p] \notin {"unborn", "exit", "killed"} /\ Demo3!CloseEnds(p)
          /\ label = "wait4" => p = Demo3!Forked /\ pPc[p] = "close"
    BY <1>1, <1>7 DEF Demo3!Close, Demo3!Kill, Demo3!GoTo, Demo3!Gone
  <2>2. readers' = readers \ {p} /\ writers' = writers \ {p} /\ (data' = data \/ data' = <<>>)
    BY <2>1 DEF Demo3!CloseEnds
  <2>3. Demo3!TypeOK' /\ EndsOpen' /\ Born'
    BY <1>0, <1>1, <1>2, <2>1, <2>2 DEF Demo3!TypeOK, EndsOpen, Born
  <2>4. Reading' => Reading /\ data' = data
    <3>1. CASE p = Demo3!Original
      BY <1>0, <1>1, <2>1, <3>1 DEF Reading, Demo3!TypeOK
    <3>2. CASE p = Demo3!Forked
      <4>1. pPc'[Demo3!Original] = pPc[Demo3!Original] /\ pPc[Demo3!Original] # "pipe"
        BY <1>0, <1>1, <2>1, <3>2 DEF Demo3!TypeOK, Born
      <4>2. Reading => Demo3!Original \in readers'
        BY <1>0, <1>1, <2>2, <3>2, <4>1 DEF Reading, EndsOpen
      <4>3. Demo3!Original \in readers' => data' = data
        BY <2>1 DEF Demo3!CloseEnds
      <4> QED BY <4>1, <4>2, <4>3 DEF Reading
    <3> QED BY <1>1, <3>1, <3>2
  <2>5. Unwritten' => Unwritten
    BY <1>0, <1>1, <2>1 DEF Unwritten, Demo3!TypeOK
  <2>6. pPc'[Demo3!Original] \in {"close_pipe", "exit"} =>
           pPc'[Demo3!Original] = pPc[Demo3!Original]
    BY <1>0, <1>1, <2>1 DEF Demo3!TypeOK
  <2>7. TextFlows' /\ TextIsShown'
    BY <2>1, <2>2, <2>4, <2>5, <2>6, QuietStep
  <2> QED BY <2>3, <2>7 DEF PipeInv
<1>8. CASE UNCHANGED Demo3!vars
  <2>1. Demo3!TypeOK' /\ EndsOpen' /\ Born' /\ shown' = shown /\ data' = data
        /\ pPc' = pPc /\ writers' = writers
    BY <1>0, <1>8 DEF Demo3!vars, Demo3!TypeOK, EndsOpen, Born
  <2>2. TextFlows' /\ TextIsShown'
    BY <2>1, QuietStep DEF Reading, Unwritten
  <2> QED BY <2>1, <2>2 DEF PipeInv
<1> QED
  BY <1>3, <1>4, <1>5, <1>6, <1>7, <1>8 DEF Demo3!Next, Demo3!Reader, Demo3!Writer, Demo3!Done

(* The screen shows the beginning of the message, and a reader that ends by itself
   has shown all of it or nothing, whichever process is killed and wherever the
   reads cut the message (pipedemo3.asm 55-89).                            *)
THEOREM TextShown == Demo3!Spec => []TextIsShown
<1>1. PipeInv => TextIsShown
  BY DEF PipeInv
<1> QED
  BY <1>1, PipeInit, PipeStep, PTL DEF Demo3!Spec
=============================================================================
