---------------------------- MODULE MessageQueue ----------------------------
(***************************************************************************)
(* kirk.asm and spock.asm: two programs that talk over a System V message  *)
(* queue.  kirk creates the queue, sends every line it reads and removes   *)
(* the queue at end of input; spock prints messages until msgrcv fails.    *)
(*                                                                         *)
(* NASM reads the literal 0644 of both msgget calls as a DECIMAL number,   *)
(* 1204 octal: it contains the IPC_CREAT bit, also in spock, and as a mode *)
(* it is 204 octal, which lets the owner write and not read.               *)
(***************************************************************************)
EXTENDS Integers, Sequences, FiniteSets, SequencesExt

CONSTANTS
    Kirks, Spocks,  \* the processes, each run once, all of the same user
    ReadResults,    \* what a read of stdin may return: bytes, or -errno
    Lines,          \* lines typed at every kirk (bounds the model)
    QueueLimit,     \* messages the kernel keeps before msgsnd blocks
    Privileged      \* the user has CAP_IPC_OWNER (root)

BUFFER_LENGTH == 200
MTYPE_SIZE    == 8

\* What the constants have to be.
ConstantsOK ==
    /\ ReadResults \subseteq (-133..BUFFER_LENGTH) \ {0}
    /\ Lines \in [Kirks -> Nat]
    /\ Privileged \in BOOLEAN
    /\ Kirks \cap Spocks = {}
    /\ IsFiniteSet(Kirks \cup Spocks)
    /\ QueueLimit \in Nat \ {0}

VARIABLES
    live,       \* identifier of the queue the key names, 0 when there is none
    lastId,     \* identifiers handed out so far
    msgs,       \* the messages of that queue
    pc, msqid,  \* of every process
    nbytesread, \* of every kirk
    typed,      \* lines read by every kirk
    bytesreceived, \* of every spock: what it is about to write
    errno,      \* why a process left through .exit_error
    sent, received \* history: per queue identifier, messages in order

kernel == <<live, lastId, msgs>>
history == <<sent, received>>
vars == <<live, lastId, msgs, pc, msqid, nbytesread, typed, bytesreceived, errno,
          sent, received>>

Procs == Kirks \cup Spocks
Ids   == 1..Cardinality(Procs)
Message == [from : Kirks, line : Nat \ {0}, size : 0..(BUFFER_LENGTH + MTYPE_SIZE)]

Gone(p) == pc[p] \in {"exit_0", "exit_1", "killed"}

Init ==
    /\ live = 0 /\ lastId = 0 /\ msgs = <<>>
    /\ pc = [p \in Procs |-> "msgget"]
    /\ msqid = [p \in Procs |-> 0]
    /\ nbytesread = [k \in Kirks |-> 0]
    /\ typed = [k \in Kirks |-> 0]
    /\ bytesreceived = [s \in Spocks |-> 0]
    /\ errno = [p \in Procs |-> "none"]
    /\ sent = [i \in Ids |-> <<>>]
    /\ received = [i \in Ids |-> <<>>]

(* .error_...: a message, then exit with status 1. *)
ExitError(p, e) ==
    /\ pc' = [pc EXCEPT ![p] = "exit_1"]
    /\ errno' = [errno EXCEPT ![p] = e]

GoTo(p, label) == pc' = [pc EXCEPT ![p] = label] /\ UNCHANGED errno

(* ftok cannot open ./kirk. *)
FtokFails(p) ==
    /\ pc[p] = "msgget"
    /\ ExitError(p, "ENOENT")
    /\ UNCHANGED <<kernel, msqid, nbytesread, typed, bytesreceived, history>>

(* msgget(key, 0644 [| IPC_CREAT]): the queue is created when there is none;
   an existing one wants the read and the write permission of the mode.    *)
Msgget(p) ==
    /\ pc[p] = "msgget"
    /\ IF live = 0
       THEN /\ live' = lastId + 1 /\ lastId' = lastId + 1 /\ msgs' = <<>>
            /\ msqid' = [msqid EXCEPT ![p] = lastId + 1]
            /\ GoTo(p, IF p \in Kirks THEN "read" ELSE "msgrcv")
       ELSE /\ UNCHANGED kernel
            /\ IF Privileged
               THEN /\ msqid' = [msqid EXCEPT ![p] = live]
                    /\ GoTo(p, IF p \in Kirks THEN "read" ELSE "msgrcv")
               ELSE /\ UNCHANGED msqid
                    /\ ExitError(p, "EACCES")
    /\ UNCHANGED <<nbytesread, typed, bytesreceived, history>>

-----------------------------------------------------------------------------
(* kirk reads a line; 0 bytes are the end of input.  An error is not tested:
   kirk goes on to send nbytesread + 8 bytes, whatever nbytesread is.      *)
Read(k) ==
    /\ pc[k] = "read"
    /\ \/ /\ typed[k] < Lines[k]
          /\ \E n \in ReadResults : nbytesread' = [nbytesread EXCEPT ![k] = n]
          /\ typed' = [typed EXCEPT ![k] = @ + 1]
          /\ GoTo(k, "msgsnd")
       \/ /\ GoTo(k, "msgctl")
          /\ UNCHANGED <<nbytesread, typed>>
    /\ UNCHANGED <<kernel, msqid, bytesreceived, history>>

(* msgsnd of nbytesread + 8 bytes, although the size of mtype does not count.
   It sleeps while the queue is full and fails on a queue that was removed or
   on a size that is still negative.                                       *)
Msgsnd(k) ==
    LET m == [from |-> k, line |-> typed[k], size |-> nbytesread[k] + MTYPE_SIZE] IN
    /\ pc[k] = "msgsnd"
    /\ \/ /\ m.size < 0
          /\ ExitError(k, "EINVAL")
          /\ UNCHANGED <<kernel, history>>
       \/ /\ m.size >= 0 /\ msqid[k] # live
          /\ ExitError(k, "EIDRM")
          /\ UNCHANGED <<kernel, history>>
       \/ /\ m.size >= 0 /\ msqid[k] = live /\ Len(msgs) < QueueLimit
          /\ msgs' = Append(msgs, m)
          /\ sent' = [sent EXCEPT ![live] = Append(@, m)]
          /\ GoTo(k, "read")
          /\ UNCHANGED <<live, lastId, received>>
    /\ UNCHANGED <<msqid, nbytesread, typed, bytesreceived>>

(* msgctl(IPC_RMID): the queue and every message still in it are gone. *)
Msgctl(k) ==
    /\ pc[k] = "msgctl"
    /\ IF msqid[k] = live
       THEN live' = 0 /\ msgs' = <<>> /\ UNCHANGED lastId /\ GoTo(k, "exit_0")
       ELSE UNCHANGED kernel /\ ExitError(k, "EIDRM")
    /\ UNCHANGED <<msqid, nbytesread, typed, bytesreceived, history>>

(* ^C: the queue outlives the process. *)
Kill(p) ==
    /\ ~Gone(p)
    /\ GoTo(p, "killed")
    /\ UNCHANGED <<kernel, msqid, nbytesread, typed, bytesreceived, history>>

-----------------------------------------------------------------------------
\* What msgrcv does with a message it accepts, given the length shown afterwards.
Accept(s, shown) ==
    /\ Privileged /\ msqid[s] = live /\ msgs # <<>> /\ Head(msgs).size <= BUFFER_LENGTH
    /\ msgs' = Tail(msgs)
    /\ bytesreceived' = [bytesreceived EXCEPT ![s] = shown]
    /\ received' = [received EXCEPT ![live] = Append(@, Head(msgs))]
    /\ GoTo(s, "write")
    /\ UNCHANGED <<live, lastId>>

\* Mutant: the size of mtype is subtracted twice.
Msgrcv_TwiceSub(s) ==
    /\ pc[s] = "msgrcv"
    /\ msgs # <<>> /\ Accept(s, Head(msgs).size - 2 * MTYPE_SIZE)
    /\ UNCHANGED <<msqid, nbytesread, typed, sent>>

\* Mutant: msgrcv leaves the message where it is (MSG_COPY).
Msgrcv_Copy(s) ==
    /\ pc[s] = "msgrcv"
    /\ Privileged /\ msqid[s] = live
    /\ msgs # <<>> /\ Head(msgs).size <= BUFFER_LENGTH
    /\ bytesreceived' = [bytesreceived EXCEPT ![s] = Head(msgs).size - MTYPE_SIZE]
    /\ received' = [received EXCEPT ![live] =
                       IF Len(@) <= Len(sent[live]) THEN Append(@, Head(msgs)) ELSE @]
    /\ GoTo(s, "write")
    /\ UNCHANGED <<kernel, msqid, nbytesread, typed, sent>>

\* Mutant: the result of msgrcv is not tested.
Msgrcv_NoTest(s) ==
    /\ pc[s] = "msgrcv"
    /\ \/ (msqid[s] # live \/ ~Privileged) /\ GoTo(s, "write")
          /\ UNCHANGED <<kernel, bytesreceived, received>>
       \/ /\ msqid[s] = live /\ msgs # <<>> /\ Head(msgs).size > BUFFER_LENGTH
          /\ GoTo(s, "write") /\ UNCHANGED <<kernel, bytesreceived, received>>
       \/ msgs # <<>> /\ Accept(s, Head(msgs).size - MTYPE_SIZE)
    /\ UNCHANGED <<msqid, nbytesread, typed, sent>>

(* spock sleeps in msgrcv until there is a message or an error.  A message of
   more than BUFFER_LENGTH bytes stays in the queue.                       *)
Msgrcv(s) ==
    /\ pc[s] = "msgrcv"
    /\ \/ /\ \/ ~Privileged /\ ExitError(s, "EACCES")
             \/ Privileged /\ msqid[s] # live /\ ExitError(s, "EIDRM")
             \/ /\ Privileged /\ msqid[s] = live
                /\ msgs # <<>> /\ Head(msgs).size > BUFFER_LENGTH
                /\ ExitError(s, "E2BIG")
          /\ UNCHANGED <<kernel, bytesreceived, received>>
       \/ msgs # <<>> /\ Accept(s, Head(msgs).size - MTYPE_SIZE)
    /\ UNCHANGED <<msqid, nbytesread, typed, sent>>

(* The three writes that show the message. *)
Write(s) ==
    /\ pc[s] = "write"
    /\ GoTo(s, "msgrcv")
    /\ UNCHANGED <<kernel, msqid, nbytesread, typed, bytesreceived, history>>

Kirk(k)  == Msgget(k) \/ Read(k) \/ Msgsnd(k) \/ Msgctl(k)
Spock(s) == Msgget(s) \/ Msgrcv(s) \/ Write(s)

Next ==
    \/ \E k \in Kirks : Kirk(k)
    \/ \E s \in Spocks : Spock(s)
    \/ \E p \in Procs : FtokFails(p) \/ Kill(p)

(* The kernel runs the processes; nobody has to start one or to type. *)
Fairness == \A s \in Spocks : WF_vars(Msgrcv(s) \/ Write(s))

Spec == Init /\ [][Next]_vars /\ Fairness

-----------------------------------------------------------------------------
(* Type invariant. *)
TypeOK ==
    /\ live \in {0} \cup Ids /\ lastId \in {0} \cup Ids /\ live <= lastId
    /\ msgs \in Seq(Message) /\ Len(msgs) <= QueueLimit
    /\ pc \in [Procs -> {"msgget", "read", "msgsnd", "msgctl", "msgrcv", "write",
                        "exit_0", "exit_1", "killed"}]
    /\ \A k \in Kirks : pc[k] \notin {"msgrcv", "write"}
    /\ \A s \in Spocks : pc[s] \notin {"read", "msgsnd", "msgctl", "exit_0"}
    /\ msqid \in [Procs -> {0} \cup Ids]
    /\ nbytesread \in [Kirks -> {0} \cup ReadResults]
    /\ typed \in [Kirks -> Nat] /\ \A k \in Kirks : typed[k] <= Lines[k]
    /\ bytesreceived \in [Spocks -> -MTYPE_SIZE..BUFFER_LENGTH]
    /\ errno \in [Procs -> {"none", "ENOENT", "EACCES", "EINVAL", "EIDRM", "E2BIG"}]
    /\ sent \in [Ids -> Seq(Message)] /\ received \in [Ids -> Seq(Message)]

(* A message goes to one spock, and the spocks together take them in the order
   in which the kirks sent them; what is left when a queue is removed is the
   end of what was sent to it.                                             *)
OnceAndInOrder ==
    \A i \in Ids : IF i = live THEN sent[i] = received[i] \o msgs
                   ELSE IsPrefix(received[i], sent[i])

(* A kirk that ends well has sent every line it read, once and in order, all to
   the queue it opened.                                                    *)
EveryLineSent ==
    \A k \in Kirks : pc[k] = "exit_0" =>
        LET all  == sent[msqid[k]]
            mine == {i \in DOMAIN all : all[i].from = k}
        IN  /\ {all[i].line : i \in mine} = 1..typed[k]
            /\ \A i, j \in mine : i < j => all[i].line < all[j].line

(* So what is typed at a kirk reaches the spocks once and in order, but for what
   a queue still holds or a removal takes with it (kirk.asm 48-73, spock.asm
   39-56).                                                                 *)
Delivered == OnceAndInOrder /\ EveryLineSent

(* A spock that sleeps in msgrcv on a queue that a kirk removes wakes up and
   ends, however many messages it has seen.                                *)
RemovalEndsSpock ==
    \A s \in Spocks :
        (pc[s] \in {"msgrcv", "write"} /\ msqid[s] # live) ~> Gone(s)

(* A kirk that sleeps in msgsnd on a full queue is not left there while a spock
   is attached: the spock makes room, or ends, or the queue is removed.    *)
BlockedSenderReleased ==
    \A k \in Kirks, s \in Spocks :
        (/\ pc[k] = "msgsnd" /\ Len(msgs) = QueueLimit
         /\ pc[s] \in {"msgrcv", "write"} /\ msqid[s] = live)
            ~> (Len(msgs) < QueueLimit \/ Gone(s))

-----------------------------------------------------------------------------
(* Makefile:31, FIRST RUN kirk THEN RUN spock: with kirk's queue there, spock
   gets it.                                                                *)
KirkFirstThenSpock ==
    [][\A s \in Spocks : pc[s] = "msgget" /\ live # 0 /\ errno'[s] # "ENOENT"
            => pc'[s] # "exit_1"]_vars
=============================================================================
