----------------------------- MODULE MCThreads -----------------------------
(***************************************************************************)
(* threads, and kirk and spock, for TLC, side by side: one of the two, the *)
(* subject, chosen at the start, runs; the other does not begin.           *)
(***************************************************************************)
EXTENDS Threads, Sequences

CONSTANTS
    Kirks, Spocks, ReadResults, Lines, QueueLimit, Privileged   \* MessageQueue

VARIABLES
    subject,
    live, lastId, msgs, qPc, msqid, nbytesread, typed, bytesreceived, errno,
    sent, received              \* MessageQueue

queueVars == <<live, lastId, msgs, qPc, msqid, nbytesread, typed, bytesreceived, errno,
               sent, received>>

\* The read results stand for the longest line that msgrcv accepts, one that
\* it refuses, EIO (sent all the same, since -5 + 8 is not negative) and EBADF.
\* One kirk gets two lines, any other one.
MCReadResults == {192, 193, -5, -9}
Talkative == CHOOSE k \in Kirks : TRUE
MCLines == [k \in Kirks |-> IF k = Talkative THEN 2 ELSE 1]

Queue == INSTANCE MessageQueue WITH pc <- qPc

ASSUME QueueAssumption == Queue!ConstantsOK

MCInit == subject \in {"threads", "queue"} /\ Init /\ Queue!Init

MCNext == \/ subject = "threads" /\ Next /\ UNCHANGED <<subject, queueVars>>
          \/ subject = "queue" /\ Queue!Next /\ UNCHANGED <<subject, vars>>

MCFairness ==
    /\ WF_vars(subject = "threads" /\ Create)
    /\ \A t \in Threads : WF_vars(subject = "threads" /\ Loop(t))
    /\ \A s \in Spocks : WF_queueVars(subject = "queue" /\ (Queue!Msgrcv(s) \/ Queue!Write(s)))

MCSpec == MCInit /\ [][MCNext]_<<subject, vars, queueVars>> /\ MCFairness

-----------------------------------------------------------------------------
\* threads.asm 62-80: the program ends.
ProgramEnds == subject = "threads" => EventuallyTerminated

\* threads.asm 62-80: the threads are a budget of lines, its progress included.
ImplementsLines == /\ Budget!Init
                   /\ [][Budget!Next]_(Budget!vars)
                   /\ subject = "threads" => Budget!Fairness

\* The type invariant of MessageQueue.
QueueTypeOK == Queue!TypeOK

\* kirk.asm 48-73, spock.asm 39-56: what is typed at a kirk reaches the spocks
\* once and in order.
Delivered == Queue!Delivered

\* spock.asm 39-60: a spock whose queue is removed ends.
RemovalEndsSpock == Queue!RemovalEndsSpock

\* kirk.asm 61: a kirk asleep on a full queue is released by a spock.
BlockedSenderReleased == Queue!BlockedSenderReleased

\* Makefile:31, FIRST RUN kirk THEN RUN spock.
KirkFirstThenSpock == Queue!KirkFirstThenSpock
=============================================================================
