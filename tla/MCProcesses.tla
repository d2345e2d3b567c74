---------------------------- MODULE MCProcesses ----------------------------
(***************************************************************************)
(* lockdemo, the HTTP server and pipedemo3 for TLC, side by side: one of   *)
(* them, the subject, chosen at the start, runs; the others do not begin.  *)
(***************************************************************************)
EXTENDS FileLock, Integers, Sequences

CONSTANTS
    Clients, MaxStarts, Backlog, None,      \* HttpServer
    Capacity, MessageLength, CHARSTOREAD    \* PipeDemo3

VARIABLES
    subject,
    hPc, gen, sockfd, r12, conn, lst, sent, closed, replied,    \* HttpServer
    fds, child, timeWait, forkFailed, interrupted,
    data, readers, writers, pPc, r8, shown                      \* PipeDemo3

httpVars == <<hPc, gen, sockfd, r12, conn, lst, sent, closed, replied,
              fds, child, timeWait, forkFailed, interrupted>>
pipeVars == <<data, readers, writers, pPc, r8, shown>>

Http == INSTANCE HttpServer WITH pc <- hPc

Demo3 == INSTANCE PipeDemo3 WITH pc <- pPc

ASSUME HttpAssumption == Http!ConstantsOK
ASSUME Demo3Assumption == Demo3!ConstantsOK

MCInit == /\ subject \in {"lock", "http", "pipe"}
          /\ Init /\ Http!Init /\ Demo3!Init

\* One of the programs does A; the others and the choice of it stay.
Lock(A) == subject = "lock" /\ A /\ UNCHANGED <<subject, httpVars, pipeVars>>
Server(A) == subject = "http" /\ A /\ UNCHANGED <<subject, vars, pipeVars>>
Piped(A) == subject = "pipe" /\ A /\ UNCHANGED <<subject, vars, httpVars>>

MCNext == Lock(Next) \/ Server(Http!Next) \/ Piped(Demo3!Next)

MCvars == <<subject, vars, httpVars, pipeVars>>

\* The fairness of the three modules, for the one that runs.
MCFairness ==
    /\ \A p \in Procs : /\ WF_vars(subject = "lock" /\ Press(p))
                        /\ SF_vars(subject = "lock" /\ Run(p))
    /\ WF_httpVars(subject = "http" /\ Http!ParentStep)
    /\ \A c \in Clients : WF_httpVars(subject = "http" /\ Http!ChildStep(c))
    /\ WF_pipeVars(subject = "pipe" /\ Demo3!Reader)
    /\ WF_pipeVars(subject = "pipe" /\ Demo3!Writer)

MCSpec == MCInit /\ [][MCNext]_MCvars /\ MCFairness

-----------------------------------------------------------------------------
\* httpserver.asm 153-169: no connection is left open in the parent, and none
\* ends without a reply but for a failed fork, ctrl-C or a stop before the fork.
ConnectionsEndRight == Http!ParentHoldsOne /\ Http!EndOnlyAfterReply

\* pipedemo3.asm 55-89: what is shown is the message, all of it or nothing.
TextIsShown == Demo3!TextIsMessage /\ Demo3!AllOrNothing

\* httpserver.asm 153-189: a client that says nothing delays no other, and a
\* request is followed by the end of its connection.
ClientsServed == Http!BacklogServed /\ Http!RequestEnds

\* httpserver.asm 134-144: a server that is started again gets the port.
PoliteClients == /\ WF_httpVars(subject = "http" /\ Http!TimeWaitEnds)
                 /\ \A c \in Clients : WF_httpVars(subject = "http" /\ Http!Send(c))
BindEnds == PoliteClients => ((hPc = "bind") ~> (hPc # "bind"))

\* pipedemo3.asm 55-89 and 92-115: both processes end.
Ends == subject = "pipe" => Demo3!Ends
=============================================================================
