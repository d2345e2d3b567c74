----------------------------- MODULE HttpServer -----------------------------
(***************************************************************************)
(* httpserver.asm: a server that forks a child for every connection it     *)
(* accepts.  The parent binds the port, retrying while it is in use, and   *)
(* loops accept / wait4 / wait4 / fork / close.  The child reads the       *)
(* request, writes the fixed reply, closes and exits.                      *)
(*                                                                         *)
(* Every client connects once; its connection and the child that serves it *)
(* bear its name.  The server may be stopped in the two ways its header    *)
(* names, kill [pid] and ctrl-C, and started again; a run of it is a       *)
(* generation.                                                             *)
(***************************************************************************)
EXTENDS Naturals, FiniteSets

CONSTANTS
    Clients,
    MaxStarts,  \* times the server is started
    Backlog,    \* connections the kernel queues: listen(.., 0) allows one
    None        \* r12 before the first accept

\* What the constants have to be.
ConstantsOK == /\ None \notin Clients
               /\ MaxStarts \in Nat \ {0}
               /\ Backlog \in Nat \ {0}

VARIABLES
    pc,         \* the parent
    gen,        \* its generation
    sockfd,     \* what socket returned: "ok" or "bad"
    r12,        \* the connection it accepted last
    conn,       \* of every client: where its connection is
    lst,        \* of every client: the generation whose listener it reached
    sent,       \* clients that sent their request
    closed,     \* clients that closed their side
    replied,    \* clients that got the reply
    fds,        \* of every connection: who has its descriptor open
    child,      \* of every connection: where its child is
    timeWait,   \* a connection that the server closed still keeps the port
    forkFailed, \* history: connections for which fork failed
    interrupted \* history: connections whose child ctrl-C killed

server == <<pc, gen, sockfd, r12>>
client == <<conn, lst, sent, closed>>
vars == <<pc, gen, sockfd, r12, conn, lst, sent, closed, replied,
          fds, child, timeWait, forkFailed, interrupted>>

Gens   == 1..MaxStarts
Parent == "parent"
Child  == "child"

(* A child inherits the listening socket and never closes it. *)
Alive(c)   == child[c] \in {"read", "reply", "close", "exit"}
Holders(g) == {c \in Clients : Alive(c) /\ lst[c] = g}
Zombies    == {c \in Clients : child[c] = "zombie"}
Queue(g)   == {c \in Clients : conn[c] = "backlog" /\ lst[c] = g}

Bound     == {"listen", "accept", "wait4_1", "wait4_2", "fork", "close"}
Listening == Bound \ {"listen"}
IsListening(g) == (g = gen /\ pc \in Listening) \/ (g <= gen /\ Holders(g) # {})

(* EADDRINUSE: TIME_WAIT, or a child of an earlier generation. *)
PortInUse == timeWait \/ \E g \in Gens : g < gen /\ Holders(g) # {}

Init ==
    /\ pc = "down" /\ gen = 0 /\ sockfd = "bad" /\ r12 = None
    /\ conn = [c \in Clients |-> "new"]
    /\ lst = [c \in Clients |-> 0]
    /\ sent = {} /\ closed = {} /\ replied = {} /\ forkFailed = {}
    /\ interrupted = {}
    /\ fds = [c \in Clients |-> {}]
    /\ child = [c \in Clients |-> "none"]
    /\ timeWait = FALSE

-----------------------------------------------------------------------------
(* socket: only the result 0 is taken for an error; -errno is not. *)
Start ==
    /\ pc = "down" /\ gen < MaxStarts
    /\ gen' = gen + 1
    /\ r12' = None
    /\ \/ pc' = "bind" /\ sockfd' \in {"ok", "bad"}
       \/ pc' = "down" /\ sockfd' = "ok"        \* descriptor 0: .socketerror
    /\ UNCHANGED <<client, replied, fds, child, timeWait, forkFailed, interrupted>>

(* bind, until it succeeds; any error but EADDRINUSE ends the server. *)
BindSucceeds ==
    /\ pc = "bind" /\ sockfd = "ok" /\ ~PortInUse
    /\ pc' = "listen"
    /\ UNCHANGED <<gen, sockfd, r12, client, replied, fds, child, timeWait, forkFailed, interrupted>>

BindFails ==
    /\ pc = "bind" /\ sockfd = "bad"
    /\ pc' = "down"
    /\ UNCHANGED <<gen, sockfd, r12, client, replied, fds, child, timeWait, forkFailed, interrupted>>

Listen ==
    /\ pc = "listen"
    /\ pc' \in {"accept", "down"}
    /\ UNCHANGED <<gen, sockfd, r12, client, replied, fds, child, timeWait, forkFailed, interrupted>>

(* A failing accept is tried again at once and changes nothing. *)
Accept(c) ==
    /\ pc = "accept"
    /\ c \in Queue(gen)
    /\ r12' = c
    /\ conn' = [conn EXCEPT ![c] = "accepted"]
    /\ fds' = [fds EXCEPT ![c] = {Parent}]
    /\ pc' = "wait4_1"
    /\ UNCHANGED <<gen, sockfd, lst, sent, closed, replied, child, timeWait, forkFailed, interrupted>>

\* Mutant: without WNOHANG the parent sleeps until a child ends.
Wait4_Blocking ==
    /\ pc \in {"wait4_1", "wait4_2"}
    /\ pc' = IF pc = "wait4_1" THEN "wait4_2" ELSE "fork"
    /\ \/ Zombies = {} /\ Holders(gen) = {} /\ UNCHANGED child
       \/ \E z \in Zombies : child' = [child EXCEPT ![z] = "reaped"]
    /\ UNCHANGED <<gen, sockfd, r12, client, replied, fds, timeWait, forkFailed, interrupted>>

(* wait4(-1, 0, WNOHANG): reaps one zombie if there is one. *)
Wait4 ==
    /\ pc \in {"wait4_1", "wait4_2"}
    /\ pc' = IF pc = "wait4_1" THEN "wait4_2" ELSE "fork"
    /\ IF Zombies = {}
       THEN UNCHANGED child
       ELSE \E z \in Zombies : child' = [child EXCEPT ![z] = "reaped"]
    /\ UNCHANGED <<gen, sockfd, r12, client, replied, fds, timeWait, forkFailed, interrupted>>

(* fork; a failure is not tested and the parent goes on to close. *)
Fork ==
    /\ pc = "fork"
    /\ pc' = "close"
    /\ \/ /\ child' = [child EXCEPT ![r12] = "read"]
          /\ fds' = [fds EXCEPT ![r12] = @ \cup {Child}]
          /\ UNCHANGED forkFailed
       \/ /\ forkFailed' = forkFailed \cup {r12}
          /\ UNCHANGED <<child, fds>>
    /\ UNCHANGED <<gen, sockfd, r12, client, replied, timeWait, interrupted>>

(* The last descriptor of a connection is closed: the client sees the end, and
   the side that closes first goes through TIME_WAIT.                      *)
CloseFd(c, who) ==
    /\ fds' = [fds EXCEPT ![c] = @ \ {who}]
    /\ timeWait' = (timeWait \/ (fds[c] = {who} /\ c \notin closed))

\* Mutant: the parent does not close its copy.
Close_Forgotten ==
    /\ pc = "close"
    /\ pc' = "accept"
    /\ UNCHANGED <<gen, sockfd, r12, client, replied, fds, child, timeWait, forkFailed, interrupted>>

Close ==
    /\ pc = "close"
    /\ CloseFd(r12, Parent)
    /\ pc' = "accept"
    /\ UNCHANGED <<gen, sockfd, r12, client, replied, child, forkFailed, interrupted>>

-----------------------------------------------------------------------------
(* The child reads the request or the end of the connection. *)
ReadRequest(c) ==
    /\ child[c] = "read"
    /\ c \in sent \cup closed
    /\ child' = [child EXCEPT ![c] = "reply"]
    /\ UNCHANGED <<server, client, replied, fds, timeWait, forkFailed, interrupted>>

Reply(c) ==
    /\ child[c] = "reply"
    /\ replied' = IF c \in closed THEN replied ELSE replied \cup {c}
    /\ child' = [child EXCEPT ![c] = "close"]
    /\ UNCHANGED <<server, client, fds, timeWait, forkFailed, interrupted>>

\* Mutant: the child goes back to read instead of exiting.
ChildClose_Loop(c) ==
    /\ child[c] = "close"
    /\ CloseFd(c, Child)
    /\ child' = [child EXCEPT ![c] = "read"]
    /\ UNCHANGED <<server, client, replied, forkFailed, interrupted>>

ChildClose(c) ==
    /\ child[c] = "close"
    /\ CloseFd(c, Child)
    /\ child' = [child EXCEPT ![c] = "exit"]
    /\ UNCHANGED <<server, client, replied, forkFailed, interrupted>>

(* An ended child waits for its parent; init reaps it when there is none. *)
Ended(c) == IF lst[c] = gen /\ pc # "down" THEN "zombie" ELSE "reaped"

(* The connections queued on a listener that nobody has open are reset. *)
ResetQueue(g, gone) ==
    conn' = [c \in Clients |-> IF gone /\ c \in Queue(g) THEN "reset" ELSE conn[c]]

ChildExit(c) ==
    /\ child[c] = "exit"
    /\ child' = [child EXCEPT ![c] = Ended(c)]
    /\ ResetQueue(lst[c], Holders(lst[c]) = {c} /\ Ended(c) = "reaped")
    /\ UNCHANGED <<server, lst, sent, closed, replied, fds, timeWait, forkFailed, interrupted>>

(* SIGPIPE: the client has closed and the child writes to it. *)
ChildKilled(c) ==
    /\ child[c] = "reply" /\ c \in closed
    /\ CloseFd(c, Child)
    /\ child' = [child EXCEPT ![c] = Ended(c)]
    /\ ResetQueue(lst[c], Holders(lst[c]) = {c} /\ Ended(c) = "reaped")
    /\ UNCHANGED <<server, lst, sent, closed, replied, forkFailed, interrupted>>

-----------------------------------------------------------------------------
Connect(c) ==
    /\ conn[c] = "new"
    /\ \E g \in Gens :
          /\ IsListening(g)
          /\ Cardinality(Queue(g)) < Backlog
          /\ lst' = [lst EXCEPT ![c] = g]
    /\ conn' = [conn EXCEPT ![c] = "backlog"]
    /\ UNCHANGED <<server, sent, closed, replied, fds, child, timeWait, forkFailed, interrupted>>

Send(c) ==
    /\ conn[c] \in {"backlog", "accepted"} /\ c \notin sent \cup closed
    /\ sent' = sent \cup {c}
    /\ UNCHANGED <<server, conn, lst, closed, replied, fds, child, timeWait, forkFailed, interrupted>>

ClientClose(c) ==
    /\ conn[c] \in {"backlog", "accepted"} /\ c \notin closed
    /\ closed' = closed \cup {c}
    /\ UNCHANGED <<server, conn, lst, sent, replied, fds, child, timeWait, forkFailed, interrupted>>

(* The kernel closes what the parent and the children hit with it have open. *)
Stop(hit) ==
    /\ pc \in Bound \cup {"bind"}
    /\ pc' = "down"
    /\ child' = [c \in Clients |->
                   IF child[c] = "zombie" \/ c \in hit THEN "reaped" ELSE child[c]]
    /\ fds' = [c \in Clients |-> fds[c] \ (IF c \in hit THEN {Parent, Child} ELSE {Parent})]
    /\ timeWait' = (timeWait \/ \E c \in Clients : fds[c] # {} /\ fds'[c] = {} /\ c \notin closed)
    /\ interrupted' = interrupted \cup hit
    /\ ResetQueue(gen, Holders(gen) \subseteq hit)
    /\ UNCHANGED <<gen, sockfd, r12, lst, sent, closed, replied, forkFailed>>

(* kill [pid] stops the parent alone; its children go on. *)
Kill == Stop({})

(* ctrl-C: SIGINT goes to the foreground process group, the parent and its
   children.  Those of an earlier generation are in a group of their own.  *)
CtrlC == Stop(Holders(gen))

TimeWaitEnds ==
    /\ timeWait
    /\ timeWait' = FALSE
    /\ UNCHANGED <<server, client, replied, fds, child, forkFailed, interrupted>>

ParentStep ==
    \/ BindSucceeds \/ BindFails \/ Listen
    \/ \E c \in Clients : Accept(c)
    \/ Wait4 \/ Fork \/ Close
ChildStep(c) == ReadRequest(c) \/ Reply(c) \/ ChildClose(c) \/ ChildExit(c) \/ ChildKilled(c)

Next ==
    \/ Start \/ ParentStep \/ Kill \/ CtrlC \/ TimeWaitEnds
    \/ \E c \in Clients : ChildStep(c) \/ Connect(c) \/ Send(c) \/ ClientClose(c)

(* The kernel runs the parent and its children; clients owe nothing. *)
Fairness == WF_vars(ParentStep) /\ \A c \in Clients : WF_vars(ChildStep(c))

Spec == Init /\ [][Next]_vars /\ Fairness

-----------------------------------------------------------------------------
(* Type invariant. *)
TypeOK ==
    /\ pc \in {"down", "bind"} \cup Bound
    /\ gen \in {0} \cup Gens /\ sockfd \in {"ok", "bad"} /\ r12 \in Clients \cup {None}
    /\ conn \in [Clients -> {"new", "backlog", "accepted", "reset"}]
    /\ lst \in [Clients -> {0} \cup Gens]
    /\ sent \subseteq Clients /\ closed \subseteq Clients
    /\ replied \subseteq sent /\ forkFailed \subseteq Clients
    /\ interrupted \subseteq Clients
    /\ fds \in [Clients -> SUBSET {Parent, Child}]
    /\ child \in [Clients -> {"none", "read", "reply", "close", "exit", "zombie", "reaped"}]
    /\ timeWait \in BOOLEAN

(* The parent leaks no connection: the only one it has open is the one it has
   just accepted, so a client never waits for the parent to see the end.   *)
ParentHoldsOne ==
    \A c \in Clients : Parent \in fds[c] =>
        c = r12 /\ pc \in {"wait4_1", "wait4_2", "fork", "close"}

(* The generation that accepted, or should accept, a connection is gone. *)
ServerGone(g) == g # gen \/ pc = "down"

(* A client that stays sees its connection end without a reply only when fork
   failed for it, ctrl-C killed its child, or the server was stopped before it
   could fork.  In particular kill [pid] alone never costs a client whose child
   was forked its reply.                                                   *)
EndOnlyAfterReply ==
    \A c \in Clients :
        (conn[c] = "accepted" /\ fds[c] = {} /\ c \notin closed) =>
            \/ c \in replied \cup forkFailed \cup interrupted
            \/ child[c] = "none" /\ ServerGone(lst[c])

(* A client that says nothing delays nobody else: whoever is in the queue gets
   a child, or a failed fork, as long as the server lives.                 *)
BacklogServed ==
    \A c \in Clients :
        conn[c] = "backlog" ~> (child[c] # "none" \/ c \in forkFailed \/ ServerGone(lst[c]))

(* A request on an accepted connection is followed by its end, even when the
   parent is stopped meanwhile.                                            *)
RequestEnds ==
    \A c \in Clients : (conn[c] = "accepted" /\ c \in sent) ~> fds[c] = {}

(* Clients that send a request once connected, and TIME_WAIT ending. *)
PoliteClients == WF_vars(TimeWaitEnds) /\ \A c \in Clients : WF_vars(Send(c))

(* The bind loop ends: with polite clients, the children that still hold the
   old socket go away and a restarted server gets the port.                *)
BindEnds == PoliteClients => ((pc = "bind") ~> (pc # "bind"))
=============================================================================
