----------------------------- MODULE PipeDemo3 -----------------------------
(***************************************************************************)
(* pipedemo3.asm: one process sends a message down a pipe, the other reads *)
(* it CHARSTOREAD characters at a time and shows every piece.              *)
(*                                                                         *)
(* fork returns 0 in the new process, and `je parent' takes it to the code *)
(* that writes: the FORKED process is the writer and waits for a child it  *)
(* does not have, the ORIGINAL one reads and waits for nobody.             *)
(***************************************************************************)
EXTENDS Pipe, SequencesExt

CONSTANTS
    MessageLength,
    CHARSTOREAD

\* What the constants have to be.
ConstantsOK ==
    /\ MessageLength \in Nat \ {0} /\ CHARSTOREAD \in Nat \ {0}
    /\ Capacity \in Nat /\ MessageLength <= Capacity

VARIABLES
    pc,         \* of the two processes
    r8,         \* characters of the last read
    shown       \* history: the text on the screen

vars == <<data, readers, writers, pc, r8, shown>>

Original == "original"
Forked   == "forked"
Processes == {Original, Forked}
Gone(p)  == pc[p] \in {"exit", "killed"}

message == [i \in 1..MessageLength |-> i]

Init ==
    /\ data = <<>> /\ readers = {} /\ writers = {}
    /\ pc = [p \in Processes |-> IF p = Original THEN "pipe" ELSE "unborn"]
    /\ r8 = 0 /\ shown = <<>>

GoTo(p, from, to) == pc[p] = from /\ pc' = [pc EXCEPT ![p] = to]

(* pipe; its `js' tests flags that the call did not set and is never taken, so
   that a failure leaves both descriptors 0 and is not noticed.  pipe is taken to
   succeed here.                                                           *)
OpenPipe ==
    /\ GoTo(Original, "pipe", "fork")
    /\ readers' = {Original} /\ writers' = {Original}
    /\ UNCHANGED <<data, r8, shown>>

Fork ==
    /\ pc[Original] = "fork"
    /\ pc' = [p \in Processes |-> IF p = Original THEN "close_write" ELSE "close_read"]
    /\ readers' = Processes /\ writers' = Processes
    /\ UNCHANGED <<data, r8, shown>>

ForkFails ==
    /\ GoTo(Original, "fork", "exit")
    /\ CloseEnds(Original)
    /\ UNCHANGED <<r8, shown>>

-----------------------------------------------------------------------------
(* The label child: the original process. *)
\* Mutant: the reader keeps the write end open.
CloseWrite_Forgotten ==
    /\ GoTo(Original, "close_write", "read")
    /\ UNCHANGED <<pipe, r8, shown>>

CloseWrite ==
    /\ GoTo(Original, "close_write", "read")
    /\ writers' = writers \ {Original}
    /\ UNCHANGED <<data, readers, r8, shown>>

(* What the reader makes of a read of n bytes of which it shows a piece. *)
Piece(n, piece) ==
    /\ CanRead
    /\ r8' = ReadCount(n)
    /\ shown' = shown \o piece
    /\ GoTo(Original, "read", IF r8' = 0 THEN "close_pipe" ELSE "show")
    /\ UNCHANGED <<readers, writers>>

\* Mutant: the last character read is taken for a linefeed.
ReadBytes_Dec ==
    Piece(CHARSTOREAD, ReadPipe(ReadCount(CHARSTOREAD) - 1)) /\ TakePipe(CHARSTOREAD)

(* readBytes: a read, its piece and its writes to the screen. *)
ReadBytes == Piece(CHARSTOREAD, ReadPipe(CHARSTOREAD)) /\ TakePipe(CHARSTOREAD)

Show == GoTo(Original, "show", "read") /\ UNCHANGED <<pipe, r8, shown>>

ClosePipe ==
    /\ GoTo(Original, "close_pipe", "exit")
    /\ CloseEnds(Original)
    /\ UNCHANGED <<r8, shown>>

-----------------------------------------------------------------------------
(* The label parent: the forked process. *)
CloseRead ==
    /\ GoTo(Forked, "close_read", "write")
    /\ readers' = readers \ {Forked}
    /\ UNCHANGED <<data, writers, r8, shown>>

(* One write of the whole message; SIGPIPE when the reader is gone. *)
Write ==
    /\ \/ /\ CanWrite(message)
          /\ GoTo(Forked, "write", "close")
          /\ WritePipe(message)
          /\ UNCHANGED <<readers, writers>>
       \/ /\ Broken
          /\ GoTo(Forked, "write", "killed")
          /\ CloseEnds(Forked)
    /\ UNCHANGED <<r8, shown>>

Close ==
    /\ GoTo(Forked, "close", "wait4")
    /\ CloseEnds(Forked)
    /\ UNCHANGED <<r8, shown>>

(* wait4 has no child to wait for and returns ECHILD at once. *)
Wait4 == GoTo(Forked, "wait4", "exit") /\ UNCHANGED <<pipe, r8, shown>>

Kill(p) ==
    /\ pc[p] # "unborn" /\ ~Gone(p)
    /\ pc' = [pc EXCEPT ![p] = "killed"]
    /\ CloseEnds(p)
    /\ UNCHANGED <<r8, shown>>

Reader == OpenPipe \/ Fork \/ CloseWrite \/ ReadBytes \/ Show \/ ClosePipe
Writer == CloseRead \/ Write \/ Close \/ Wait4

Terminated == Gone(Original) /\ pc[Forked] \in {"unborn", "exit", "killed"}
Done == Terminated /\ UNCHANGED vars

Next == Reader \/ Writer \/ ForkFails \/ (\E p \in Processes : Kill(p)) \/ Done

(* The kernel runs both processes. *)
Fairness == WF_vars(Reader) /\ WF_vars(Writer)

Spec == Init /\ [][Next]_vars /\ Fairness

-----------------------------------------------------------------------------
(* Type invariant. *)
TypeOK ==
    /\ data \in Seq(1..MessageLength)
    /\ readers \subseteq Processes /\ writers \subseteq Processes
    /\ pc \in [Processes -> {"pipe", "fork", "close_write", "read", "show", "close_pipe",
                             "unborn", "close_read", "write", "close", "wait4", "exit", "killed"}]
    /\ pc[Original] \notin {"unborn", "close_read", "write", "close", "wait4"}
    /\ pc[Forked] \notin {"pipe", "fork", "close_write", "read", "show", "close_pipe"}
    /\ r8 \in 0..CHARSTOREAD

(* What is shown is the beginning of the message, and what is still in the pipe
   is what follows it, until the last descriptor is closed.                *)
TextIsMessage ==
    /\ IsPrefix(shown, message)
    /\ data # <<>> => shown \o data = message

(* A reader that ends by itself has shown the whole message, or nothing because
   the writer was killed before it wrote (or there was no fork).            *)
AllOrNothing ==
    pc[Original] = "exit" => shown \in {<<>>, message}

(* Both processes end, whichever is killed: the reader, because it has closed
   its own copy of the write end.                                          *)
Ends == <>Terminated

=============================================================================
