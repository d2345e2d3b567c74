------------------------------ MODULE FileLock ------------------------------
(***************************************************************************)
(* lockdemo.asm: processes that take a record lock on one file.  A process *)
(* opens the file, waits for RETURN, asks for a write lock (a read lock    *)
(* when it was given arguments) with F_SETLKW, waits for RETURN, unlocks,  *)
(* closes and exits.  The lock and what the screen says of it change in    *)
(* two system calls each time, and ^C may come between the two.            *)
(*                                                                         *)
(* Every `js' follows a bare syscall.  The syscall instruction restores    *)
(* the flags it found, so the sign flag is the one that `and rax,rax' left *)
(* after the count of arguments: it is never set, and no error branch is   *)
(* ever taken.                                                             *)
(*                                                                         *)
(* FLOCK_STRUC has no padding after l_whence: the kernel takes l_pid for   *)
(* the upper half of l_len.  The locked ranges differ in length but all of *)
(* them start at byte 0, so any two of them overlap.                       *)
(***************************************************************************)
EXTENDS FiniteSets

CONSTANTS
    Procs,          \* runs of the program
    WithArguments,  \* those started with arguments
    FileExists      \* lockdemo.c is there

ASSUME WithArgumentsAssumption == WithArguments \subseteq Procs
ASSUME FileExistsAssumption == FileExists \in BOOLEAN

VARIABLES
    pc,     \* of every process
    fd,     \* what open returned: "none", "ok" or "bad"
    lock,   \* the lock every process holds in the kernel: F_RDLCK, F_WRLCK, F_UNLCK
    screen  \* what every terminal says of the lock: "nothing", "got_lock", "unlocked"

vars == <<pc, fd, lock, screen>>

\* Mutant: the test of the arguments inverted.
l_type_Inverted(p) == IF p \in WithArguments THEN "F_WRLCK" ELSE "F_RDLCK"

l_type(p) == IF p \in WithArguments THEN "F_RDLCK" ELSE "F_WRLCK"

(* Two locks that cannot be held at the same time. *)
Conflict(l, m) == "F_WRLCK" \in {l, m} /\ "F_UNLCK" \notin {l, m}

Init ==
    /\ pc = [p \in Procs |-> "open"]
    /\ fd = [p \in Procs |-> "none"]
    /\ lock = [p \in Procs |-> "F_UNLCK"]
    /\ screen = [p \in Procs |-> "nothing"]

GoTo(p, from, to) == pc[p] = from /\ pc' = [pc EXCEPT ![p] = to]

(* js openerror is not taken: a negative result is kept as a descriptor. *)
Open(p) ==
    /\ GoTo(p, "open", "press_to_lock")
    /\ fd' = [fd EXCEPT ![p] = IF FileExists THEN "ok" ELSE "bad"]
    /\ UNCHANGED <<lock, screen>>

(* read(stdin) of one byte: the user presses RETURN. *)
PressToLock(p) == GoTo(p, "press_to_lock", "setlkw") /\ UNCHANGED <<fd, lock, screen>>

(* F_SETLKW sleeps until the lock is free.  On a bad descriptor it fails with
   EBADF at once, and js fcntlerror is not taken.                          *)
SetLockWait(p) ==
    /\ GoTo(p, "setlkw", "granted")
    /\ \/ /\ fd[p] = "ok"
          /\ \A q \in Procs \ {p} : ~Conflict(l_type(p), lock[q])
          /\ lock' = [lock EXCEPT ![p] = l_type(p)]
       \/ /\ fd[p] = "bad"
          /\ UNCHANGED lock
    /\ UNCHANGED <<fd, screen>>

WriteGotLock(p) ==
    /\ GoTo(p, "granted", "got_lock")
    /\ screen' = [screen EXCEPT ![p] = "got_lock"]
    /\ UNCHANGED <<fd, lock>>

PressToUnlock(p) == GoTo(p, "got_lock", "unlock") /\ UNCHANGED <<fd, lock, screen>>

\* Mutant: the lock is left to close.
Unlock_Forgotten(p) == GoTo(p, "unlock", "released") /\ UNCHANGED <<fd, lock, screen>>

\* Mutant: back to the prompt, without unlocking.
Unlock_Prompt(p) == GoTo(p, "unlock", "got_lock") /\ UNCHANGED <<fd, lock, screen>>

(* F_SETLK with F_UNLCK: from here on another process may have the lock while
   this terminal still says "got lock".                                    *)
Unlock(p) ==
    /\ GoTo(p, "unlock", "released")
    /\ lock' = [lock EXCEPT ![p] = "F_UNLCK"]
    /\ UNCHANGED <<fd, screen>>

WriteUnlocked(p) ==
    /\ GoTo(p, "released", "close")
    /\ screen' = [screen EXCEPT ![p] = "unlocked"]
    /\ UNCHANGED <<fd, lock>>

Release(p) ==
    /\ fd' = [fd EXCEPT ![p] = "none"]
    /\ lock' = [lock EXCEPT ![p] = "F_UNLCK"]

Close(p) == GoTo(p, "close", "exit") /\ Release(p) /\ UNCHANGED screen

(* ^C, before or after any system call: the kernel closes the file and drops
   the lock, and the shell takes the terminal back.                        *)
Kill(p) ==
    /\ pc[p] \notin {"exit", "killed"}
    /\ pc' = [pc EXCEPT ![p] = "killed"]
    /\ screen' = [screen EXCEPT ![p] = "nothing"]
    /\ Release(p)

Press(p) == PressToLock(p) \/ PressToUnlock(p)
Run(p)   == \/ Open(p) \/ SetLockWait(p) \/ WriteGotLock(p)
            \/ Unlock(p) \/ WriteUnlocked(p) \/ Close(p)

Terminated == (\A p \in Procs : pc[p] \in {"exit", "killed"}) /\ UNCHANGED vars

Next == (\E p \in Procs : Press(p) \/ Run(p) \/ Kill(p)) \/ Terminated

(* The kernel runs the processes and grants a lock that stays free or comes
   free again and again; the users press RETURN.                           *)
Fairness == \A p \in Procs : WF_vars(Press(p)) /\ SF_vars(Run(p))

Spec == Init /\ [][Next]_vars /\ Fairness

-----------------------------------------------------------------------------
(* Type invariant. *)
TypeOK ==
    /\ pc \in [Procs -> {"open", "press_to_lock", "setlkw", "granted", "got_lock", "unlock",
                         "released", "close", "exit", "killed"}]
    /\ fd \in [Procs -> {"none", "ok", "bad"}]
    /\ lock \in [Procs -> {"F_UNLCK", "F_RDLCK", "F_WRLCK"}]
    /\ screen \in [Procs -> {"nothing", "got_lock", "unlocked"}]

(* What the users see: no other terminal says "got lock" beside that of a process
   that asked for the write lock, unless one of the two processes has its unlock
   behind it and only "unlocked" still to write.  lockdemo.asm:7-9 promises it. *)
GotLockIsExclusive ==
    \A p, q \in Procs :
        (p # q /\ screen[p] = "got_lock" /\ screen[q] = "got_lock") =>
            {p, q} \subseteq WithArguments \/ "released" \in {pc[p], pc[q]}

(* With the file there, terminal and kernel are never more than one system call
   apart, whoever else is granted the lock or killed meanwhile: "got lock" stands
   there without a lock only between fcntl and the write of "unlocked", and a lock
   is held without "got lock" only between fcntl and the write of that.    *)
MessageIsTrue ==
    FileExists => \A p \in Procs :
        \/ (screen[p] = "got_lock") <=> (lock[p] = l_type(p))
        \/ pc[p] = "released" /\ lock[p] = "F_UNLCK"
        \/ pc[p] = "granted" /\ screen[p] = "nothing"

(* Nobody waits for ever: a process that asks gets the lock or is killed. *)
LockGranted == \A p \in Procs : (pc[p] = "setlkw") ~> (pc[p] # "setlkw")
=============================================================================
