-------------------------------- MODULE Fifo --------------------------------
(***************************************************************************)
(* speak.asm and tick.asm: a named pipe.  speak copies what is typed, line *)
(* by line and without the linefeed, and ends on an empty line; tick shows *)
(* what it reads and ends when it reads nothing.                           *)
(***************************************************************************)
EXTENDS Pipe, Integers, SequencesExt

CONSTANTS
    Speaks, Ticks,  \* the processes
    BufferLength,   \* buffer.length: 300 in the code
    LineLengths,    \* characters of a typed line, its linefeed apart
    MaxLines        \* lines typed at one speak (bounds the model)

ASSUME DisjointAssumption == Speaks \cap Ticks = {}
ASSUME BufferAssumption == BufferLength \in Nat \ {0} /\ Capacity \in Nat
ASSUME LinesAssumption == LineLengths \subseteq Nat /\ MaxLines \in Nat

VARIABLES
    pc,         \* of every process
    tty,        \* of every speak: what of the typed line is still unread
    typed,      \* of every speak: lines typed
    buffer,     \* of every speak: what it read
    num,        \* of every process
    chars,      \* of every speak: characters typed so far
    spoken, heard   \* history: characters written by a speak, read by a tick

vars == <<data, readers, writers, pc, tty, typed, buffer, num, chars, spoken, heard>>
speaking == <<tty, typed, buffer, chars, spoken>>

Procs == Speaks \cup Ticks
LF == <<"LF">>     \* the byte that RETURN puts behind a line
Gone(p) == pc[p] \in {"exit", "killed"}

Init ==
    /\ data = <<>> /\ readers = {} /\ writers = {}
    /\ pc = [p \in Procs |-> "open"]
    /\ tty = [s \in Speaks |-> <<>>]
    /\ typed = [s \in Speaks |-> 0]
    /\ buffer = [s \in Speaks |-> <<>>]
    /\ num = [p \in Procs |-> 0]
    /\ chars = [s \in Speaks |-> 0]
    /\ spoken = [s \in Speaks |-> <<>>]
    /\ heard = [t \in Ticks |-> <<>>]

GoTo(p, label) == pc' = [pc EXCEPT ![p] = label]

(* mknod, whose EEXIST does not matter, and open, which sleeps until the other
   end is opened and wakes those who sleep at the other end.               *)
Open(p) ==
    LET others == IF p \in Speaks THEN Ticks ELSE Speaks
        met    == IF p \in Speaks THEN readers # {} ELSE writers # {}
    IN
    /\ pc[p] = "open"
    /\ pc' = [q \in Procs |->
                IF q = p THEN IF met THEN "read" ELSE "opening"
                ELSE IF q \in others /\ pc[q] = "opening" THEN "read" ELSE pc[q]]
    /\ IF p \in Speaks
       THEN writers' = writers \cup {p} /\ UNCHANGED readers
       ELSE readers' = readers \cup {p} /\ UNCHANGED writers
    /\ UNCHANGED <<data, speaking, num, heard>>

-----------------------------------------------------------------------------
(* The user types a line of n characters and RETURN. *)
Type(s, n) ==
    /\ pc[s] = "read" /\ tty[s] = <<>> /\ typed[s] < MaxLines
    /\ tty' = [tty EXCEPT ![s] = [i \in 1..n |-> <<s, chars[s] + i>>] \o <<LF>>]
    /\ typed' = [typed EXCEPT ![s] = @ + 1]
    /\ chars' = [chars EXCEPT ![s] = @ + n]
    /\ UNCHANGED <<pipe, pc, buffer, num, spoken, heard>>

\* Mutant: the linefeed is not subtracted.
ReadLine_NoDec(s) ==
    LET k == IF Len(tty[s]) < BufferLength THEN Len(tty[s]) ELSE BufferLength IN
    /\ pc[s] = "read" /\ tty[s] # <<>>
    /\ buffer' = [buffer EXCEPT ![s] = SubSeq(tty[s], 1, k)]
    /\ tty' = [tty EXCEPT ![s] = SubSeq(@, k + 1, Len(@))]
    /\ num' = [num EXCEPT ![s] = k]
    /\ GoTo(s, IF k = 0 THEN "exit_call" ELSE "write")
    /\ UNCHANGED <<pipe, typed, chars, spoken, heard>>

(* read(stdin) and `dec rax': the last byte read is taken for the linefeed. *)
ReadLine(s) ==
    LET k == IF Len(tty[s]) < BufferLength THEN Len(tty[s]) ELSE BufferLength IN
    /\ pc[s] = "read" /\ tty[s] # <<>>
    /\ buffer' = [buffer EXCEPT ![s] = SubSeq(tty[s], 1, k)]
    /\ tty' = [tty EXCEPT ![s] = SubSeq(@, k + 1, Len(@))]
    /\ num' = [num EXCEPT ![s] = k - 1]
    /\ GoTo(s, IF k - 1 = 0 THEN "exit_call" ELSE "write")
    /\ UNCHANGED <<pipe, typed, chars, spoken, heard>>

(* ^D: 0 bytes read give num = -1, which is not 0. *)
ReadEof(s) ==
    /\ pc[s] = "read" /\ tty[s] = <<>>
    /\ num' = [num EXCEPT ![s] = -1]
    /\ GoTo(s, "write")
    /\ UNCHANGED <<pipe, speaking, heard>>

(* write(fd, buffer, num); a size of -1 fails with EFAULT, untested. *)
WriteFifo(s) ==
    /\ pc[s] = "write"
    /\ LET chunk == SubSeq(buffer[s], 1, num[s]) IN
       \/ /\ num[s] < 0
          /\ GoTo(s, "read")
          /\ UNCHANGED <<pipe, spoken>>
       \/ /\ num[s] >= 0 /\ CanWrite(chunk)
          /\ WritePipe(chunk)
          /\ spoken' = [spoken EXCEPT ![s] = @ \o chunk]
          /\ GoTo(s, "read")
          /\ UNCHANGED <<readers, writers>>
       \/ /\ num[s] >= 0 /\ Broken
          /\ GoTo(s, "killed")
          /\ CloseEnds(s)
          /\ UNCHANGED spoken
    /\ UNCHANGED <<tty, typed, buffer, num, chars, heard>>

-----------------------------------------------------------------------------
\* What tick does with what it has read, given what it shows of it.
Hear(t, shown) ==
    /\ num' = [num EXCEPT ![t] = ReadCount(BufferLength)]
    /\ heard' = [heard EXCEPT ![t] = @ \o shown]
    /\ TakePipe(BufferLength)
    /\ GoTo(t, "show")
    /\ UNCHANGED <<readers, writers, speaking>>

\* Mutant: the whole buffer is shown, with what an earlier read left there.
ReadFifo_Stale(t) ==
    /\ pc[t] = "read" /\ CanRead
    /\ Hear(t, ReadPipe(BufferLength)
                \o SubSeq(heard[t], ReadCount(BufferLength) + 1,
                          IF Len(heard[t]) < BufferLength THEN Len(heard[t]) ELSE BufferLength))

(* tick reads and shows; 0 bytes are shown too. *)
ReadFifo(t) ==
    /\ pc[t] = "read" /\ CanRead
    /\ Hear(t, ReadPipe(BufferLength))

\* Mutant: jmp repeat.
Show_Loop(t) ==
    /\ pc[t] = "show"
    /\ GoTo(t, "read")
    /\ UNCHANGED <<pipe, speaking, num, heard>>

Show(t) ==
    /\ pc[t] = "show"
    /\ GoTo(t, IF num[t] # 0 THEN "read" ELSE "exit_call")
    /\ UNCHANGED <<pipe, speaking, num, heard>>

(* exit, or ^C: the kernel closes the descriptor. *)
Leave(p, from, to) ==
    /\ from
    /\ GoTo(p, to)
    /\ CloseEnds(p)
    /\ UNCHANGED <<speaking, num, heard>>

Exit(p) == Leave(p, pc[p] = "exit_call", "exit")
Kill(p) == Leave(p, ~Gone(p) /\ pc[p] # "open", "killed")

Next ==
    \/ \E p \in Procs : Open(p) \/ Exit(p) \/ Kill(p)
    \/ \E s \in Speaks : \/ \E n \in LineLengths : Type(s, n)
                         \/ ReadLine(s) \/ ReadEof(s) \/ WriteFifo(s)
    \/ \E t \in Ticks : ReadFifo(t) \/ Show(t)

(* The kernel runs the processes; nobody has to type or to start one. *)
Fairness ==
    /\ \A s \in Speaks : WF_vars(ReadLine(s)) /\ WF_vars(Exit(s)) /\ SF_vars(WriteFifo(s))
    /\ \A t \in Ticks : SF_vars(ReadFifo(t)) /\ WF_vars(Show(t)) /\ WF_vars(Exit(t))

Spec == Init /\ [][Next]_vars /\ Fairness

-----------------------------------------------------------------------------
(* Type invariant. *)
Characters == Speaks \X Nat
TypeOK ==
    /\ data \in Seq(Characters) /\ Len(data) <= Capacity
    /\ readers \subseteq Ticks /\ writers \subseteq Speaks
    /\ pc \in [Procs -> {"open", "opening", "read", "write", "show", "exit_call", "exit", "killed"}]
    /\ \A s \in Speaks : pc[s] # "show"
    /\ \A t \in Ticks : pc[t] # "write"
    /\ tty \in [Speaks -> Seq(Characters \cup {LF})]
    /\ typed \in [Speaks -> 0..MaxLines]
    /\ buffer \in [Speaks -> Seq(Characters \cup {LF})]
    /\ num \in [Procs -> -1..BufferLength]
    /\ \A s \in Speaks : num[s] # BufferLength /\ Len(buffer[s]) <= BufferLength
    /\ \A t \in Ticks : num[t] # -1
    /\ chars \in [Speaks -> Nat]
    /\ spoken \in [Speaks -> Seq(Characters)]
    /\ heard \in [Ticks -> Seq(Characters)]

(* With lines that fit the buffer a speak writes what was typed at it, all of it
   and nothing else, whatever ^D and the full pipe do in between.          *)
LinesFit == \A n \in LineLengths : n < BufferLength
Pending(s) == IF pc[s] = "write" /\ num[s] > 0 THEN num[s] ELSE 0
Unread(s) == IF tty[s] = <<>> THEN 0 ELSE Len(tty[s]) - 1

SpokenIsTyped ==
    LinesFit =>
        \A s \in Speaks :
            pc[s] # "killed" =>
                spoken[s] = [i \in 1..(chars[s] - Pending(s) - Unread(s)) |-> <<s, i>>]

(* No two ticks hear the same character, none hears one that was not spoken,
   and each hears the characters of one speak in the order they were typed. *)
InOrder(q) == \A i, j \in DOMAIN q : i < j /\ q[i][1] = q[j][1] => q[i][2] < q[j][2]

HeardOnceInOrder ==
    /\ \A t, u \in Ticks : t # u => ToSet(heard[t]) \cap ToSet(heard[u]) = {}
    /\ \A t \in Ticks : /\ \A c \in ToSet(heard[t]) : c \in ToSet(spoken[c[1]])
                        /\ InOrder(heard[t])

(* Nothing is lost on the way: as long as no tick was killed, every character
   spoken is heard or still in the pipe.  With several speaks this ends when a
   tick ends: a speak that opens the pipe after tick read its 0 bytes and before
   it exits finds a reader, and what it writes goes nowhere.               *)
OneSpeak == \A r, s \in Speaks : r = s

NothingLost ==
    (\A t \in Ticks : pc[t] # "killed" /\ (pc[t] = "exit" => OneSpeak)) =>
        UNION {ToSet(spoken[s]) : s \in Speaks}
            = ToSet(data) \cup UNION {ToSet(heard[t]) : t \in Ticks}

(* From the keyboards to the screens: what is typed is spoken, and what is
   spoken is heard once, in order and all of it (speak.asm 54-77, tick.asm
   60-110).                                                                *)
HeardAsTyped == SpokenIsTyped /\ HeardOnceInOrder /\ NothingLost

(* A tick that reads when the last speak has gone is not left asleep: it ends,
   or another speak opens the pipe.                                        *)
TickEnds ==
    \A t \in Ticks : (pc[t] = "read" /\ writers = {}) ~> (Gone(t) \/ writers # {})

(* A speak is not left asleep on a full pipe while a tick reads. *)
SpeakGoesOn ==
    \A s \in Speaks : (pc[s] = "write") ~> (pc[s] # "write")

(* Nobody is left waiting for ever at either end of the FIFO. *)
NobodyWaits == TickEnds /\ SpeakGoesOn

=============================================================================
