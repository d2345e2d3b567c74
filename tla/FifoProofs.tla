----------------------------- MODULE FifoProofs -----------------------------
(***************************************************************************)
(* Proofs about Fifo, for any speaks and ticks, any size of the pipe and   *)
(* of the buffers and lines of any length.  The inductive invariant says   *)
(* who has the FIFO open, how far each character has come on its way from  *)
(* the keyboard, and when the pipe may be thrown away with what is in it.  *)
(***************************************************************************)
EXTENDS Fifo, SequenceTheorems, TLAPS

(* The pipe is open in those who are neither before open nor after exit. *)
Holds(p) == pc[p] # "open" /\ ~Gone(p)
EndsOpen ==
    /\ writers = {s \in Speaks : Holds(s)}
    /\ readers = {t \in Ticks : Holds(t)}

(* The characters of a typed line that are still unread come before its
   linefeed and are the last ones typed.                                   *)
TtyOK(s) ==
    LET m == Len(tty[s]) IN
    tty[s] # <<>> =>
        /\ m - 1 <= chars[s]
        /\ \A i \in 1..(m - 1) : tty[s][i] = <<s, chars[s] - m + 1 + i>>
        /\ LinesFit => m <= BufferLength

(* What a speak has read of its characters, and how many of them it has. *)
Top(s) == chars[s] - Unread(s)

(* The characters on their way from read to write come after those written. *)
PendingOK(s) ==
    pc[s] = "write" =>
        /\ num[s] <= Len(buffer[s])
        /\ num[s] >= 0 =>
              \E b \in Nat :
                  /\ b + num[s] <= Top(s)
                  /\ LinesFit => b + num[s] = Top(s)
                  /\ \A i \in 1..num[s] : buffer[s][i] = <<s, b + i>>
                  /\ \A c \in ToSet(spoken[s]) : c[2] <= b

SpokenOK(s) ==
    /\ \A c \in ToSet(spoken[s]) : c[1] = s /\ c[2] <= Top(s)
    /\ LinesFit /\ pc[s] # "killed" =>
          /\ Len(spoken[s]) = Top(s) - Pending(s)
          /\ \A i \in 1..Len(spoken[s]) : spoken[s][i] = <<s, i>>

SpeakOK == \A s \in Speaks : TtyOK(s) /\ PendingOK(s) /\ SpokenOK(s)

(* Before(X, Y): of one speak's characters those in X were typed first. *)
Before(X, Y) == \A c \in X, d \in Y : c[1] = d[1] => c[2] < d[2]
Known(X) == \A c \in X : c \in ToSet(spoken[c[1]])

InFlight ==
    /\ Known(ToSet(data)) /\ InOrder(data)
    /\ \A t \in Ticks : /\ Known(ToSet(heard[t])) /\ InOrder(heard[t])
                        /\ Before(ToSet(heard[t]), ToSet(data))
    /\ \A t, u \in Ticks : t # u => ToSet(heard[t]) \cap ToSet(heard[u]) = {}

(* Until a tick has opened the FIFO nothing is in it; a tick that reads has met
   a speak; and with one speak a tick that has read 0 bytes leaves it empty
   and the speak gone.                                                     *)
Met(t) == pc[t] \in {"read", "show", "exit_call", "exit"}
SawEnd(t) == pc[t] \in {"exit_call", "exit"} \/ (pc[t] = "show" /\ num[t] = 0)

EmptyEnds ==
    /\ (\A t \in Ticks : pc[t] = "open") => data = <<>>
    /\ \A t \in Ticks : Met(t) => \E s \in Speaks : pc[s] # "open"
    /\ \A t \in Ticks : pc[t] = "exit_call" => num[t] = 0
    /\ \A t \in Ticks : OneSpeak /\ SawEnd(t) => data = <<>> /\ \A s \in Speaks : Gone(s)

Attended == \A t \in Ticks : pc[t] # "killed" /\ (pc[t] = "exit" => OneSpeak)
NoneLost ==
    Attended =>
        \A s \in Speaks : \A c \in ToSet(spoken[s]) :
            c \in ToSet(data) \/ \E t \in Ticks : c \in ToSet(heard[t])

Inv == TypeOK /\ EndsOpen /\ SpeakOK /\ InFlight /\ EmptyEnds /\ NoneLost

-----------------------------------------------------------------------------
(* A sequence that is one behind another; it stays folded where these lemmas
   are used.                                                               *)
IsConcat(w, q, r) == w = q \o r

LEMMA ConcatParts ==
    ASSUME NEW S, NEW q \in Seq(S), NEW r \in Seq(S), NEW w, IsConcat(w, q, r)
    PROVE  /\ w \in Seq(S) /\ Len(w) = Len(q) + Len(r)
           /\ \A i \in 1..Len(q) : w[i] = q[i]
           /\ \A i \in 1..Len(r) : w[Len(q) + i] = r[i]
           /\ ToSet(w) = ToSet(q) \cup ToSet(r)
<1>1. /\ w \in Seq(S) /\ Len(w) = Len(q) + Len(r)
      /\ \A i \in 1..Len(w) : w[i] = IF i <= Len(q) THEN q[i] ELSE r[i - Len(q)]
  BY ConcatProperties DEF IsConcat
<1>2. Len(q) \in Nat /\ Len(r) \in Nat
  BY LenProperties
<1>3. /\ \A i \in 1..Len(q) : i \in 1..Len(w) /\ w[i] = q[i]
      /\ \A i \in 1..Len(r) : Len(q) + i \in 1..Len(w) /\ w[Len(q) + i] = r[i]
  <2>1. ASSUME NEW i \in 1..Len(q) PROVE i \in 1..Len(w) /\ w[i] = q[i]
    <3>1. i \in 1..Len(w) /\ i <= Len(q)
      BY <1>1, <1>2
    <3> QED BY <1>1, <3>1
  <2>2. ASSUME NEW i \in 1..Len(r) PROVE Len(q) + i \in 1..Len(w) /\ w[Len(q) + i] = r[i]
    <3>1. Len(q) + i \in 1..Len(w) /\ ~(Len(q) + i <= Len(q)) /\ Len(q) + i - Len(q) = i
      BY <1>1, <1>2
    <3> QED BY <1>1, <3>1
  <2> QED BY <2>1, <2>2
<1>4. DOMAIN w = 1..Len(w) /\ DOMAIN q = 1..Len(q) /\ DOMAIN r = 1..Len(r)
  BY <1>1, LenProperties
<1>5. ToSet(w) = ToSet(q) \cup ToSet(r)
  <2>1. ASSUME NEW c \in ToSet(w) PROVE c \in ToSet(q) \cup ToSet(r)
    <3>1. PICK i \in 1..Len(w) : c = w[i]
      BY <1>4, <2>1 DEF ToSet
    <3>2. CASE i <= Len(q)
      <4>1. i \in 1..Len(q) /\ c = q[i]
        BY <1>1, <1>2, <3>1, <3>2
      <4> QED BY <1>4, <4>1 DEF ToSet
    <3>3. CASE ~(i <= Len(q))
      <4>0. i - Len(q) \in 1..Len(r) /\ w[i] = r[i - Len(q)]
        BY <1>1, <1>2, <3>3
      <4>1. PICK k \in 1..Len(r) : w[i] = r[k]
        BY <4>0
      <4> QED BY <1>4, <3>1, <4>1 DEF ToSet
    <3> QED BY <3>2, <3>3
  <2>2. ASSUME NEW c \in ToSet(q) \cup ToSet(r) PROVE c \in ToSet(w)
    BY <1>3, <1>4, <2>2 DEF ToSet
  <2> QED BY <2>1, <2>2
<1> QED BY <1>1, <1>3, <1>5

LEMMA SplitAt ==
    ASSUME NEW S, NEW d \in Seq(S), NEW n \in 0..Len(d)
    PROVE  /\ SubSeq(d, 1, n) \in Seq(S) /\ SubSeq(d, n + 1, Len(d)) \in Seq(S)
           /\ Len(SubSeq(d, 1, n)) = n /\ Len(SubSeq(d, n + 1, Len(d))) = Len(d) - n
           /\ \A i \in 1..n : SubSeq(d, 1, n)[i] = d[i]
           /\ \A i \in 1..(Len(d) - n) : SubSeq(d, n + 1, Len(d))[i] = d[n + i]
           /\ IsConcat(d, SubSeq(d, 1, n), SubSeq(d, n + 1, Len(d)))
<1> DEFINE a == SubSeq(d, 1, n)
           b == SubSeq(d, n + 1, Len(d))
<1>1. Len(d) \in Nat /\ DOMAIN d = 1..Len(d) /\ \A i \in 1..Len(d) : d[i] \in S
  BY ElementOfSeq, LenProperties
<1>2. a \in Seq(S) /\ Len(a) = n /\ \A i \in 1..n : a[i] = d[i]
  <2>1. 1 \in Int /\ n \in Int /\ \A i \in 1..n : d[i] \in S
    BY <1>1
  <2>2. a \in Seq(S) /\ Len(a) = (IF 1 <= n THEN n - 1 + 1 ELSE 0)
        /\ \A i \in 1..(n - 1 + 1) : a[i] = d[1 + i - 1]
    BY <2>1, SubSeqProperties
  <2> QED BY <1>1, <2>2
<1>3. b \in Seq(S) /\ Len(b) = Len(d) - n /\ \A i \in 1..(Len(d) - n) : b[i] = d[n + i]
  <2>1. n + 1 \in Int /\ Len(d) \in Int /\ \A i \in (n + 1)..Len(d) : d[i] \in S
    BY <1>1
  <2>2. b \in Seq(S) /\ Len(b) = (IF n + 1 <= Len(d) THEN Len(d) - (n + 1) + 1 ELSE 0)
        /\ \A i \in 1..(Len(d) - (n + 1) + 1) : b[i] = d[n + 1 + i - 1]
    BY <2>1, SubSeqProperties
  <2>3. /\ Len(d) - (n + 1) + 1 = Len(d) - n
        /\ \A i \in 1..(Len(d) - n) : n + 1 + i - 1 = n + i
        /\ (IF n + 1 <= Len(d) THEN Len(d) - (n + 1) + 1 ELSE 0) = Len(d) - n
    <3>1. n \in Nat /\ Len(d) \in Nat /\ n <= Len(d)
      BY <1>1
    <3>2. \A i \in 1..(Len(d) - n) : n + 1 + i - 1 = n + i
      BY <3>1
    <3>3. Len(d) - (n + 1) + 1 = Len(d) - n
      BY <3>1
    <3>4. CASE n + 1 <= Len(d)
      BY <3>2, <3>3, <3>4
    <3>5. CASE ~(n + 1 <= Len(d))
      <4>1. Len(d) - n = 0
        BY <3>1, <3>5
      <4> QED BY <3>2, <3>3, <3>5, <4>1
    <3> QED BY <3>4, <3>5
  <2> HIDE DEF b
  <2>4. \A i \in 1..(Len(d) - n) : b[i] = d[n + i]
    BY <2>2, <2>3
  <2> QED BY <2>2, <2>3, <2>4
<1>4. a \o b = d
  <2>1. 1 \in 1..(Len(d) + 1) /\ n \in (1 - 1)..Len(d) /\ Len(d) \in n..Len(d)
    BY <1>1
  <2>2. SubSeq(d, 1, n) \o SubSeq(d, n + 1, Len(d)) = SubSeq(d, 1, Len(d))
    BY <2>1, ConcatAdjacentSubSeq
  <2> QED BY <2>2, SubSeqFull
<1> QED BY <1>2, <1>3, <1>4 DEF IsConcat

(* Order in two sequences and in the one that they make. *)
LEMMA InOrderConcat ==
    ASSUME NEW q \in Seq(Characters), NEW r \in Seq(Characters), NEW w, IsConcat(w, q, r),
           InOrder(q), InOrder(r), Before(ToSet(q), ToSet(r))
    PROVE  InOrder(w)
<1>1. /\ Len(w) = Len(q) + Len(r) /\ Len(q) \in Nat /\ Len(r) \in Nat
      /\ \A i \in 1..Len(q) : w[i] = q[i]
      /\ \A i \in 1..Len(r) : w[Len(q) + i] = r[i]
  BY ConcatParts, LenProperties
<1>2. DOMAIN w = 1..Len(w) /\ DOMAIN q = 1..Len(q) /\ DOMAIN r = 1..Len(r)
  BY ConcatParts, LenProperties
<1> SUFFICES ASSUME NEW i \in 1..Len(w), NEW j \in 1..Len(w), i < j, w[i][1] = w[j][1]
             PROVE  w[i][2] < w[j][2]
  BY <1>2 DEF InOrder
<1>3. CASE j <= Len(q)
  <2>1. i \in 1..Len(q) /\ j \in 1..Len(q)
    BY <1>1, <1>3
  <2> QED BY <1>1, <1>2, <2>1 DEF InOrder
<1>4. CASE i > Len(q)
  <2>1. i - Len(q) \in 1..Len(r) /\ j - Len(q) \in 1..Len(r) /\ i - Len(q) < j - Len(q)
        /\ Len(q) + (i - Len(q)) = i /\ Len(q) + (j - Len(q)) = j
    BY <1>1, <1>4
  <2>2. w[i] = r[i - Len(q)] /\ w[j] = r[j - Len(q)]
    BY <1>1, <2>1
  <2> QED BY <1>2, <2>1, <2>2 DEF InOrder
<1>5. CASE i <= Len(q) /\ j > Len(q)
  <2>1. i \in 1..Len(q) /\ j - Len(q) \in 1..Len(r) /\ Len(q) + (j - Len(q)) = j
    BY <1>1, <1>5
  <2>2. w[i] = q[i] /\ w[j] = r[j - Len(q)]
    BY <1>1, <2>1
  <2>3. w[i] \in ToSet(q) /\ w[j] \in ToSet(r)
    BY <1>2, <2>1, <2>2 DEF ToSet
  <2> QED BY <2>3 DEF Before
<1> QED BY <1>1, <1>3, <1>4, <1>5

LEMMA InOrderParts ==
    ASSUME NEW a \in Seq(Characters), NEW b \in Seq(Characters), NEW d, IsConcat(d, a, b),
           InOrder(d)
    PROVE  InOrder(a) /\ InOrder(b) /\ Before(ToSet(a), ToSet(b))
<1>1. /\ Len(d) = Len(a) + Len(b) /\ Len(a) \in Nat /\ Len(b) \in Nat
      /\ \A i \in 1..Len(a) : d[i] = a[i]
      /\ \A i \in 1..Len(b) : d[Len(a) + i] = b[i]
  BY ConcatParts, LenProperties
<1>2. DOMAIN d = 1..Len(d) /\ DOMAIN a = 1..Len(a) /\ DOMAIN b = 1..Len(b)
  BY ConcatParts, LenProperties
<1>3. InOrder(a)
  <2>1. \A i \in 1..Len(a) : i \in 1..Len(d)
    BY <1>1
  <2> QED BY <1>1, <1>2, <2>1 DEF InOrder
<1>4. InOrder(b)
  <2>1. \A i \in 1..Len(b) : Len(a) + i \in 1..Len(d)
    BY <1>1
  <2> SUFFICES ASSUME NEW i \in 1..Len(b), NEW j \in 1..Len(b), i < j, b[i][1] = b[j][1]
               PROVE  b[i][2] < b[j][2]
    BY <1>2 DEF InOrder
  <2>2. Len(a) + i < Len(a) + j /\ d[Len(a) + i] = b[i] /\ d[Len(a) + j] = b[j]
    BY <1>1
  <2> QED BY <1>2, <2>1, <2>2 DEF InOrder
<1>5. Before(ToSet(a), ToSet(b))
  <2> SUFFICES ASSUME NEW i \in 1..Len(a), NEW j \in 1..Len(b), a[i][1] = b[j][1]
               PROVE  a[i][2] < b[j][2]
    BY <1>2 DEF Before, ToSet
  <2>1. i \in 1..Len(d) /\ Len(a) + j \in 1..Len(d) /\ i < Len(a) + j
    BY <1>1
  <2>2. d[i] = a[i] /\ d[Len(a) + j] = b[j]
    BY <1>1
  <2> QED BY <1>2, <2>1, <2>2 DEF InOrder
<1> QED BY <1>3, <1>4, <1>5

-----------------------------------------------------------------------------
LEMMA ConstantsAreRight ==
    /\ BufferLength \in Nat \ {0} /\ Capacity \in Nat
    /\ LineLengths \subseteq Nat /\ MaxLines \in Nat
    /\ Speaks \cap Ticks = {} /\ Speaks \subseteq Procs /\ Ticks \subseteq Procs
BY DisjointAssumption, BufferAssumption, LinesAssumption DEF Procs

LEMMA InvInit == Init => Inv
<1> SUFFICES ASSUME Init PROVE Inv
  OBVIOUS
<1> USE ConstantsAreRight
<1>1. TypeOK
  <2>1. <<>> \in Seq(Characters) /\ <<>> \in Seq(Characters \cup {LF}) /\ Len(<<>>) = 0
    BY EmptySeq
  <2> QED BY <2>1 DEF Init, TypeOK
<1>2. EndsOpen
  BY DEF Init, EndsOpen, Holds, Procs
<1>3. \A p \in Procs : pc[p] = "open"
  BY DEF Init
<1>4. ToSet(<<>>) = {} /\ InOrder(<<>>)
  BY DEF ToSet, InOrder
<1>5. SpeakOK
  BY <1>3, <1>4 DEF Init, SpeakOK, TtyOK, PendingOK, SpokenOK, Pending, Top, Unread
<1>6. InFlight /\ EmptyEnds /\ NoneLost
  BY <1>3, <1>4
     DEF Init, InFlight, Known, Before, EmptyEnds, Met, SawEnd, NoneLost
<1> QED BY <1>1, <1>2, <1>5, <1>6 DEF Inv

(* The places a process can go to. *)
PlacesOf(p) ==
    IF p \in Speaks THEN {"open", "opening", "read", "write", "exit_call", "exit", "killed"}
                    ELSE {"open", "opening", "read", "show", "exit_call", "exit", "killed"}

Places ==
    /\ pc \in [Procs -> {"open", "opening", "read", "write", "show", "exit_call", "exit", "killed"}]
    /\ \A s \in Speaks : pc[s] # "show"
    /\ \A t \in Ticks : pc[t] # "write"

LEMMA PlacesStep ==
    ASSUME TypeOK, NEW p \in Procs, NEW label \in PlacesOf(p), GoTo(p, label)
    PROVE  Places'
BY ConstantsAreRight DEF TypeOK, GoTo, PlacesOf, Places, Procs

(* What is in the pipe and in the histories. *)
Contents ==
    /\ data \in Seq(Characters) /\ Len(data) <= Capacity
    /\ readers \subseteq Ticks /\ writers \subseteq Speaks
    /\ spoken \in [Speaks -> Seq(Characters)]
    /\ heard \in [Ticks -> Seq(Characters)]

(* What the processes keep. *)
Numbers ==
    /\ num \in [Procs -> -1..BufferLength]
    /\ \A s \in Speaks : num[s] # BufferLength
    /\ \A t \in Ticks : num[t] # -1

Keyboards ==
    /\ tty \in [Speaks -> Seq(Characters \cup {LF})]
    /\ typed \in [Speaks -> 0..MaxLines]
    /\ buffer \in [Speaks -> Seq(Characters \cup {LF})]
    /\ \A s \in Speaks : Len(buffer[s]) <= BufferLength
    /\ chars \in [Speaks -> Nat]

LEMMA TypeOKParts == TypeOK <=> Places /\ Contents /\ Numbers /\ Keyboards
BY DEF TypeOK, Places, Contents, Numbers, Keyboards

(* The bytes of a typed line. *)
IsLine(line, s, n, k) == line = [i \in 1..n |-> <<s, k + i>>] \o <<LF>>

LEMMA LineTyped ==
    ASSUME NEW s \in Speaks, NEW n \in Nat, NEW k \in Nat,
           NEW line, IsLine(line, s, n, k)
    PROVE  /\ line \in Seq(Characters \cup {LF}) /\ Len(line) = n + 1 /\ line # <<>>
           /\ \A i \in 1..n : line[i] = <<s, k + i>>
<1> DEFINE q == [i \in 1..n |-> <<s, k + i>>]
           r == <<LF>>
           S == Characters \cup {LF}
<1>1. \A i \in 1..n : <<s, k + i>> \in Characters
  BY DEF Characters
<1>2. q \in Seq(S) /\ Len(q) = n /\ \A i \in 1..n : q[i] = <<s, k + i>>
  <2>1. q \in [1..n -> S]
    BY <1>1
  <2>2. \A i \in 1..n : q[i] = <<s, k + i>>
    OBVIOUS
  <2> HIDE DEF q, S
  <2> QED BY <2>1, <2>2, SeqDef, LenProperties
<1>3. r \in Seq(S) /\ Len(r) = 1
  OBVIOUS
<1>4. line = q \o r
  BY DEF IsLine
<1> HIDE DEF q, r, S
<1>5. IsConcat(line, q, r)
  BY <1>4 DEF IsConcat
<1>6. line \in Seq(S) /\ Len(line) = Len(q) + Len(r) /\ \A i \in 1..Len(q) : line[i] = q[i]
  <2>1. q \in Seq(S) /\ r \in Seq(S) /\ IsConcat(line, q, r)
    BY <1>2, <1>3, <1>5
  <2>2. \A T : \A a, b \in Seq(T) : \A w : IsConcat(w, a, b) =>
            w \in Seq(T) /\ Len(w) = Len(a) + Len(b) /\ \A i \in 1..Len(a) : w[i] = a[i]
    BY ConcatParts
  <2> QED BY <2>1, <2>2
<1>7. Len(line) = n + 1 /\ \A i \in 1..n : line[i] = <<s, k + i>>
  BY <1>2, <1>3, <1>6
<1> QED BY <1>6, <1>7, EmptySeq DEF S

(* What a speak that is about to write hands to the FIFO: characters of its own,
   in a row, after all that it wrote before.                               *)
IsChunk(c, s, b) ==
    /\ c \in Seq(Characters) /\ Len(c) = num[s] /\ \A i \in 1..num[s] : c[i] = <<s, b + i>>
    /\ b + num[s] <= Top(s)
    /\ LinesFit => b + num[s] = Top(s)
    /\ \A d \in ToSet(spoken[s]) : d[2] <= b

LEMMA ChunkOf ==
    ASSUME Inv, NEW s \in Speaks, pc[s] = "write", num[s] >= 0
    PROVE  \E b \in Nat : IsChunk(SubSeq(buffer[s], 1, num[s]), s, b)
<1>1. PICK b \in Nat :
          /\ b + num[s] <= Top(s)
          /\ LinesFit => b + num[s] = Top(s)
          /\ \A i \in 1..num[s] : buffer[s][i] = <<s, b + i>>
          /\ \A c \in ToSet(spoken[s]) : c[2] <= b
  BY DEF Inv, SpeakOK, PendingOK
<1>2. num[s] \in Int /\ num[s] <= Len(buffer[s])
  BY ConstantsAreRight DEF Inv, SpeakOK, PendingOK, TypeOK
<1> DEFINE c == SubSeq(buffer[s], 1, num[s])
<1>3. \A i \in 1..num[s] : buffer[s][i] \in Characters
  <2> SUFFICES ASSUME NEW i \in 1..num[s] PROVE <<s, b + i>> \in Speaks \X Nat
    BY <1>1 DEF Characters
  <2>1. b + i \in Nat
    BY <1>2
  <2> QED BY <2>1
<1>4. c \in Seq(Characters) /\ Len(c) = num[s] /\ \A i \in 1..num[s] : c[i] = buffer[s][i]
  <2>0. buffer[s] \in Seq(Characters \cup {LF}) /\ num[s] \in 0..Len(buffer[s])
    BY <1>2 DEF Inv, TypeOK
  <2>1. Len(c) = num[s] /\ \A i \in 1..num[s] : c[i] = buffer[s][i]
    BY <2>0, SplitAt
  <2>2. c \in Seq(Characters \cup {LF})
    BY <2>0, SplitAt
  <2> HIDE DEF c
  <2>3. c \in [1..num[s] -> Characters]
    BY <1>3, <2>1, <2>2
  <2> QED BY <1>2, <2>1, <2>3, SeqDef
<1> HIDE DEF c
<1>5. IsChunk(c, s, b)
  BY <1>1, <1>4 DEF IsChunk
<1> QED BY <1>5 DEF c

(* Every action keeps the types. *)
LEMMA TypeStep == Inv /\ [Next]_vars => TypeOK'
<1> SUFFICES ASSUME Inv, [Next]_vars PROVE Places' /\ Contents' /\ Numbers' /\ Keyboards'
  BY DEF TypeOK, Places, Contents, Numbers, Keyboards
<1>0. TypeOK /\ Places /\ Contents /\ Numbers /\ Keyboards
  BY TypeOKParts DEF Inv
<1>a. ASSUME UNCHANGED <<data, readers, writers, spoken, heard>> PROVE Contents'
  BY <1>0, <1>a DEF Contents, Characters
<1>b. ASSUME UNCHANGED num PROVE Numbers'
  BY <1>0, <1>b DEF Numbers, Procs
<1>c. ASSUME UNCHANGED <<tty, typed, buffer, chars>> PROVE Keyboards'
  BY <1>0, <1>c DEF Keyboards, Characters
<1> USE DEF pipe, speaking
<1>1. ASSUME NEW p \in Procs, Open(p) PROVE Places' /\ Contents' /\ Numbers' /\ Keyboards'
  <2>1. Places'
    BY <1>0, <1>1, ConstantsAreRight DEF Open, Places, Procs
  <2>2. Contents'
    BY <1>0, <1>1, ConstantsAreRight DEF Open, Contents, Procs
  <2>3. Numbers' /\ Keyboards'
    BY <1>b, <1>c, <1>1 DEF Open
  <2> QED BY <2>1, <2>2, <2>3
<1>2. ASSUME NEW p \in Procs, Exit(p) \/ Kill(p)
      PROVE  Places' /\ Contents' /\ Numbers' /\ Keyboards'
  <2>1. \E label \in {"exit", "killed"} : GoTo(p, label)
    BY <1>2 DEF Exit, Kill, Leave
  <2>2. Places'
    BY <1>0, <2>1, PlacesStep DEF PlacesOf
  <2>3. <<>> \in Seq(Characters) /\ Len(<<>>) = 0
    BY EmptySeq
  <2>4. Contents'
    <3>1. /\ data' = data \/ data' = <<>>
          /\ readers' \subseteq readers /\ writers' \subseteq writers
          /\ UNCHANGED <<spoken, heard>>
      BY <1>2 DEF Exit, Kill, Leave, CloseEnds
    <3>2. data' \in Seq(Characters) /\ Len(data') <= Capacity
      <4>1. CASE data' = data
        BY <1>0, <4>1 DEF Contents, Characters
      <4>2. CASE data' = <<>>
        BY <2>3, <4>2, ConstantsAreRight DEF Characters
      <4> QED BY <3>1, <4>1, <4>2
    <3> QED BY <1>0, <3>1, <3>2 DEF Contents, Characters
  <2>5. Numbers' /\ Keyboards'
    BY <1>b, <1>c, <1>2 DEF Exit, Kill, Leave
  <2> QED BY <2>2, <2>4, <2>5
<1>3. ASSUME NEW s \in Speaks, NEW n \in LineLengths, Type(s, n)
      PROVE  Places' /\ Contents' /\ Numbers' /\ Keyboards'
  <2>1. Places'
    BY <1>0, <1>3 DEF Type, Places
  <2>2. Contents' /\ Numbers'
    BY <1>a, <1>b, <1>3 DEF Type
  <2>3. Keyboards'
    <3> DEFINE line == [i \in 1..n |-> <<s, chars[s] + i>>] \o <<LF>>
    <3>1. n \in Nat /\ chars[s] \in Nat /\ typed[s] + 1 \in 0..MaxLines
      BY <1>0, <1>3, ConstantsAreRight DEF Type, Keyboards
    <3>2. line \in Seq(Characters \cup {LF})
      <4>1. IsLine(line, s, n, chars[s])
        BY DEF IsLine
      <4> HIDE DEF line
      <4> QED BY <3>1, <4>1, LineTyped
    <3>3. tty' = [tty EXCEPT ![s] = line]
      BY <1>3 DEF Type
    <3> HIDE DEF line
    <3>4. tty' \in [Speaks -> Seq(Characters \cup {LF})]
      BY <1>0, <3>2, <3>3 DEF Keyboards
    <3>5. typed' \in [Speaks -> 0..MaxLines] /\ chars' \in [Speaks -> Nat] /\ buffer' = buffer
      BY <1>0, <1>3, <3>1 DEF Type, Keyboards
    <3> QED BY <1>0, <3>4, <3>5 DEF Keyboards, Characters
  <2> QED BY <2>1, <2>2, <2>3
<1>4. ASSUME NEW s \in Speaks, ReadLine(s)
      PROVE  Places' /\ Contents' /\ Numbers' /\ Keyboards'
  <2> DEFINE k == IF Len(tty[s]) < BufferLength THEN Len(tty[s]) ELSE BufferLength
  <2>1. tty[s] \in Seq(Characters \cup {LF}) /\ k \in 0..Len(tty[s]) /\ k \in 0..BufferLength
    <3>1. tty[s] \in Seq(Characters \cup {LF})
      BY <1>0 DEF Keyboards
    <3>2. Len(tty[s]) \in Nat
      BY <3>1, LenProperties
    <3> QED BY <3>1, <3>2, ConstantsAreRight
  <2>2. /\ buffer' = [buffer EXCEPT ![s] = SubSeq(tty[s], 1, k)]
        /\ tty' = [tty EXCEPT ![s] = SubSeq(tty[s], k + 1, Len(tty[s]))]
        /\ num' = [num EXCEPT ![s] = k - 1] /\ UNCHANGED <<pipe, typed, chars, spoken, heard>>
        /\ \E label \in {"exit_call", "write"} : GoTo(s, label)
    BY <1>4 DEF ReadLine
  <2> HIDE DEF k
  <2>3. Places'
    BY <1>0, <2>2, PlacesStep DEF PlacesOf, Procs
  <2>4. Contents'
    BY <1>a, <2>2
  <2>5. Numbers'
    BY <1>0, <2>1, <2>2, ConstantsAreRight DEF Numbers
  <2>6. Keyboards'
    <3>1. /\ SubSeq(tty[s], 1, k) \in Seq(Characters \cup {LF})
          /\ SubSeq(tty[s], k + 1, Len(tty[s])) \in Seq(Characters \cup {LF})
          /\ Len(SubSeq(tty[s], 1, k)) <= BufferLength
      BY <2>1, SplitAt
    <3> QED BY <1>0, <2>2, <3>1 DEF Keyboards, Characters
  <2> QED BY <2>3, <2>4, <2>5, <2>6
<1>5. ASSUME NEW s \in Speaks, ReadEof(s)
      PROVE  Places' /\ Contents' /\ Numbers' /\ Keyboards'
  <2>1. Places'
    BY <1>0, <1>5, PlacesStep DEF ReadEof, PlacesOf, Procs
  <2>2. Contents' /\ Keyboards'
    BY <1>a, <1>c, <1>5 DEF ReadEof
  <2>3. Numbers'
    BY <1>0, <1>5, ConstantsAreRight DEF ReadEof, Numbers
  <2> QED BY <2>1, <2>2, <2>3
<1>6. ASSUME NEW s \in Speaks, WriteFifo(s)
      PROVE  Places' /\ Contents' /\ Numbers' /\ Keyboards'
  <2> DEFINE chunk == SubSeq(buffer[s], 1, num[s])
  <2>1. \E label \in {"read", "killed"} : GoTo(s, label)
    BY <1>6 DEF WriteFifo
  <2>2. Places'
    BY <1>0, <2>1, PlacesStep DEF PlacesOf, Procs
  <2>3. Numbers' /\ Keyboards'
    BY <1>b, <1>c, <1>6 DEF WriteFifo
  <2>4. Contents'
    <3>0. data \in Seq(Characters) /\ spoken \in [Speaks -> Seq(Characters)]
      BY <1>0 DEF Contents
    <3>1. CASE num[s] < 0
      BY <1>a, <1>0, <1>6, <3>1 DEF WriteFifo, Numbers, Procs
    <3>2. CASE num[s] >= 0 /\ CanWrite(chunk) /\ WritePipe(chunk)
               /\ spoken' = [spoken EXCEPT ![s] = @ \o chunk] /\ UNCHANGED <<readers, writers>>
      <4>1. chunk \in Seq(Characters)
        BY <1>6, <3>2, ChunkOf DEF WriteFifo, IsChunk
      <4> HIDE DEF chunk
      <4>2. data' = data \o chunk /\ Len(data) + Len(chunk) <= Capacity /\ heard' = heard
        BY <1>6, <3>2 DEF WriteFifo, CanWrite, WritePipe
      <4>3. data' \in Seq(Characters) /\ Len(data') <= Capacity
            /\ spoken[s] \o chunk \in Seq(Characters)
        BY <3>0, <4>1, <4>2, ConcatProperties
      <4> QED BY <1>0, <3>2, <4>2, <4>3 DEF Contents, Characters
    <3>3. CASE CloseEnds(s) /\ UNCHANGED spoken
      <4>1. <<>> \in Seq(Characters) /\ Len(<<>>) = 0
        BY EmptySeq
      <4> QED BY <1>0, <1>6, <3>3, <4>1, ConstantsAreRight DEF WriteFifo, CloseEnds, Contents
    <3> QED BY <1>6, <3>1, <3>2, <3>3 DEF WriteFifo
  <2> QED BY <2>2, <2>3, <2>4
<1>7. ASSUME NEW t \in Ticks, ReadFifo(t)
      PROVE  Places' /\ Contents' /\ Numbers' /\ Keyboards'
  <2> DEFINE k == ReadCount(BufferLength)
  <2>1. data \in Seq(Characters) /\ k \in 0..Len(data) /\ k \in 0..BufferLength
    <3>1. data \in Seq(Characters) /\ Len(data) \in Nat
      BY <1>0, LenProperties DEF Contents
    <3> QED BY <3>1, ConstantsAreRight DEF ReadCount
  <2>2. /\ num' = [num EXCEPT ![t] = k] /\ GoTo(t, "show")
        /\ heard' = [heard EXCEPT ![t] = heard[t] \o SubSeq(data, 1, k)]
        /\ data' = SubSeq(data, k + 1, Len(data))
        /\ UNCHANGED <<readers, writers, speaking>>
    BY <1>7 DEF ReadFifo, Hear, TakePipe, ReadPipe
  <2> HIDE DEF k
  <2>3. Places'
    BY <1>0, <2>2, PlacesStep, ConstantsAreRight DEF PlacesOf, Procs
  <2>4. Numbers'
    BY <1>0, <2>1, <2>2, ConstantsAreRight DEF Numbers
  <2>5. Keyboards'
    BY <1>c, <2>2
  <2>6. Contents'
    <3>1. /\ SubSeq(data, 1, k) \in Seq(Characters)
          /\ SubSeq(data, k + 1, Len(data)) \in Seq(Characters)
          /\ Len(SubSeq(data, k + 1, Len(data))) <= Len(data)
      BY <2>1, SplitAt, LenProperties
    <3>2. heard[t] \o SubSeq(data, 1, k) \in Seq(Characters)
      BY <1>0, <3>1, ConcatProperties DEF Contents
    <3>3. data' \in Seq(Characters) /\ Len(data') <= Capacity
      BY <1>0, <2>1, <2>2, <3>1, ConstantsAreRight, LenProperties DEF Contents
    <3>4. heard' \in [Ticks -> Seq(Characters)]
      BY <1>0, <2>2, <3>2 DEF Contents
    <3> QED BY <1>0, <2>2, <3>3, <3>4 DEF Contents, Characters
  <2> QED BY <2>3, <2>4, <2>5, <2>6
<1>8. ASSUME NEW t \in Ticks, Show(t)
      PROVE  Places' /\ Contents' /\ Numbers' /\ Keyboards'
  <2>1. \E label \in {"read", "exit_call"} : GoTo(t, label)
    BY <1>8 DEF Show
  <2>2. Places'
    BY <1>0, <2>1, PlacesStep, ConstantsAreRight DEF PlacesOf, Procs
  <2> QED BY <1>a, <1>b, <1>c, <1>8, <2>2 DEF Show
<1>9. CASE UNCHANGED vars
  BY <1>0, <1>a, <1>b, <1>c, <1>9 DEF vars, Places
<1> QED
  BY <1>1, <1>2, <1>3, <1>4, <1>5, <1>6, <1>7, <1>8, <1>9 DEF Next

-----------------------------------------------------------------------------
LEMMA EndsStep == Inv /\ [Next]_vars => EndsOpen'
<1> SUFFICES ASSUME Inv, [Next]_vars PROVE EndsOpen'
  OBVIOUS
<1>0. TypeOK /\ EndsOpen
  BY DEF Inv
<1> USE ConstantsAreRight DEF pipe
<1>1. ASSUME NEW p \in Procs, Open(p) PROVE EndsOpen'
  <2>1. \A q \in Procs : Holds(q)' <=> Holds(q) \/ q = p
    BY <1>0, <1>1 DEF Open, Holds, Gone, TypeOK
  <2> QED BY <1>0, <1>1, <2>1 DEF Open, EndsOpen, Procs
<1>2. ASSUME NEW p \in Procs, Exit(p) \/ Kill(p) PROVE EndsOpen'
  <2>1. \A q \in Procs : Holds(q)' <=> Holds(q) /\ q # p
    BY <1>0, <1>2 DEF Exit, Kill, Leave, GoTo, Holds, Gone, TypeOK
  <2> QED BY <1>0, <1>2, <2>1 DEF Exit, Kill, Leave, CloseEnds, EndsOpen
<1>3. ASSUME NEW p \in Procs, NEW label \in {"read", "write", "show", "exit_call"}, Holds(p),
             GoTo(p, label), UNCHANGED <<readers, writers>>
      PROVE  EndsOpen'
  <2>1. \A q \in Procs : Holds(q)' <=> Holds(q)
    BY <1>0, <1>3 DEF GoTo, Holds, Gone, TypeOK
  <2> QED BY <1>0, <1>3, <2>1 DEF EndsOpen
<1>4. ASSUME UNCHANGED <<pc, readers, writers>> PROVE EndsOpen'
  BY <1>0, <1>4 DEF EndsOpen, Holds, Gone
<1>5. ASSUME NEW s \in Speaks, NEW n \in LineLengths, Type(s, n) PROVE EndsOpen'
  BY <1>4, <1>5 DEF Type
<1>6. ASSUME NEW s \in Speaks, ReadLine(s) \/ ReadEof(s) PROVE EndsOpen'
  <2>1. Holds(s) /\ UNCHANGED <<readers, writers>>
        /\ \E label \in {"write", "exit_call"} : GoTo(s, label)
    BY <1>6 DEF ReadLine, ReadEof, Holds, Gone
  <2> QED BY <1>3, <2>1
<1>7. ASSUME NEW s \in Speaks, WriteFifo(s) PROVE EndsOpen'
  <2>1. CASE GoTo(s, "read") /\ UNCHANGED <<readers, writers>>
    <3>1. Holds(s)
      BY <1>7 DEF WriteFifo, Holds, Gone
    <3> QED BY <1>3, <2>1, <3>1
  <2>2. CASE GoTo(s, "killed") /\ CloseEnds(s)
    <3>1. \A q \in Procs : Holds(q)' <=> Holds(q) /\ q # s
      BY <1>0, <2>2 DEF GoTo, Holds, Gone, TypeOK
    <3> QED BY <1>0, <2>2, <3>1 DEF CloseEnds, EndsOpen
  <2> QED BY <1>7, <2>1, <2>2 DEF WriteFifo
<1>8. ASSUME NEW t \in Ticks, ReadFifo(t) \/ Show(t) PROVE EndsOpen'
  <2>1. Holds(t) /\ UNCHANGED <<readers, writers>>
        /\ \E label \in {"read", "show", "exit_call"} : GoTo(t, label)
    BY <1>8 DEF ReadFifo, Hear, Show, Holds, Gone
  <2> QED BY <1>3, <2>1
<1>9. CASE UNCHANGED vars
  BY <1>4, <1>9 DEF vars
<1> QED
  BY <1>1, <1>2, <1>5, <1>6, <1>7, <1>8, <1>9 DEF Next

-----------------------------------------------------------------------------
(* A speak whose characters stay where they are. *)
LEMMA SpeakStays ==
    ASSUME Inv, NEW s \in Speaks,
           tty'[s] = tty[s], chars'[s] = chars[s], buffer'[s] = buffer[s], num'[s] = num[s],
           spoken'[s] = spoken[s],
           pc'[s] = "write" => pc[s] = "write",
           pc'[s] # "killed" => pc[s] # "killed" /\ Pending(s)' = Pending(s)
    PROVE  TtyOK(s)' /\ PendingOK(s)' /\ SpokenOK(s)'
<1>0. TtyOK(s) /\ PendingOK(s) /\ SpokenOK(s)
  BY DEF Inv, SpeakOK
<1>1. Top(s)' = Top(s)
  BY DEF Top, Unread
<1>2. TtyOK(s)'
  BY <1>0 DEF TtyOK
<1>3. PendingOK(s)'
  BY <1>0, <1>1 DEF PendingOK
<1>4. SpokenOK(s)'
  BY <1>0, <1>1 DEF SpokenOK
<1> QED BY <1>2, <1>3, <1>4

LEMMA TypeKeeps ==
    ASSUME Inv, NEW s \in Speaks, NEW n \in LineLengths, Type(s, n)
    PROVE  TtyOK(s)' /\ PendingOK(s)' /\ SpokenOK(s)'
<1> DEFINE line == [i \in 1..n |-> <<s, chars[s] + i>>] \o <<LF>>
<1>0. TtyOK(s) /\ PendingOK(s) /\ SpokenOK(s) /\ TypeOK
  BY DEF Inv, SpeakOK
<1>1. n \in Nat /\ chars[s] \in Nat /\ pc[s] = "read"
  BY <1>0, ConstantsAreRight DEF TypeOK, Type
<1>2. /\ tty[s] = <<>> /\ tty'[s] = line /\ chars'[s] = chars[s] + n
      /\ UNCHANGED <<pc, buffer, num, spoken>>
  BY <1>0 DEF Type, TypeOK
<1>3. IsLine(line, s, n, chars[s])
  BY DEF IsLine
<1> HIDE DEF line
<1>4. Len(line) = n + 1 /\ line # <<>> /\ \A i \in 1..n : line[i] = <<s, chars[s] + i>>
  BY <1>1, <1>3, LineTyped
<1>5. Top(s)' = Top(s) /\ Pending(s)' = Pending(s)
  BY <1>1, <1>2, <1>4 DEF Top, Unread, Pending
<1>6. TtyOK(s)'
  <2>1. Len(line) - 1 = n /\ chars[s] + n - Len(line) + 1 = chars[s]
    BY <1>1, <1>4
  <2>2. Len(line) - 1 <= chars[s] + n
    BY <1>1, <2>1
  <2>3. LinesFit => Len(line) <= BufferLength
    BY <1>1, <1>4, ConstantsAreRight DEF LinesFit
  <2>4. Len(tty'[s]) = n + 1 /\ chars'[s] = chars[s] + n
    BY <1>2, <1>4
  <2>5. Len(tty'[s]) - 1 = n /\ chars'[s] - Len(tty'[s]) + 1 = chars[s]
    BY <1>1, <2>4
  <2> QED BY <1>2, <1>4, <2>2, <2>3, <2>4, <2>5 DEF TtyOK
<1>7. PendingOK(s)'
  BY <1>1, <1>2 DEF PendingOK
<1>8. SpokenOK(s)'
  BY <1>0, <1>2, <1>5 DEF SpokenOK
<1> QED BY <1>6, <1>7, <1>8

LEMMA ReadLineKeeps ==
    ASSUME Inv, NEW s \in Speaks, ReadLine(s)
    PROVE  TtyOK(s)' /\ PendingOK(s)' /\ SpokenOK(s)'
<1> DEFINE m == Len(tty[s])
           k == IF m < BufferLength THEN m ELSE BufferLength
           b == Top(s)
<1>0. TtyOK(s) /\ PendingOK(s) /\ SpokenOK(s) /\ TypeOK /\ s \in Procs
  BY ConstantsAreRight DEF Inv, SpeakOK
<1>1. /\ m \in Nat \ {0} /\ k \in 1..m /\ k <= BufferLength /\ chars[s] \in Nat
      /\ BufferLength \in Nat /\ (LinesFit => k = m)
      /\ tty[s] \in Seq(Characters \cup {LF}) /\ tty[s] # <<>> /\ pc[s] = "read"
      /\ m - 1 <= chars[s] /\ \A i \in 1..(m - 1) : tty[s][i] = <<s, chars[s] - m + 1 + i>>
  <2>1. tty[s] \in Seq(Characters \cup {LF}) /\ tty[s] # <<>> /\ pc[s] = "read"
        /\ chars[s] \in Nat /\ BufferLength \in Nat \ {0}
    BY <1>0, ConstantsAreRight DEF ReadLine, TypeOK
  <2>2. m \in Nat \ {0}
    BY <2>1, EmptySeq, LenProperties
  <2>3. \A i \in 1..(m - 1) : tty[s][i] = <<s, chars[s] - m + 1 + i>>
    BY <1>0, <2>1 DEF TtyOK
  <2>4. LinesFit => m <= BufferLength
    BY <1>0, <2>1 DEF TtyOK
  <2>5. m - 1 <= chars[s]
    BY <1>0, <2>1 DEF TtyOK
  <2>6. k \in 1..m /\ k <= BufferLength /\ (LinesFit => k = m)
    BY <2>1, <2>2, <2>4
  <2> QED BY <2>1, <2>2, <2>3, <2>4, <2>5, <2>6
<1>2. b = chars[s] - (m - 1) /\ b \in Nat
  BY <1>1 DEF Top, Unread
<1>3. /\ buffer'[s] = SubSeq(tty[s], 1, k) /\ tty'[s] = SubSeq(tty[s], k + 1, m)
      /\ num'[s] = k - 1 /\ chars' = chars /\ spoken' = spoken
      /\ pc'[s] = IF k - 1 = 0 THEN "exit_call" ELSE "write"
  BY <1>0 DEF ReadLine, GoTo, TypeOK
<1> HIDE DEF m, k, b
<1>4. /\ Len(buffer'[s]) = k /\ \A i \in 1..k : buffer'[s][i] = tty[s][i]
      /\ Len(tty'[s]) = m - k /\ \A i \in 1..(m - k) : tty'[s][i] = tty[s][k + i]
      /\ tty'[s] \in Seq(Characters \cup {LF})
  <2> DEFINE S == Characters \cup {LF}
             d == tty[s]
  <2>1. d \in Seq(S) /\ k \in 0..Len(d) /\ Len(d) = m
    BY <1>1 DEF m
  <2>2. buffer'[s] = SubSeq(d, 1, k) /\ tty'[s] = SubSeq(d, k + 1, Len(d))
    BY <1>3, <2>1
  <2> HIDE DEF S, d
  <2>3. /\ SubSeq(d, k + 1, Len(d)) \in Seq(S)
        /\ Len(SubSeq(d, 1, k)) = k /\ Len(SubSeq(d, k + 1, Len(d))) = Len(d) - k
        /\ \A i \in 1..k : SubSeq(d, 1, k)[i] = d[i]
        /\ \A i \in 1..(Len(d) - k) : SubSeq(d, k + 1, Len(d))[i] = d[k + i]
    <3>1. SubSeq(d, k + 1, Len(d)) \in Seq(S)
          /\ Len(SubSeq(d, 1, k)) = k /\ Len(SubSeq(d, k + 1, Len(d))) = Len(d) - k
      BY <2>1, SplitAt
    <3>2. ASSUME NEW i \in 1..k PROVE SubSeq(d, 1, k)[i] = d[i]
      BY <2>1, SplitAt
    <3>3. ASSUME NEW i \in 1..(Len(d) - k) PROVE SubSeq(d, k + 1, Len(d))[i] = d[k + i]
      BY <2>1, SplitAt
    <3> QED BY <3>1, <3>2, <3>3
  <2>4. /\ tty'[s] \in Seq(S)
        /\ Len(buffer'[s]) = k /\ Len(tty'[s]) = Len(d) - k
        /\ \A i \in 1..k : buffer'[s][i] = d[i]
        /\ \A i \in 1..(Len(d) - k) : tty'[s][i] = d[k + i]
    BY <2>2, <2>3
  <2> QED BY <2>1, <2>4 DEF S, d
<1>5. tty'[s] = <<>> <=> k = m
  BY <1>1, <1>4, EmptySeq, LenProperties
<1>6. /\ Top(s)' = IF k = m THEN chars[s] ELSE b + k
      /\ b + (k - 1) <= Top(s)' /\ Top(s)' \in Nat /\ b <= Top(s)'
      /\ LinesFit => b + (k - 1) = Top(s)'
  <2>1. CASE k = m
    <3>1. Top(s)' = chars[s] /\ b + (k - 1) = chars[s]
      BY <1>1, <1>2, <1>3, <1>5, <2>1 DEF Top, Unread
    <3> QED BY <1>1, <1>2, <2>1, <3>1
  <2>2. CASE k # m
    <3>1. Unread(s)' = m - k - 1
      BY <1>4, <1>5, <2>2 DEF Unread
    <3>2. Top(s)' = chars[s] - (m - k - 1)
      BY <1>3, <3>1 DEF Top
    <3>3. m \in Nat /\ k \in Nat /\ chars[s] \in Nat
      BY <1>1
    <3>4. Top(s)' = b + k
      BY <1>2, <3>2, <3>3
    <3> QED BY <1>1, <1>2, <2>2, <3>4
  <2> QED BY <2>1, <2>2
<1>7. TtyOK(s)'
  <2> SUFFICES ASSUME k # m
               PROVE  /\ Len(tty'[s]) - 1 <= chars'[s]
                      /\ \A i \in 1..(Len(tty'[s]) - 1) :
                             tty'[s][i] = <<s, chars'[s] - Len(tty'[s]) + 1 + i>>
                      /\ LinesFit => Len(tty'[s]) <= BufferLength
    BY <1>5 DEF TtyOK
  <2>1. ~LinesFit /\ m - k - 1 <= chars[s]
    BY <1>1
  <2>2. ASSUME NEW i \in 1..(m - k - 1)
        PROVE  tty'[s][i] = <<s, chars[s] - (m - k) + 1 + i>>
    <3>1. k + i \in 1..(m - 1) /\ i \in 1..(m - k)
          /\ chars[s] - m + 1 + (k + i) = chars[s] - (m - k) + 1 + i
      BY <1>1, <2>2
    <3>2. tty'[s][i] = tty[s][k + i] /\ tty[s][k + i] = <<s, chars[s] - m + 1 + (k + i)>>
      BY <1>1, <1>4, <3>1
    <3> QED BY <3>1, <3>2
  <2> QED BY <1>3, <1>4, <2>1, <2>2
<1>8. \A c \in ToSet(spoken[s]) : c[1] = s /\ c[2] <= b
  BY <1>0 DEF SpokenOK, b
<1>9. PendingOK(s)'
  <2>1. num'[s] <= Len(buffer'[s])
    BY <1>1, <1>3, <1>4
  <2>2. ASSUME NEW i \in 1..(k - 1) PROVE buffer'[s][i] = <<s, b + i>>
    <3>1. i \in 1..k /\ i \in 1..(m - 1) /\ chars[s] - m + 1 + i = b + i
      BY <1>1, <1>2, <2>2
    <3> QED BY <1>1, <1>4, <3>1
  <2> QED BY <1>2, <1>3, <1>6, <1>8, <2>1, <2>2 DEF PendingOK
<1>10. SpokenOK(s)'
  <2>1. Pending(s)' = k - 1
    BY <1>1, <1>3 DEF Pending
  <2>2. Pending(s) = 0
    BY <1>1 DEF Pending
  <2>3. ASSUME LinesFit
        PROVE  /\ Len(spoken[s]) = Top(s)' - Pending(s)'
               /\ \A i \in 1..Len(spoken[s]) : spoken[s][i] = <<s, i>>
    <3>1. /\ Len(spoken[s]) = b - Pending(s)
          /\ \A i \in 1..Len(spoken[s]) : spoken[s][i] = <<s, i>>
      BY <1>0, <1>1, <2>3 DEF SpokenOK, b
    <3>2. b - Pending(s) = Top(s)' - Pending(s)'
      BY <1>1, <1>2, <1>6, <2>1, <2>2, <2>3
    <3> QED BY <3>1, <3>2
  <2>4. \A c \in ToSet(spoken[s]) : c[1] = s /\ c[2] <= Top(s)'
    <3> SUFFICES ASSUME NEW c \in ToSet(spoken[s]) PROVE c[1] = s /\ c[2] <= Top(s)'
      OBVIOUS
    <3>1. c \in Characters
      BY <1>0, ElementOfSeq DEF TypeOK, ToSet
    <3>2. c[2] \in Nat
      BY <3>1 DEF Characters
    <3> QED BY <1>2, <1>6, <1>8, <3>2
  <2> QED BY <1>3, <2>3, <2>4 DEF SpokenOK
<1> QED BY <1>7, <1>9, <1>10

LEMMA WriteKeeps ==
    ASSUME Inv, NEW s \in Speaks, WriteFifo(s)
    PROVE  TtyOK(s)' /\ PendingOK(s)' /\ SpokenOK(s)'
<1>0. TtyOK(s) /\ PendingOK(s) /\ SpokenOK(s) /\ TypeOK /\ s \in Procs
  BY ConstantsAreRight DEF Inv, SpeakOK
<1>1. UNCHANGED <<tty, buffer, num, chars>> /\ pc[s] = "write" /\ num[s] \in Int
  BY <1>0, ConstantsAreRight DEF WriteFifo, TypeOK
<1>2. CASE UNCHANGED spoken /\ ((num[s] < 0 /\ pc'[s] = "read") \/ pc'[s] = "killed")
  <2>1. pc'[s] # "killed" => Pending(s)' = Pending(s)
    BY <1>1, <1>2 DEF Pending
  <2> QED BY <1>1, <1>2, <2>1, SpeakStays
<1>3. CASE num[s] >= 0 /\ spoken' = [spoken EXCEPT ![s] = @ \o SubSeq(buffer[s], 1, num[s])]
           /\ pc'[s] = "read"
  <2> DEFINE c == SubSeq(buffer[s], 1, num[s])
  <2>1. PICK b \in Nat : IsChunk(c, s, b)
    BY <1>1, <1>3, ChunkOf
  <2>2. spoken[s] \in Seq(Characters) /\ c \in Seq(Characters) /\ Len(c) = num[s]
        /\ \A i \in 1..num[s] : c[i] = <<s, b + i>>
    BY <1>0, <2>1 DEF TypeOK, IsChunk
  <2>3. IsConcat(spoken'[s], spoken[s], c)
    BY <1>0, <1>3 DEF IsConcat, TypeOK
  <2> HIDE DEF c
  <2>4. /\ Len(spoken'[s]) = Len(spoken[s]) + num[s] /\ Len(spoken[s]) \in Nat
        /\ \A i \in 1..Len(spoken[s]) : spoken'[s][i] = spoken[s][i]
        /\ \A i \in 1..num[s] : spoken'[s][Len(spoken[s]) + i] = <<s, b + i>>
        /\ ToSet(spoken'[s]) = ToSet(spoken[s]) \cup ToSet(c)
    <3>1. /\ Len(spoken'[s]) = Len(spoken[s]) + Len(c)
          /\ \A i \in 1..Len(spoken[s]) : spoken'[s][i] = spoken[s][i]
          /\ \A i \in 1..Len(c) : spoken'[s][Len(spoken[s]) + i] = c[i]
          /\ ToSet(spoken'[s]) = ToSet(spoken[s]) \cup ToSet(c)
      <4>2. spoken[s] \in Seq(Characters) /\ c \in Seq(Characters)
        BY <2>2
      <4>3. Len(spoken'[s]) = Len(spoken[s]) + Len(c)
        BY <2>3, <4>2, ConcatProperties DEF IsConcat
      <4>4. \A i \in 1..Len(spoken[s]) : spoken'[s][i] = spoken[s][i]
        BY <2>3, <4>2, ConcatParts
      <4>5. \A i \in 1..Len(c) : spoken'[s][Len(spoken[s]) + i] = c[i]
        BY <2>3, <4>2, ConcatParts
      <4>6. ToSet(spoken'[s]) = ToSet(spoken[s]) \cup ToSet(c)
        BY <2>3, <4>2, ConcatParts
      <4> QED BY <4>3, <4>4, <4>5, <4>6
    <3> QED BY <2>2, <3>1, LenProperties
  <2>5. Top(s)' = Top(s) /\ Pending(s)' = 0
    BY <1>1, <1>3 DEF Top, Unread, Pending
  <2>6. TtyOK(s)' /\ PendingOK(s)'
    BY <1>0, <1>1, <1>3 DEF TtyOK, PendingOK
  <2>7. \A d \in ToSet(spoken'[s]) : d[1] = s /\ d[2] <= Top(s)
    <3>1. \A d \in ToSet(c) : \E i \in 1..num[s] : d = <<s, b + i>>
      BY <2>2, LenProperties DEF ToSet
    <3>2. b + num[s] <= Top(s) /\ Top(s) \in Int
      <4>1. Top(s) \in Int
        BY <1>0, LenProperties DEF TypeOK, Top, Unread
      <4> QED BY <2>1, <4>1 DEF IsChunk
    <3>3. \A i \in 1..num[s] : b + i <= Top(s)
      BY <1>1, <3>2
    <3> QED BY <1>0, <2>4, <3>1, <3>3 DEF SpokenOK
  <2>8. ASSUME LinesFit
        PROVE  /\ Len(spoken'[s]) = Top(s)
               /\ \A i \in 1..Len(spoken'[s]) : spoken'[s][i] = <<s, i>>
    <3>1. Len(spoken[s]) = Top(s) - num[s] /\ \A i \in 1..Len(spoken[s]) : spoken[s][i] = <<s, i>>
      <4>1. Pending(s) = num[s]
        BY <1>1, <1>3 DEF Pending
      <4> QED BY <1>0, <1>1, <2>8, <4>1 DEF SpokenOK
    <3>2. b + num[s] = Top(s)
      BY <2>1, <2>8 DEF IsChunk
    <3>3. Len(spoken[s]) = b /\ Len(spoken'[s]) = Top(s)
      BY <1>1, <2>4, <3>1, <3>2
    <3>4. ASSUME NEW i \in 1..Len(spoken'[s]) PROVE spoken'[s][i] = <<s, i>>
      <4>1. CASE i <= b
        <5>1. i \in 1..Len(spoken[s])
          BY <3>3, <3>4, <4>1
        <5> QED BY <2>4, <3>1, <5>1
      <4>2. CASE ~(i <= b)
        <5>1. i - b \in 1..num[s] /\ Len(spoken[s]) + (i - b) = i /\ b + (i - b) = i
          BY <1>1, <3>2, <3>3, <3>4, <4>2
        <5> QED BY <2>4, <5>1
      <4> QED BY <4>1, <4>2
    <3> QED BY <3>3, <3>4
  <2>9. SpokenOK(s)'
    <3>1. Top(s) - 0 = Top(s)
      BY <1>0, LenProperties DEF TypeOK, Top, Unread
    <3> QED BY <2>5, <2>7, <2>8, <3>1 DEF SpokenOK
  <2> QED BY <2>6, <2>9
<1>4. pc'[s] \in {"read", "killed"} /\ (num[s] < 0 => pc'[s] = "read")
  BY <1>0, <1>1 DEF WriteFifo, GoTo, TypeOK
<1> QED
  BY <1>0, <1>2, <1>3 DEF WriteFifo, GoTo, TypeOK

LEMMA SpeakStep == Inv /\ [Next]_vars => SpeakOK'
<1> SUFFICES ASSUME Inv, [Next]_vars, NEW s \in Speaks
             PROVE  TtyOK(s)' /\ PendingOK(s)' /\ SpokenOK(s)'
  BY DEF SpeakOK
<1>0. TypeOK /\ s \in Procs /\ s \notin Ticks
  BY ConstantsAreRight DEF Inv
<1> DEFINE Stays == TtyOK(s)' /\ PendingOK(s)' /\ SpokenOK(s)'
           Same == /\ tty'[s] = tty[s] /\ chars'[s] = chars[s] /\ buffer'[s] = buffer[s]
                   /\ num'[s] = num[s] /\ spoken'[s] = spoken[s]
(* Another process moves, or this one does without touching its characters. *)
<1>a. ASSUME Same, pc'[s] = pc[s] PROVE Stays
  BY <1>a, SpeakStays, <1>0 DEF Pending, SpeakOK, Inv, TtyOK, PendingOK, SpokenOK, Top, Unread
<1>b. ASSUME Same, pc'[s] # "write", pc[s] # "write", pc'[s] # "killed" => pc[s] # "killed"
      PROVE  Stays
  BY <1>b, SpeakStays DEF Pending
<1>c. ASSUME Same, pc'[s] = "killed" PROVE Stays
  BY <1>c, SpeakStays
<1> HIDE DEF Stays, Same
<1> USE DEF pipe, speaking, GoTo
<1>1. ASSUME NEW p \in Procs, Open(p) PROVE Stays
  <2>1. Same
    BY <1>1 DEF Open, Same
  <2>2. \/ pc'[s] = pc[s]
        \/ pc'[s] \in {"read", "opening"} /\ pc[s] \in {"open", "opening"}
    BY <1>0, <1>1 DEF Open
  <2> QED BY <2>1, <2>2, <1>a, <1>b
<1>2. ASSUME NEW p \in Procs, Exit(p) \/ Kill(p) PROVE Stays
  <2>1. Same
    BY <1>2 DEF Exit, Kill, Leave, Same
  <2>2. \/ pc'[s] = pc[s] \/ pc'[s] = "killed"
        \/ pc'[s] = "exit" /\ pc[s] = "exit_call"
    BY <1>0, <1>2 DEF Exit, Kill, Leave, TypeOK
  <2> QED BY <2>1, <2>2, <1>a, <1>b, <1>c
<1>3. ASSUME NEW r \in Speaks, r # s, NEW n \in LineLengths, Type(r, n) PROVE Stays
  <2>1. Same
    BY <1>0, <1>3 DEF Type, Same, TypeOK
  <2>2. pc'[s] = pc[s]
    BY <1>0, <1>3 DEF Type
  <2> QED BY <2>1, <2>2, <1>a
<1>4. ASSUME ReadEof(s) PROVE Stays
  <2>1. /\ tty'[s] = tty[s] /\ chars'[s] = chars[s] /\ buffer'[s] = buffer[s]
        /\ spoken'[s] = spoken[s] /\ num'[s] = -1 /\ pc'[s] = "write" /\ pc[s] = "read"
        /\ num[s] \in Int
    BY <1>0, <1>4 DEF ReadEof, TypeOK
  <2>2. TtyOK(s) /\ SpokenOK(s)
    BY DEF Inv, SpeakOK
  <2>3. Top(s)' = Top(s) /\ Pending(s)' = Pending(s)
    BY <2>1 DEF Top, Unread, Pending
  <2>4. TtyOK(s)' /\ SpokenOK(s)'
    BY <2>1, <2>2, <2>3 DEF TtyOK, SpokenOK
  <2>5. PendingOK(s)'
    <3>1. Len(buffer[s]) \in Nat
      BY <1>0, LenProperties DEF TypeOK
    <3> QED BY <2>1, <3>1 DEF PendingOK
  <2> QED BY <2>4, <2>5 DEF Stays
<1>5. ASSUME NEW t \in Ticks, ReadFifo(t) \/ Show(t) PROVE Stays
  <2>1. Same /\ pc'[s] = pc[s]
    BY <1>0, <1>5 DEF ReadFifo, Hear, Show, Same, TypeOK
  <2> QED BY <2>1, <1>a
<1>6. ASSUME UNCHANGED vars PROVE Stays
  BY <1>6, <1>a DEF vars, Same
<1>7. ASSUME NEW n \in LineLengths, Type(s, n) PROVE Stays
  BY <1>7, TypeKeeps DEF Stays
<1>8. ASSUME NEW r \in Speaks, r # s, ReadLine(r) \/ ReadEof(r) \/ WriteFifo(r) PROVE Stays
  <2>1. Same
    BY <1>0, <1>8 DEF ReadLine, ReadEof, WriteFifo, Same, TypeOK
  <2>2. pc'[s] = pc[s]
    BY <1>0, <1>8 DEF ReadLine, ReadEof, WriteFifo, TypeOK
  <2> QED BY <2>1, <2>2, <1>a
<1>9. ASSUME ReadLine(s) \/ WriteFifo(s) PROVE Stays
  BY <1>9, ReadLineKeeps, WriteKeeps DEF Stays
<1>10. ASSUME NEW r \in Speaks, \/ \E n \in LineLengths : Type(r, n)
                                \/ ReadLine(r) \/ ReadEof(r) \/ WriteFifo(r)
       PROVE  Stays
  <2>1. r = s => Stays
    BY <1>10, <1>4, <1>7, <1>9
  <2>2. r # s => Stays
    BY <1>10, <1>3, <1>8
  <2> QED BY <2>1, <2>2
<1>11. Stays
  BY <1>1, <1>2, <1>5, <1>6, <1>10 DEF Next
<1> QED BY <1>11 DEF Stays

-----------------------------------------------------------------------------
(* What a write and a read do to the characters in flight. *)
Speaking(s, c) ==
    /\ IsConcat(data', data, c)
    /\ spoken' = [spoken EXCEPT ![s] = spoken'[s]] /\ IsConcat(spoken'[s], spoken[s], c)
    /\ UNCHANGED heard

Hearing(t, a) ==
    /\ IsConcat(data, a, data')
    /\ heard' = [heard EXCEPT ![t] = heard'[t]] /\ IsConcat(heard'[t], heard[t], a)
    /\ UNCHANGED spoken

LEMMA WriteSpeaks ==
    ASSUME Inv, NEW s \in Speaks, WriteFifo(s)
    PROVE  \/ /\ UNCHANGED <<spoken, heard>>
              /\ \/ data' = data /\ GoTo(s, "read")
                 \/ readers = {} /\ data' \in {data, <<>>} /\ GoTo(s, "killed")
           \/ /\ readers # {} /\ GoTo(s, "read")
              /\ \E b \in Nat, c \in Seq(Characters) : IsChunk(c, s, b) /\ Speaking(s, c)
<1> DEFINE c == SubSeq(buffer[s], 1, num[s])
<1>1. CASE num[s] < 0
  <2>1. num[s] \in Int
    BY ConstantsAreRight DEF Inv, TypeOK
  <2> QED BY <1>1, <2>1 DEF WriteFifo, pipe
<1>2. CASE num[s] >= 0 /\ CanWrite(c) /\ WritePipe(c) /\ spoken' = [spoken EXCEPT ![s] = @ \o c]
           /\ GoTo(s, "read")
  <2>1. PICK b \in Nat : IsChunk(c, s, b)
    BY <1>2, ChunkOf DEF WriteFifo
  <2>2. /\ data' = data \o c /\ readers # {} /\ heard' = heard
        /\ spoken' = [spoken EXCEPT ![s] = spoken[s] \o c]
    BY <1>2 DEF WriteFifo, CanWrite, WritePipe
  <2> HIDE DEF c
  <2>3. IsConcat(data', data, c) /\ IsConcat(spoken'[s], spoken[s], c)
        /\ spoken' = [spoken EXCEPT ![s] = spoken'[s]]
    BY <2>2 DEF IsConcat, Inv, TypeOK
  <2> QED BY <1>2, <2>1, <2>2, <2>3 DEF IsChunk, Speaking
<1>3. CASE Broken /\ GoTo(s, "killed") /\ CloseEnds(s) /\ UNCHANGED spoken
  BY <1>3 DEF WriteFifo, CloseEnds, Broken
<1> QED BY <1>1, <1>2, <1>3 DEF WriteFifo

LEMMA ReadHears ==
    ASSUME Inv, NEW t \in Ticks, ReadFifo(t)
    PROVE  /\ \E a \in Seq(Characters) : Hearing(t, a) /\ Len(a) = num'[t]
           /\ num'[t] = 0 => data = <<>> /\ data' = <<>> /\ writers = {}
           /\ pc[t] = "read" /\ GoTo(t, "show") /\ num' = [num EXCEPT ![t] = num'[t]]
<1> DEFINE k == ReadCount(BufferLength)
<1>1. data \in Seq(Characters) /\ k \in 0..Len(data) /\ (k = 0 => Len(data) = 0)
  <2>1. data \in Seq(Characters) /\ Len(data) \in Nat
    BY LenProperties DEF Inv, TypeOK
  <2> QED BY <2>1, ConstantsAreRight DEF ReadCount
<1>2. /\ num' = [num EXCEPT ![t] = k] /\ GoTo(t, "show") /\ CanRead /\ pc[t] = "read"
      /\ heard' = [heard EXCEPT ![t] = heard[t] \o SubSeq(data, 1, k)]
      /\ data' = SubSeq(data, k + 1, Len(data)) /\ spoken' = spoken
  BY DEF ReadFifo, Hear, TakePipe, ReadPipe, speaking
<1> HIDE DEF k
<1> DEFINE a == SubSeq(data, 1, k)
<1>3. a \in Seq(Characters) /\ Len(a) = k /\ IsConcat(data, a, data')
  BY <1>1, <1>2, SplitAt
<1>4. heard' = [heard EXCEPT ![t] = heard[t] \o a] /\ num'[t] = k
  BY <1>2, ConstantsAreRight DEF Inv, TypeOK
<1>5. ASSUME k = 0 PROVE data = <<>> /\ data' = <<>> /\ writers = {}
  <2>1. data = <<>>
    BY <1>1, <1>5, EmptySeq
  <2>2. data' = <<>>
    BY <1>2, <2>1, <1>5, <1>1, SubSeqEmpty
  <2> QED BY <1>2, <2>1, <2>2 DEF CanRead
<1> HIDE DEF a
<1>6. IsConcat(heard'[t], heard[t], a) /\ heard' = [heard EXCEPT ![t] = heard'[t]]
  BY <1>4 DEF IsConcat, Inv, TypeOK
<1> QED BY <1>2, <1>3, <1>4, <1>5, <1>6 DEF Hearing

LEMMA ChunkInOrder ==
    ASSUME Inv, NEW s \in Speaks, NEW b \in Nat, NEW c \in Seq(Characters), IsChunk(c, s, b)
    PROVE  /\ InOrder(c)
           /\ \A d \in ToSet(c) : d[1] = s /\ d[2] > b
           /\ \A X \in SUBSET Characters : Known(X) => Before(X, ToSet(c))
<1>1. /\ DOMAIN c = 1..num[s] /\ num[s] \in Int /\ \A i \in 1..num[s] : c[i] = <<s, b + i>>
      /\ \A d \in ToSet(spoken[s]) : d[2] <= b
  <2>1. Len(c) = num[s] /\ \A i \in 1..num[s] : c[i] = <<s, b + i>>
    BY DEF IsChunk
  <2>2. \A d \in ToSet(spoken[s]) : d[2] <= b
    BY DEF IsChunk
  <2>3. DOMAIN c = 1..Len(c) /\ Len(c) \in Nat
    BY LenProperties
  <2> QED BY <2>1, <2>2, <2>3
<1>2. InOrder(c)
  <2> SUFFICES ASSUME NEW i \in 1..num[s], NEW j \in 1..num[s], i < j
               PROVE  c[i][2] < c[j][2]
    BY <1>1 DEF InOrder
  <2>1. c[i][2] = b + i /\ c[j][2] = b + j
    BY <1>1
  <2> QED BY <1>1, <2>1
<1>3. ASSUME NEW d \in ToSet(c) PROVE d[1] = s /\ d[2] \in Nat /\ d[2] > b
  <2>1. PICK i \in 1..num[s] : d = <<s, b + i>>
    BY <1>1, <1>3 DEF ToSet
  <2>2. b + i \in Nat /\ b + i > b
    BY <1>1
  <2> QED BY <2>1, <2>2
<1>4. ASSUME NEW X \in SUBSET Characters, Known(X), NEW x \in X, NEW d \in ToSet(c), x[1] = d[1]
      PROVE  x[2] < d[2]
  <2>1. x \in ToSet(spoken[s])
    BY <1>3, <1>4 DEF Known
  <2>2. x[2] <= b /\ x[2] \in Nat
    BY <1>1, <2>1 DEF Characters
  <2> QED BY <1>3, <2>2
<1> QED BY <1>2, <1>3, <1>4 DEF Before

LEMMA SetOfCharacters ==
    ASSUME NEW q \in Seq(Characters)
    PROVE  ToSet(q) \in SUBSET Characters
BY ElementOfSeq, LenProperties DEF ToSet

LEMMA FlightStays ==
    ASSUME Inv, UNCHANGED <<spoken, heard>>, data' \in {data, <<>>}
    PROVE  InFlight'
<1>1. ToSet(<<>>) = {} /\ InOrder(<<>>)
  BY DEF ToSet, InOrder
<1>2. ToSet(data)' \subseteq ToSet(data) /\ InOrder(data)'
  BY <1>1 DEF Inv, InFlight
<1> QED BY <1>2 DEF Inv, InFlight, Known, Before

LEMMA FlightWrite ==
    ASSUME Inv, NEW s \in Speaks, NEW b \in Nat, NEW c \in Seq(Characters), IsChunk(c, s, b),
           Speaking(s, c)
    PROVE  InFlight'
<1>0. /\ data \in Seq(Characters) /\ spoken[s] \in Seq(Characters)
      /\ spoken \in [Speaks -> Seq(Characters)] /\ heard' = heard
      /\ \A t \in Ticks : heard[t] \in Seq(Characters)
  BY DEF Inv, TypeOK, Speaking
<1>1. IsConcat(data', data, c) /\ IsConcat(spoken'[s], spoken[s], c)
  BY DEF Speaking
<1>2. ToSet(data') = ToSet(data) \cup ToSet(c)
  BY <1>0, <1>1, ConcatParts
<1>3. ToSet(spoken'[s]) = ToSet(spoken[s]) \cup ToSet(c)
  BY <1>0, <1>1, ConcatParts
<1>4. \A r \in Speaks : ToSet(spoken[r]) \subseteq ToSet(spoken'[r])
  BY <1>0, <1>3 DEF Speaking
<1>5. ASSUME NEW X \in SUBSET Characters, Known(X) PROVE \A x \in X : x \in ToSet(spoken'[x[1]])
  BY <1>4, <1>5 DEF Known, Characters
<1>6. \A x \in ToSet(c) : x \in ToSet(spoken'[x[1]])
  BY <1>3, ChunkInOrder
<1>7. ToSet(data) \in SUBSET Characters /\ \A t \in Ticks : ToSet(heard[t]) \in SUBSET Characters
  BY <1>0, SetOfCharacters
<1>8. Known(ToSet(data)) /\ InOrder(data)
      /\ \A t \in Ticks : Known(ToSet(heard[t])) /\ Before(ToSet(heard[t]), ToSet(data))
  BY DEF Inv, InFlight
<1>9. InOrder(data')
  <2>1. InOrder(c) /\ Before(ToSet(data), ToSet(c))
    BY <1>7, <1>8, ChunkInOrder
  <2> QED BY <1>0, <1>1, <1>8, <2>1, InOrderConcat
<1>10. \A t \in Ticks : Before(ToSet(heard[t]), ToSet(data'))
  <2>1. \A t \in Ticks : Before(ToSet(heard[t]), ToSet(c))
    BY <1>7, <1>8, ChunkInOrder
  <2> QED BY <1>2, <1>8, <2>1 DEF Before
<1>11. \A x \in ToSet(data') : x \in ToSet(spoken'[x[1]])
  BY <1>2, <1>5, <1>6, <1>7, <1>8
<1>12. \A t \in Ticks : \A x \in ToSet(heard[t]) : x \in ToSet(spoken'[x[1]])
  BY <1>5, <1>7, <1>8
<1> QED BY <1>0, <1>9, <1>10, <1>11, <1>12 DEF Inv, InFlight, Known

LEMMA FlightRead ==
    ASSUME Inv, NEW t \in Ticks, NEW a \in Seq(Characters), Hearing(t, a), data' \in Seq(Characters)
    PROVE  InFlight'
<1>0. /\ heard \in [Ticks -> Seq(Characters)] /\ spoken' = spoken
      /\ IsConcat(data, a, data') /\ IsConcat(heard'[t], heard[t], a)
      /\ \A u \in Ticks : u # t => heard'[u] = heard[u]
  BY DEF Inv, TypeOK, Hearing
<1>1. heard[t] \in Seq(Characters)
  BY <1>0
<1>2. ToSet(data) = ToSet(a) \cup ToSet(data')
  BY <1>0, ConcatParts
<1>3. ToSet(heard'[t]) = ToSet(heard[t]) \cup ToSet(a)
  BY <1>0, <1>1, ConcatParts
<1>4. Known(ToSet(data)) /\ InOrder(data)
      /\ \A u \in Ticks : /\ Known(ToSet(heard[u])) /\ InOrder(heard[u])
                          /\ Before(ToSet(heard[u]), ToSet(data))
  BY DEF Inv, InFlight
<1>5. InOrder(a) /\ InOrder(data') /\ Before(ToSet(a), ToSet(data'))
  BY <1>0, <1>4, InOrderParts
<1>6. \A u \in Ticks : Before(ToSet(heard[u]), ToSet(a)) /\ Before(ToSet(heard[u]), ToSet(data'))
  BY <1>2, <1>4 DEF Before
<1>7. InOrder(heard'[t])
  BY <1>0, <1>1, <1>4, <1>5, <1>6, InOrderConcat
<1>8. Before(ToSet(heard'[t]), ToSet(data'))
  BY <1>3, <1>5, <1>6 DEF Before
<1>9. Known(ToSet(data)) /\ Known(ToSet(data')) /\ Known(ToSet(heard'[t]))
  BY <1>2, <1>3, <1>4 DEF Known
<1>10. ASSUME NEW u \in Ticks, u # t PROVE ToSet(heard[u]) \cap ToSet(heard'[t]) = {}
  <2>1. ToSet(heard[u]) \cap ToSet(heard[t]) = {}
    BY <1>10 DEF Inv, InFlight
  <2>2. ASSUME NEW x \in ToSet(heard[u]), x \in ToSet(a) PROVE FALSE
    <3>1. x[2] < x[2]
      BY <1>6, <2>2 DEF Before
    <3>2. x[2] \in Nat
      BY <2>2, SetOfCharacters DEF Characters
    <3> QED BY <3>1, <3>2
  <2> QED BY <1>3, <2>1, <2>2
<1>11. \A u, v \in Ticks : u # v => ToSet(heard'[u]) \cap ToSet(heard'[v]) = {}
  <2> SUFFICES ASSUME NEW u \in Ticks, NEW v \in Ticks, u # v
               PROVE  ToSet(heard'[u]) \cap ToSet(heard'[v]) = {}
    OBVIOUS
  <2>1. CASE u = t
    BY <1>0, <1>10, <2>1
  <2>2. CASE v = t
    BY <1>0, <1>10, <2>2
  <2>3. CASE u # t /\ v # t
    BY <1>0, <2>3 DEF Inv, InFlight
  <2> QED BY <2>1, <2>2, <2>3
<1>12. \A u \in Ticks : /\ Known(ToSet(heard'[u])) /\ InOrder(heard'[u])
                        /\ Before(ToSet(heard'[u]), ToSet(data'))
  BY <1>0, <1>4, <1>6, <1>7, <1>8, <1>9
<1> QED BY <1>0, <1>5, <1>9, <1>11, <1>12 DEF InFlight, Known

LEMMA FlightStep == Inv /\ [Next]_vars => InFlight'
<1> SUFFICES ASSUME Inv, [Next]_vars PROVE InFlight'
  OBVIOUS
<1> USE DEF pipe, speaking
<1>1. ASSUME NEW p \in Procs, Open(p) \/ Exit(p) \/ Kill(p) PROVE InFlight'
  <2>1. UNCHANGED <<spoken, heard>> /\ data' \in {data, <<>>}
    BY <1>1 DEF Open, Exit, Kill, Leave, CloseEnds
  <2> QED BY <2>1, FlightStays
<1>2. ASSUME NEW s \in Speaks, NEW n \in LineLengths, Type(s, n) PROVE InFlight'
  BY <1>2, FlightStays DEF Type
<1>3. ASSUME NEW s \in Speaks, ReadLine(s) \/ ReadEof(s) PROVE InFlight'
  BY <1>3, FlightStays DEF ReadLine, ReadEof
<1>4. ASSUME NEW s \in Speaks, WriteFifo(s) PROVE InFlight'
  BY <1>4, WriteSpeaks, FlightStays, FlightWrite
<1>5. ASSUME NEW t \in Ticks, ReadFifo(t) PROVE InFlight'
  <2>1. data' \in Seq(Characters)
    BY TypeStep DEF TypeOK, Characters
  <2> QED BY <1>5, <2>1, ReadHears, FlightRead
<1>6. ASSUME NEW t \in Ticks, Show(t) PROVE InFlight'
  BY <1>6, FlightStays DEF Show
<1>7. CASE UNCHANGED vars
  BY <1>7, FlightStays DEF vars
<1> QED
  BY <1>1, <1>2, <1>3, <1>4, <1>5, <1>6, <1>7 DEF Next

-----------------------------------------------------------------------------
(* A process moves on, and the pipe keeps what is in it or loses it. *)
LEMMA EmptyMove ==
    ASSUME Inv, NEW p \in Procs, NEW label, GoTo(p, label), label # "open",
           ~Gone(p), data' \in {data, <<>>}, \A t \in Ticks : num'[t] = num[t],
           p \in Ticks => /\ label # "killed" => Met(p)
                          /\ label = "exit_call" => num[p] = 0 /\ pc[p] = "show"
                          /\ label = "exit" => pc[p] = "exit_call"
                          /\ label # "show"
    PROVE  EmptyEnds'
<1>0. TypeOK /\ EmptyEnds
  BY DEF Inv
<1>1. \A q \in Procs : pc'[q] = IF q = p THEN label ELSE pc[q]
  BY <1>0 DEF GoTo, TypeOK
<1>2. \A q \in Procs : /\ pc'[q] = "open" => pc[q] = "open"
                       /\ Gone(q) => Gone(q)'
  BY <1>1 DEF Gone
<1>3. \A t \in Ticks : /\ Met(t)' => Met(t)
                       /\ SawEnd(t)' => SawEnd(t)
                       /\ pc'[t] = "exit_call" => num'[t] = 0
  <2> SUFFICES ASSUME NEW t \in Ticks
               PROVE  /\ Met(t)' => Met(t)
                      /\ SawEnd(t)' => SawEnd(t)
                      /\ pc'[t] = "exit_call" => num'[t] = 0
    OBVIOUS
  <2>1. CASE t = p
    BY <1>1, <2>1 DEF Met, SawEnd
  <2>2. CASE t # p
    BY <1>0, <1>1, <2>2, ConstantsAreRight DEF Met, SawEnd, EmptyEnds
  <2> QED BY <2>1, <2>2
<1> QED BY <1>0, <1>2, <1>3, ConstantsAreRight DEF EmptyEnds

LEMMA EmptyStep == Inv /\ [Next]_vars => EmptyEnds'
<1> SUFFICES ASSUME Inv, [Next]_vars PROVE EmptyEnds'
  OBVIOUS
<1>0. TypeOK /\ EmptyEnds /\ EndsOpen /\ Speaks \subseteq Procs /\ Ticks \subseteq Procs
  BY ConstantsAreRight DEF Inv
<1> USE DEF pipe, speaking
<1>1. ASSUME NEW p \in Procs, Open(p) PROVE EmptyEnds'
  <2>1. data' = data /\ num' = num /\ pc[p] = "open"
    BY <1>1 DEF Open
  <2>2. pc'[p] \in {"read", "opening"}
    BY <1>1 DEF Open
  <2>3. \A q \in Procs : q # p =>
           \/ pc'[q] = pc[q]
           \/ pc[q] = "opening" /\ pc'[q] = "read" /\ (q \in Speaks <=> p \in Ticks)
    BY <1>1, ConstantsAreRight DEF Open, Procs
  <2>4. \A q \in Procs : /\ pc'[q] = "open" => pc[q] = "open"
                         /\ Gone(q) => Gone(q)'
    BY <2>1, <2>2, <2>3 DEF Gone
  <2>5. \A t \in Ticks : /\ SawEnd(t)' => SawEnd(t)
                         /\ pc'[t] = "exit_call" => pc[t] = "exit_call"
    BY <1>0, <2>1, <2>2, <2>3 DEF SawEnd
  <2>6. ASSUME NEW t \in Ticks, Met(t)' PROVE \E s \in Speaks : pc'[s] # "open"
    <3>1. CASE Met(t)
      BY <1>0, <2>4, <3>1 DEF EmptyEnds
    <3>2. CASE ~Met(t) /\ t # p
      <4>1. p \in Speaks
        BY <1>0, <2>3, <2>6, <3>2, ConstantsAreRight DEF Met, Procs
      <4> QED BY <2>2, <4>1
    <3>3. CASE t = p
      <4>1. writers # {}
        <5>1. pc'[p] = "read"
          BY <2>2, <2>6, <3>3 DEF Met
        <5> QED BY <1>1, <3>3, <5>1, ConstantsAreRight DEF Open
      <4>2. PICK s \in Speaks : Holds(s)
        BY <1>0, <4>1 DEF EndsOpen
      <4> QED BY <1>0, <2>4, <4>2 DEF Holds
    <3> QED BY <3>1, <3>2, <3>3
  <2> QED BY <1>0, <2>1, <2>4, <2>5, <2>6 DEF EmptyEnds
<1>2. ASSUME NEW p \in Procs, Exit(p) PROVE EmptyEnds'
  <2>1. GoTo(p, "exit") /\ pc[p] = "exit_call" /\ num' = num /\ data' \in {data, <<>>}
    BY <1>2 DEF Exit, Leave, CloseEnds
  <2> QED BY <2>1, EmptyMove DEF Gone, Met
<1>3. ASSUME NEW p \in Procs, Kill(p) PROVE EmptyEnds'
  <2>1. GoTo(p, "killed") /\ ~Gone(p) /\ num' = num /\ data' \in {data, <<>>}
    BY <1>3 DEF Kill, Leave, CloseEnds
  <2> QED BY <2>1, EmptyMove
<1>4. ASSUME NEW s \in Speaks, NEW n \in LineLengths, Type(s, n) PROVE EmptyEnds'
  BY <1>0, <1>4 DEF Type, EmptyEnds, Met, SawEnd, Gone
<1>5. ASSUME NEW s \in Speaks, ReadLine(s) \/ ReadEof(s) PROVE EmptyEnds'
  <2>1. \E label \in {"write", "exit_call"} : GoTo(s, label)
    BY <1>5 DEF ReadLine, ReadEof
  <2>2. ~Gone(s) /\ data' = data /\ s \notin Ticks /\ \A t \in Ticks : num'[t] = num[t]
    BY <1>0, <1>5, ConstantsAreRight DEF ReadLine, ReadEof, Gone, TypeOK
  <2> QED BY <1>0, <2>1, <2>2, EmptyMove
<1>6. ASSUME NEW s \in Speaks, WriteFifo(s) PROVE EmptyEnds'
  <2>1. ~Gone(s) /\ s \notin Ticks /\ num' = num /\ pc[s] = "write"
    BY <1>6, ConstantsAreRight DEF WriteFifo, Gone
  <2>2. CASE data' \in {data, <<>>} /\ \E label \in {"read", "killed"} : GoTo(s, label)
    BY <1>0, <2>1, <2>2, EmptyMove
  <2>3. CASE readers # {} /\ GoTo(s, "read")
    <3>1. \A q \in Procs : pc'[q] = IF q = s THEN "read" ELSE pc[q]
      BY <1>0, <2>3 DEF GoTo, TypeOK
    <3>2. \E t \in Ticks : pc'[t] # "open"
      BY <1>0, <2>1, <2>3, <3>1 DEF EndsOpen, Holds
    <3>3. \A t \in Ticks : pc'[t] = pc[t] /\ num'[t] = num[t]
      BY <1>0, <2>1, <3>1
    <3>4. \A r \in Speaks : pc'[r] = "open" => pc[r] = "open"
      BY <1>0, <2>1, <3>1
    <3>5. \A t \in Ticks : ~(OneSpeak /\ SawEnd(t))
      BY <1>0, <2>1 DEF EmptyEnds
    <3> QED BY <1>0, <3>2, <3>3, <3>4, <3>5 DEF EmptyEnds, Met, SawEnd
  <2> QED BY <1>6, <2>2, <2>3, WriteSpeaks
<1>7. ASSUME NEW t \in Ticks, ReadFifo(t) PROVE EmptyEnds'
  <2>1. /\ num'[t] = 0 => data = <<>> /\ data' = <<>> /\ writers = {}
        /\ pc[t] = "read" /\ GoTo(t, "show") /\ num' = [num EXCEPT ![t] = num'[t]]
    BY <1>7, ReadHears
  <2>2. \A q \in Procs : pc'[q] = IF q = t THEN "show" ELSE pc[q]
    BY <1>0, <2>1 DEF GoTo, TypeOK
  <2>3. \A u \in Ticks : u # t => num'[u] = num[u]
    BY <1>0, <2>1 DEF TypeOK
  <2>4. /\ \A s \in Speaks : pc'[s] = pc[s]
        /\ pc[t] # "open" /\ pc'[t] = "show" /\ Met(t)
    BY <1>0, <2>1, <2>2, ConstantsAreRight DEF Met
  <2>5. \A u \in Ticks : Met(u)' => Met(u)
    BY <1>0, <2>2, <2>4 DEF Met
  <2>6. data = <<>> => data' = <<>>
    <3>1. PICK a \in Seq(Characters) : IsConcat(data, a, data')
      BY <1>7, ReadHears DEF Hearing
    <3>2. data' \in Seq(Characters)
      BY TypeStep DEF TypeOK, Characters
    <3>3. Len(data) = Len(a) + Len(data')
      BY <3>1, <3>2, ConcatProperties DEF IsConcat
    <3>4. data = <<>> => Len(data') = 0
      <4>1. Len(<<>>) = 0 /\ Len(a) \in Nat /\ Len(data') \in Nat
        BY <3>2, EmptySeq, LenProperties
      <4> QED BY <3>3, <4>1
    <3> QED BY <3>2, <3>4, EmptySeq
  <2>7. ASSUME NEW u \in Ticks, OneSpeak, SawEnd(u)'
        PROVE  data' = <<>> /\ \A s \in Speaks : Gone(s)'
    <3>1. CASE u # t
      <4>1. SawEnd(u)
        BY <1>0, <2>2, <2>3, <2>7, <3>1 DEF SawEnd
      <4> QED BY <1>0, <2>4, <2>6, <2>7, <4>1 DEF EmptyEnds, Gone
    <3>2. CASE u = t
      <4>1. data' = <<>> /\ \A s \in Speaks : ~Holds(s)
        BY <1>0, <2>1, <2>4, <2>7, <3>2 DEF SawEnd, EndsOpen
      <4>2. \A s \in Speaks : pc[s] # "open"
        BY <1>0, <2>4, <2>7 DEF EmptyEnds, OneSpeak
      <4> QED BY <2>4, <4>1, <4>2 DEF Holds, Gone
    <3> QED BY <3>1, <3>2
  <2>8. \A u \in Ticks : pc'[u] = "exit_call" => num'[u] = 0
    BY <1>0, <2>2, <2>3 DEF EmptyEnds
  <2> QED BY <1>0, <2>4, <2>5, <2>7, <2>8 DEF EmptyEnds
<1>8. ASSUME NEW t \in Ticks, Show(t) PROVE EmptyEnds'
  <2>1. pc[t] = "show" /\ data' = data /\ num' = num /\ ~Gone(t) /\ Met(t)
    BY <1>8 DEF Show, Gone, Met
  <2>2. CASE num[t] = 0 /\ GoTo(t, "exit_call")
    BY <1>0, <2>1, <2>2, EmptyMove
  <2>3. CASE GoTo(t, "read")
    BY <1>0, <2>1, <2>3, EmptyMove
  <2> QED BY <1>8, <2>2, <2>3 DEF Show
<1>9. CASE UNCHANGED vars
  BY <1>0, <1>9 DEF vars, EmptyEnds, Met, SawEnd, Gone
<1> QED
  BY <1>1, <1>2, <1>3, <1>4, <1>5, <1>6, <1>7, <1>8, <1>9 DEF Next

-----------------------------------------------------------------------------
(* Nobody comes back: a tick that was killed or has ended stays so. *)
LEMMA AttendedBefore == Inv /\ [Next]_vars => (Attended' => Attended)
<1> SUFFICES ASSUME Inv, [Next]_vars PROVE Attended' => Attended
  OBVIOUS
<1>0. TypeOK
  BY DEF Inv
<1>1. \A p \in Procs : Gone(p) => pc'[p] = pc[p]
  <2>1. ASSUME NEW p \in Procs, Open(p) PROVE \A q \in Procs : Gone(q) => pc'[q] = pc[q]
    BY <2>1 DEF Open, Gone
  <2>2. ASSUME NEW p \in Procs, NEW label, GoTo(p, label), ~Gone(p)
        PROVE  \A q \in Procs : Gone(q) => pc'[q] = pc[q]
    BY <1>0, <2>2 DEF GoTo, TypeOK
  <2>3. ASSUME NEW p \in Procs, Exit(p) \/ Kill(p)
        PROVE  \A q \in Procs : Gone(q) => pc'[q] = pc[q]
    BY <2>2, <2>3 DEF Exit, Kill, Leave, Gone
  <2>4. ASSUME NEW s \in Speaks, ReadLine(s) \/ ReadEof(s) \/ WriteFifo(s)
        PROVE  \A q \in Procs : Gone(q) => pc'[q] = pc[q]
    BY <2>2, <2>4, ConstantsAreRight DEF ReadLine, ReadEof, WriteFifo, Gone
  <2>5. ASSUME NEW t \in Ticks, ReadFifo(t) \/ Show(t)
        PROVE  \A q \in Procs : Gone(q) => pc'[q] = pc[q]
    BY <2>2, <2>5, ConstantsAreRight DEF ReadFifo, Hear, Show, Gone
  <2>6. ASSUME NEW s \in Speaks, NEW n \in LineLengths, Type(s, n) PROVE pc' = pc
    BY <2>6 DEF Type
  <2>7. CASE UNCHANGED vars
    BY <2>7 DEF vars
  <2> QED BY <2>1, <2>3, <2>4, <2>5, <2>6, <2>7 DEF Next
<1> QED BY <1>1, ConstantsAreRight DEF Attended, Gone, OneSpeak

(* When the last descriptor is closed, and no tick was killed, the pipe is
   empty.                                                                  *)
LEMMA LastCloseFindsNothing ==
    ASSUME Inv, EndsOpen', Attended', NEW p \in Procs, Holds(p),
           NEW label \in {"exit", "killed"}, GoTo(p, label), readers' = {},
           p \in Ticks /\ label = "exit" => pc[p] = "exit_call"
    PROVE  data = <<>>
<1>0. TypeOK /\ EmptyEnds /\ Ticks \subseteq Procs
  BY ConstantsAreRight DEF Inv
<1>1. \A q \in Procs : pc'[q] = IF q = p THEN label ELSE pc[q]
  BY <1>0 DEF GoTo, TypeOK
<1>2. CASE p \in Ticks
  <2>1. label = "exit" /\ OneSpeak
    BY <1>0, <1>1, <1>2 DEF Attended, OneSpeak
  <2> QED BY <1>0, <1>2, <2>1 DEF EmptyEnds, SawEnd
<1>3. CASE p \in Speaks
  <2>1. p \notin Ticks
    BY <1>3, ConstantsAreRight
  <2>2. \A t \in Ticks : pc'[t] = pc[t] /\ ~Holds(t)'
    BY <1>0, <1>1, <2>1 DEF EndsOpen
  <2>3. \A t \in Ticks : pc[t] \in {"open", "exit"} /\ (pc[t] = "exit" => OneSpeak)
    BY <2>2 DEF Holds, Gone, Attended, OneSpeak
  <2>4. \A t \in Ticks : pc[t] # "exit"
    BY <1>0, <1>3, <2>3 DEF EmptyEnds, SawEnd, Holds
  <2> QED BY <1>0, <2>3, <2>4 DEF EmptyEnds
<1> QED BY <1>2, <1>3 DEF Procs

LEMMA LossQuiet ==
    ASSUME Inv, Attended' => Attended, UNCHANGED <<spoken, heard>>, Attended' => data' = data
    PROVE  NoneLost'
BY DEF Inv, NoneLost

LEMMA LossStep == Inv /\ [Next]_vars => NoneLost'
<1> SUFFICES ASSUME Inv, [Next]_vars PROVE NoneLost'
  OBVIOUS
<1>0. TypeOK /\ EndsOpen /\ EndsOpen' /\ (Attended' => Attended)
      /\ Speaks \subseteq Procs /\ Ticks \subseteq Procs
  BY EndsStep, AttendedBefore, ConstantsAreRight DEF Inv
<1> USE DEF pipe, speaking
<1>1. ASSUME NEW p \in Procs, Open(p) PROVE NoneLost'
  BY <1>0, <1>1, LossQuiet DEF Open
<1>2. ASSUME NEW p \in Procs, Exit(p) \/ Kill(p) PROVE NoneLost'
  <2>1. \E label \in {"exit", "killed"} :
           /\ GoTo(p, label) /\ CloseEnds(p) /\ Holds(p) /\ UNCHANGED <<spoken, heard>>
           /\ label = "exit" => pc[p] = "exit_call"
    BY <1>2 DEF Exit, Kill, Leave, Holds, Gone
  <2>2. ASSUME Attended', data' # data PROVE FALSE
    <3>1. data' = <<>> /\ readers' = {}
      BY <2>1, <2>2 DEF CloseEnds
    <3>2. data = <<>>
      BY <1>0, <2>1, <2>2, <3>1, LastCloseFindsNothing
    <3> QED BY <2>2, <3>1, <3>2
  <2> QED BY <1>0, <2>1, <2>2, LossQuiet
<1>3. ASSUME NEW s \in Speaks, NEW n \in LineLengths, Type(s, n) PROVE NoneLost'
  BY <1>0, <1>3, LossQuiet DEF Type
<1>4. ASSUME NEW s \in Speaks, ReadLine(s) \/ ReadEof(s) PROVE NoneLost'
  BY <1>0, <1>4, LossQuiet DEF ReadLine, ReadEof
<1>5. ASSUME NEW s \in Speaks, WriteFifo(s) PROVE NoneLost'
  <2>1. pc[s] = "write" /\ s \in Procs /\ s \notin Ticks
    BY <1>0, <1>5, ConstantsAreRight DEF WriteFifo
  <2>2. CASE UNCHANGED <<spoken, heard>> /\ data' = data
    BY <1>0, <2>2, LossQuiet
  <2>3. CASE UNCHANGED <<spoken, heard>> /\ readers = {} /\ data' \in {data, <<>>}
             /\ GoTo(s, "killed")
    <3>1. readers' = {} /\ Holds(s)
      BY <1>5, <2>1, <2>3 DEF WriteFifo, CloseEnds, Holds, Gone
    <3>2. ASSUME Attended' PROVE data = <<>>
      BY <1>0, <2>1, <2>3, <3>1, <3>2, LastCloseFindsNothing
    <3> QED BY <1>0, <2>3, <3>2, LossQuiet
  <2>4. ASSUME NEW b \in Nat, NEW c \in Seq(Characters), IsChunk(c, s, b), Speaking(s, c)
        PROVE  NoneLost'
    <3>1. data \in Seq(Characters) /\ spoken[s] \in Seq(Characters)
      BY <1>0 DEF TypeOK
    <3>2. ToSet(data') = ToSet(data) \cup ToSet(c)
      BY <2>4, <3>1, ConcatParts DEF Speaking
    <3>3. ToSet(spoken'[s]) = ToSet(spoken[s]) \cup ToSet(c)
      BY <2>4, <3>1, ConcatParts DEF Speaking
    <3>4. heard' = heard /\ \A r \in Speaks : r # s => spoken'[r] = spoken[r]
      BY <1>0, <2>4 DEF Speaking, TypeOK
    <3> SUFFICES ASSUME Attended', NEW r \in Speaks, NEW x \in ToSet(spoken'[r])
                 PROVE  x \in ToSet(data') \/ \E t \in Ticks : x \in ToSet(heard'[t])
      BY DEF NoneLost
    <3>5. x \in ToSet(spoken[r]) \/ x \in ToSet(c)
      BY <3>3, <3>4
    <3> QED BY <1>0, <3>2, <3>4, <3>5 DEF Inv, NoneLost
  <2> QED BY <1>5, <2>2, <2>3, <2>4, WriteSpeaks
<1>6. ASSUME NEW t \in Ticks, ReadFifo(t) PROVE NoneLost'
  <2>1. PICK a \in Seq(Characters) : Hearing(t, a)
    BY <1>6, ReadHears
  <2>2. data' \in Seq(Characters) /\ heard[t] \in Seq(Characters)
    BY <1>0, TypeStep DEF TypeOK, Characters
  <2>3. ToSet(data) = ToSet(a) \cup ToSet(data')
    BY <2>1, <2>2, ConcatParts DEF Hearing
  <2>4. ToSet(heard'[t]) = ToSet(heard[t]) \cup ToSet(a)
    BY <2>1, <2>2, ConcatParts DEF Hearing
  <2>5. spoken' = spoken /\ \A u \in Ticks : u # t => heard'[u] = heard[u]
    BY <1>0, <2>1 DEF Hearing, TypeOK
  <2> SUFFICES ASSUME Attended', NEW r \in Speaks, NEW x \in ToSet(spoken[r])
               PROVE  x \in ToSet(data') \/ \E u \in Ticks : x \in ToSet(heard'[u])
    BY <2>5 DEF NoneLost
  <2>6. x \in ToSet(data) \/ \E u \in Ticks : x \in ToSet(heard[u])
    BY <1>0 DEF Inv, NoneLost
  <2>7. \A u \in Ticks : ToSet(heard[u]) \subseteq ToSet(heard'[u])
    BY <2>4, <2>5
  <2> QED BY <2>3, <2>4, <2>6, <2>7
<1>7. ASSUME NEW t \in Ticks, Show(t) PROVE NoneLost'
  BY <1>0, <1>7, LossQuiet DEF Show
<1>8. CASE UNCHANGED vars
  BY <1>0, <1>8, LossQuiet DEF vars
<1> QED
  BY <1>1, <1>2, <1>3, <1>4, <1>5, <1>6, <1>7, <1>8 DEF Next

-----------------------------------------------------------------------------
LEMMA InvHolds == Spec => []Inv
<1>1. Inv /\ [Next]_vars => Inv'
  BY TypeStep, EndsStep, SpeakStep, FlightStep, EmptyStep, LossStep DEF Inv
<1> QED BY InvInit, <1>1, PTL DEF Spec

LEMMA InvSpoken == Inv => SpokenIsTyped
<1> SUFFICES ASSUME Inv, LinesFit, NEW s \in Speaks, pc[s] # "killed"
             PROVE  spoken[s] = [i \in 1..(chars[s] - Pending(s) - Unread(s)) |-> <<s, i>>]
  BY DEF SpokenIsTyped
<1>1. /\ Len(spoken[s]) = Top(s) - Pending(s)
      /\ \A i \in 1..Len(spoken[s]) : spoken[s][i] = <<s, i>>
  BY DEF Inv, SpeakOK, SpokenOK
<1>2. spoken[s] \in Seq(Characters)
  BY DEF Inv, TypeOK
<1>3. Top(s) - Pending(s) = chars[s] - Pending(s) - Unread(s)
  <2>1. tty[s] \in Seq(Characters \cup {LF}) /\ chars[s] \in Nat /\ num[s] \in Int
    BY ConstantsAreRight DEF Inv, TypeOK
  <2>2. Len(tty[s]) \in Nat
    BY <2>1, LenProperties
  <2>3. Unread(s) \in Int /\ Pending(s) \in Int
    BY <2>1, <2>2 DEF Unread, Pending
  <2> QED BY <2>1, <2>3 DEF Top
<1> QED BY <1>1, <1>2, <1>3, LenProperties

LEMMA InvHeard == Inv => HeardAsTyped
<1> SUFFICES ASSUME Inv PROVE HeardAsTyped
  OBVIOUS
<1>1. HeardOnceInOrder
  BY DEF Inv, InFlight, Known, HeardOnceInOrder
<1>2. NothingLost
  <2> SUFFICES ASSUME Attended
               PROVE  UNION {ToSet(spoken[s]) : s \in Speaks}
                        = ToSet(data) \cup UNION {ToSet(heard[t]) : t \in Ticks}
    BY DEF NothingLost, Attended
  <2>1. \A s \in Speaks : \A c \in ToSet(spoken[s]) :
           c \in ToSet(data) \/ \E t \in Ticks : c \in ToSet(heard[t])
    BY DEF Inv, NoneLost
  <2>2. ToSet(data) \in SUBSET Characters /\ \A t \in Ticks : ToSet(heard[t]) \in SUBSET Characters
    BY SetOfCharacters DEF Inv, TypeOK
  <2>3. \A c \in ToSet(data) : \E s \in Speaks : c \in ToSet(spoken[s])
    BY <2>2 DEF Inv, InFlight, Known, Characters
  <2>4. \A t \in Ticks : \A c \in ToSet(heard[t]) : \E s \in Speaks : c \in ToSet(spoken[s])
    BY <2>2 DEF Inv, InFlight, Known, Characters
  <2> QED BY <2>1, <2>3, <2>4
<1> QED BY <1>1, <1>2, InvSpoken DEF HeardAsTyped

(* The variables keep their types; in particular what speak takes for the size
   of a line is never more than its buffer holds, linefeed apart, and the pipe
   never holds more than its capacity (speak.asm 54-77, tick.asm 60-110).   *)
THEOREM TypeCorrect == Spec => []TypeOK
<1>1. Inv => TypeOK
  BY DEF Inv
<1> QED BY <1>1, InvHolds, PTL

(* What is typed is spoken, and what is spoken is heard once, in order and, as
   long as no tick is killed, all of it, for lines of any length where order is
   concerned and for lines that fit the buffer where every character is.    *)
THEOREM HeardAsItWasTyped == Spec => []HeardAsTyped
BY InvHeard, InvHolds, PTL
=============================================================================
