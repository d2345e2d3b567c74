# TLA+ models of asm-systems-archive

The repository is an archive of x86-64 assembly programs for Linux: small
complete programs that talk to the kernel without libc, libraries of
conversions, and a boot CD-ROM; beside them it keeps C++ code that its author
collected for translation: container classes and string pools, and two noise
libraries. There is no single system. This project models the code that has
behaviour worth checking: programs whose processes or threads interact through
the kernel, and code that computes with a long-lived state. Every module is
translated from one program or class and can be read next to it.

Paths below are relative to the repository; `ipc/` stands for
`examples/tui/inter-process-communication/`, `af/` for
`manuals/agner-fog/cppexamples/`, `fn/` for `todos/fastnoise/`.

## Inventory

| Component | State it keeps | Operations | Interacts through | What is hard | Modules |
|---|---|---|---|---|---|
| threads (`ipc/threads`) | `count`, stacks | create, draw, print, exit | shared memory, clone, exit | interleaved decrements, failed clone or mmap, count below zero | `Threads`, `LineBudget`, `ThreadsProofs` |
| message queue (`ipc/message-queues`: kirk, spock) | System V queue, `msqid` | msgget, msgsnd, msgrcv, msgctl | the kernel's queue | removal under a sleeping peer, several of each, sizes, permissions | `MessageQueue`, `ThreadsProofs` |
| http server (`examples/tui/networking/http/httpserver`) | sockets, children | bind, accept, wait4, fork, read, write, close | sockets, fork, SIGPIPE | silent clients, kill, ctrl-C and restart, leaked descriptors, zombies | `HttpServer`, `ProcessesProofs` |
| file locking (`ipc/file-locking`) | record lock | open, F_SETLKW, F_SETLK, close | the kernel's locks | readers against writers, kills, errors that are never noticed | `FileLock`, `ProcessesProofs` |
| named pipe (`ipc/fifos-named-pipes`: speak, tick) | FIFO, buffers | open, read, write | the FIFO | several readers and writers, end of input, stale buffer | `Fifo` over `Pipe`, `FifoProofs` |
| pipe with fork (`ipc/pipes/pipedemo3`) | pipe, buffer | pipe, fork, read, write, close, wait4 | pipe, fork | end of the pipe, who waits for whom | `PipeDemo3` over `Pipe`, `ProcessesProofs` |
| sudoku solver (`projects/sudoku_solver`) | grid, call stack | find a blank, test, assign, backtrack | - | backtracking over many frames | `Sudoku`, `SudokuProofs` |
| bubble sort comparison (`projects/bubblesort`) | `work_array`, counters | three sorts, printing | - | bounds of the passes, state left by an earlier run | `BubbleSortConstants`, `BubbleSort`, `BubbleSortProofs` |
| container classes (`af/`: eight classes) | buffer, counts, head, tail | put, get, push, pop, index, reserve, search, insert, remove | client calls, new[] | growth of a ring that has wrapped, alignment, boundaries of the binary search, arguments inside the container | `Containers`, `DynamicQueue`, `FIFOlist`, `FILOlist`, `DynamicArray`, `AlignedArray`, `SafeArray`, `MixedPool`, `SortedList`; `FifoQueue`, `ZeroedArray`; `ContainersProofs` |
| string pools (`af/StringPoolS`, `L`, `W`) | buffer, offsets, sizes, Top | set, append, substring, clear, reserve | client calls, new[] | garbage collection while a string is being stored, offset 0, self-append, lengths that do not fit | `StringPoolS`, `StringPoolL`, `StringPoolW`; `StringTable`; `StringPoolProofs` |
| FastNoise (`fn/noise`) | settings, bounding | setters, noise functions | client calls | settings in any order, cell borders, order of the cellular loop | `FractalNoise`, `LatticeNoise`, `SimplexNoise`, `CellularNoise`; `NoiseProofs` |
| FastNoiseSIMD (`fn/fastnoisesimd`) | static level, settings, sets | choose a level, allocate, fill, sample, free | client calls, CPU features | vectors over row ends, rounding of sizes, one static level for all objects | `NoiseLevels`, `NoiseSet`, `SampledNoise`, and the four of FastNoise; `NoiseProofs` |
| other pipe demos, fork, signal, semaphore, execve demos; key filter; boot CD-ROM; josephus; oop classes; libraries; formatting programs, GUI, CGI, AVX, databases, network clients, headers, other manuals and todos | | | | see Not modelled | not modelled |

What makes each component correct is said with its run below.

The components interact only inside a row: two programs of one row share a
queue, a FIFO or a lock; programs of different rows never meet.
FastNoise and FastNoiseSIMD are two implementations of the same functions and
share modules where their code is the same.

## Modules and their code

**Threads** has one action for each system call or locked instruction of
`threads.asm`: `StackCreate` and `StackCreateFails` (mmap), `ThreadCreate`
(clone, whose failure is not tested), `CheckCount` (`lock xadd` and the `jl`
after it, one step because only `count` is shared), `Puts` (one write). The
number of workers and of lines are parameters. `LineBudget` states without
threads what the program promises, and `ImplementsLines` is the refinement:
`drawn` is what count has lost, `written` what was printed.

**MessageQueue** has any number of kirks and spocks on one key. The kernel is
`live` (the queue the key names), `msgs` and `lastId`; identifiers are not
reused. What a `read` returns is a constant set, because kirk tests no error and
sends `nbytesread + 8` bytes, whatever it got. `Privileged` says whether the
user is root, which decides what the decimal mode 0644 allows.

**HttpServer** has a parent, a child for each connection and clients that may be
silent or leave. A child inherits the listening socket and never closes it,
so the port stays in use after the parent was killed: `Holders`, `PortInUse`.
The header names two ways to end the program: `Kill` (kill [pid]) stops the
parent alone, `CtrlC` is a SIGINT to the foreground process group and takes the
children of this start along, with the connections they serve. `Start` is the
restart. wait4, fork and close of the
parent are separate actions, in the order of the code.

**FileLock** takes into account that `js` after a bare `syscall` never jumps, so
that no error is noticed. The kernel's record locks are `lock` and `Conflict`;
`screen` is what a terminal says. The fcntl that takes or gives back the lock and
the write of the message about it are steps of their own, and a kill, or another
process, may come in between.

**Pipe** is the kernel's pipe as these programs use it (atomic writes of at most
PIPE_BUF bytes, end of file when no writer is left, SIGPIPE when no reader is).
**Fifo** adds speak and tick and the open that waits for the other end.
**PipeDemo3** adds the fork; note that `je parent` sends the forked process to
the label `parent`: the model calls the two processes `Original` and `Forked`.
That 'Child finished' may stand on the screen before the text is said by the
source itself (pipedemo3.asm:107), so no property is about it.

**Sudoku** is `solve_sudoku` as a machine: a frame holds r12, r13 and r14,
`pc` says whether the routine is being called, is trying a digit or returns,
`rax` is its result. Boxes are B by B, and the puzzle is any of `Puzzles`.
The properties use `Sees` and `Solutions`, which do not mention the solver's
helpers.

**BubbleSort** is the three sorts over one `work_array` with the quadword behind
it (cell N + 1), which the first pass of the second and third sort also compares.
Its constants stand in **BubbleSortConstants**, so that a module can instantiate
the sorts without them.
The direction flag is part of the state: the conversion to decimal leaves it set.

**Containers** holds what the classes of `af/` share: the template parameters,
buffers as functions from slots, `Junk` for memory never written, the size that
an automatic growth asks for. One module per class, one action per member
function and outcome. `DynamicQueue` and `FIFOlist` implement `FifoQueue`;
`FILOlist`, `DynamicArray`, `AlignedArray`, `SafeArray` and `MixedPool` implement
`ZeroedArray`, an array that reads back what was written and grows with zeroes.
In `SortedList` a call that searches takes one step for each turn of its loop.
Its argument is a reference: `at` says whether it is a record of the list, and
`Shifted` what such a reference reads after the memmove of Put.
`AlignedArray` counts addresses in bytes, and new[] may return any of them.

**StringPoolS** and **StringPoolL** are the pools with terminated strings and
with length words; a call is one action, as in a program of one thread.
**StringPoolW** has the functions of StringPoolS for wide characters, and other
names for two of them. All three implement `StringTable`: strings by their
number. `Rules` names what clients have to take care of, because the classes do
not: "grow" and "clear" (findings 4 and 5), "long" and "self" (see Seen in the
string pools). A call that breaks "self" is modelled as what it does
(`WithoutZero`).

**NoiseLevels** is the static SIMD level of FastNoiseSIMD.cpp, with the sets and
objects that depend on it. **NoiseSet** fills a set by vectors; a slot holds at
which point noise was evaluated and whether it was perturbed, not its value, so
that a wrong lane shows; `behind` is how far the last load of points reached
behind them. **SampledNoise** does the same for the coarse grid. **FractalNoise** has the
setters of octaves and gain with the bounding they keep, and the loops over
octaves of both libraries, in which one octave's noise may be anything in its
range. **LatticeNoise** keeps noise as the lattice points it is blended from and
their weights, **SimplexNoise** as the corners of the simplex, **CellularNoise**
as the distances kept while the cells are visited, in the source's three texts
of that loop.

**MCThreads**, **MCProcesses**, **MCPrograms**, **MCContainers** and **MCNoise**
put several of these side by side: a variable (`subject`; `program` in
MCPrograms), chosen at the start, says which one moves, and the others stay as they are. Nothing else is shared, so that a run
explores each of them as if it were alone. `Fifo` is small enough to be run by
itself. The parameters of all of them are constants that the configurations give
a value, so that the theorems are about every value.

## Runs

| Run | Checks | Bounds, and why they are enough |
|---|---|---|
| `threads` | conservation of lines, the end, refinement of `LineBudget` | 2 workers as in the code, 4 lines: more lines than threads, so every thread prints, overshoots and ends in every order |
| | message queue: what is sent is delivered once and in order, removal ends spock, blocked sender released | 2 kirks (one with two lines), 2 spocks, a queue of one message: kirks block on each other, queues are removed and created again; sizes 200 and 201 bytes around the limit of msgrcv, and two error codes |
| `message_queue_order` | VIOLATION, finding 1 | one of each, not root |
| `processes` | http server, stopped by kill or ctrl-C: connections end right, clients are served, bind ends | 2 clients, 2 starts, a backlog of one: a child of the first server outlives it, a client waits in the backlog while another is served or silent |
| | file locking, killed between any two system calls: exclusion, terminal and kernel never more than one call apart, lock granted | 2 writers and 2 readers: readers share, and either kind waits for either |
| | pipedemo3: the text shown is the message, all or nothing, and both end | a message of 23 characters read 3 at a time; the code's has 271 and is read CHARSTOREAD at a time: the last piece is short in both |
| `file_lock_no_file` | VIOLATION, finding 2 | two writers |
| `fifo` | heard as typed (spoken is typed, heard once and in order, nothing lost), nobody waits for ever | 2 speaks, 2 ticks; lines of 0, 1 and 2 characters with a buffer of 3 and a pipe of 3: two short lines fit the pipe, two long ones do not |
| `programs` | sudoku: a solution shown is one, "no solution" is true, first solution, the end | 4x4 grids (B = 2): 438 puzzles with up to five blanks made from a solved grid and from a spoiled one, so that there are puzzles with one, several and no solutions and puzzles that contradict themselves |
| | bubble sort: sorted at the end, swaps equal inversions, runs 1 and 3 show the sorted numbers | all 3125 arrays of five numbers in -2..2: the 0 behind the array is smaller than, equal to or greater than the others |
| `bubble_sort_30` | VIOLATION, finding 3 | the program's own array |
| `containers` | types; the list is sorted, its search is right and its calls do what they return; unchecked accesses in memory; each class implements its abstract specification | up to 3 records and growth by one: rings wrap at every size, lists fill up, arrays grow twice; arguments inside the container; keys that are equal though the objects differ; every remainder of an address by the alignment (4 bytes, vectors of two entries) |
| | string pools implement `StringTable` under the rules "grow", "clear", "long" and "self" | two numbers, strings of up to 2 characters (3 for the length word that holds 2). StringPoolS: two characters and blocks of up to 8, in which one string grows and moves; StringPoolW: one character and blocks of up to 12, so that two strings are moved together by garbage collection; StringPoolL: one character and blocks of up to 13. A larger block is a failing new[]. States that differ only in the last call of a pool are explored once (VIEW): no action reads that call, and the properties read it in the step that makes it |
| `string_pool_grow` | VIOLATION, finding 4 | as in `containers`, without the rule "grow" |
| `string_pool_clear` | VIOLATION, finding 5 | as in `containers`, without the rule "clear" |
| `noise` | every slot holds the noise of its own point, perturbed but in an unaligned rest; sampled points are interpolated for the place that is stated | boxes of up to 2 x 3 x 9, vectors of 1, 4 and 8: vectors within a row, over several rows and planes, and rests, perturbed and not; sample sizes 2 and 4 with starts at and between points of the coarse grid |
| | memory: no access outside a set but the load of an unaligned rest, no wrong free, no missing feature | sets of 4 and 5 numbers with vectors of 1 to 16, four builds and five CPUs |
| | blending is continuous, in range and the same in both libraries; simplex corners | places in quarters of a cell on both sides of 0; all orders of four coordinates, equal ones included |
| | cellular: the least distances, the first nearest cell, the answer | 3 cells of 3 distances, indices below, within and above their range |
| | fractal noise and perturbation stay in range | up to 3 octaves, gains 1/2 and 3/2 |
| `noise_perturb` | VIOLATION, finding 6 | as in `noise` |

Runs share a configuration where systems are small, so that each run answers a
family of questions; the properties of one subject hold for the others because
they do not move.

Every property of a passing run has a mutant in PROJECT.json: a definition with
a plausible slip of the code (a test left out, a bound off by one, a forgotten
close) under which TLC finds the property violated. The mutants stand in the
modules, before the definition they replace, and are used by nothing else.

CHECK_DEADLOCK FALSE is set where the system stops: all processes gone, or
waiting for a user or a client who owes nothing, a call that ended the program,
a noise function that has returned. `Sudoku` and `BubbleSort` end with an
explicit step of the finished system, so that a deadlock would show.

## Fairness

The kernel runs every runnable process and thread: weak fairness of each one's
own steps. Steps that sleep on a shared resource which may come free and be
taken again (F_SETLKW, reads and writes of the FIFO) have strong fairness,
because the kernel wakes sleepers in turn. Users, clients and kills have none:
nobody has to type, to send or to close. There are two exceptions. In `FileLock`
the user presses RETURN, since a holder who never does keeps the lock for good.
In `HttpServer` the property `BindEnds` assumes clients that send a request once
connected (`PoliteClients`); a silent client holds its child, and with it the
port, for ever. The containers and noise modules have no fairness: nobody has to
call them, and a call that loops is bounded by its own counter.

## Findings

1. `message_queue_order`: NASM reads `0644` as decimal, which is 1204 octal. The
   queue kirk creates cannot be read by its owner, and spock, run after kirk as
   the Makefile says (line 28), is refused unless the user is root.
2. `file_lock_no_file`: `js` after a bare `syscall` tests flags that the call did
   not set. Without `lockdemo.c`, which the repository does not have, every
   process says that it got the lock.
3. `bubble_sort_30`: r10 starts one too large in the second and third sort. The
   second one takes the 0 behind the array in and pushes the largest number out.
   The third starts with that number behind the array and is right by luck,
   which `Run1And3Sort` shows to hold for every array.
4. `string_pool_grow`: the comment in `Allocate` says that the string at Top can
   grow without overwriting others. Garbage collection orders strings by number
   and sets Top to the last of them, so that a string with a smaller number that
   was at Top is written over the one with the highest number.
5. `string_pool_clear`: StringPoolS.cpp:43-44 says that unused numbers below the
   highest used one are empty strings. Clear leaves DataSize at 0 (236), so that
   the next string is stored at offset 0, where every unused number points: all
   of them read as that string.
6. `noise_perturb`: FastNoiseSIMD.h:215 calls the amplitude the maximum distance
   that a position can be perturbed. A fractal perturbation is scaled by the
   bounding of the noise's own octaves and gain, not by its own
   (FastNoiseSIMD_internal.cpp:1091): with one octave of noise and two of
   perturbation it goes further. `WarpWithinReach`, in the passing run, states
   how far.

Seen while modelling and not the subject of a run: kirk adds 8 to the length, so
lines of 193 to 200 characters cannot be received and make spock say
"Identifier removed"; the last child of the http server stays a zombie until
another client comes; in speak a line of exactly 300 characters loses its last
character and its linefeed ends the program. The models do what the code does
in all three.

Seen in the string pools, and excluded by a rule of the model's clients: the
substring and append functions of StringPoolL that do not check a length lose its
upper bits (rule "long"); a string at Top that is appended to itself in place
loses its zero, because the copy writes its first byte over the zero that it
has still to read (StringPoolS.cpp:328-329, StringPoolL.cpp:353-354; rule "self").
No comment speaks of either. Together with the rules "grow" and "clear" these are
the four that `PoolsImplement` and `AccessInMemory` need: without "self" the run
`containers` finds `PoolsImplement` violated, without "long" `AccessInMemory`, but
that only with strings longer than its bound (MaxLen 3, whose run takes three times
as long; at MaxLen 2 no string outgrows its word). A read before the first text dereferences a null pointer: the
models have it as "crashed".

Seen in SortedList: Put and PutUnique take their argument by reference, and
memmove shifts the records before it is copied (SortedList.cpp:105-108). After
list.Put(list[j]) the record stored is the one before j, if it is equal in the
order to that of j, and otherwise j's own, for the search ends at j then.
`CallsAreRight` says which (`Stored`).

Seen in the noise libraries: SetPerturbAmp divides by 511.5 and the initial
amplitude of 1 does not (FastNoiseSIMD.h:214-217, 316), so that the default
perturbs by far more than its comment says; `SetSeed` may
read m_perm[256] before it is written (FastNoise.cpp:209-211); a negative gain
can make the amplitudes add up to 0, by which the bounding divides; FastFloor is
one too low at negative whole numbers, which is harmless for blending
(`CellsMeet`, `BlendInRange`). Three are stated by the properties as they are. The last numbers of a vector set that is not
aligned are stored without the perturbation that all the others get
(FastNoiseSIMD_internal.cpp:1386-1403; `SetHoldsNoise`), and they are loaded as
whole vectors, the last of which lies partly behind zSet, outside the memory of
the points (1391-1393; `LoadsInSet` says by how many numbers). FN_ALIGNED_SETS,
the default, has neither. Every point of a sampled vector set is interpolated at
its point, and of a sampled box half a unit behind its grid point, if the box
starts at a point of the coarse grid; one that starts r behind such a point is
S - 2r units further out of place, where S is the sample size, because its lanes
start at -(S - r) instead of -r (2148-2150; `Shift` in `SampledAtPoint`): nothing
only for r = S/2.
`NoiseLevels` has two rules of clients, both from FastNoiseSIMD.h:129-130:
the level is one that is compiled in and supported ("compiled"), and it is not
changed while objects or sets exist ("fresh"). A client that does so against that
caution is not modelled.

## Proofs

TLAPS proves the following for every value of the constants; the runs above
check the same definitions on small instances. The only assumptions are the
named ones on the constants, which TLC evaluates on every run. They say no more
than the constants' types, that what is counted or allocated is at least one
(`BAssumption`, `CellsAssumption`, `BufferAssumption`, `ContainersAssumption`,
`GranuleAssumption`), two numbers at least to sort (`NAssumption`), that two kinds
of processes are disjoint (`DisjointAssumption`, `QueueAssumption`), that None is no
client (`HttpAssumption`), that Uninit is no point of a set (`UninitAssumption`), that the message of pipedemo3 fits the pipe
(`Demo3Assumption`; it has 271 characters), that the alignment is a multiple of
the size of a vector (`VectorAssumption`; 16 bytes in the code), that no string
holds the zero that ends strings (`StringsAssumption`), that the sizes of
boxes, vector sets, vectors and samples are at least one (`JobsAssumption`,
`SampleJobsAssumption`), that SSE2 is compiled into every build
(`BuildsAssumption`; FastNoiseSIMD.h:41), that the places at which noise is asked for
are whole numbers of the unit of the models, a quarter for `LatticeNoise`
(`PlacesAssumption`), and that the noise of a single octave lies
between -1 and 1, with as many octaves allowed as the constructor sets
(`OctavesAssumption`).

**ThreadsProofs.** *Threads* (any number of workers and lines): `TypeCorrect`,
`LinesAreConserved`, `OvershootIsBounded`, `EndPrintsEveryLine`,
`TicketsAreUnique` and `ThreadsRefineBudget`. Conservation is not inductive by
itself. The invariant adds where main stands in the order of creation
(`CreationOrder`: a worker not yet created has not moved), and that count is
below zero by exactly the threads that have ended (`OvershootIsExited`), so that
the sum of what is left, drawn and printed survives the decrements past zero.
That no two threads print the same line follows from distinct values of rax that
all lie above count. The refinement maps Init to Init and every step to a step
of `LineBudget` or a stutter; its fairness is left to TLC.
*Message queue* (any kirks and spocks, lines and limit of the queue):
`QueueTypeCorrect`, `EveryLineDelivered`. The type invariant is not inductive by
itself: that identifiers never run past the number of processes needs `Opened`,
by which the queues opened are counted by the processes that are past msgget.
That a kirk which ends with status 0 has sent all its lines needs `LinesSent`: as
long as it is at work, the lines it has read are those it sent to the queue it
opened, in ascending order, and at msgsnd the one in its hands. Another kirk may
send to the same queue and a spock may remove it in between; both leave the own
messages of this kirk alone (`Own`).

**ProcessesProofs** (any processes, clients, starts, backlog, message, pieces).
*File locking*: `TypeCorrect`, `MessagesAreTrue`, `LockIsExclusive`. The kernel
keeps conflicting locks apart (`LocksAgree`); a lock is held from one fcntl to the
other (`HeldHere`) and spoken of from one write to the other (`SaidHere`), and the
two intervals overlap but for a step at each end. `HeldHere` needs `OpenedOK`, which holds only if the file exists. That is the
hypothesis of both theorems, and finding 2 shows that it cannot be dropped.
*Http server*: `ConnectionsServed`. The invariant follows a connection from accept
to the end of its child: `InHand` says what the parent holds between accept and
close, `ChildServes` that a child closes its descriptor only after it answered, or
was killed by ctrl-C,
and `Accepted` that a connection without a child is in the parent's hands, had a
failed fork or lost its server. *pipedemo3*: `TextShown`. `EndsOpen` tells who has
an end of the pipe open by where the two processes stand; so the reader meets the
end of the pipe only after the writer has written or can no longer write, and
`TextFlows` says that screen and pipe together are nothing or the message.

**FifoProofs** (any speaks and ticks, size of the pipe and of the buffers, lines
of any length): `TypeCorrect`, `HeardAsItWasTyped`. The invariant says how far
each character has come: unread in the terminal (`TtyOK`), between read and write
(`PendingOK`), spoken (`SpokenOK`), in the pipe or heard (`InFlight`), and when the
pipe may vanish with what is in it (`EmptyEnds`: only if every tick is gone, and
a tick that left by itself has seen the end with nothing left). `NoneLost` is the
conclusion of these for the ticks that attend to the end.

**BubbleSortProofs** (any length from two on, any array): `TypeCorrect`,
`StringsGoUpwards`, `EverySortSorts`, `EverySwapRemovesAnInversion`,
`FirstAndThirdRunSort`. Within a sort the invariant is `OrderInv`: the tail
beyond r10 is final, the cell at i is the largest passed, a pass without a swap
has found its cells in order, and nothing is out of order behind the last swap.
Each of the three ways to shorten the passes uses one of these. `NumbersInv`
follows the numbers through the three sorts: the first permutes the array
(`SwapOccurrences`, by a bijection of cells); the second may exchange one number
with the quadword behind, but leaves there one that is no smaller than any of
orig_array (`LargestBehind`); so the third never swaps at the end of the array
and permutes it again. That a swap removes exactly one inversion is
`SwapRemovesOne`, a bijection of the pairs in the wrong order.

**SudokuProofs** (boxes of every size, every puzzle): `TypeCorrect`,
`NoConflictIsAdded`, `SolvedIsTrue`, `NoSolutionIsMissed`, `FirstIsFound`.
`IsSafeIsTheRule` shows that the three tests of is_safe are the rule of the game
(the arithmetic of box_start), and `FullGrid` that the search for a blank fails
only on a full grid. `FrameInv` ties the grid to the call stack: it is the puzzle
with the digits of the frames, each on a cell of its own, blank in the puzzle and
the first that the frames before it have left. `SearchInv` says that the search
has passed over no solution: one that agrees with the frames below has no smaller
digit in the cell of a frame (`NoneMissed`), and after a failed call none agrees
with all of them (`NoneLeft`). With an empty stack that is "no solution"; with a
full grid, and the frames in order, it is `FirstFound`.

**ContainersProofs** (every MAXSIZE, growth, granularity and size of vectors,
every set of objects and every Key, wherever new[] finds memory).
*SortedList*: `TypeCorrect`, `ListSorted`, `SearchFinds`, `CallsRight`. `Sorted` and
`LowerBound` need each other: a search halves its interval rightly because the
list is in order, and an insertion keeps the order because the search ended at
the lower bound. The invariant adds `RoomToInsert`, that a call that will insert
was let in only with room, without which the shift of the records would leave the
list. `CallsRight` counts the records before and after a call: `CountWith` says by
a bijection of places how a record put between others changes the counts, the
invariant which record a reference into the list reads after the shift, and
`FoundIsEqual` that the search ends at the first equal record if there is one.
*The other classes*: `ClassesImplement` is the refinement of `FifoQueue` and
`ZeroedArray`, class by class (`ListStep`, `QueueStep`, `StackStep`, `SafeStep`,
`ArrayStep`, `AlignStep`, `MixedStep`). What a ring or a block of slots holds is a
sequence (`RingIsSeq`, `BlockIsSeq`); the lemmas after them say what each operation
on slots does to that sequence, growth included: `RingMove` is why a ring that has
wrapped may be unrolled into a new buffer. The invariants add what is needed for
that: the head is where the ring ends, a queue without a buffer is empty, entries
in use are objects, and in the classes whose new entries must read zero what is
behind the last entry (`MixedInv`). `VectorsAligned` is the part of
`AccessInMemory` about AlignedArray: the data start at a multiple of the alignment
inside the block that new[] returned (`AlignPlaced`), so that every vector that
`Vect` accepts is aligned to its size and inside the block. `AllTypesCorrect` and
`AccessesInMemory` are about classes and string pools together, as the run checks
them; for that the module extends StringPoolProofs, and they share its hypothesis.

**StringPoolProofs** (any characters, any strings that clients pass, any first
sizes of buffer and index, any limits of memory and of lengths):
`TablesImplement`. The invariant `TPool` is one for the three classes; w is the
number of cells that a string takes besides its characters. By it the strings in
use lie apart from each other and below DataSize, and the one at Top lies last
(`Placed`); the offset 0 is the empty string (`Headed`); GarbageSize and the strings in use
together are no more than DataSize (`Counted`, by the cardinality of the cells
they take); and the cells of string j are the image of a string str[j]
(`Content`). What a client reads is then str (`ZReads`, `LReads`: strlen ends at the
zero because the characters before it are none), and the refinement says what
each call makes of str (`PoolStep`, `TSteps`). `PutOK` is the heart: a string put
where nothing else is leaves the others as they were. `AllocOK` shows that each of
the three ways of Allocate finds such a place, and `CollectOK` and `GatheredOK` that garbage
collection, which puts each string where those of the lower numbers end, moves them
all without an overlap and into a buffer that holds them, because it frees what
`Counted` knows. The theorems have the hypothesis that clients keep the four rules
"grow", "clear", "long" and "self", in other words that the weaknesses of the classes do
not bite. They are for four places: "grow" where the string at Top outgrows the buffer and
"clear" where offset 0 has to stay empty (findings 4 and 5 show what happens
without them), "long" where a length must fit its word, "self" where the zero has
to be read before it is overwritten. StringPoolW needs no new
argument: its operators are those of StringPoolS (`WSame` and the lemmas before it).

**NoiseProofs.** *CellularNoise* (any number of cells, any distances below Far, any
indices): `TypeCorrect`, `LeastKept`, `FirstIsClosest`, `AnswerCorrect`. `IsLeast(s, k, v)` says
by counting that v is number k of the distances s in order, so that neither a
sort nor an induction over the sequence is needed. `CountsOfAppend` is how one
more distance changes the counts; `LeastFirst` and `LeastNext` are what the two
updates of the loop, distance[0] by the minimum and distance[i] by its old value
and the one below, then make of the least; `EdgesOK` puts them together for the
loop that runs from the highest index down. The invariant adds that the kept
distances are in order (`EdgesKept`), which the minimum and maximum rely on, and
that the cell kept is the one whose distance is kept (`ClosestKept`). The answer
of each return type is then what it would be after a sort of all distances: there
is only one number k of them (so the property's CHOOSE names it), and a difference
is not negative because the setter puts the two indices in order.
The other theorems are about `MCSpec`, in which the modules stand side by side, and
`NoiseInv` is the invariant of whichever of them moves.
*Memory* (any builds, processors, jobs and sizes): `AccessesKnown`. In `NoiseLevels`,
for clients that keep its two rules, the
level once chosen is one the build and the processor have, and while an object or
a set lives it stays, so that the class of every object, the aligned size of the
set and the allocator that frees it belong to one level (`LevelInv`: `LevelOK`,
`OneClass`, `SetFits`). In `NoiseSet` the vectors stored stay in the memory of the
set (`VectorFits`), also when rows are stored as whole vectors, because the rounded
size is then the size itself (`RowsOK`); in `SampledNoise` the eight corners of every
coarse cell exist. What is loaded from the points stays in them as well (`PointsFit`),
but for the rest of an unaligned set, for which `LoadsInSet` has the number of
those behind (`SetLoadsOK`, `LoopMaxOK`).
*Fractals* (any octaves, gains, amplitudes, in any order of the setters):
`FractalsInRange`. `FractalInv` says that each bounding is the sum of amplitudes of
the settings it belongs to, which the setters of octaves and gain both maintain,
and that the sum in the loop is at most the amplitudes of the octaves so far. After
the loop that is the divisor, but in a perturbation of FastNoiseSIMD, which divides
by the bounding of the noise: there the theorem bounds the distance by the quotient
of the two, and `RigidMulti`, whose sum has no bounding in the code, is left out.
*Sets* (boxes and vector sets of any size, vectors of any size, samples of any
power of two): `NoiseOfItsPoint`. The invariant `SetInv` says that every slot in front
of index holds the noise of its own point (`Filled`). Points are numbered in the
order of the set (`Pos`); in a row of any length lane l is at point number
index + l, and the invariant keeps it so when a vector runs over the end of rows
and planes. `AxisResetOK` is the reason: a round of AXIS_RESET never changes the
number of a lane, and the rounds made suffice to bring it back into its row.
That its number determines a point, and that every number below the size has one,
is division with rest (`DivMod`, `DigitsOf`). In `SampleInv` the points visited
so far are stored at their own place (`Visited`, `PointsStored`): every point of the box has
one lane in one coarse cell (`LaneOfPoint`), no other lane writes its slot (`SlotOK`),
and what is written is interpolated between the right corners (`CornerOK`,
`InterpolatedOK`). The theorem has no hypothesis: where the code goes astray, in
the rest of an unaligned vector set (`RestIsStored`) and in boxes that start between
two coarse points (`Shift`), it says by what.
*Blending* (any place, on either side of 0): `BlendsAreRight`. The weights of
`LatticeNoise` are sums over finite sets, for which the community module has a recursive
definition; that such a sum exists (`SumsExist`, by induction on the size), takes its
points in any order and is linear (`SumSplit`, `TotalLinear`, by well-founded induction
on the subsets of a set) is shown first. A blend is then made of layers, one for each axis and the
same in all four ways to blend: the total of a layer is the total of its sums times the
weight of the axis, and each point gets its part of one of the sums (`Laid`,
`LerpLayerOK`, `CubicLayerOK`), so that its weight is the product of its parts along the axes
(`Blend2OK`, `Blend3OK`). The invariant `LatticeInv` says which blend was returned for
which kernel; `ReturnedBlend` and `CellsFit`, that it belongs to a cell that touches the
place (`Fits`), which is all that `FastFloor` promises left of 0. The three parts of the
property then need one axis only: on a border between cells only the points of the
border have a part (`AxisMeets`), and of two cells that both touch the place each gives a point
the same part (`AxisAgrees`).
For simplex noise, `SimplexInv` says which corners were returned. In two and three
dimensions the comparisons of the code are gone through, in four the orders that
the six comparisons can have together, each with its row of SIMPLEX_4D (`MasksOK`);
from the corners in between it follows that each differs from the one before in one
coordinate, in an order in which the coordinates do not grow (`SimplexOf2`,
`SimplexOf3`, `SimplexOf4`).

What the properties do not say. A kirk may sleep for ever in msgsnd on a full queue
after the last spock ended: `BlockedSenderReleased` is about one with a spock
attached, and is fulfilled also by a kirk that is killed. No property of a run
depends on the direction flag in `BubbleSort`, which only the proofs follow. The
abstract specifications of containers and pools allow an error or a failed new[] at any call, so that
`ListsImplement` and `PoolsImplement` would not notice an error without a reason.
`AnswerIsTrue` leaves Distance2Add, Distance2Mul and Distance2Cave open. In `fifo` each speak reads one line before the end
of its input. Vectors wider than AlignBy, 16 bytes, are excluded by
`VectorAssumption`, though AlignedArray.cpp:20-21 speaks of "__m128 or bigger": Vect
would accept them where they are not aligned to their size. 

Only model-checked: every liveness property and the fairness of the refinements
(the prover handles neither ENABLED nor fairness). Each safety property of the
passing runs is stated by a theorem; those of the bubble sort are stated of module
`BubbleSort` itself, which `MCPrograms` instantiates for the run.

## Plan

The plan of the project was, in this order: threads and processes around the
kernel; the two algorithms with a long state (sudoku, bubble sort) with proofs of
what they compute; the containers and string pools with their abstract
specifications; the noise libraries, from the bookkeeping of sets to the
functions of a lane. All of it is done. What would be worth adding next:
`PipeDemo2` and `PipeDemo5` over `Pipe`.

## Not modelled

- Programs of one step, whose only effect is output: basics, isatty, sigint,
  sigfpe, pipedemo1, the calendar and easter projects' printing; programs that
  fork or poll once (forkdemo, forkprimer, sigusr), whose steps one test run
  covers; the conversion, date and string libraries and the bit classes, tables
  and fixed shifts without state.
- GUI programs, CGI, databases: nearly everything happens in libraries.
- Network clients and the VAT checkers: a fixed sequence of calls to a service.
- AVX and floating point examples (quadratic equations, biorhythm): arithmetic
  on reals, out of TLC's reach. The mersenne twister: 624 words of state.
- execve demos, pipedemo4 and 6: what matters happens in the program executed;
  the boot loader and kernel: what matters is on a disk or in the BIOS; keyfilter:
  in the terminal driver; the semaphore demo: its initsem is empty.
- In the noise libraries: the permutation tables, the hashes and white noise,
  which are arithmetic on words chosen at random; the contribution of a simplex
  corner and SimplexFractalBlend's sums, which are real arithmetic; the types
  White Noise and Cellular of a NoiseLookup, which the lookup leaves without a
  result; level 0 in a 64-bit build and NEON, which the build selects by macros.
- In the containers: the texts of errors, and functions that only return a count
  or a size.
- Headers, the guides and examples of others, vendored CPU detection, unfinished
  copies under todos: no state of this repository's own, or not its code.

PROJECT.json lists each of them with the reason; the hazards of pipedemo2 and 5,
forkdemo, sigusr and keyfilter are named there.
