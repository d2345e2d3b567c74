-------------------------------- MODULE Pipe --------------------------------
(***************************************************************************)
(* The kernel's pipe, as the programs of inter-process-communication/ use  *)
(* it: a bounded queue of bytes with a set of processes that have its read *)
(* end open and a set that have its write end open.                        *)
(***************************************************************************)
EXTENDS Naturals, Sequences

CONSTANT Capacity

VARIABLES
    data,       \* bytes written and not yet read
    readers,    \* processes with the read end open
    writers     \* processes with the write end open

pipe == <<data, readers, writers>>

(* write(2) of a chunk of at most PIPE_BUF bytes: all of it, once there is room. *)
CanWrite(chunk) == readers # {} /\ Len(data) + Len(chunk) <= Capacity
WritePipe(chunk) == data' = data \o chunk

(* SIGPIPE: nobody is left to read. *)
Broken == readers = {}

(* read(2) of at most n bytes gives what there is and sleeps when there is
   nothing; it returns 0 once no writer is left.                           *)
CanRead == data # <<>> \/ writers = {}
ReadCount(n) == IF Len(data) < n THEN Len(data) ELSE n
ReadPipe(n) == SubSeq(data, 1, ReadCount(n))
TakePipe(n) == data' = SubSeq(data, ReadCount(n) + 1, Len(data))

(* Closing the last descriptor of all drops what nobody read. *)
CloseEnds(p) ==
    /\ readers' = readers \ {p}
    /\ writers' = writers \ {p}
    /\ data' = IF readers' \cup writers' = {} THEN <<>> ELSE data
=============================================================================
