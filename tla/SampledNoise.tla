---------------------------- MODULE SampledNoise ----------------------------
(***************************************************************************)
(* FastNoiseSIMD, FillSampledNoiseSet: noise is evaluated at the points of *)
(* a coarse grid, sampleSize apart, and interpolated in between, a cell of *)
(* the grid at a time and VECTOR_SIZE points at once.  The noise itself is *)
(* left out: a slot of the set holds the place it was interpolated for, in *)
(* halves of a unit.                                                       *)
(***************************************************************************)
EXTENDS Integers, TLC

CONSTANTS
    SampleJobs,     \* [vectorSize, sampleScale, start, size, vectors]
    Uninit

VARIABLES
    job, pc,
    x, y, z,        \* the cell of the coarse grid
    localCount,
    sample,         \* noiseSetSample: where the noise was evaluated, in halves
    noiseSet

vars == <<job, pc, x, y, z, localCount, sample, noiseSet>>

Axes == 1 .. 3
Slots(n) == 0 .. n - 1
sampleSize == 2 ^ job.sampleScale
ceil(n) == (n + sampleSize - 1) \div sampleSize
Count(size) == size[1] * size[2] * size[3]
At(size, i, j, k) == (i * size[2] + j) * size[3] + k    \* SAMPLE_INDEX, SET_INDEX

\* The points of the set in front of the first whole cell, which is how far
\* the coarse grid reaches in front of the set (0 for a vector set).
Offset(a) == IF job.vectors THEN 0
             ELSE (sampleSize - (job.start[a] % sampleSize)) % sampleSize

\* The points of the coarse grid along each axis.
sizeSample == [a \in Axes |-> ceil(job.size[a] + Offset(a)) + 1]

Init == /\ job \in SampleJobs
        /\ pc = "sample"
        /\ x = 0 /\ y = 0 /\ z = 0 /\ localCount = 0
        /\ sample = <<>> /\ noiseSet = <<>>

\* The noise at the point with number s of the coarse grid lies there.
PointOf(s) == <<s \div (sizeSample[2] * sizeSample[3]),
                (s \div sizeSample[3]) % sizeSample[2], s % sizeSample[3]>>

\* A box: GetEmptySet and FillNoiseSet from start >> sampleScale on, with the
\* frequency of a grid that is sampleSize as wide.
SampleBox ==
    /\ pc = "sample" /\ ~job.vectors
    /\ sample' = [s \in Slots(Count(sizeSample)) |-> [a \in Axes |->
           2 * sampleSize * (job.start[a] \div sampleSize + PointOf(s)[a])]]
    /\ noiseSet' = [s \in Slots(Count(job.size)) |-> Uninit]
    /\ pc' = "cell"
    /\ UNCHANGED <<job, x, y, z, localCount>>

\* A vector set that FillSamplingVectorSet made, evaluated half a unit before
\* its points.
SampleVectorSet ==
    /\ pc = "sample" /\ job.vectors
    /\ sample' = [s \in Slots(Count(sizeSample)) |-> [a \in Axes |->
           2 * (sampleSize * PointOf(s)[a] + job.start[a]) - 1]]
    /\ noiseSet' = [s \in Slots(Count(job.size)) |-> Uninit]
    /\ pc' = "cell"
    /\ UNCHANGED <<job, x, y, z, localCount>>

-----------------------------------------------------------------------------
\* Lane l of a vector is point localCount + l of the cell: its coordinates
\* within the cell are the groups of sampleScale bits of that number.
Local(l) == LET n == localCount + l
            IN  <<(n \div (sampleSize * sampleSize)) % sampleSize,
                  (n \div sampleSize) % sampleSize, n % sampleSize>>

\* Where in the set that point lies.
Corner == <<x, y, z>>
Place(l) == [a \in Axes |-> Corner[a] * sampleSize - Offset(a) + Local(l)[a]]
InSet(p) == \A a \in Axes : 0 <= p[a] /\ p[a] < job.size[a]
Slot(l) == At(job.size, Place(l)[1], Place(l)[2], Place(l)[3])

\* The eight corners lie sampleSize apart, and the three nested Lerps give the
\* place as far between them as the point, and half a unit, is into the cell.
Interpolated(l) ==
    [a \in Axes |->
        LET near == sample[At(sizeSample, x, y, z)][a]
            far  == sample[At(sizeSample, x + 1, y + 1, z + 1)][a]
        IN  near + ((far - near) * (2 * Local(l)[a] + 1)) \div (2 * sampleSize)]

localCountMax == sampleSize * sampleSize * sampleSize

\* One turn of the innermost loop; lanes past the set are not stored.
SampleVector ==
    /\ pc = "cell" /\ localCount < localCountMax
    /\ LET stored == {l \in 0 .. job.vectorSize - 1 : InSet(Place(l))}
       IN  noiseSet' =
             [s \in {Slot(l) : l \in stored} \cup DOMAIN noiseSet |->
                 IF \E l \in stored : Slot(l) = s
                 THEN Interpolated(CHOOSE l \in stored : Slot(l) = s) ELSE noiseSet[s]]
    /\ localCount' = localCount + job.vectorSize
    /\ UNCHANGED <<job, pc, x, y, z, sample>>

\* The cells are visited along z, then y, then x.
NextCell ==
    /\ pc = "cell" /\ localCount >= localCountMax
    /\ localCount' = 0
    /\ IF z + 2 < sizeSample[3] THEN z' = z + 1 /\ UNCHANGED <<x, y, pc>>
       ELSE /\ z' = 0
            /\ IF y + 2 < sizeSample[2] THEN y' = y + 1 /\ UNCHANGED <<x, pc>>
               ELSE y' = 0 /\ x' = x + 1
                    /\ pc' = IF x + 2 < sizeSample[1] THEN "cell" ELSE "done"
    /\ UNCHANGED <<job, sample, noiseSet>>

Next == SampleBox \/ SampleVectorSet \/ SampleVector \/ NextCell

Spec == Init /\ [][Next]_vars

-----------------------------------------------------------------------------
\* How far a box is moved that starts between two points of the coarse grid:
\* the cell it starts in is interpolated from the corners of the cell before,
\* and is as far off as the start is from the middle of the two points.
Shift(a) == IF job.vectors THEN 0 ELSE Offset(a) - (job.start[a] % sampleSize)

(* Every point of a filled set is interpolated for its own place: exactly at
   the point of a vector set, half a unit behind the grid point of a box that
   starts at a point of the coarse grid, and Shift further otherwise
   (FastNoiseSIMD_internal.cpp 2133-2271 and 2273-2413).                   *)
SampledAtPoint ==
    pc = "done" =>
        \A i \in Slots(job.size[1]), j \in Slots(job.size[2]), k \in Slots(job.size[3]) :
            noiseSet[At(job.size, i, j, k)] =
                [a \in Axes |-> 2 * (job.start[a] + <<i, j, k>>[a] + Shift(a))
                                  + IF job.vectors THEN 0 ELSE 1]

(* The coarse grid has every corner that is read, and nothing is stored
   outside the set.                                                        *)
CornersExist ==
    pc = "cell" => /\ x + 1 < sizeSample[1] /\ y + 1 < sizeSample[2] /\ z + 1 < sizeSample[3]
                   /\ DOMAIN noiseSet = Slots(Count(job.size))
=============================================================================
