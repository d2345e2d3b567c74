------------------------------ MODULE NoiseSet ------------------------------
(***************************************************************************)
(* FastNoiseSIMD: a set of noise is filled one vector of VECTOR_SIZE       *)
(* numbers at a time, from a box of grid points or from a vector set of    *)
(* points.  The arithmetic of the noise is left out: a cell of the set     *)
(* holds which noise was evaluated, at which point, and how the point was  *)
(* changed.  The sizes of a box are at least 1.                            *)
(***************************************************************************)
EXTENDS Integers, Sequences, FiniteSets, TLC

CONSTANTS
    Jobs,       \* what clients ask for: the settings of an object and the arguments
    Uninit      \* what memory reads as that was never written

VARIABLES
    job,        \* the object's settings and the arguments
    pc,
    kernel,     \* the noise function that the set builder was expanded with
    x, y, z,    \* the lanes: the point of each number of the vector
    ix, iy, iz, index,
    vectorSet,  \* the points of a FastNoiseVectorSet
    behind,     \* history: how far the last load reached behind their memory
    noiseSet    \* the set, with what was stored behind its end

vars == <<job, pc, kernel, x, y, z, ix, iy, iz, index, vectorSet, behind, noiseSet>>
counters == <<ix, iy, iz, index>>

VECTOR_SIZE == job.vectorSize
xSize == job.size[1]
ySize == job.size[2]
zSize == job.size[3]
maxIndex == xSize * ySize * zSize
Lanes == 0 .. VECTOR_SIZE - 1
Slots(n) == 0 .. n - 1
AllLanes(n) == [l \in Lanes |-> n]

\* Mutant: the set has one number for each point and no more.
AlignedSize_Exact(size) == size

AlignedSize(size) ==
    IF job.aligned /\ size % VECTOR_SIZE # 0 THEN VECTOR_SIZE * (size \div VECTOR_SIZE + 1) ELSE size

NoKernel == [f |-> "none", scaled |-> FALSE, perturb |-> "None"]

Init == /\ job \in Jobs
        /\ pc = "get"
        /\ kernel = NoKernel
        /\ x = AllLanes(0) /\ y = AllLanes(0) /\ z = AllLanes(0)
        /\ ix = 0 /\ iy = 0 /\ iz = 0 /\ index = 0
        /\ vectorSet = <<>> /\ behind = 0 /\ noiseSet = <<>>

\* GetNoiseSet: the memory, then FillNoiseSet.
GetNoiseSet ==
    /\ pc = "get"
    /\ noiseSet' = [s \in Slots(AlignedSize(maxIndex)) |-> Uninit]
    /\ pc' = IF job.vectors THEN "points" ELSE "fill"
    /\ UNCHANGED <<job, kernel, x, y, z, vectorSet, behind, counters>>

\* A vector set with the points of a box that starts at 0.
FillVectorSet ==
    /\ pc = "points"
    /\ vectorSet' = [s \in Slots(AlignedSize(maxIndex)) |->
           IF s < maxIndex
           THEN <<s \div (ySize * zSize), (s \div zSize) % ySize, s % zSize>>
           ELSE Uninit]
    /\ pc' = "fill"
    /\ UNCHANGED <<job, kernel, x, y, z, behind, noiseSet, counters>>

-----------------------------------------------------------------------------
\* What a vector of noise holds, and its stores.
Noise(k, p) == [f |-> k.f, scaled |-> k.scaled, perturb |-> k.perturb, at |-> p]
Lane(l) == <<x[l], y[l], z[l]>>
Store(at, count, cell(_)) ==
    noiseSet' = [s \in (at .. at + count - 1) \cup DOMAIN noiseSet |->
                    IF s \in at .. at + count - 1 THEN cell(s - at) ELSE noiseSet[s]]

(* SET_BUILDER.  If the vectors divide a row, the set is filled row by row;
   otherwise the lanes run through the whole box as one sequence.          *)
Rows == zSize % VECTOR_SIZE = 0

xBase == AllLanes(job.start[1])
yBase == AllLanes(job.start[2])
zBase == [l \in Lanes |-> job.start[3] + l]

\* Mutant: a lane that left its row is not moved on to the next plane.
ResetOnce_NoY(p) == IF p[3] > job.start[3] + zSize - 1
                    THEN <<p[1], p[2] + 1, p[3] - zSize>> ELSE p

\* One round of AXIS_RESET: a lane that left its row goes on in the next.
ResetOnce(p) ==
    LET zReset == p[3] > job.start[3] + zSize - 1
        q == IF zReset THEN <<p[1], p[2] + 1, p[3] - zSize>> ELSE p
        yReset == q[2] > job.start[2] + ySize - 1
    IN  IF yReset THEN <<q[1] + 1, q[2] - ySize, q[3]>> ELSE q

\* AXIS_RESET(zSize, first), where first is 1 before the first vector.
AxisReset(p, first) ==
    LET rounds == (VECTOR_SIZE - first * zSize + zSize - 1) \div zSize
        after[n \in 0 .. VECTOR_SIZE] == IF n = 0 THEN p ELSE ResetOnce(after[n - 1])
    IN  after[IF rounds < 0 THEN 0 ELSE rounds]

SetLanes(points) == /\ x' = [l \in Lanes |-> points[l][1]]
                    /\ y' = [l \in Lanes |-> points[l][2]]
                    /\ z' = [l \in Lanes |-> points[l][3]]

SetBuilder(k) ==
    /\ pc = "fill" /\ ~job.vectors
    /\ kernel' = k
    /\ SetLanes([l \in Lanes |->
           IF Rows THEN <<xBase[l], yBase[l], zBase[l]>>
           ELSE AxisReset(<<xBase[l], yBase[l], zBase[l]>>, 1)])
    /\ pc' = IF Rows THEN "row" ELSE "vector"
    /\ UNCHANGED <<job, vectorSet, behind, noiseSet, counters>>

FirstOfRow ==
    /\ pc = "row" /\ ix < xSize /\ iy < ySize
    /\ Store(index, VECTOR_SIZE, LAMBDA l : Noise(kernel, Lane(l)))
    /\ iz' = VECTOR_SIZE
    /\ pc' = "rest"
    /\ UNCHANGED <<job, kernel, x, y, z, ix, iy, index, vectorSet, behind>>

RestOfRow ==
    /\ pc = "rest" /\ iz < zSize
    /\ z' = [l \in Lanes |-> z[l] + VECTOR_SIZE]
    /\ index' = index + VECTOR_SIZE
    /\ iz' = iz + VECTOR_SIZE
    /\ Store(index', VECTOR_SIZE, LAMBDA l : Noise(kernel, <<x[l], y[l], z'[l]>>))
    /\ UNCHANGED <<job, pc, kernel, x, y, ix, iy, vectorSet, behind>>

NextRow ==
    /\ pc = "rest" /\ iz >= zSize
    /\ index' = index + VECTOR_SIZE
    /\ z' = zBase
    /\ \/ /\ iy + 1 < ySize
          /\ iy' = iy + 1 /\ y' = [l \in Lanes |-> y[l] + 1]
          /\ pc' = "row"
          /\ UNCHANGED <<x, ix>>
       \/ /\ iy + 1 >= ySize
          /\ iy' = 0 /\ y' = yBase
          /\ ix' = ix + 1 /\ x' = [l \in Lanes |-> x[l] + 1]
          /\ pc' = IF ix' < xSize THEN "row" ELSE "done"
    /\ UNCHANGED <<job, kernel, iz, vectorSet, behind, noiseSet>>

StoreVector ==
    /\ pc = "vector" /\ index < maxIndex - VECTOR_SIZE
    /\ Store(index, VECTOR_SIZE, LAMBDA l : Noise(kernel, Lane(l)))
    /\ index' = index + VECTOR_SIZE
    /\ SetLanes([l \in Lanes |-> AxisReset(<<x[l], y[l], z[l] + VECTOR_SIZE>>, 0)])
    /\ UNCHANGED <<job, pc, kernel, ix, iy, iz, vectorSet, behind>>

\* STORE_LAST_RESULT: a whole vector into an aligned set, else what is left.
LastCount == IF job.aligned THEN VECTOR_SIZE ELSE maxIndex - index

StoreLast ==
    /\ pc = "vector" /\ index >= maxIndex - VECTOR_SIZE
    /\ Store(index, LastCount, LAMBDA l : Noise(kernel, Lane(l)))
    /\ pc' = "done"
    /\ UNCHANGED <<job, kernel, x, y, z, counters, vectorSet, behind>>

(* VECTOR_SET_BUILDER: vectors of points, each moved by the offset start.  *)
loopMax == IF job.aligned THEN maxIndex ELSE VECTOR_SIZE * (maxIndex \div VECTOR_SIZE)

FromSet(s) == IF vectorSet[s] = Uninit THEN Uninit
              ELSE [a \in 1 .. 3 |-> vectorSet[s][a] + job.start[a]]

\* xSet, ySet and zSet lie one behind the other, AlignedSize(maxIndex) numbers
\* each: a vector from zSet reaches furthest.
Load(at) == behind' = IF at + VECTOR_SIZE > AlignedSize(maxIndex)
                      THEN at + VECTOR_SIZE - AlignedSize(maxIndex) ELSE 0

VectorSetBuilder(k) ==
    /\ pc = "fill" /\ job.vectors
    /\ kernel' = k
    /\ pc' = "vectorset"
    /\ UNCHANGED <<job, x, y, z, vectorSet, behind, noiseSet, counters>>

StoreFromSet ==
    /\ pc = "vectorset" /\ index < loopMax
    /\ Store(index, VECTOR_SIZE, LAMBDA l : Noise(kernel, FromSet(index + l)))
    /\ index' = index + VECTOR_SIZE
    /\ Load(index)
    /\ UNCHANGED <<job, pc, kernel, x, y, z, ix, iy, iz, vectorSet>>

\* SAFE_LAST, the rest of an unaligned set: it loads whole vectors and stores
\* what is left, and it has no PERTURB_SWITCH.
HasRest == ~job.aligned /\ loopMax # maxIndex
OfRest(k) == [k EXCEPT !.perturb = "None"]

SafeLast ==
    /\ pc = "vectorset" /\ index >= loopMax
    /\ IF HasRest
       THEN /\ Store(index, maxIndex - loopMax,
                     LAMBDA l : Noise(OfRest(kernel), FromSet(index + l)))
            /\ Load(index)
       ELSE UNCHANGED <<noiseSet, behind>>
    /\ pc' = "done"
    /\ UNCHANGED <<job, kernel, x, y, z, counters, vectorSet>>

-----------------------------------------------------------------------------
(* FillNoiseSet and the functions it calls for each type of noise: which
   kernel fills the set, and whether frequency and perturbation apply.     *)
Plain   == {"Value", "Perlin", "Simplex", "Cubic"}
Fractal == {"ValueFractal", "PerlinFractal", "SimplexFractal", "CubicFractal"}

Scaled(f) == [f |-> f, scaled |-> TRUE, perturb |-> job.perturb]

FillSet == job.noiseType \in Plain /\ SetBuilder(Scaled(<<job.noiseType>>))

FillFractalSet ==
    job.noiseType \in Fractal /\ SetBuilder(Scaled(<<job.noiseType, job.fractalType>>))

\* White noise is a hash of the grid point itself.
FillWhiteNoiseSet ==
    /\ job.noiseType = "WhiteNoise"
    /\ SetBuilder([f |-> <<"WhiteNoise">>, scaled |-> FALSE, perturb |-> "None"])

\* The kernel of cellular noise has the distance function in its name, and
\* takes the two indices for the returns of Distance2.
CellularKernel ==
    <<"Cellular", job.returnType, job.distanceFunction>> \o
    IF job.returnType \in {"CellValue", "Distance", "NoiseLookup"} THEN <<>> ELSE <<"indices">>

FillCellularSet == job.noiseType = "Cellular" /\ SetBuilder(Scaled(CellularKernel))

FillNoiseSet == FillSet \/ FillFractalSet \/ FillWhiteNoiseSet \/ FillCellularSet

\* The same for vector sets, where white noise is one of the plain types.
FillSetOfPoints ==
    /\ job.noiseType \in Plain \cup {"WhiteNoise"}
    /\ VectorSetBuilder(Scaled(<<job.noiseType>>))

FillFractalSetOfPoints ==
    job.noiseType \in Fractal /\ VectorSetBuilder(Scaled(<<job.noiseType, job.fractalType>>))

FillCellularSetOfPoints ==
    job.noiseType = "Cellular" /\ VectorSetBuilder(Scaled(CellularKernel))

FillNoiseSetOfPoints == FillSetOfPoints \/ FillFractalSetOfPoints \/ FillCellularSetOfPoints

Next == \/ GetNoiseSet \/ FillVectorSet
        \/ FillNoiseSet \/ FillNoiseSetOfPoints
        \/ FirstOfRow \/ RestOfRow \/ NextRow
        \/ StoreVector \/ StoreLast
        \/ StoreFromSet \/ SafeLast

Spec == Init /\ [][Next]_vars

-----------------------------------------------------------------------------
\* The grid point of a slot.
Point(s) == <<job.start[1] + s \div (ySize * zSize),
              job.start[2] + ((s \div zSize) % ySize),
              job.start[3] + (s % zSize)>>

(* Every slot of a filled set holds the noise of its own grid point, however
   the rows and the vectors fall, through a box or through a vector set; it is
   perturbed if that is asked for, but for the rest of an unaligned vector set,
   which never is (FastNoiseSIMD_internal.cpp 1162-1252 and 1386-1428).     *)
SetHoldsNoise ==
    pc = "done" => \A s \in Slots(maxIndex) :
        LET rest == job.vectors /\ HasRest /\ s >= loopMax
        IN  noiseSet[s] = Noise(IF rest THEN OfRest(kernel) ELSE kernel, Point(s))

(* No vector is stored behind the end of the set, although the last one is
   stored whole (FastNoiseSIMD_internal.cpp 1070-1073).                    *)
StoresInSet ==
    pc # "get" => DOMAIN noiseSet = Slots(AlignedSize(maxIndex))

(* No vector of points is loaded from behind their memory, but for the rest
   of an unaligned set: its last load reads as many numbers behind zSet as the
   rest leaves lanes empty (FastNoiseSIMD_internal.cpp 1391-1393,
   FastNoiseSIMD.cpp 551-555).                                             *)
LoadsInSet ==
    behind = IF pc = "done" /\ job.vectors /\ HasRest
             THEN loopMax + VECTOR_SIZE - maxIndex ELSE 0

TypeOK == /\ job \in Jobs
          /\ {x[l] : l \in Lanes} \cup {y[l] : l \in Lanes} \cup {z[l] : l \in Lanes} \subseteq Int
          /\ index \in 0 .. maxIndex + VECTOR_SIZE
=============================================================================
