------------------------------- MODULE MCNoise -------------------------------
(***************************************************************************)
(* The modules of FastNoise and FastNoiseSIMD for TLC, side by side: which *)
(* of them moves is the subject, chosen at the start; the variables of the *)
(* others stay at Unused.                                                  *)
(***************************************************************************)
EXTENDS CellularNoise, TLC

CONSTANTS
    Uninit, Unused,
    Jobs,                               \* NoiseSet
    SampleJobs,                         \* SampledNoise
    Builds, Cpus, Sizes,                \* NoiseLevels
    MaxOctaves, Gains, Amps, Values, Gradient,      \* FractalNoise
    LatticePlaces, SimplexPlaces                    \* LatticeNoise, SimplexNoise

\* Every size is at least 1.
ASSUME JobsAssumption ==
    \A j \in Jobs : /\ j.vectorSize \in Nat \ {0}
                    /\ \A a \in 1 .. 3 : j.size[a] \in Nat \ {0} /\ j.start[a] \in Int
ASSUME UninitAssumption == Uninit \notin Nat \X Nat \X Nat
ASSUME SampleJobsAssumption ==
    \A j \in SampleJobs : /\ j.vectorSize \in Nat \ {0} /\ 2 ^ j.sampleScale \in Nat \ {0}
                          /\ \A a \in 1 .. 3 : j.size[a] \in Nat \ {0} /\ j.start[a] \in Int
\* SSE2 is compiled into every build for x86 (FastNoiseSIMD.h 41).
ASSUME BuildsAssumption == \A b \in Builds : b \subseteq 0 .. 4 /\ 1 \in b
ASSUME SizesAssumption == Sizes \subseteq Nat
\* The noise of one octave is between -1 and 1.
ASSUME OctavesAssumption ==
    /\ MaxOctaves \in Nat \ {0, 1, 2} /\ 2 ^ (MaxOctaves - 1) \in Nat \ {0}
    /\ Gains \subseteq Nat /\ Amps \subseteq Nat /\ Gradient \in Nat
    /\ Values \subseteq -1 .. 1
ASSUME PlacesAssumption == LatticePlaces \subseteq Int /\ SimplexPlaces \subseteq Int

VARIABLES
    subject,
    job, kernel, x, y, z,           \* NoiseSet, SampledNoise, FractalNoise
    ix, iy, iz, index, vectorSet, behind, noiseSet, localCount, sample,
    compiled, cpu, level, objects, set, points, wrongs,         \* NoiseLevels
    lib, octaves, gain, bounding, fractalType, noiseType,       \* FractalNoise
    perturbOctaves, perturbGain, perturbBounding, perturbAmp, asked,
    i, amp, sum, divisor,
    place, interp, weights, corners         \* LatticeNoise, SimplexNoise

gridVars    == <<x, y, z, noiseSet>>
setVars     == <<ix, iy, iz, index, vectorSet, behind>>
sampleVars  == <<localCount, sample>>
levelVars   == <<compiled, cpu, level, objects, set, points, wrongs>>
fractalVars == <<lib, octaves, gain, bounding, fractalType, noiseType, perturbOctaves,
                 perturbGain, perturbBounding, perturbAmp, asked, i, amp, sum, divisor>>
latticeVars == <<interp, weights>>
cellVars    == <<code, returnType, index0, index1, distance, closest, seen, c0, result>>

-----------------------------------------------------------------------------
\* NoiseSet.  The settings and arguments of a call; the sizes bring about
\* whole rows of vectors, vectors over several rows and planes, and rests.
Job(v, aligned, size, vectors, type, perturb) ==
    [vectorSize |-> v, aligned |-> aligned, start |-> <<5, -2, 7>>, size |-> size,
     vectors |-> vectors, noiseType |-> type, fractalType |-> "FBM",
     returnType |-> "Distance2", distanceFunction |-> "Natural", perturb |-> perturb]

MCJobs ==
    {Job(v, aligned, <<a, b, c>>, vectors, "Value", "None") :
        v \in {1, 4, 8}, aligned \in BOOLEAN, a \in 1 .. 2, b \in 1 .. 3,
        c \in {1, 2, 3, 5, 8, 9}, vectors \in BOOLEAN}
    \cup {Job(4, aligned, <<1, 2, 3>>, vectors, type, "Gradient") :
        aligned \in BOOLEAN, vectors \in BOOLEAN, type \in {"Perlin", "CubicFractal", "WhiteNoise", "Cellular"}}

\* SampledNoise.  The start of each axis has every remainder of sampleSize: at
\* a point of the coarse grid, halfway between two, and nearer to one of them.
MCSampleJobs ==
    {[vectorSize |-> v, sampleScale |-> at[1], start |-> at[2], size |-> <<a, 2, c>>,
      vectors |-> vectors] :
        v \in {1, 4}, at \in {<<1, <<0, -1, 3>>>>, <<2, <<2, -4, 6>>>>, <<2, <<1, -1, 5>>>>},
        a \in {1, 3}, c \in {1, 2, 5}, vectors \in BOOLEAN}

\* NoiseLevels.  64-bit builds with and without AVX-512, a 32-bit build, and
\* one without AVX2; from no features at all to all of them.
MCBuilds == {{1, 2, 3}, {1, 2, 3, 4}, {0, 1, 2, 3}, {0, 1}}
Features == {"SSE2", "SSE41", "XSAVE", "OSXSAVE", "AVX", "XCR0 AVX", "leaf 7", "FMA3", "AVX2",
             "AVX512", "XCR0 AVX512"}
MCCpus == {{}, {"SSE2"}, Features \ {"FMA3"}, Features \ {"XCR0 AVX512"}, Features}

\* The noise of an octave, and the indices of CellularNoise.
MCValues == -1 .. 1
MCIndices == {-1, 0, 2, 7}

\* LatticeNoise: two whole places, and places within cells on both sides of 0.
MCLatticePlaces == {-4, -3, -1, 0, 2}

-----------------------------------------------------------------------------
Sets     == INSTANCE NoiseSet
Samples  == INSTANCE SampledNoise
Levels   == INSTANCE NoiseLevels WITH Rules <- {"compiled", "fresh"}
Fractals == INSTANCE FractalNoise
Lattice  == INSTANCE LatticeNoise WITH Coordinates <- LatticePlaces,
                                       Interps <- {"Linear", "Hermite", "Quintic"}
Simplex  == INSTANCE SimplexNoise WITH Coordinates <- SimplexPlaces

NoGrid == /\ x = Unused /\ y = Unused /\ z = Unused /\ noiseSet = Unused
NoSet == /\ ix = Unused /\ iy = Unused /\ iz = Unused /\ index = Unused
         /\ vectorSet = Unused /\ behind = Unused
NoSample == /\ localCount = Unused /\ sample = Unused
NoLevel == /\ compiled = Unused /\ cpu = Unused /\ level = Unused /\ objects = Unused
           /\ set = Unused /\ points = Unused /\ wrongs = Unused
NoFractal == /\ lib = Unused /\ octaves = Unused /\ gain = Unused /\ bounding = Unused
             /\ fractalType = Unused /\ noiseType = Unused /\ perturbOctaves = Unused
             /\ perturbGain = Unused /\ perturbBounding = Unused /\ perturbAmp = Unused
             /\ asked = Unused /\ i = Unused /\ amp = Unused /\ sum = Unused
             /\ divisor = Unused
NoLattice == interp = Unused /\ weights = Unused
NoPlace == place = Unused /\ corners = Unused /\ NoLattice
NoCell == /\ code = Unused /\ returnType = Unused /\ index0 = Unused /\ index1 = Unused
          /\ distance = Unused /\ closest = Unused /\ seen = Unused /\ c0 = Unused
          /\ result = Unused

MCInit ==
    \/ /\ subject = "set" /\ Sets!Init
       /\ NoSample /\ NoLevel /\ NoFractal /\ NoPlace /\ NoCell
    \/ /\ subject = "sample" /\ Samples!Init
       /\ kernel = Unused /\ NoSet /\ NoLevel /\ NoFractal /\ NoPlace /\ NoCell
    \/ /\ subject = "level" /\ Levels!Init
       /\ pc = Unused /\ job = Unused /\ kernel = Unused
       /\ NoGrid /\ NoSet /\ NoSample /\ NoFractal /\ NoPlace /\ NoCell
    \/ /\ subject = "fractal" /\ Fractals!Init
       /\ job = Unused /\ NoGrid /\ NoSet /\ NoSample /\ NoLevel /\ NoPlace /\ NoCell
    \/ /\ subject = "lattice" /\ Lattice!Init
       /\ job = Unused /\ corners = Unused
       /\ NoGrid /\ NoSet /\ NoSample /\ NoLevel /\ NoFractal /\ NoCell
    \/ /\ subject = "simplex" /\ Simplex!Init
       /\ job = Unused /\ NoLattice
       /\ NoGrid /\ NoSet /\ NoSample /\ NoLevel /\ NoFractal /\ NoCell
    \/ /\ subject = "cell" /\ Init
       /\ job = Unused /\ kernel = Unused
       /\ NoGrid /\ NoSet /\ NoSample /\ NoLevel /\ NoFractal /\ NoPlace

placeVars == <<place, corners, latticeVars>>

MCNext ==
    \/ /\ subject = "set" /\ Sets!Next
       /\ UNCHANGED <<subject, sampleVars, levelVars, fractalVars, placeVars, cellVars>>
    \/ /\ subject = "sample" /\ Samples!Next
       /\ UNCHANGED <<subject, kernel, setVars, levelVars, fractalVars, placeVars, cellVars>>
    \/ /\ subject = "level" /\ Levels!Next
       /\ UNCHANGED <<subject, pc, job, kernel, gridVars, setVars, sampleVars, fractalVars,
                      placeVars, cellVars>>
    \/ /\ subject = "fractal" /\ Fractals!Next
       /\ UNCHANGED <<subject, job, gridVars, setVars, sampleVars, levelVars, placeVars, cellVars>>
    \/ /\ subject = "lattice" /\ Lattice!Next
       /\ UNCHANGED <<subject, job, gridVars, setVars, sampleVars, levelVars, fractalVars,
                      corners, cellVars>>
    \/ /\ subject = "simplex" /\ Simplex!Next
       /\ UNCHANGED <<subject, job, gridVars, setVars, sampleVars, levelVars, fractalVars,
                      latticeVars, cellVars>>
    \/ /\ subject = "cell" /\ Next
       /\ UNCHANGED <<subject, job, kernel, gridVars, setVars, sampleVars, levelVars, fractalVars,
                      placeVars>>

MCvars == <<subject, pc, job, kernel, gridVars, setVars, sampleVars, levelVars, fractalVars,
            placeVars, cellVars>>

MCSpec == MCInit /\ [][MCNext]_MCvars

-----------------------------------------------------------------------------
\* Every slot of a filled set holds the noise of its own grid point, however
\* the rows and the vectors fall, perturbed if that is asked for and it is not
\* in the rest of an unaligned vector set; and every point of a sampled set is
\* interpolated for its own place, moved by Shift where a box starts between two
\* points of the coarse grid (FastNoiseSIMD_internal.cpp 1162-1252, 1386-1428
\* and 2133-2413).
SetHoldsNoise == CASE subject = "set"    -> Sets!SetHoldsNoise
                   [] subject = "sample" -> Samples!SampledAtPoint
                   [] OTHER              -> TRUE

\* Which memory is accessed: nothing is stored behind the end of a set, nor
\* loaded from there but for the rest of the points in an unaligned build; no
\* corner is read that a set does not have; and if the client keeps the two
\* cautions of FastNoiseSIMD.h 129-130 (rules "compiled" and "fresh"), no set
\* is freed by the wrong function (FastNoiseSIMD.cpp 230-300 and 537-556,
\* FastNoiseSIMD_internal.cpp 1070, 1386-1403 and 2152-2160).
AccessesAreKnown ==
    CASE subject = "set"    -> Sets!StoresInSet /\ Sets!LoadsInSet
      [] subject = "sample" -> Samples!CornersExist
      [] subject = "level"  -> Levels!SetsAreSafe /\ Levels!ObjectsRun
      [] OTHER              -> TRUE

\* Noise stays between -1 and 1 whatever was set in whatever order, but for
\* RigidMulti; and a perturbation moves a position by no more than its amplitude
\* in FastNoise, and by no more than it times the bounding of the perturbation
\* over that of the noise in FastNoiseSIMD (FastNoise.cpp 217-227, FastNoise.h:157,
\* FastNoiseSIMD_internal.cpp 1091, 1273 and 1294).
FractalInRange ==
    subject = "fractal" => Fractals!FractalInRange /\ Fractals!WarpWithinReach

\* FastNoiseSIMD.h:215: the amplitude of the perturbation is "the maximum distance
\* the input position can be perturbed".
PerturbWithinAmp == subject = "fractal" => Fractals!PerturbWithinAmp

\* Noise that is blended from the points of a lattice meets itself where two
\* cells meet, keeps the range of the hash, and is the same in both libraries;
\* and simplex noise comes from the corners of the simplex that the place lies
\* in (FastNoise.cpp 184-195, 1096-1137 and 1339-1398).
BlendIsRight ==
    CASE subject = "lattice" ->
            Lattice!CellsMeet /\ Lattice!BlendInRange /\ Lattice!LibrariesAgree
      [] subject = "simplex" -> Simplex!CornersOfSimplex
      [] OTHER               -> TRUE
=============================================================================
