---------------------------- MODULE FractalNoise ----------------------------
(***************************************************************************)
(* Fractal noise and fractal perturbation, in FastNoise.cpp and in         *)
(* FastNoiseSIMD: octaves of smaller and smaller noise are added up, and   *)
(* the sum is brought back to the range of one octave by a bounding that   *)
(* the setters keep beside the settings.  The noise of an octave is left   *)
(* out: it may be any of Values.  A gain is counted in halves and an       *)
(* amplitude in parts of One, so that the numbers are whole; a bounding is *)
(* kept as what it divides by.                                             *)
(***************************************************************************)
EXTENDS Integers, Sequences

CONSTANTS
    MaxOctaves, \* bound: the most octaves that are set
    Gains,      \* bound: the gains that are set, in halves
    Amps,       \* bound: the perturbation amplitudes that are set
    Values,     \* bound: the noise of an octave, from -1 to 1
    Gradient    \* the length of a SIMD gradient, 511.5 in the code

VARIABLES
    lib,        \* the library the object is of
    octaves, gain, bounding, fractalType, noiseType,
    perturbOctaves, perturbGain, perturbBounding,
    perturbAmp,         \* m_perturbAmp, in parts of the reciprocal of Gradient
    asked,              \* history: the amplitude that the client wants
    pc, kernel,
    i, amp, sum,
    divisor     \* the bounding in use: the sum is divided by it

settings == <<octaves, gain, bounding, fractalType, noiseType>>
perturbs == <<perturbOctaves, perturbGain, perturbBounding, perturbAmp, asked>>
loop == <<i, amp, sum, divisor>>
vars == <<lib, settings, perturbs, pc, kernel, loop>>

FractalTypes == {"FBM", "Billow", "RigidMulti"}
NoiseTypes == {"Value", "ValueFractal", "Perlin", "PerlinFractal", "Simplex", "SimplexFractal",
               "Cubic", "CubicFractal", "WhiteNoise"}
One == 2 ^ (MaxOctaves - 1)

Abs(n) == IF n < 0 THEN -n ELSE n

\* The amplitude of octave n + 1, and the sum of the first n amplitudes.
Amplitude(n, g) ==
    LET amplitude[k \in Nat] == IF k = 0 THEN One ELSE (amplitude[k - 1] * g) \div 2
    IN  amplitude[n]
ampFractal(n, g) ==
    LET total[k \in Nat] == IF k = 0 THEN 0 ELSE total[k - 1] + Amplitude(k - 1, g)
    IN  total[n]

(* FastNoise has one set of fractal settings, FastNoiseSIMD another one for
   the perturbation; its constructor leaves m_perturbAmp at 1.0, which
   SetPerturbAmp would have divided by Gradient.                           *)
Init == /\ lib \in {"FastNoise", "FastNoiseSIMD"}
        /\ octaves = 3 /\ gain = 1 /\ bounding = ampFractal(3, 1)
        /\ fractalType = "FBM" /\ noiseType = "Simplex"
        /\ perturbOctaves = 3 /\ perturbGain = 1 /\ perturbBounding = ampFractal(3, 1)
        /\ perturbAmp = (IF lib = "FastNoise" THEN 1 ELSE Gradient)
        /\ asked = 1
        /\ pc = "idle" /\ kernel = <<"none", 0>>
        /\ i = 0 /\ amp = 0 /\ sum = 0 /\ divisor = One

-----------------------------------------------------------------------------
\* The setters.
CalculateFractalBounding(n, g) == bounding' = ampFractal(n, g)

SetFractalOctaves(n) ==
    /\ pc = "idle"
    /\ octaves' = n
    /\ CalculateFractalBounding(n, gain)
    /\ UNCHANGED <<lib, gain, fractalType, noiseType, perturbs, pc, kernel, loop>>

\* Mutant: the setter of the gain forgets the bounding.
SetFractalGain_Stale(g) ==
    /\ pc = "idle"
    /\ gain' = g
    /\ UNCHANGED <<lib, octaves, bounding, fractalType, noiseType, perturbs, pc, kernel, loop>>

SetFractalGain(g) ==
    /\ pc = "idle"
    /\ gain' = g
    /\ CalculateFractalBounding(octaves, g)
    /\ UNCHANGED <<lib, octaves, fractalType, noiseType, perturbs, pc, kernel, loop>>

SetFractalType(type) ==
    /\ pc = "idle"
    /\ fractalType' = type
    /\ UNCHANGED <<lib, octaves, gain, bounding, noiseType, perturbs, pc, kernel, loop>>

\* FastNoiseSIMD has the same loops for each type of noise.
SetNoiseType(type) ==
    /\ pc = "idle" /\ lib = "FastNoise"
    /\ noiseType' = type
    /\ UNCHANGED <<lib, octaves, gain, bounding, fractalType, perturbs, pc, kernel, loop>>

SetPerturb(n, g) ==
    /\ pc = "idle" /\ lib = "FastNoiseSIMD"
    /\ perturbOctaves' = n /\ perturbGain' = g
    /\ perturbBounding' = ampFractal(n, g)
    /\ UNCHANGED <<lib, settings, perturbAmp, asked, pc, kernel, loop>>

SetPerturbFractalOctaves(n) == SetPerturb(n, perturbGain)
SetPerturbFractalGain(g) == SetPerturb(perturbOctaves, g)

\* SetPerturbAmp of FastNoiseSIMD, SetGradientPerturbAmp of FastNoise.
SetPerturbAmp(a) ==
    /\ pc = "idle"
    /\ perturbAmp' = a /\ asked' = a
    /\ UNCHANGED <<lib, settings, perturbOctaves, perturbGain, perturbBounding, pc, kernel, loop>>

Set == \/ \E n \in 1 .. MaxOctaves : SetFractalOctaves(n) \/ SetPerturbFractalOctaves(n)
       \/ \E g \in Gains : SetFractalGain(g) \/ SetPerturbFractalGain(g)
       \/ \E type \in FractalTypes : SetFractalType(type)
       \/ \E type \in NoiseTypes : SetNoiseType(type)
       \/ \E a \in Amps : SetPerturbAmp(a)

-----------------------------------------------------------------------------
\* What an octave of each type adds to the sum, or to the position.
Octave(type, v) == CASE type = "FBM"        -> v
                     [] type = "Billow"     -> 2 * Abs(v) - 1
                     [] type = "RigidMulti" -> IF i = 0 THEN 1 - Abs(v) ELSE Abs(v) - 1

\* The loop of n octaves: the first one, then while (++i < n), then the sum.
Loop(k, type, n, g, by) ==
    /\ UNCHANGED <<lib, settings, perturbs>>
    /\ kernel' = k
    /\ \/ /\ pc = "idle"
          /\ \E v \in Values : sum' = Octave(type, v) * One
          /\ amp' = One /\ i' = 1
          /\ divisor' = by
          /\ pc' = "octaves"
       \/ /\ pc = "octaves" /\ kernel = k /\ i < n
          /\ amp' = (amp * g) \div 2
          /\ \E v \in Values : sum' = sum + Octave(type, v) * amp'
          /\ i' = i + 1
          /\ UNCHANGED <<pc, divisor>>
       \/ /\ pc = "octaves" /\ kernel = k /\ i >= n
          /\ pc' = "done"
          /\ UNCHANGED loop

\* The sum of RigidMulti is returned as it is.
FractalLoop(k) ==
    Loop(k, fractalType, octaves, gain, IF fractalType = "RigidMulti" THEN One ELSE bounding)

\* FastNoise, in three and in two dimensions: each has the same three loops
\* for each of its noises, over offsets m_perm[i] and scaled coordinates.
Fractal(noise, dimensions) == lib = "FastNoise" /\ FractalLoop(<<noise, dimensions>>)

ValueFractal3D   == Fractal("ValueFractal", 3)
ValueFractal2D   == Fractal("ValueFractal", 2)
PerlinFractal3D  == Fractal("PerlinFractal", 3)
PerlinFractal2D  == Fractal("PerlinFractal", 2)
SimplexFractal3D == Fractal("SimplexFractal", 3)
SimplexFractal2D == Fractal("SimplexFractal", 2)
CubicFractal3D   == Fractal("CubicFractal", 3)
CubicFractal2D   == Fractal("CubicFractal", 2)

GetFractal == \/ ValueFractal3D \/ PerlinFractal3D \/ SimplexFractal3D \/ CubicFractal3D
              \/ ValueFractal2D \/ PerlinFractal2D \/ SimplexFractal2D \/ CubicFractal2D

\* One evaluation of a noise that is not fractal.
Single(noise, dimensions) ==
    /\ pc = "idle" /\ lib = "FastNoise"
    /\ kernel' = <<noise, dimensions>>
    /\ \E v \in Values : sum' = v * One
    /\ pc' = "done"
    /\ UNCHANGED <<lib, settings, perturbs, i, amp, divisor>>

\* GetNoise: the noise of the type that was set.  Cellular noise has a module
\* of its own.
GetNoise3D ==
    CASE noiseType = "ValueFractal"   -> ValueFractal3D
      [] noiseType = "PerlinFractal"  -> PerlinFractal3D
      [] noiseType = "SimplexFractal" -> SimplexFractal3D
      [] noiseType = "CubicFractal"   -> CubicFractal3D
      [] OTHER                        -> Single(noiseType, 3)

GetNoise2D ==
    CASE noiseType = "ValueFractal"   -> ValueFractal2D
      [] noiseType = "PerlinFractal"  -> PerlinFractal2D
      [] noiseType = "SimplexFractal" -> SimplexFractal2D
      [] noiseType = "CubicFractal"   -> CubicFractal2D
      [] OTHER                        -> Single(noiseType, 2)

\* Each octave moves the position, by its amplitude at most.
Perturb(dimensions) ==
    lib = "FastNoise" /\ Loop(<<"Perturb", dimensions>>, "FBM", octaves, gain, bounding)

GradientPerturbFractal3D == Perturb(3)
GradientPerturbFractal2D == Perturb(2)

\* FastNoiseSIMD: the macros FBM_SINGLE, BILLOW_SINGLE and RIGIDMULTI_SINGLE,
\* and the fractal cases of PERTURB_SWITCH.  INIT_PERTURB_VALUES takes the
\* bounding of the noise.
FractalSingle == lib = "FastNoiseSIMD" /\ FractalLoop(<<"Fractal", 3>>)

InitPerturbValues == bounding

PerturbSwitch ==
    /\ lib = "FastNoiseSIMD"
    /\ Loop(<<"Perturb", 3>>, "FBM", perturbOctaves, perturbGain, InitPerturbValues)

Again == /\ pc = "done"
         /\ pc' = "idle" /\ kernel' = <<"none", 0>>
         /\ i' = 0 /\ amp' = 0 /\ sum' = 0 /\ divisor' = One
         /\ UNCHANGED <<lib, settings, perturbs>>

Next == \/ Set \/ Again
        \/ GetFractal \/ GetNoise3D \/ GetNoise2D
        \/ GradientPerturbFractal3D \/ GradientPerturbFractal2D
        \/ FractalSingle \/ PerturbSwitch

Spec == Init /\ [][Next]_vars

-----------------------------------------------------------------------------
Perturbing == kernel[1] = "Perturb"
Rigid == /\ fractalType = "RigidMulti"
         /\ kernel[1] \in {"ValueFractal", "PerlinFractal", "SimplexFractal", "CubicFractal", "Fractal"}

TypeOK == /\ octaves \in 1 .. MaxOctaves /\ perturbOctaves \in 1 .. MaxOctaves
          /\ {bounding, perturbBounding, divisor} \subseteq Nat \ {0}
          /\ i \in 0 .. MaxOctaves /\ amp \in Nat /\ sum \in Int

(* Whatever was set in whatever order, noise stays between -1 and 1, and so
   does fractal noise of type FBM and Billow (FastNoise.cpp 217-227, 558 and
   577; FastNoiseSIMD_internal.cpp 1273 and 1294).  The sum of RigidMulti has
   no bounding in the code, and is left out.                               *)
FractalInRange ==
    pc = "done" /\ ~Perturbing /\ ~Rigid => Abs(sum) <= divisor

\* How far a position was moved, times Gradient and the bounding, against the
\* amplitude that the client wants.
WithinAmp == Abs(sum) * perturbAmp <= asked * divisor

(* FastNoise moves a position by no more than the amplitude that was set,
   through all octaves together (FastNoise.h:157, FastNoise.cpp 2110).
   FastNoiseSIMD divides by the bounding of the noise, not by that of the
   perturbation (FastNoiseSIMD_internal.cpp 1091): it moves a position by no
   more than m_perturbAmp times the one over the other, which is within the
   amplitude that was set, if one was, as long as the bounding of the noise is
   the larger one.                                                         *)
WarpWithinReach ==
    pc = "done" /\ Perturbing =>
        /\ lib = "FastNoise" => WithinAmp
        /\ lib = "FastNoiseSIMD" =>
              /\ divisor = bounding
              /\ Abs(sum) <= perturbBounding
              /\ perturbAmp = asked /\ perturbBounding <= bounding => WithinAmp

(* FastNoiseSIMD.h:215, once the amplitude was set: "the maximum distance the
   input position can be perturbed".                                       *)
PerturbWithinAmp ==
    pc = "done" /\ Perturbing /\ lib = "FastNoiseSIMD" /\ perturbAmp = asked => WithinAmp
=============================================================================
