---------------------------- MODULE LatticeNoise ----------------------------
(***************************************************************************)
(* Value, Perlin and cubic noise and the gradient perturbation, in         *)
(* FastNoise.cpp and for each lane of FastNoiseSIMD: what a hash says at   *)
(* the points of a lattice is blended by the place within a cell.  The     *)
(* hash is left out: noise is a sum of lattice points with weights, and a  *)
(* point of Perlin noise has the offset from it besides.  Places are       *)
(* counted in Quarters of a cell, weights in parts of Unit along each axis.*)
(***************************************************************************)
EXTENDS Integers, Functions

CONSTANTS
    Coordinates,    \* bound: the places along an axis, in quarters
    Interps         \* the interpolations that may be set

VARIABLES
    pc, kernel,     \* kernel: the function that was called
    interp,         \* m_interp, which FastNoiseSIMD does not have
    place,          \* the arguments, scaled by the frequency
    weights         \* the noise

vars == <<pc, kernel, interp, place, weights>>

Quarters == 4
Unit == 1024
CubicUnit == 64

\* Mutant: the cast alone, which rounds toward 0.
FastFloor_Truncated(f) == IF f >= 0 THEN f \div Quarters ELSE -((-f) \div Quarters)

\* One too low at whole negative numbers; SIMDf_FLOOR is exact there.
FastFloor(f) == IF f >= 0 THEN f \div Quarters ELSE -((-f) \div Quarters) - 1
Floor(f) == f \div Quarters

InterpHermiteFunc(t) == 32 * t * t * (6 - t)
InterpQuinticFunc(t) == t * t * t * (6 * t * t - 60 * t + 160)

\* m_interp of t quarters, in parts of Unit.
Interp(t) == CASE interp = "Linear"  -> 256 * t
               [] interp = "Hermite" -> InterpHermiteFunc(t)
               [] interp = "Quintic" -> InterpQuinticFunc(t)

\* The weight of a point in a sum of lattice points.
Weight(sum, p) == IF p \in DOMAIN sum THEN sum[p] ELSE 0

Lerp(a, b, t) ==
    [p \in DOMAIN a \cup DOMAIN b |-> (Unit - t) * Weight(a, p) + t * Weight(b, p)]

CubicLerp(a, b, c, d, t) ==
    [p \in DOMAIN a \cup DOMAIN b \cup DOMAIN c \cup DOMAIN d |->
          (-(t * t * t) + 8 * t * t - 16 * t) * Weight(a, p)
        + (t * t * t - 8 * t * t + CubicUnit) * Weight(b, p)
        + (-(t * t * t) + 4 * t * t + 16 * t) * Weight(c, p)
        + (t * t * t - 4 * t * t) * Weight(d, p)]

\* What a hash gives at a lattice point: a value (or a vector), or the product
\* of a gradient and the offset from the point.
ValCoord(p) == [q \in {p} |-> 1]
GradCoord(p) == [q \in {<<p, [a \in DOMAIN p |-> place[a] - Quarters * p[a]]>>} |-> 1]
Coord(hash, p) == IF hash = "Val" THEN ValCoord(p) ELSE GradCoord(p)

(* The nested Lerps over the corners of the cell with corner c.  s is how far
   along each axis.                                                        *)
Blend2(hash, c, s) ==
    LET along(y) == Lerp(Coord(hash, <<c[1], y>>), Coord(hash, <<c[1] + 1, y>>), s[1])
    IN  Lerp(along(c[2]), along(c[2] + 1), s[2])

Blend3(hash, c, s) ==
    LET along(y, z) == Lerp(Coord(hash, <<c[1], y, z>>), Coord(hash, <<c[1] + 1, y, z>>), s[1])
        across(z) == Lerp(along(c[2], z), along(c[2] + 1, z), s[2])
    IN  Lerp(across(c[3]), across(c[3] + 1), s[3])

\* The nested CubicLerps over that cell and the ones around it.
Cubic2(c, s) ==
    LET along(y) == CubicLerp(ValCoord(<<c[1] - 1, y>>), ValCoord(<<c[1], y>>),
                              ValCoord(<<c[1] + 1, y>>), ValCoord(<<c[1] + 2, y>>), s[1])
    IN  CubicLerp(along(c[2] - 1), along(c[2]), along(c[2] + 1), along(c[2] + 2), s[2])

Cubic3(c, s) ==
    LET along(y, z) ==
            CubicLerp(ValCoord(<<c[1] - 1, y, z>>), ValCoord(<<c[1], y, z>>),
                      ValCoord(<<c[1] + 1, y, z>>), ValCoord(<<c[1] + 2, y, z>>), s[1])
        across(z) ==
            CubicLerp(along(c[2] - 1, z), along(c[2], z), along(c[2] + 1, z), along(c[2] + 2, z), s[2])
    IN  CubicLerp(across(c[3] - 1), across(c[3]), across(c[3] + 1), across(c[3] + 2), s[3])

-----------------------------------------------------------------------------
\* The cell, and how far within it, of each library.
Cell == [a \in DOMAIN place |-> FastFloor(place[a])]
Within == [a \in DOMAIN place |-> place[a] - Quarters * Cell[a]]
Interpolated == [a \in DOMAIN place |-> Interp(Within[a])]

SIMDCell == [a \in DOMAIN place |-> Floor(place[a])]
SIMDWithin == [a \in DOMAIN place |-> place[a] - Quarters * SIMDCell[a]]
SIMDInterpolated == [a \in DOMAIN place |-> InterpQuinticFunc(SIMDWithin[a])]

Init == /\ pc = "call"
        /\ kernel = <<"none", 0>>
        /\ interp \in Interps
        /\ place \in [1 .. 3 -> Coordinates]
        /\ weights = <<>>

Return(k, sum) == /\ pc = "call"
                  /\ kernel' = k /\ weights' = sum
                  /\ pc' = "done"
                  /\ UNCHANGED <<interp, place>>

SingleValue3D == Return(<<"Value", 3>>, Blend3("Val", Cell, Interpolated))
SingleValue2D == Return(<<"Value", 2>>, Blend2("Val", Cell, Interpolated))
SinglePerlin3D == Return(<<"Perlin", 3>>, Blend3("Grad", Cell, Interpolated))
SinglePerlin2D == Return(<<"Perlin", 2>>, Blend2("Grad", Cell, Interpolated))
SingleCubic3D == Return(<<"Cubic", 3>>, Cubic3(Cell, Within))
SingleCubic2D == Return(<<"Cubic", 2>>, Cubic2(Cell, Within))

\* The vector that is added to the arguments, before the amplitude: all of its
\* parts are blended at the place as it was.
SingleGradientPerturb3D == Return(<<"Perturb", 3>>, Blend3("Val", Cell, Interpolated))
SingleGradientPerturb2D == Return(<<"Perturb", 2>>, Blend2("Val", Cell, Interpolated))

\* FastNoiseSIMD.
ValueSingle == Return(<<"SIMD Value", 3>>, Blend3("Val", SIMDCell, SIMDInterpolated))
PerlinSingle == Return(<<"SIMD Perlin", 3>>, Blend3("Grad", SIMDCell, SIMDInterpolated))
CubicSingle == Return(<<"SIMD Cubic", 3>>, Cubic3(SIMDCell, SIMDWithin))
GradientPerturbSingle == Return(<<"SIMD Perturb", 3>>, Blend3("Val", SIMDCell, SIMDInterpolated))

Next == \/ SingleValue3D \/ SinglePerlin3D \/ SingleCubic3D \/ SingleGradientPerturb3D
        \/ SingleValue2D \/ SinglePerlin2D \/ SingleCubic2D \/ SingleGradientPerturb2D
        \/ ValueSingle \/ PerlinSingle \/ CubicSingle \/ GradientPerturbSingle

Spec == Init /\ [][Next]_vars

-----------------------------------------------------------------------------
Dimensions == kernel[2]
IsCubic == kernel[1] \in {"Cubic", "SIMD Cubic"}
IsPerlin == kernel[1] \in {"Perlin", "SIMD Perlin"}
ForEachAxis(n) == IF Dimensions = 2 THEN n * n ELSE n * n * n
Scale == ForEachAxis(IF IsCubic THEN CubicUnit ELSE Unit)

Point(p) == IF IsPerlin THEN p[1] ELSE p
Abs(n) == IF n < 0 THEN -n ELSE n
Counting == {p \in DOMAIN weights : weights[p] # 0}
Total(sum) == FoldFunction(+, 0, sum)

(* Where two cells meet, either one gives the same noise, also where FastFloor
   is one too low: along an axis on which the place is whole, only the lattice
   points of that place count, and Perlin noise is 0 at each lattice point
   (FastNoise.cpp 184 and 188-195).                                        *)
CellsMeet ==
    pc = "done" =>
        /\ \A p \in Counting, a \in 1 .. Dimensions :
              place[a] % Quarters = 0 => Point(p)[a] = place[a] \div Quarters
        /\ IsPerlin => \A p \in Counting, a \in 1 .. Dimensions :
                           /\ Abs(p[2][a]) <= Quarters
                           /\ place[a] % Quarters = 0 => p[2][a] = 0

(* Blended noise keeps the range of the hash: the weights add up to one and
   none is negative, but in cubic noise, whose weights add up to 1.5 along
   each axis at most, by which it is divided (FastNoise.cpp 1526 and 1657). *)
BlendInRange ==
    pc = "done" =>
        /\ Total(weights) = Scale
        /\ IF IsCubic
           THEN ForEachAxis(2) * Total([p \in DOMAIN weights |-> Abs(weights[p])])
                    <= ForEachAxis(3) * Scale
           ELSE \A p \in Counting : weights[p] > 0

\* The two libraries blend the same points alike (FastNoiseSIMD_internal.cpp
\* 687-697 against FastNoise.cpp 184-190).
LibrariesAgree ==
    pc = "done" =>
        LET same(sum) == \A p \in Counting : p \in DOMAIN sum /\ sum[p] = weights[p]
        IN  /\ kernel[1] \in {"SIMD Value", "SIMD Perturb"} /\ interp = "Quintic" =>
                   same(Blend3("Val", Cell, Interpolated))
            /\ kernel[1] = "SIMD Perlin" /\ interp = "Quintic" =>
                   same(Blend3("Grad", Cell, Interpolated))
            /\ kernel[1] = "SIMD Cubic" => same(Cubic3(Cell, Within))
=============================================================================
