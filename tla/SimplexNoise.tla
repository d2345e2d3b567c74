---------------------------- MODULE SimplexNoise ----------------------------
(***************************************************************************)
(* Simplex noise, in FastNoise.cpp in two, three and four dimensions and   *)
(* in FastNoiseSIMD: the place within its cell decides through which       *)
(* simplex it lies, and the corners of that simplex contribute.  Of the    *)
(* coordinates x0, y0, z0 and w0 only the order matters; how much a corner *)
(* contributes is left out.  A corner is the set of axes along which it is *)
(* one further than the corner of the cell.                                *)
(***************************************************************************)
EXTENDS Integers, Sequences, FiniteSets

CONSTANTS Coordinates

VARIABLES
    pc, kernel,
    place,      \* x0, y0, z0 and w0
    corners     \* what the noise is the sum of, in order

vars == <<pc, kernel, place, corners>>

x0 == place[1]
y0 == place[2]
z0 == place[3]
w0 == place[4]

Init == /\ pc = "call"
        /\ kernel = <<"none", 0>>
        /\ place \in [1 .. 4 -> Coordinates]
        /\ corners = <<>>

\* The first and the last corner are the same in every simplex.
Return(k, between) ==
    /\ pc = "call"
    /\ kernel' = k
    /\ corners' = <<{}>> \o between \o <<1 .. k[2]>>
    /\ pc' = "done"
    /\ UNCHANGED place

\* (i1, j1)
Between2D == IF x0 > y0 THEN <<{1}>> ELSE <<{2}>>

\* (i1, j1, k1) and (i2, j2, k2)
Between3D ==
    IF x0 >= y0
    THEN CASE y0 >= z0             -> <<{1}, {1, 2}>>
           [] y0 < z0 /\ x0 >= z0  -> <<{1}, {1, 3}>>
           [] y0 < z0 /\ x0 < z0   -> <<{3}, {1, 3}>>
    ELSE CASE y0 < z0              -> <<{3}, {2, 3}>>
           [] y0 >= z0 /\ x0 < z0  -> <<{2}, {2, 3}>>
           [] y0 >= z0 /\ x0 >= z0 -> <<{2}, {1, 2}>>

\* The rank of each coordinate, for what six comparisons say.
Zero == <<0, 0, 0, 0>>
SIMPLEX_4D ==
    <<<<0, 1, 2, 3>>, <<0, 1, 3, 2>>, Zero, <<0, 2, 3, 1>>, Zero, Zero, Zero, <<1, 2, 3, 0>>,
      <<0, 2, 1, 3>>, Zero, <<0, 3, 1, 2>>, <<0, 3, 2, 1>>, Zero, Zero, Zero, <<1, 3, 2, 0>>,
      Zero, Zero, Zero, Zero, Zero, Zero, Zero, Zero,
      <<1, 2, 0, 3>>, Zero, <<1, 3, 0, 2>>, Zero, Zero, Zero, <<2, 3, 0, 1>>, <<2, 3, 1, 0>>,
      <<1, 0, 2, 3>>, <<1, 0, 3, 2>>, Zero, Zero, Zero, <<2, 0, 3, 1>>, Zero, <<2, 1, 3, 0>>,
      Zero, Zero, Zero, Zero, Zero, Zero, Zero, Zero,
      <<2, 0, 1, 3>>, Zero, Zero, Zero, <<3, 0, 1, 2>>, <<3, 0, 2, 1>>, Zero, <<3, 1, 2, 0>>,
      <<2, 1, 0, 3>>, Zero, Zero, Zero, <<3, 1, 0, 2>>, Zero, <<3, 2, 0, 1>>, <<3, 2, 1, 0>>>>

Between4D ==
    LET bit(test, n) == IF test THEN n ELSE 0
        c == bit(x0 > y0, 32) + bit(x0 > z0, 16) + bit(y0 > z0, 8)
             + bit(x0 > w0, 4) + bit(y0 > w0, 2) + bit(z0 > w0, 1)
        ranked(n) == {a \in 1 .. 4 : SIMPLEX_4D[c + 1][a] >= n}
    IN  <<ranked(3), ranked(2), ranked(1)>>

\* The masks of FastNoiseSIMD.
BetweenSIMD ==
    LET xy == x0 >= y0
        yz == y0 >= z0
        xz == x0 >= z0
        masked(i, j, k) == {a \in 1 .. 3 : <<i, j, k>>[a]}
    IN  <<masked(xy /\ xz, ~xy /\ yz, ~xz /\ ~yz), masked(xy \/ xz, ~xy \/ yz, ~(xz /\ yz))>>

SingleSimplex2D == Return(<<"Simplex", 2>>, Between2D)
SingleSimplex3D == Return(<<"Simplex", 3>>, Between3D)
SingleSimplex4D == Return(<<"Simplex", 4>>, Between4D)
SimplexSingle   == Return(<<"SIMD Simplex", 3>>, BetweenSIMD)

Next == SingleSimplex2D \/ SingleSimplex3D \/ SingleSimplex4D \/ SimplexSingle

Spec == Init /\ [][Next]_vars

-----------------------------------------------------------------------------
(* The corners are those of a simplex around the place, whatever coordinates
   are equal: each has one axis more than the one before it, that of a largest
   coordinate that is left; and the two libraries choose the same ones
   (FastNoise.cpp 1096-1137, 1291-1300 and 1339-1398,
   FastNoiseSIMD_internal.cpp 877-887).                                    *)
CornersOfSimplex ==
    pc = "done" =>
        /\ Len(corners) = kernel[2] + 1
        /\ \A k \in 1 .. Len(corners) :
              /\ Cardinality(corners[k]) = k - 1
              /\ k > 1 => corners[k - 1] \subseteq corners[k]
              /\ \A a \in corners[k], b \in (1 .. kernel[2]) \ corners[k] : place[a] >= place[b]
        /\ kernel[1] = "SIMD Simplex" => corners = <<{}>> \o Between3D \o <<1 .. 3>>
=============================================================================
