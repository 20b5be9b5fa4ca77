--------------------------- MODULE MC_ForEachLaunch ---------------------------
(* Instantiates ForEachLaunch: a scalar, a 1D, a 2D and an unbacked        *)
(* allocation; sub-regions per axis that are unrestricted (end 0, also    *)
(* with a stray start), inside the extent, reaching past it, empty and     *)
(* starting at the extent; a script with two kernels.                      *)
EXTENDS ForEachLaunch

CONSTANTS k0, k1, g1

Dims(x, y, z) == [a \in Axes |-> CASE a = "x" -> x [] a = "y" -> y [] OTHER -> z]

MCAllocs == {[dim |-> Dims(0, 0, 0), backed |-> TRUE],
             [dim |-> Dims(2, 0, 0), backed |-> TRUE],
             [dim |-> Dims(2, 2, 0), backed |-> TRUE],
             [dim |-> Dims(2, 0, 0), backed |-> FALSE]}

MCRanges == {[start |-> s, end |-> e] :
               <<s, e>> \in {<<0, 0>>, <<1, 0>>, <<0, 1>>, <<1, 2>>, <<0, 3>>,
                             <<1, 1>>, <<2, 3>>}}

(* Every axis but z is restricted in every way; z is left unrestricted or *)
(* restricted to its first cell.                                          *)
MCCalls == {c \in [Axes -> MCRanges] :
              c["z"] \in {[start |-> 0, end |-> 0], [start |-> 0, end |-> 1]}}

MCKernels == {k0, k1}
MCGarbage == {g1}
=============================================================================
