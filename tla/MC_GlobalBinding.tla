--------------------------- MODULE MC_GlobalBinding ---------------------------
(* A script with one plain global, one object global, one object-array    *)
(* global and two allocation globals; two objects, two allocations.       *)
EXTENDS GlobalBinding

CONSTANTS o1, o2, v1, a1, a2, p1, p2

MCKind == <<"plain", "obj", "objarr", "bind", "bind">> \* slots 1..5 as 0..4
MCKindFn == [s \in 0..4 |-> MCKind[s + 1]]
MCObjs == {o1, o2}
MCAllocs == {a1, a2}
MCPtr == [a \in MCAllocs |-> IF a = a1 THEN p1 ELSE p2]
MCPtrs == {p1, p2}
=============================================================================
