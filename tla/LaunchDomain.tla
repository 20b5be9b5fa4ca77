---------------------------- MODULE LaunchDomain ----------------------------
(***************************************************************************)
(* What a ForEach launch promises (spec.md 4.4, 7 and 8), independent of   *)
(* how the descriptor is built: the cells the kernel runs on for a call    *)
(* with input/output allocations and an optional sub-region, and whether   *)
(* an error is reported.  A sub-region that breaks the documented bounds   *)
(* is left unconstrained here; BadBoundsRejected in ForEachLaunch states   *)
(* what spec.md 7 says of it.                                              *)
(***************************************************************************)
EXTENDS Naturals

CONSTANTS Allocs, Calls, Slots, NULL

VARIABLES call, cells, err

Axes == {"x", "y", "z"}

(* The allocation whose extents govern the launch: ain, else aout. *)
Governing(ain, aout) == IF ain # NULL THEN ain ELSE aout

(* At least one allocation, and every one given has backing store. *)
BuffersValid(ain, aout) ==
  /\ ain # NULL \/ aout # NULL
  /\ ain # NULL => ain.backed
  /\ aout # NULL => aout.backed

(* A zero end means the axis is unrestricted. *)
Restricted(sc, a) == sc # NULL /\ sc[a].end # 0

(* start < extent, end <= extent and start < end on every restricted axis. *)
BoundsValid(ain, aout, sc) ==
  \A a \in Axes :
    Restricted(sc, a) =>
      LET d == Governing(ain, aout).dim[a]
      IN sc[a].start < d /\ sc[a].end <= d /\ sc[a].start < sc[a].end

(* The full extent floored to 1, or the sub-region clamped to the extent. *)
AxisRange(ain, aout, sc, a) ==
  LET d == Governing(ain, aout).dim[a]
  IN IF Restricted(sc, a)
     THEN sc[a].start .. ((IF sc[a].end < d THEN sc[a].end ELSE d) - 1)
     ELSE 0 .. ((IF d > 1 THEN d ELSE 1) - 1)

SpecCells(ain, aout, sc) ==
  AxisRange(ain, aout, sc, "x") \X AxisRange(ain, aout, sc, "y")
    \X AxisRange(ain, aout, sc, "z")

(* Every cell of some allocation's full extent. *)
AllCells == UNION {SpecCells(a, NULL, NULL) : a \in Allocs}

Init ==
  /\ call = NULL
  /\ cells = {}
  /\ err = FALSE

(* A missing or unbacked allocation is reported and runs nothing; a call   *)
(* within bounds runs exactly the specified cells.                         *)
Launch(slot, ain, aout, sc) ==
  /\ call = NULL
  /\ call' = [slot |-> slot, ain |-> ain, aout |-> aout, sc |-> sc]
  /\ CASE ~BuffersValid(ain, aout) -> err' = TRUE /\ cells' = {}
       [] BoundsValid(ain, aout, sc) ->
            err' = FALSE /\ cells' = SpecCells(ain, aout, sc)
       [] OTHER -> err' \in BOOLEAN /\ cells' \in SUBSET AllCells

(* The launch is over. *)
Finish ==
  /\ call # NULL
  /\ call' = NULL
  /\ cells' = {}
  /\ err' = FALSE

Next ==
  \/ Finish
  \/ \E slot \in Slots, ain \in Allocs \cup {NULL}, aout \in Allocs \cup {NULL},
     sc \in Calls \cup {NULL} :
    Launch(slot, ain, aout, sc)

Spec == Init /\ [][Next]_<<call, cells, err>>
=============================================================================
