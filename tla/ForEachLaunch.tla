---------------------------- MODULE ForEachLaunch ----------------------------
(***************************************************************************)
(* RsdCpuScriptImpl::invokeForEach in src/cpu_ref/rsCpuScript.cpp: the     *)
(* launch descriptor (MTLaunchStruct) is filled by forEachMtlsSetup and    *)
(* forEachKernelSetup, the thread-local script is set, the dispatcher      *)
(* (launchThreads, outside this file) runs the kernel over the descriptor's *)
(* domain, and the thread-local script is restored.                        *)
(*                                                                         *)
(* An allocation is its per-axis extent and whether it has backing store   *)
(* (lod[0].mallocPtr); pointers, strides and user data are not modelled.   *)
(* rsAssert (rsUtils.h) only logs, so it changes no state here.            *)
(***************************************************************************)
EXTENDS Naturals, Sequences

CONSTANTS
  Allocs,        \* the allocations a caller may pass as ain / aout
  Calls,         \* the RsScriptCall sub-regions a caller may pass
  Slots,         \* the kernel slots a caller may pass
  ForEachCount,  \* exportForEachCount of the loaded script
  Kernels,       \* the expanded kernel functions the script defines
  Sigs,          \* the signature bitmasks a kernel may have
  Garbage,       \* what reading past mForEachFunctions[] may yield
  NULL

Axes == {"x", "y", "z"}
AxisOrder == <<"x", "y", "z">>

ASSUME ForEachCount \in Nat \ {0}
ASSUME Allocs \subseteq [dim : [Axes -> Nat], backed : BOOLEAN]
ASSUME Calls \subseteq [Axes -> [start : Nat, end : Nat]]
ASSUME Slots \subseteq Nat
ASSUME Sigs \subseteq Nat
ASSUME NULL \notin Kernels \cup Garbage

VARIABLES
  fns,      \* mForEachFunctions[0 .. ForEachCount-1], fixed at load time
  sigs,     \* mForEachSignatures[0 .. ForEachCount-1], fixed at load time
  call,     \* the last invokeForEach: its slot, ain, aout and sc
  mtls,     \* the MTLaunchStruct it built
  cells,    \* the <<x, y, z>> cells the kernel was run on
  crashed   \* the dispatcher called a NULL kernel on that call

vars == <<fns, sigs, call, mtls, cells, crashed>>

rsMin(a, b) == IF a < b THEN a ELSE b
rsMax(a, b) == IF a > b THEN a ELSE b

(* The descriptor after memset(mtls, 0, sizeof(MTLaunchStruct)).          *)
ZeroMtls ==
  [err |-> FALSE, dim |-> [a \in Axes |-> 0], start |-> [a \in Axes |-> 0],
   end |-> [a \in Axes |-> 0], arrayEnd |-> 0, ain |-> NULL, aout |-> NULL,
   sliceSize |-> 0, isThreadable |-> FALSE, kernel |-> NULL, sig |-> 0,
   slot |-> 0]

(* One axis of forEachMtlsSetup: an absent sc or a zero end takes the     *)
(* whole extent; otherwise start and end are clamped to the extent and an *)
(* empty range returns from the function at once.                         *)
ClampAxis(m, sc, a) ==
  IF sc = NULL \/ sc[a].end = 0
  THEN [m |-> [m EXCEPT !.end[a] = m.dim[a]], stop |-> FALSE]
  ELSE LET s == rsMin(m.dim[a], sc[a].start)
           e == rsMin(m.dim[a], sc[a].end)
       IN [m |-> [m EXCEPT !.start[a] = s, !.end[a] = e], stop |-> s >= e]

(* The axes x, y, z in that order, stopping at the first early return.    *)
RECURSIVE ClampAxes(_, _, _)
ClampAxes(m, sc, axes) ==
  IF axes = <<>> THEN [m |-> m, stop |-> FALSE]
  ELSE LET r == ClampAxis(m, sc, Head(axes))
       IN IF r.stop THEN r ELSE ClampAxes(r.m, sc, Tail(axes))

(* Mutant: the end bounds are not floored to 1, so a zero extent runs no *)
(* cell on that axis.                                                     *)
forEachMtlsSetupNoFloor(ain, aout, sc) ==
  LET z == ZeroMtls
      src == IF ain # NULL THEN ain ELSE aout
      r == ClampAxes([z EXCEPT !.dim = src.dim], sc, AxisOrder)
  IN CASE ain # NULL /\ ~ain.backed -> [z EXCEPT !.err = TRUE]
       [] aout # NULL /\ ~aout.backed -> [z EXCEPT !.err = TRUE]
       [] ain = NULL /\ aout = NULL -> [z EXCEPT !.err = TRUE]
       [] r.stop -> r.m
       [] OTHER -> [r.m EXCEPT !.ain = ain, !.aout = aout,
                               !.sliceSize = 1, !.isThreadable = TRUE]

(* forEachMtlsSetup(ain, aout, usr, usrLen, sc, mtls).                     *)
forEachMtlsSetup(ain, aout, sc) ==
  LET z == ZeroMtls
      src == IF ain # NULL THEN ain ELSE aout
      r == ClampAxes([z EXCEPT !.dim = src.dim], sc, AxisOrder)
  IN CASE ain # NULL /\ ~ain.backed -> [z EXCEPT !.err = TRUE]
       [] aout # NULL /\ ~aout.backed -> [z EXCEPT !.err = TRUE]
       [] ain = NULL /\ aout = NULL -> [z EXCEPT !.err = TRUE]
       [] r.stop -> r.m
       [] OTHER -> [r.m EXCEPT !.end = [a \in Axes |-> rsMax(1, r.m.end[a])],
                               !.arrayEnd = rsMax(1, r.m.arrayEnd),
                               !.ain = ain, !.aout = aout,
                               !.sliceSize = 1, !.isThreadable = TRUE]

(* Mutant: the kernel is read from the signature array. *)
KernelAtFromSignatures(slot) ==
  IF slot < ForEachCount THEN {sigs[slot]} ELSE Garbage \cup {NULL}

(* forEachKernelSetup: mForEachFunctions[slot], with no bounds check; a   *)
(* slot past the array reads whatever lies beyond it.                     *)
KernelAt(slot) ==
  IF slot < ForEachCount THEN {fns[slot]} ELSE Garbage \cup {NULL}

(* forEachKernelSetup: mForEachSignatures[slot], equally unchecked. *)
SigAt(slot) == IF slot < ForEachCount THEN {sigs[slot]} ELSE Sigs

(* launchThreads (rsCpuCore): every cell of [start, end) on every axis.   *)
DomainCells(m) ==
  {c \in (0..m.end["x"]) \X (0..m.end["y"]) \X (0..m.end["z"]) :
     \A i \in 1..3 : m.start[AxisOrder[i]] <= c[i] /\ c[i] < m.end[AxisOrder[i]]}

(* The loader tolerates a missing root.expand at slot 0 only.             *)
Init ==
  /\ fns \in {f \in [0..ForEachCount-1 -> Kernels \cup {NULL}] :
                \A i \in 1..ForEachCount-1 : f[i] # NULL}
  /\ sigs \in [0..ForEachCount-1 -> Sigs]
  /\ call = NULL
  /\ mtls = ZeroMtls
  /\ cells = {}
  /\ crashed = FALSE

(* invokeForEach(slot, ain, aout, usr, usrLen, sc): set up the descriptor *)
(* and the kernel, then launchThreads between setTLS(this) and           *)
(* setTLS(oldTLS) (InvocationDispatch models the thread-local).  Running  *)
(* cells through a NULL kernel crashes the process.                       *)
InvokeForEach(slot, ain, aout, sc) ==
  /\ call = NULL
  /\ \E k \in KernelAt(slot), g \in SigAt(slot) :
       LET m == [forEachMtlsSetup(ain, aout, sc) EXCEPT !.kernel = k,
                                                        !.sig = g,
                                                        !.slot = slot]
       IN /\ mtls' = m
          /\ cells' = DomainCells(m)
          /\ crashed' = (k = NULL /\ DomainCells(m) # {})
  /\ call' = [slot |-> slot, ain |-> ain, aout |-> aout, sc |-> sc]
  /\ UNCHANGED <<fns, sigs>>

(* invokeForEach returns; its stack-allocated MTLaunchStruct is gone.    *)
Return ==
  /\ call # NULL
  /\ call' = NULL
  /\ mtls' = ZeroMtls
  /\ cells' = {}
  /\ crashed' = FALSE
  /\ UNCHANGED <<fns, sigs>>

Next ==
  \/ \E slot \in Slots, ain \in Allocs \cup {NULL}, aout \in Allocs \cup {NULL},
        sc \in Calls \cup {NULL} :
       InvokeForEach(slot, ain, aout, sc)
  \/ Return

Spec == Init /\ [][Next]_vars
-----------------------------------------------------------------------------
TypeOK ==
  /\ fns \in [0..ForEachCount-1 -> Kernels \cup {NULL}]
  /\ call \in {NULL} \cup [slot : Slots, ain : Allocs \cup {NULL},
                           aout : Allocs \cup {NULL}, sc : Calls \cup {NULL}]
  /\ mtls.err \in BOOLEAN
  /\ sigs \in [0..ForEachCount-1 -> Sigs]
  /\ mtls.kernel \in Kernels \cup Garbage \cup {NULL}
  /\ mtls.sig \in Sigs \cup {0}
  /\ cells \subseteq Nat \X Nat \X Nat
  /\ crashed \in BOOLEAN

Dom == INSTANCE LaunchDomain WITH err <- mtls.err

(* invokeForEach implements the launch domain of spec.md 4.4 and 8: a     *)
(* missing or unbacked allocation reports RS_ERROR_BAD_SCRIPT and runs no *)
(* cell; an unrestricted axis covers max(extent, 1) cells, a restricted   *)
(* one its sub-region, across the early returns of forEachMtlsSetup and   *)
(* the zeroed descriptor they leave to launchThreads.                     *)
LaunchRefinesDomain == Dom!Spec

(* spec.md 7(a): a sub-region outside the allocation's bounds is reported  *)
(* and degrades to an empty launch.  forEachMtlsSetup only rsAsserts it:   *)
(* a sub-region that reaches past the extent but still clamps to some     *)
(* cells (x in [1, 3) on an extent of 2) is clamped and launched.  One    *)
(* that clamps to nothing returns early with no cell run, as spec.md 4.4  *)
(* prescribes, and is not counted here.                                   *)
BadBoundsRejected ==
  call # NULL /\ Dom!BuffersValid(call.ain, call.aout)
    /\ ~Dom!BoundsValid(call.ain, call.aout, call.sc)
    /\ Dom!SpecCells(call.ain, call.aout, call.sc) # {}
  => mtls.err /\ cells = {}

(* spec.md 8: a launch on a kernel slot at or past exportForEachCount is   *)
(* a fatal error, never a run of whatever forEachKernelSetup read there.   *)
OutOfRangeSlotIsFatal ==
  call # NULL /\ call.slot >= ForEachCount /\ cells # {} => crashed
=============================================================================
