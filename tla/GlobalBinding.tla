---------------------------- MODULE GlobalBinding ----------------------------
(***************************************************************************)
(* Global variable binding of RsdCpuScriptImpl in                         *)
(* src/cpu_ref/rsCpuScript.cpp: setGlobalVar, getGlobalVar,               *)
(* setGlobalVarWithElemDims, setGlobalBind, setGlobalObj,                 *)
(* getAllocationForPointer, and the destructor's release of object-typed  *)
(* globals.                                                                *)
(*                                                                         *)
(* A slot's resolved address (mFieldAddress[slot], or the executable's    *)
(* export var address) is taken as non-NULL: for a NULL one every setter   *)
(* returns at once and changes nothing.  Reference counts belong to the   *)
(* objects (ObjectBase, outside this repository); spec.md 4.3 and 6 give   *)
(* their interface: incRefs/decRefs of an element skip NULL handles, and  *)
(* an object is deleted when its count drops to zero.  The host holds one  *)
(* reference on each object until it releases it.  Calls are serialised   *)
(* by the host (spec.md 5), so each operation is one step.                *)
(***************************************************************************)
EXTENDS Naturals, Sequences, FiniteSets, SequencesExt

CONSTANTS
  VarCount,    \* exportVarCount
  Kind,        \* [0..VarCount-1 -> {"plain", "obj", "objarr", "bind"}]
  ArrLen,      \* element count (dims[0]) of an object-array global
  Objs,        \* reference-counted objects the host may pass
  Values,      \* plain values
  Allocs,      \* allocations the host may bind
  Ptr,         \* [Allocs -> Ptrs \cup {NULL}]: lod[0].mallocPtr
  Ptrs,        \* backing-store pointers
  DimLengths,  \* the byte lengths of dims[] a caller may pass
  NULL

VarSlots == 0..VarCount-1
PlainSlots == {s \in VarSlots : Kind[s] = "plain"}
ObjSlots == {s \in VarSlots : Kind[s] \in {"obj", "objarr"}}
BindSlots == {s \in VarSlots : Kind[s] = "bind"}

ASSUME Kind \in [VarSlots -> {"plain", "obj", "objarr", "bind"}]
ASSUME Ptr \in [Allocs -> Ptrs \cup {NULL}]
ASSUME ArrLen \in Nat \ {0}

VARIABLES
  alive,   \* the script has not been destroyed
  plain,   \* [PlainSlots -> Values \cup {NULL}]: the bytes of a plain global
  objs,    \* [ObjSlots -> Seq(Objs \cup {NULL})]: object handles in a global
  gptr,    \* [BindSlots -> Ptrs \cup {NULL}]: the pointer a bind global holds
  bound,   \* [VarSlots -> Allocs \cup {NULL}]: mBoundAllocs
  rc,      \* [Objs -> Nat]: each object's reference count
  freed,   \* the objects deleted when their count reached zero
  uaf,     \* a count was changed on a deleted object (history)
  host,    \* the objects the host still holds a reference on
  got,     \* what the last getGlobalVar copied out, or NULL
  found    \* <<ptr, result>> of the last getAllocationForPointer, or NULL

vars == <<alive, plain, objs, gptr, bound, rc, freed, uaf, host, got, found>>

(* The object-typed globals in slot order, as the destructor visits them. *)
ObjSlotOrder == SelectSeq([i \in 1..VarCount |-> i - 1], LAMBDA s : s \in ObjSlots)

Len0(s) == IF Kind[s] = "objarr" THEN ArrLen ELSE 1

(* One incRefs/decRefs on an element: NULL handles are skipped; a count   *)
(* reaching zero deletes the object; touching a deleted one is a use      *)
(* after free, and its memory's count is not meaningful any more.         *)
RefStep(st, op) ==
  IF op.o = NULL THEN st
  ELSE LET o == op.o
           n == IF op.inc THEN st.rc[o] + 1 ELSE st.rc[o] - 1
       IN [rc |-> IF o \in st.freed THEN st.rc ELSE [st.rc EXCEPT ![o] = n],
           freed |-> IF o \notin st.freed /\ n = 0 THEN st.freed \cup {o}
                     ELSE st.freed,
           uaf |-> st.uaf \/ o \in st.freed]

Incs(seq) == [i \in 1..Len(seq) |-> [inc |-> TRUE, o |-> seq[i]]]
Decs(seq) == [i \in 1..Len(seq) |-> [inc |-> FALSE, o |-> seq[i]]]

(* Apply a sequence of reference operations, in order, to the counts.     *)
ApplyRefs(ops) ==
  LET st == FoldLeft(RefStep, [rc |-> rc, freed |-> freed, uaf |-> uaf], ops)
  IN rc' = st.rc /\ freed' = st.freed /\ uaf' = st.uaf

(* What the caller may pass as object data: handles it holds, or handles  *)
(* read back from a global (the incoming data may alias the slot).        *)
Passable == host \cup {o \in Objs : \E s \in ObjSlots : o \in Range(objs[s])}
            \cup {NULL}

Init ==
  /\ alive = TRUE
  /\ plain = [s \in PlainSlots |-> NULL]
  /\ objs = [s \in ObjSlots |-> [i \in 1..Len0(s) |-> NULL]]
  /\ gptr = [s \in BindSlots |-> NULL]
  /\ bound = [s \in VarSlots |-> NULL]
  /\ rc = [o \in Objs |-> 1]
  /\ freed = {}
  /\ uaf = FALSE
  /\ host = Objs
  /\ got = NULL
  /\ found = NULL

(* setGlobalVar: memcpy the caller's bytes over the global.               *)
SetGlobalVar(slot, v) ==
  /\ alive /\ slot \in PlainSlots
  /\ plain' = [plain EXCEPT ![slot] = v]
  /\ found' = NULL
  /\ UNCHANGED <<alive, objs, gptr, bound, rc, freed, uaf, host, got>>

(* getGlobalVar: memcpy the global into the caller's buffer.              *)
GetGlobalVar(slot) ==
  /\ alive /\ slot \in PlainSlots
  /\ got' = plain[slot]
  /\ found' = NULL
  /\ UNCHANGED <<alive, plain, objs, gptr, bound, rc, freed, uaf, host>>

(* Mutant: the decrement loop runs before the increment loop.            *)
SetGlobalVarWithElemDimsDecFirst(slot, data, dimLength) ==
  /\ alive /\ slot \in ObjSlots /\ Kind[slot] = "objarr"
  /\ IF dimLength \div 4 = 1
     THEN ApplyRefs(Decs(objs[slot]) \o Incs(data))
     ELSE UNCHANGED <<rc, freed, uaf>>
  /\ objs' = [objs EXCEPT ![slot] = data]
  /\ found' = NULL
  /\ UNCHANGED <<alive, plain, gptr, bound, host, got>>

(* Mutant: the decrement loop walks the incoming data, not the old value. *)
SetGlobalVarWithElemDimsDecNew(slot, data, dimLength) ==
  /\ alive /\ slot \in ObjSlots /\ Kind[slot] = "objarr"
  /\ IF dimLength \div 4 = 1
     THEN ApplyRefs(Incs(data) \o Decs(data))
     ELSE UNCHANGED <<rc, freed, uaf>>
  /\ objs' = [objs EXCEPT ![slot] = data]
  /\ found' = NULL
  /\ UNCHANGED <<alive, plain, gptr, bound, host, got>>

(* setGlobalVarWithElemDims: dimLength /= sizeof(int); only for one       *)
(* dimension are the incoming elements incremented, then the outgoing     *)
(* ones decremented; the memcpy happens either way.                       *)
SetGlobalVarWithElemDims(slot, data, dimLength) ==
  /\ alive /\ slot \in ObjSlots /\ Kind[slot] = "objarr"
  /\ IF dimLength \div 4 = 1
     THEN ApplyRefs(Incs(data) \o Decs(objs[slot]))
     ELSE UNCHANGED <<rc, freed, uaf>>
  /\ objs' = [objs EXCEPT ![slot] = data]
  /\ found' = NULL
  /\ UNCHANGED <<alive, plain, gptr, bound, host, got>>

(* setGlobalBind: record the allocation and store its mallocPtr, or NULL. *)
SetGlobalBind(slot, a) ==
  /\ alive /\ slot \in BindSlots
  /\ bound' = [bound EXCEPT ![slot] = a]
  /\ gptr' = [gptr EXCEPT ![slot] = IF a = NULL THEN NULL ELSE Ptr[a]]
  /\ found' = NULL
  /\ UNCHANGED <<alive, plain, objs, rc, freed, uaf, host, got>>

(* rsrSetObject(ctx, dst, src): increment src, decrement *dst, store src. *)
RsrSetObject(old, new) == ApplyRefs(<<[inc |-> TRUE, o |-> new],
                                      [inc |-> FALSE, o |-> old]>>)

(* setGlobalObj: rsrSetObject on the global's address.                    *)
SetGlobalObj(slot, o) ==
  /\ alive /\ slot \in ObjSlots /\ Kind[slot] = "obj"
  /\ RsrSetObject(objs[slot][1], o)
  /\ objs' = [objs EXCEPT ![slot] = <<o>>]
  /\ found' = NULL
  /\ UNCHANGED <<alive, plain, gptr, bound, host, got>>

(* Mutant: the scan stops at the first unbound slot.                      *)
RECURSIVE ScanBreak(_, _)
ScanBreak(p, ct) ==
  IF ct >= VarCount \/ bound[ct] = NULL THEN NULL
  ELSE IF Ptr[bound[ct]] = p THEN bound[ct] ELSE ScanBreak(p, ct + 1)

(* The loop of getAllocationForPointer from slot ct on.                   *)
RECURSIVE Scan(_, _)
Scan(p, ct) ==
  IF ct >= VarCount THEN NULL
  ELSE IF bound[ct] = NULL THEN Scan(p, ct + 1)
  ELSE IF Ptr[bound[ct]] = p THEN bound[ct] ELSE Scan(p, ct + 1)

(* getAllocationForPointer(ptr).                                          *)
GetAllocationForPointer(p) ==
  /\ alive
  /\ found' = <<p, IF p = NULL THEN NULL ELSE Scan(p, 0)>>
  /\ UNCHANGED <<alive, plain, objs, gptr, bound, rc, freed, uaf, host, got>>

(* The host drops its own reference on an object.                         *)
HostRelease(o) ==
  /\ o \in host
  /\ host' = host \ {o}
  /\ ApplyRefs(<<[inc |-> FALSE, o |-> o]>>)
  /\ found' = NULL
  /\ UNCHANGED <<alive, plain, objs, gptr, bound, got>>

(* ~RsdCpuScriptImpl(): rsrClearObject on the address of every object-    *)
(* typed global, which decrements the handle stored there (the first     *)
(* element of an array) and sets it to NULL.                              *)
Teardown ==
  /\ alive
  /\ alive' = FALSE
  /\ ApplyRefs(Decs([i \in 1..Len(ObjSlotOrder) |-> objs[ObjSlotOrder[i]][1]]))
  /\ objs' = [s \in ObjSlots |-> [objs[s] EXCEPT ![1] = NULL]]
  /\ found' = NULL
  /\ UNCHANGED <<plain, gptr, bound, host, got>>

Next ==
  \/ \E s \in VarSlots, v \in Values : SetGlobalVar(s, v)
  \/ \E s \in VarSlots : GetGlobalVar(s)
  \/ \E s \in VarSlots, d \in DimLengths :
       \E data \in [1..ArrLen -> Passable] : SetGlobalVarWithElemDims(s, data, d)
  \/ \E s \in VarSlots, a \in Allocs \cup {NULL} : SetGlobalBind(s, a)
  \/ \E s \in VarSlots, o \in Passable : SetGlobalObj(s, o)
  \/ \E p \in Ptrs \cup {NULL} : GetAllocationForPointer(p)
  \/ \E o \in Objs : HostRelease(o)
  \/ Teardown

Spec == Init /\ [][Next]_vars
-----------------------------------------------------------------------------
(* The references an object should have: the host's, and one per handle  *)
(* stored in a global of the live script.                                 *)
Holders(o) ==
  (IF o \in host THEN 1 ELSE 0)
  + IF alive
    THEN MapThenSumSet(LAMBDA s : Cardinality({i \in DOMAIN objs[s] : objs[s][i] = o}),
                       ObjSlots)
    ELSE 0

(* spec.md 4.3: setGlobalObj, setGlobalVarWithElemDims and the            *)
(* destructor transfer references so that every object not yet deleted    *)
(* has exactly as many references as holders, across rebinding, aliasing *)
(* of the incoming data with the global, and teardown.                    *)
RefsBalanced == \A o \in Objs \ freed : rc[o] = Holders(o)

(* spec.md 4.3: no reference operation of setGlobalVarWithElemDims,       *)
(* setGlobalObj or the destructor touches a deleted object, and no global *)
(* of a live script holds a deleted object, even when the incoming data   *)
(* is the global's own contents.                                          *)
NoUseAfterFree ==
  /\ ~uaf
  /\ alive => \A s \in ObjSlots : Range(objs[s]) \cap freed = {}

(* getAllocationForPointer returns an allocation bound to some slot whose *)
(* backing store is the pointer asked for, and NULL only when no bound    *)
(* slot has that pointer.                                                 *)
LookupFindsBound ==
  found # NULL =>
    LET p == found[1]
        hits == {s \in VarSlots : bound[s] # NULL /\ Ptr[bound[s]] = p}
    IN IF p = NULL \/ hits = {} THEN found[2] = NULL
       ELSE found[2] \in {bound[s] : s \in hits}
=============================================================================
