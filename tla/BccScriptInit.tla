---------------------------- MODULE BccScriptInit ----------------------------
(***************************************************************************)
(* The default build (no RS_COMPATIBILITY_LIB) of RsdCpuScriptImpl::init   *)
(* in src/cpu_ref/rsCpuScript.cpp: under the init mutex it creates the bcc *)
(* compiler context and driver, extracts the bitcode's metadata, chooses   *)
(* the core library, loads the executable from the cache unless the        *)
(* context is a debug one or a recompile is forced, otherwise builds it    *)
(* and loads the result; the destructor deletes what init() created.       *)
(*                                                                         *)
(* All of init() after lockMutex runs under the mutex, and no other actor  *)
(* touches what it reads, so the body is one step per outcome.  A bitcode  *)
(* is abstracted to whether its metadata extracts, its precision, and what *)
(* its executable exports: each global's address (NULL when the compiler  *)
(* optimized it away) and the object-slot flag RSInfo gives for it.       *)
(***************************************************************************)
EXTENDS Naturals, Sequences

CONSTANTS
  Scripts,   \* RsdCpuScriptImpl objects, each created by its own thread
  Res,       \* resource names: one cache entry each
  Bitcodes,  \* the bitcodes a script may be created from
  NULL

Precisions == {"imprecise", "relaxed", "full", "unknown"}

ASSUME \A b \in Bitcodes :
         /\ b.extracts \in BOOLEAN /\ b.prec \in Precisions
         /\ b.vars \in Seq({"addr", "null"}) /\ b.slots \in Seq(BOOLEAN)

VARIABLES
  pc,       \* [Scripts -> {"new", "locked", "ready", "failed", "dead"}]
  res,      \* [Scripts -> Res]
  bitcode,  \* [Scripts -> Bitcodes]
  lock,     \* holder of the init mutex, or NULL
  debug,    \* the context is RS_CONTEXT_TYPE_DEBUG
  force,    \* is_force_recompile(): debug.rs.precision/forcerecompile set
  cache,    \* resources with a loadable executable in the cache dir
  obj,      \* [Scripts -> [Members -> PtrState]]
  frees,    \* [Scripts -> [Members -> Nat]]: deletes so far (history)
  cleared   \* [Scripts -> SUBSET Nat]: globals passed to rsrClearObject

vars == <<pc, res, bitcode, lock, debug, force, cache, obj, frees, cleared>>

Members == {"mCompilerContext", "mCompilerDriver", "mExecutable",
            "mBoundAllocs"}
PtrState == {"null", "live", "dangling"}

(* Set the given members to newly allocated objects. *)
Alloc(s, ms) ==
  obj' = [obj EXCEPT ![s] = [m \in Members |-> IF m \in ms THEN "live" ELSE @[m]]]

Init ==
  /\ pc = [s \in Scripts |-> "new"]
  /\ res \in [Scripts -> Res]
  /\ bitcode \in [Scripts -> Bitcodes]
  /\ lock = NULL
  /\ debug \in BOOLEAN
  /\ force \in BOOLEAN
  /\ cache \in SUBSET Res
  /\ obj = [s \in Scripts |-> [m \in Members |-> "null"]]
  /\ frees = [s \in Scripts |-> [m \in Members |-> 0]]
  /\ cleared = [s \in Scripts |-> {}]

(* init(): mCtx->lockMutex().                                              *)
LockInit(s) ==
  /\ pc[s] = "new"
  /\ lock = NULL
  /\ lock' = s
  /\ pc' = [pc EXCEPT ![s] = "locked"]
  /\ UNCHANGED <<res, bitcode, debug, force, cache, obj, frees, cleared>>

(* Return from init() with the given result, unlocking or not.            *)
Finish(s, ok, unlock) ==
  /\ pc' = [pc EXCEPT ![s] = IF ok THEN "ready" ELSE "failed"]
  /\ lock' = IF unlock THEN NULL ELSE lock

(* Mutant: when no executable is prepared the error path deletes the     *)
(* compiler context and driver itself, as the compatibility build does,   *)
(* without resetting the members.                                         *)
InitBodyDeletesOnError(s) ==
  LET b == bitcode[s]
      useCache == ~debug /\ ~force /\ res[s] \in cache
  IN
  /\ pc[s] = "locked"
  /\ \/ /\ Finish(s, FALSE, TRUE)
        /\ UNCHANGED <<cache, obj, frees>>
     \/ /\ Alloc(s, {"mCompilerContext"})
        /\ Finish(s, FALSE, TRUE)
        /\ UNCHANGED <<cache, frees>>
     \/ /\ ~b.extracts \/ b.prec = "unknown"
        /\ Alloc(s, {"mCompilerContext", "mCompilerDriver"})
        /\ Finish(s, FALSE, FALSE)
        /\ UNCHANGED <<cache, frees>>
     \/ /\ b.extracts /\ b.prec # "unknown"
        /\ ~useCache
        /\ obj' = [obj EXCEPT ![s]["mCompilerContext"] = "dangling",
                              ![s]["mCompilerDriver"] = "dangling"]
        /\ frees' = [frees EXCEPT ![s]["mCompilerContext"] = 1,
                                  ![s]["mCompilerDriver"] = 1]
        /\ Finish(s, FALSE, TRUE)
        /\ UNCHANGED cache
     \/ /\ b.extracts /\ b.prec # "unknown"
        /\ \E bound \in SUBSET {"mBoundAllocs"} :
             Alloc(s, {"mCompilerContext", "mCompilerDriver", "mExecutable"}
                      \cup bound)
        /\ cache' = cache \cup {res[s]}
        /\ Finish(s, TRUE, TRUE)
        /\ UNCHANGED frees
  /\ UNCHANGED <<res, bitcode, debug, force, cleared>>

(* The body of init() after lockMutex, one disjunct per way out of it:    *)
(* new BCCContext or new RSCompilerDriver yielding NULL; the metadata not *)
(* extracting, or an unknown precision, both returning with the mutex     *)
(* still locked; no executable from the cache or the build; success.      *)
InitBody(s) ==
  LET b == bitcode[s]
      useCache == ~debug /\ ~force /\ res[s] \in cache
  IN
  /\ pc[s] = "locked"
  /\ \/ /\ Finish(s, FALSE, TRUE)
        /\ UNCHANGED <<cache, obj>>
     \/ /\ Alloc(s, {"mCompilerContext"})
        /\ Finish(s, FALSE, TRUE)
        /\ UNCHANGED cache
     \/ /\ ~b.extracts \/ b.prec = "unknown"
        /\ Alloc(s, {"mCompilerContext", "mCompilerDriver"})
        /\ Finish(s, FALSE, FALSE)
        /\ UNCHANGED cache
     \/ /\ b.extracts /\ b.prec # "unknown"
        /\ ~useCache
        \* build() fails, or its output does not load
        /\ Alloc(s, {"mCompilerContext", "mCompilerDriver"})
        /\ Finish(s, FALSE, TRUE)
        /\ UNCHANGED cache
     \/ /\ b.extracts /\ b.prec # "unknown"
        /\ \E bound \in SUBSET {"mBoundAllocs"} :
             Alloc(s, {"mCompilerContext", "mCompilerDriver", "mExecutable"}
                      \cup bound)
        /\ cache' = cache \cup {res[s]}
        /\ Finish(s, TRUE, TRUE)
  /\ UNCHANGED <<res, bitcode, debug, force, frees, cleared>>

(* The destructor's walk of getExportVarAddrs() and getObjectSlots() in    *)
(* step, ending with the shorter: rsrClearObject on each address that is   *)
(* flagged as an object and not NULL; nothing without an executable.      *)
ObjectsCleared(s) ==
  LET b == bitcode[s] IN
  IF obj[s]["mExecutable"] = "null" THEN {}
  ELSE {i \in 1..Len(b.vars) :
          i <= Len(b.slots) /\ b.slots[i] /\ b.vars[i] = "addr"}

(* ~RsdCpuScriptImpl(): clear the object globals, then delete each        *)
(* non-NULL member.                                                        *)
Destroy(s) ==
  /\ pc[s] \in {"ready", "failed"}
  /\ cleared' = [cleared EXCEPT ![s] = ObjectsCleared(s)]
  /\ obj' = [obj EXCEPT ![s] =
               [m \in Members |-> IF @[m] = "null" THEN "null" ELSE "dangling"]]
  /\ frees' = [frees EXCEPT ![s] =
                 [m \in Members |-> IF obj[s][m] # "null" THEN @[m] + 1 ELSE @[m]]]
  /\ pc' = [pc EXCEPT ![s] = "dead"]
  /\ UNCHANGED <<res, bitcode, lock, debug, force, cache>>

Next ==
  \E s \in Scripts :
    \/ LockInit(s)
    \/ InitBody(s)
    \/ Destroy(s)

Fairness ==
  \A s \in Scripts :
    /\ SF_vars(LockInit(s))
    /\ WF_vars(InitBody(s))

Spec == Init /\ [][Next]_vars /\ Fairness
-----------------------------------------------------------------------------
(* What init() created, on any of its paths, is deleted at most once over *)
(* the object's life: the early returns leave their objects to the        *)
(* destructor and never delete them themselves.                            *)
NoDoubleRelease ==
  \A s \in Scripts : \A m \in Members : frees[s][m] <= 1

(* Every call of init() returns with the init mutex released, so no other  *)
(* script's init() blocks forever.                                          *)
InitReturns ==
  \A s \in Scripts : pc[s] = "new" ~> pc[s] \in {"ready", "failed", "dead"}
=============================================================================
