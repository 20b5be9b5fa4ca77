---------------------------- MODULE ScriptLoader ----------------------------
(***************************************************************************)
(* The compatibility-library build (RS_COMPATIBILITY_LIB) of               *)
(* RsdCpuScriptImpl in src/cpu_ref/rsCpuScript.cpp: a script object is     *)
(* constructed, init() takes the process-wide init mutex, loads the        *)
(* script's shared object through loadSharedLibrary/loadSOHelper (which    *)
(* instances a library that is already loaded through a randomly named     *)
(* symlink), parses the .rs.info symbol table, and either returns true or  *)
(* takes the goto-error cleanup path; the destructor releases what the     *)
(* object still points to.                                                 *)
(*                                                                         *)
(* Data is abstracted: a path is a record naming its directory, resource   *)
(* and random suffix; the .rs.info parse is one step, computed by         *)
(* MetadataParser from the library's text and symbols; an array member is  *)
(* the state of its pointer (null, live, dangling).                        *)
(***************************************************************************)
EXTENDS Integers, FiniteSets, MetadataParser

CONSTANTS
  Scripts,      \* RsdCpuScriptImpl objects, each created by its own thread
  Res,          \* resource names (resName) of compiled scripts
  Handles,      \* identities of dlopen() mappings; the linker reuses one
                \* whose references have all been dropped
  Rand,         \* possible results of getRandomString(6)
  FreshRandom,  \* TRUE: getRandomString never repeats an earlier result
  DestroyFailed, \* TRUE: the caller deletes a script whose init() failed
  Infos,        \* the libraries a resource may name: .rs.info text, symbols
  NULL

ASSUME FreshRandom \in BOOLEAN /\ DestroyFailed \in BOOLEAN
ASSUME NULL \notin Scripts \cup Handles \cup Rand

VARIABLES
  pc,        \* [Scripts -> Pc]: where each script's thread is
  res,       \* [Scripts -> Res]: the resName init() was called with
  lock,      \* holder of the init mutex (mCtx->lockMutex), or NULL
  loaded,    \* LoadedLibraries: the static std::set in loadSOHelper
  dl,        \* the dynamic linker's table of mappings, by handle
  usedAlias, \* every symlink name generated so far (history)
  privLib,   \* resources whose librs.<res>.so exists in the app lib dir
  sysLib,    \* resources whose librs.<res>.so exists in /system/lib
  rsInfo,    \* [Res -> Infos]: the library each resource name refers to
  scriptSO,  \* [Scripts -> Handles \cup {NULL}]: mScriptSO
  arr,       \* [Scripts -> [Arrays -> PtrState]]: the array members
  frees,     \* [Scripts -> [Releasable -> Nat]]: releases so far (history)
  cleared    \* [Scripts -> SUBSET Nat]: the globals the destructor passed
             \* to rsrClearObject

vars == <<pc, res, lock, loaded, dl, usedAlias, privLib, sysLib, rsInfo,
          scriptSO, arr, frees, cleared>>

Pc == {"new", "priv", "sys", "info", "error", "cleanup", "ready", "failed",
       "dead"}

(* The heap arrays init() allocates, by member name. *)
Arrays == {"mFieldIsObject", "mFieldAddress", "mInvokeFunctions",
           "mForEachSignatures", "mForEachFunctions", "mBoundAllocs"}
Releasable == Arrays \cup {"mScriptSO"}
PtrState == {"null", "live", "dangling"}

(* Paths: the app's private lib path, the /system/lib fallback, and the   *)
(* cache-dir symlink librs.<res>#<random>.so.                              *)
OrigPath(d, r) == [dir |-> d, res |-> r, rnd |-> NULL]
AliasPath(r, x) == [dir |-> "cache", res |-> r, rnd |-> x]
Paths == {OrigPath(d, r) : d \in {"app", "system"}, r \in Res}
         \cup {AliasPath(r, x) : r \in Res, x \in Rand}

(* Each library's parse, computed once per library.                      *)
ParseOf == [l \in Infos |-> Parse(l)]

(* The section whose body allocates an array (9: after the parse), and   *)
(* the count that must be positive.                                       *)
AllocSection == [mFieldIsObject |-> 2, mFieldAddress |-> 2,
                 mInvokeFunctions |-> 4, mForEachSignatures |-> 6,
                 mForEachFunctions |-> 6, mBoundAllocs |-> 9]
CountPositive(m, a) ==
  CASE a \in {"mFieldIsObject", "mFieldAddress", "mBoundAllocs"} -> m.varCount > 0
    [] a = "mInvokeFunctions" -> m.funcCount > 0
    [] OTHER -> m.forEachCount > 0

(* The arrays allocated when the parse (MetadataParser's Parse) stops. *)
AllocatedBy(m) ==
  {a \in Arrays : CountPositive(m, a)
                  /\ AllocSection[a] <= IF m.fail = 0 THEN 9 ELSE m.fail}

-----------------------------------------------------------------------------
(* The filesystem: origName exists when the library was installed there; *)
(* a symlink exists only between symlink() and unlink() in loadSOHelper.  *)
FileExists(p) ==
  IF p.dir = "app" THEN p.res \in privLib ELSE p.res \in sysLib

(* dlopen(name, RTLD_NOW | RTLD_LOCAL): a name that is mapped already     *)
(* yields the same handle with one more reference; otherwise a new        *)
(* mapping, or NULL when the load fails.  A new mapping may get a handle *)
(* whose references are gone.  Result: <<handle, new table>>.             *)
DlOpen(name) ==
  LET live == {h \in Handles : dl[h].refs > 0 /\ dl[h].name = name}
      fresh == {h \in Handles : dl[h].refs <= 0}
  IN IF live # {}
     THEN {<<h, [dl EXCEPT ![h].refs = @ + 1]>> : h \in live}
     ELSE {<<NULL, dl>>}
          \cup {<<h, [dl EXCEPT ![h] = [name |-> name, refs |-> 1]]>> :
                  h \in fresh}

(* dlclose(handle): drop one reference.  The caller passes whatever it  *)
(* holds; a close of a handle whose references are gone, which the       *)
(* linker does not define, is recorded as a count below zero, and that   *)
(* handle, or one reused by a later dlopen, is dropped once more.         *)
DlClose(h) == [dl EXCEPT ![h].refs = @ - 1]

(* Store loadSOHelper's result in mScriptSO and continue: on NULL with    *)
(* onFail, otherwise with the .rs.info parse.                             *)
Return(s, h, onFail) ==
  /\ scriptSO' = [scriptSO EXCEPT ![s] = h]
  /\ pc' = [pc EXCEPT ![s] = IF h = NULL THEN onFail ELSE "info"]

(* Mutant: LoadedLibraries is not consulted, so an already loaded library *)
(* is dlopen()ed again by its own name.                                    *)
LoadSOHelperNoSetLookup(s, orig, onFail) ==
  \/ /\ ~FileExists(orig)
     /\ Return(s, NULL, onFail)
     /\ UNCHANGED <<loaded, dl, usedAlias>>
  \/ /\ FileExists(orig)
     /\ \E r \in DlOpen(orig) :
          /\ dl' = r[2]
          /\ loaded' = IF r[1] = NULL THEN loaded ELSE loaded \cup {orig}
          /\ Return(s, r[1], onFail)
     /\ UNCHANGED usedAlias

(* loadSOHelper(origName, cacheDir, resName), all of it under the init    *)
(* mutex: a missing library fails; a library not yet in LoadedLibraries   *)
(* is dlopen()ed directly; otherwise a randomly named symlink to it is    *)
(* created in the cache dir, dlopen()ed and unlinked at once.             *)
LoadSOHelper(s, orig, onFail) ==
  \/ /\ ~FileExists(orig)
     /\ Return(s, NULL, onFail)
     /\ UNCHANGED <<loaded, dl, usedAlias>>
  \/ /\ FileExists(orig)
     /\ orig \notin loaded
     /\ \E r \in DlOpen(orig) :
          /\ dl' = r[2]
          /\ loaded' = IF r[1] = NULL THEN loaded ELSE loaded \cup {orig}
          /\ Return(s, r[1], onFail)
     /\ UNCHANGED usedAlias
  \/ /\ FileExists(orig)
     /\ orig \in loaded
     \* ensureCacheDirExists or symlink() fails
     /\ Return(s, NULL, onFail)
     /\ UNCHANGED <<loaded, dl, usedAlias>>
  \/ /\ FileExists(orig)
     /\ orig \in loaded
     /\ \E x \in Rand :
          LET alias == AliasPath(res[s], x) IN
          /\ FreshRandom => alias \notin usedAlias
          /\ usedAlias' = usedAlias \cup {alias}
          /\ \E r \in DlOpen(alias) :
               /\ dl' = r[2]
               /\ loaded' = IF r[1] = NULL THEN loaded ELSE loaded \cup {alias}
               /\ Return(s, r[1], onFail)
-----------------------------------------------------------------------------
(* RsdCpuScriptImpl's constructor has set every member to NULL; the      *)
(* creating thread calls init(resName, cacheDir, ...).                   *)
Init ==
  /\ pc = [s \in Scripts |-> "new"]
  /\ res \in [Scripts -> Res]
  /\ lock = NULL
  /\ loaded = {}
  /\ dl = [h \in Handles |-> [name |-> NULL, refs |-> 0]]
  /\ usedAlias = {}
  /\ privLib \in SUBSET Res
  /\ sysLib \in SUBSET Res
  /\ rsInfo \in [Res -> Infos]
  /\ scriptSO = [s \in Scripts |-> NULL]
  /\ arr = [s \in Scripts |-> [a \in Arrays |-> "null"]]
  /\ frees = [s \in Scripts |-> [a \in Releasable |-> 0]]
  /\ cleared = [s \in Scripts |-> {}]

(* init(): mCtx->lockMutex().                                             *)
LockInit(s) ==
  /\ pc[s] = "new"
  /\ lock = NULL
  /\ lock' = s
  /\ pc' = [pc EXCEPT ![s] = "priv"]
  /\ UNCHANGED <<cleared, res, loaded, dl, usedAlias, privLib, sysLib, rsInfo,
                 scriptSO, arr, frees>>

(* loadSharedLibrary: the app's own lib directory first ...               *)
LoadPrivate(s) ==
  /\ pc[s] = "priv"
  /\ LoadSOHelper(s, OrigPath("app", res[s]), "sys")
  /\ UNCHANGED <<cleared, res, lock, privLib, sysLib, rsInfo, arr, frees>>

(* ... then /system/lib; NULL from both is init()'s `goto error`.         *)
LoadSystem(s) ==
  /\ pc[s] = "sys"
  /\ LoadSOHelper(s, OrigPath("system", res[s]), "error")
  /\ UNCHANGED <<cleared, res, lock, privLib, sysLib, rsInfo, arr, frees>>

(* The .rs.info parse: each section with a positive count allocates its   *)
(* arrays; a missing or malformed line, or a missing function or kernel,  *)
(* is `goto error`.  On success mBoundAllocs is allocated and init()      *)
(* unlocks and returns true.                                              *)
ParseInfo(s) ==
  LET m == ParseOf[rsInfo[res[s]]] IN
  /\ pc[s] = "info"
  /\ arr' = [arr EXCEPT ![s] =
               [a \in Arrays |-> IF a \in AllocatedBy(m) THEN "live" ELSE @[a]]]
  /\ IF m.fail = 0
     THEN pc' = [pc EXCEPT ![s] = "ready"] /\ lock' = NULL
     ELSE pc' = [pc EXCEPT ![s] = "error"] /\ lock' = lock
  /\ UNCHANGED <<cleared, res, loaded, dl, usedAlias, privLib, sysLib, rsInfo,
                 scriptSO, frees>>

(* Mutant: the error path returns without mCtx->unlockMutex().          *)
ErrorUnlockKeepsLock(s) ==
  /\ pc[s] = "error"
  /\ lock' = lock
  /\ pc' = [pc EXCEPT ![s] = "cleanup"]
  /\ UNCHANGED <<cleared, res, loaded, dl, usedAlias, privLib, sysLib, rsInfo,
                 scriptSO, arr, frees>>

(* error: the mutex is unlocked first ...                                 *)
ErrorUnlock(s) ==
  /\ pc[s] = "error"
  /\ lock' = NULL
  /\ pc' = [pc EXCEPT ![s] = "cleanup"]
  /\ UNCHANGED <<cleared, res, loaded, dl, usedAlias, privLib, sysLib, rsInfo,
                 scriptSO, arr, frees>>

(* delete[] a member (a no-op on NULL) and dlclose a non-NULL mScriptSO,  *)
(* leaving every pointer as it was: the cleanup of both the error label  *)
(* and the destructor.                                                    *)
ReleaseAll(s) ==
  /\ arr' = [arr EXCEPT ![s] =
               [a \in Arrays |-> IF @[a] = "null" THEN "null" ELSE "dangling"]]
  /\ frees' = [frees EXCEPT ![s] =
                 [a \in Releasable |->
                    IF (a = "mScriptSO" /\ scriptSO[s] # NULL)
                       \/ (a \in Arrays /\ arr[s][a] # "null")
                    THEN @[a] + 1 ELSE @[a]]]
  /\ dl' = IF scriptSO[s] # NULL THEN DlClose(scriptSO[s]) ELSE dl

(* Mutant: the error path deletes the arrays but forgets dlclose().     *)
ErrorCleanupNoDlclose(s) ==
  /\ pc[s] = "cleanup"
  /\ arr' = [arr EXCEPT ![s] =
               [a \in Arrays |-> IF @[a] = "null" THEN "null" ELSE "dangling"]]
  /\ frees' = [frees EXCEPT ![s] =
                 [a \in Releasable |->
                    IF a \in Arrays /\ arr[s][a] # "null" THEN @[a] + 1 ELSE @[a]]]
  /\ pc' = [pc EXCEPT ![s] = "failed"]
  /\ UNCHANGED <<cleared, res, lock, loaded, dl, usedAlias, privLib, sysLib, rsInfo,
                 scriptSO>>

(* ... then the arrays are deleted and the library closed; init() returns *)
(* false without resetting any of the members.                            *)
ErrorCleanup(s) ==
  /\ pc[s] = "cleanup"
  /\ ReleaseAll(s)
  /\ pc' = [pc EXCEPT ![s] = "failed"]
  /\ UNCHANGED <<cleared, res, lock, loaded, usedAlias, privLib, sysLib, rsInfo,
                 scriptSO>>

(* mFieldAddress[i] != NULL: dlsym found the i-th variable's name.       *)
Resolved(m) == {i \in 0..Len(m.fieldNames) - 1 : m.fieldNames[i + 1] \in m.exports}

(* Mutant: the destructor drops the mFieldAddress[i] != NULL check.      *)
ObjectClearsUnchecked(s) ==
  LET m == ParseOf[rsInfo[res[s]]] IN
  CASE arr[s]["mFieldIsObject"] = "null" -> {{}}
    [] arr[s]["mFieldIsObject"] = "live" ->
         {{i \in 0..m.varCount - 1 : i \in m.objects}}
    [] OTHER -> SUBSET (0..m.varCount - 1)

(* The destructor's loop: for i < mExportedVariableCount, rsrClearObject  *)
(* on mFieldAddress[i] where mFieldIsObject[i] and the address is set.   *)
(* After a failed init() both arrays have been deleted by `error:` but    *)
(* are still pointed to: what the loop reads there is undefined, so any  *)
(* subset of the slots may be cleared.                                    *)
ObjectClears(s) ==
  LET m == ParseOf[rsInfo[res[s]]] IN
  CASE arr[s]["mFieldIsObject"] = "null" -> {{}}
    [] arr[s]["mFieldIsObject"] = "live" ->
         {{i \in 0..m.varCount - 1 : i \in m.objects \cap Resolved(m)}}
    [] OTHER -> SUBSET (0..m.varCount - 1)

(* The states a script may be destroyed in: after a successful init() and, *)
(* when the caller deletes the object it failed to initialise, after a    *)
(* failed one.                                                             *)
DestroyFrom == IF DestroyFailed THEN {"ready", "failed"} ELSE {"ready"}

(* ~RsdCpuScriptImpl(): the object globals are cleared, then every member *)
(* is released.                                                            *)
Destroy(s) ==
  /\ pc[s] \in DestroyFrom
  /\ \E c \in ObjectClears(s) : cleared' = [cleared EXCEPT ![s] = c]
  /\ ReleaseAll(s)
  /\ pc' = [pc EXCEPT ![s] = "dead"]
  /\ UNCHANGED <<res, lock, loaded, usedAlias, privLib, sysLib, rsInfo,
                 scriptSO>>

Next ==
  \E s \in Scripts :
    \/ LockInit(s)
    \/ LoadPrivate(s)
    \/ LoadSystem(s)
    \/ ParseInfo(s)
    \/ ErrorUnlock(s)
    \/ ErrorCleanup(s)
    \/ Destroy(s)

(* A thread blocked on the mutex gets it if it is free infinitely often   *)
(* (strong fairness); a running thread keeps running (weak fairness).     *)
(* Nothing forces a caller to destroy a script.                           *)
Fairness ==
  \A s \in Scripts :
    /\ SF_vars(LockInit(s))
    /\ WF_vars(LoadPrivate(s) \/ LoadSystem(s) \/ ParseInfo(s)
               \/ ErrorUnlock(s) \/ ErrorCleanup(s))

Spec == Init /\ [][Next]_vars /\ Fairness

-----------------------------------------------------------------------------
(* A script holds the mapping it loaded from the successful loadSOHelper *)
(* until its error cleanup or destructor dlclose()s it.                   *)
Holds(s) == pc[s] \in {"info", "ready", "error", "cleanup"} /\ scriptSO[s] # NULL

(* Instancing (the comment on loadSOHelper): two script objects never    *)
(* share one mapping of a library, and hence never share its globals,     *)
(* however many load the same resource.                                    *)
InstancesIsolated ==
  \A s, t \in Scripts :
    s # t /\ Holds(s) /\ Holds(t) => scriptSO[s] # scriptSO[t]

(* Every mapping is referenced exactly by the scripts holding it: a       *)
(* failed init() or a destroyed script leaves no library mapped, and no   *)
(* close drops a reference another script still holds, even when the     *)
(* linker hands a freed handle to a later load.                           *)
MappingRefsMatchHolders ==
  \A h \in Handles :
    dl[h].refs = Cardinality({s \in Scripts : Holds(s) /\ scriptSO[s] = h})

(* Every call of init() returns: no path through init() leaves the init   *)
(* mutex held, so no other script's init() blocks forever.                *)
InitReturns ==
  \A s \in Scripts : pc[s] = "new" ~> pc[s] \in {"ready", "failed", "dead"}

(* The library has been parsed: init() got past loadSharedLibrary.       *)
Parsed(s) ==
  pc[s] \in {"ready", "error", "cleanup", "failed", "dead"} /\ scriptSO[s] # NULL

(* The parse stays inside its buffers whatever .rs.info holds: strgets    *)
(* writes at most MAXLINE bytes into line, the %500s of a kernel line and *)
(* the strncat of ".expand" at most MAXLINE into tmpName, and an object   *)
(* slot index never reaches past mFieldIsObject[varCount].                *)
ParseWithinBuffers ==
  \A s \in Scripts : Parsed(s) => ~ParseOf[rsInfo[res[s]]].overflow

(* An init() that returns true has built the symbol table its library's  *)
(* .rs.info declares, name for name: a line too long for strgets's       *)
(* buffer makes the parse fail rather than shift the lines that follow    *)
(* into the wrong entries.                                                *)
ReadyAsWritten ==
  \A s \in Scripts :
    pc[s] = "ready" => TableAsWritten(ParseOf[rsInfo[res[s]]], rsInfo[res[s]].prog)

(* Every array and the library handle is released at most once over the  *)
(* object's life (the error path and the destructor together).            *)
NoDoubleRelease ==
  \A s \in Scripts : \A a \in Releasable : frees[s][a] <= 1

(* spec.md 4.3 teardown: destroying a script whose init() succeeded       *)
(* releases exactly the object-typed globals its program declares that    *)
(* resolved to an address, each once, skipping one optimized away; the    *)
(* destructor learns them only through the parse's mFieldIsObject and     *)
(* mFieldAddress.                                                         *)
TeardownReleasesObjects ==
  \A s \in Scripts :
    pc[s] = "dead" /\ Parsed(s) /\ ParseOf[rsInfo[res[s]]].fail = 0
      => cleared[s] = ObjectGlobals(rsInfo[res[s]])
=============================================================================
