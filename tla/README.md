# TLA+ models of the RenderScript CPU script driver

This directory models `src/cpu_ref/rsCpuScript.cpp`, the class
`RsdCpuScriptImpl`. It loads a compiled RenderScript kernel, binds its
globals and launches its kernels over allocations. The file has two builds,
and both are modelled:

* **Compatibility build** (`RS_COMPATIBILITY_LIB`). The kernel is a
  prebuilt `librs.<res>.so`.
  - `loadSharedLibrary` tries the app's `lib/` directory, then
    `/system/lib`.
  - `loadSOHelper` keeps a process-wide set `LoadedLibraries`. A library
    that is already loaded is reloaded through a symlink with a random name,
    so that each script instance gets its own copy of the globals.
  - `init()` parses the `.rs.info` text the library exports and allocates
    the symbol arrays.
  - Its `error:` label frees everything. The destructor frees everything
    again.
* **Default (bcc) build.** `init()` creates a bcc compiler context and
  driver, extracts the bitcode's metadata and checks its float precision.
  It then loads the executable from the cache, or builds it with bcc and
  loads the result.

In both builds `init()` runs under the context's init mutex
(`mCtx->lockMutex()`), so several scripts' `init()` calls are serialised
by it. The launch path then runs:
- `invokeForEach` calls `forEachMtlsSetup` (the launch domain) and
  `forEachKernelSetup` (the kernel function and signature);
- it sets the thread-local script and calls the dispatcher
  `launchThreads`, which lives in rsCpuCore, outside this file.

## Inventory

| Part (source lines) | State | Operations | Hard behaviour | Module |
|---|---|---|---|---|
| Loader, compat (81-187) | `LoadedLibraries`, linker mappings, symlinks | `loadSOHelper`, `loadSharedLibrary` | several instances of one resource; random alias names; the reference count per mapping | `ScriptLoader` |
| Parser, compat (287-323, 486-685) | `m*` arrays, counts | `strgets`, section parse | a failure in any section; truncation at `MAXLINE`; `strncat` limit | `MetadataParser`, composed into `ScriptLoader` |
| init/teardown, compat (326-361, 686-701, 1079-1101) | member pointers, mutex | constructor, `init`, `~RsdCpuScriptImpl` | cleanup on the error path, then again in the destructor; the destructor's release of object globals, driven by the parse | `ScriptLoader` |
| init/teardown, bcc (363-482, 1038-1078) | compiler context, driver, executable, bound-allocs array, cache | `init`, destructor, `is_force_recompile` | early returns; the mutex on each path; the destructor's lockstep walk over variable addresses and object flags | `BccScriptInit` |
| `compileBitcode` (214-277) | child process | fork/exec/wait | process I/O | not modelled (appears as build success or failure) |
| ForEach launch (743-873) | `MTLaunchStruct` | `forEachMtlsSetup`, `forEachKernelSetup`, `invokeForEach` | clamping, empty ranges, zero extents, unchecked slot | `ForEachLaunch`, abstract `LaunchDomain` |
| Invocation (875-906) | thread-local script | `invokeRoot`, `invokeInit`, `invokeFreeChildren`, `invokeFunction` | nesting of the save and restore | `InvocationDispatch` |
| Globals (908-1036, 1104-1118) | exported variables, `mBoundAllocs`, reference counts | `setGlobalVar`, `getGlobalVar`, `setGlobalVarWithElemDims`, `setGlobalBind`, `setGlobalObj`, `getAllocationForPointer` | increment before decrement; `dimLength != 1` | `GlobalBinding` |
| `populateScript` (704-738) | Script HAL | copy | none | not modelled (a copy of checked values) |
| `preLaunch`/`postLaunch` (1120-1130) | none | empty | none | not modelled |

## Modules

### `ScriptLoader`: compat loader, init and destructor

Each script has a program counter `pc`, which walks `new → priv → sys →
info → ready`, or on failure `error → cleanup → failed`, then `dead` after
the destructor.

State:
- `lock`: the init mutex.
- `loaded`: `LoadedLibraries`.
- `dl`: the linker's handle table, holding a name and a reference count per
  handle. `DlOpen` reuses a handle whose references are all dropped.
  `DlClose` decrements whatever handle it is given, as lines 697-699 and
  1098-1100 call `dlclose` on any non-NULL `mScriptSO`. A close of a handle
  with no references left is undefined in the linker. The model records it
  as a count below zero, and if the handle has been reused it drops a
  reference of the new mapping.
- `scriptSO`, `arr`: the members, each `null`, `live` or `dangling`.
- `frees`: a history of how many times each member was released.
- `cleared`: the globals the destructor passed to `rsrClearObject`.
- `usedAlias`: a history of the symlink names used so far.

Paths are records: the app directory, the system directory, or a cache
alias `librs.<res>#<rand>.so`. `Rand` is a small set of random suffixes.
The constant `FreshRandom` says whether a suffix may repeat.

Each resource names a library (`Infos`): its `.rs.info` text and the
symbols `dlsym` finds in it. `ParseOf` is `MetadataParser`'s `Parse` of
every library, computed once. From the section at which the parse stops
and the counts it read, `AllocatedBy` gives the arrays that exist at that
point.

Actions:
- `LockInit` (line 361);
- `LoadPrivate` and `LoadSystem` (`loadSharedLibrary`), each one whole
  `LoadSOHelper` call;
- `ParseInfo` (486-685);
- `ErrorUnlock` (690);
- `ErrorCleanup` (691-700);
- `Destroy` (1079-1101).

`ReleaseAll` is the sequence of deletes and the `dlclose` shared by the
error label and the destructor. It leaves every pointer as it was, as the
code does.

`Destroy` is also allowed after a failed `init()` when the constant
`DestroyFailed` is TRUE: the caller that created the script deletes it when
`init()` returns false.

Before releasing the members, `Destroy` runs the destructor's loop over
`mExportedVariableCount` (`ObjectClears`, 1080-1091). It clears each
global whose `mFieldIsObject` flag is set and whose `mFieldAddress`
resolved (`Resolved`: `dlsym` found its name), both taken from the parse.
After a failed `init()`, `error:` has deleted both arrays but left the
pointers and the count set, so the loop reads freed memory. The model
lets that read return any subset of the slots.

### `MetadataParser`: the `.rs.info` parse

The parse runs under the init mutex and touches only the script's own
members, so it is a pure function of the library, written as operators
over a text. A text is a sequence of one-character strings, each header
literal (`EXPORT_VAR_STR` and the others) is one character, and `MAXLINE`
is the constant `Maxline`.
- `StrgetsCopy` is the copy loop of `strgets`, as a RECURSIVE operator:
  it stops after a newline or after `size - 1` characters and leaves the
  rest of a longer line for the next call.
- `ScanCount`, `ScanUnsigned` and `ScanKernel` are the `sscanf` calls;
  `%s` has the width `MAXLINE`. `Strncat` is the `strncat` that appends
  `.expand`, whose `size_t` limit wraps when negative.
- The state (`Start`) holds the rest of the text, the line buffer, the
  counts and tables read so far, the section of the first `goto error`
  (`fail`), and `overflow`, set by any write past `line`, `tmpName` or
  `mFieldIsObject`.
- `CountSection` and the section bodies `VarName`, `FuncName`, `Kernel`
  and `ObjectSlot` are the eight sections of `init()`, run in order by
  `Parse`; `Loop` is a section's `for` loop, which stops at the first
  error.
- The intermediate results of a step are passed as operator arguments
  (`GetsInto`, `CountLine`, `KernelLine`, ...) rather than named in a LET,
  which keeps TLC's coverage profiling of the loader run fast.

The compiler that writes `.rs.info` is not in this repository. `Render`
gives the layout `init()` scans, from its format strings, and `Exports` the
symbols of the library: variables, functions and each kernel's `.expand`
entry point. `TableAsWritten` is the table a correct parse builds for the
program.

### `BccScriptInit`: bcc init and destructor

Once `LockInit` has run, `InitBody` is a single step. Everything it reads
is private to the thread holding the mutex. It has one disjunct per way
out of `init()`:

1. the context allocation fails (line 371);
2. the driver allocation fails (378);
3. the metadata does not extract (397) or the precision is unknown (414);
   this path returns **without** unlocking;
4. no executable comes from the cache or the build (457);
5. success (463-482).

The cache is used unless the context is a debug one or a recompile is
forced (lines 429-438). Both are free boolean choices in `Init`.

A bitcode also carries what its executable exports: each global's address
(`"null"` when the compiler optimized it away) and RSInfo's object-slot
flag for it. `Destroy` first runs the destructor's walk of the two lists
in step, which ends with the shorter (`ObjectsCleared`, 1040-1064). It
clears each flagged global whose address is set, and only when there is
an executable.

### `ForEachLaunch` and `LaunchDomain`

`forEachMtlsSetup` is translated case by case:
- the `memset` (`ZeroMtls`);
- the three checks for a missing allocation or one without backing
  memory, each of which reports an error;
- per axis x, y, z in order, `ClampAxis`/`ClampAxes` with its early
  return;
- the floor of every end to 1.

`KernelAt`/`SigAt` read `mForEachFunctions[slot]` and
`mForEachSignatures[slot]`. There is no bounds check, so past the array
either read yields an arbitrary value (`Garbage`, or NULL).

`DomainCells` is the dispatcher `launchThreads`, which is not in this
repository. It is modelled from spec.md as every cell of
`[start, end)` per axis.

`LaunchDomain` is the abstract specification from spec.md §4.4, §7 and §8:
- a missing or unbacked buffer reports an error and runs nothing;
- an unrestricted axis covers `max(extent, 1)` cells;
- a restricted axis within bounds covers exactly its sub-region;
- out-of-bounds regions are left open (any subset of cells, error or not).

`ForEachLaunch` refines it through `INSTANCE LaunchDomain WITH err <- mtls.err`.

## Runs

| Run | Expect | Shows |
|---|---|---|
| `loader` | pass | Scripts are destroyed only after a successful `init()` (`DestroyFailed = FALSE`; the other case is `loader_double_release`). The scripts' instances stay isolated: no two live scripts hold one mapping. Each handle's `dlopen` references equal the number of scripts holding it, across the error path's `dlclose` and the linker's reuse of freed handles (`MappingRefsMatchHolders`). Every `init()` returns (`InitReturns`, under fairness). Destroying a script whose `init()` succeeded clears exactly the object globals its program declares and exports (`TeardownReleasesObjects`, spec.md §4.3). It checks the parse and the destructor together. Every parse stays inside its buffers, `line`, `tmpName` and `mFieldIsObject` (`ParseWithinBuffers`), and a script that is ready holds the table its program was written with (`ReadyAsWritten`). |
| `loader_double_release` | violation | `NoDoubleRelease`, with `DestroyFailed = TRUE`: the parse fails, `error:` frees the arrays and `dlclose`s the library, and the destructor frees and closes them again. Under this setting `MappingRefsMatchHolders` fails as well: the second `dlclose` takes the handle's count to -1, and a handle the linker has meanwhile reused loses a reference its new holder still has. |
| `foreach` | pass | `invokeForEach` refines `LaunchDomain` for every allocation shape, sub-region and in-range slot. |
| `foreach_bad_bounds` | violation | A sub-region that reaches past the extent but still clamps to some cells (y in [0, 3) on an extent of 2) is clamped and launched without an error. spec.md §7(a) says it is reported. A sub-region that clamps to nothing returns early with no cell run, which is the empty launch spec.md §4.4 prescribes, so the property does not count it. |
| `foreach_bad_slot` | violation | Slot 2 with two kernels runs a garbage pointer over a scalar allocation. spec.md §8 says a bad slot is fatal. |
| `bcc_init` | pass | On every path through the bcc `init()` and the destructor, each object is deleted at most once. |
| `bcc_lock_leak` | violation | `InitReturns`: a script whose metadata fails to extract returns with the mutex held, and the next script blocks for good. |
| `globals` | pass | `RefsBalanced`: every live object's count equals its holders (the host plus each handle stored in a live script's globals), across rebinding, aliased input, host releases and teardown. `NoUseAfterFree`: no count is changed on a deleted object and no global holds one. `LookupFindsBound`: `getAllocationForPointer` returns a bound allocation with that pointer, and NULL only when none is bound. |
| `globals_dim_length` | violation | `setGlobalVarWithElemDims` with `dimLength` 8 stores a handle without counting it. The host's release then deletes an object the global still holds. spec.md §4.3 says such a call fails. |
| `globals_array_teardown` | violation | The destructor releases only element 0 of a two-element object array, so the second element's reference leaks. |
| `dispatch` | pass | With root, function and forEach calls of three scripts nested to depth 3, the thread-local always names the innermost running script, and it is unset again once every call has returned. |
| `dispatch_init` | violation | `invokeInit` does not set the thread-local, so code in a script's `init()` runs while it names another script or none. spec.md §4.5 says init is wrapped too. |

Every property of a passing run has a mutant in `PROJECT.json`: a
plausible bug in the translated code that the property catches.
- `LoadSOHelperNoSetLookup`: the `LoadedLibraries` lookup is skipped.
- `ErrorCleanupNoDlclose`: the error label forgets `dlclose`.
- `ErrorUnlockKeepsLock`: the error path returns without unlocking.
- `ObjectIndexUnchecked`: the `varNum < varCount` check on an object slot
  is dropped.
- `forEachMtlsSetupNoFloor`: the floor of the end bounds to 1 is dropped.
- `KernelAtFromSignatures`: the kernel is read from the wrong array.
- `InitBodyDeletesOnError`: the bcc error paths delete objects themselves,
  as the compat build does.
- `SetGlobalVarWithElemDimsDecFirst`: the decrement loop runs first.
- `SetGlobalVarWithElemDimsDecNew`: the decrement loop walks the incoming
  data.
- `ScanBreak`: the lookup stops at the first unbound slot instead of
  skipping it.
- `ReturnClears`: a wrapper sets the thread-local to NULL on return.
- `ReturnKeeps`: a wrapper never restores the thread-local.
- `StrgetsCopyFull`: `strgets` fills all `size` bytes, leaving no room for
  the terminator.
- `StrgetsCopyDiscard`: `strgets` drops the rest of an overlong line.
- `ObjectClearsUnchecked`: the compat destructor clears an object global
  without checking that its address is set.

The loader run assumes that a reload's random suffix never repeats
(`FreshRandom = TRUE`). The suffix is 6 characters drawn from 62, and
nothing checks it against the names already loaded. With
`FreshRandom = FALSE`, `InstancesIsolated` fails: `dlopen` returns another
live script's mapping. This is listed as a hazard rather than given its
own run.

## Bounds

* **ScriptLoader.** Three scripts share one resource, which is the
  instancing case the symlinks exist for. This allows a first load and two
  aliased reloads.
  - Three handles are enough for one mapping per script.
  - Two random suffixes are enough for two aliased reloads.
  - Each of the app and system libraries is present or absent.
  - Two libraries, with `Maxline = 10`, so a line holds nine characters.
    The first has an eight-character variable name (at the bound), a
    four-character root kernel (`rrrr.expand` needs eleven bytes, so
    `strncat` cuts it to `rrrr.expa`), and a second kernel. It has object
    slots for that variable, for a second variable the compiler optimized
    away (its address is NULL), and for an index past `varCount`. Its
    parse succeeds. The second has a
    ten-character variable name, which `strgets` splits in two. The
    second half is read as the function count line, so the parse fails
    after the variable arrays exist. This covers the path that frees what
    the parse had allocated.
* **ForEachLaunch.** The allocations are a scalar, a 1D and a 2D one with
  extent 2, plus an unbacked one. Sub-regions on x and y include:
  - empty ranges, ranges in bounds, partly out of bounds and wholly out of
    bounds;
  - the "end 0 means whole axis" convention.

  z is restricted only with end 0 or 1. Two kernel slots allow a NULL root
  at slot 0, and the bad-slot run adds slot 2.
* **GlobalBinding.** Five globals: one plain, one object, one object
  array, and two bind globals, so a lookup must scan past an unbound slot.
  There are two objects, two allocations with distinct pointers, and
  byte lengths {4} for `dims`.
  - The two-object case covers an object held by two globals, the incoming
    data aliasing the global after the host released the object, and
    teardown after the host released the object.
  - The passing run uses arrays of one element. The `dim_length` run adds
    `dimLength` 8, and `array_teardown` uses arrays of two elements.
* **InvocationDispatch.** Three scripts nested to depth 3 cover a script
  re-entering itself and a third script inside the second, which is where
  a wrong restore shows.
* **BccScriptInit.** Three scripts share one resource, so the cache is
  shared. The bitcodes cover a good one, one whose metadata fails to
  extract, and one with an unknown precision. The good one's executable
  exports an object global, an object global optimized away, and a plain
  one.

## Fairness

A thread waiting on the init mutex gets it if the mutex is free infinitely
often (strong fairness on `LockInit`). The mutex is the only thing that
blocks it.

A thread inside `init()` keeps running (weak fairness on its steps), since
none of them waits on anything but local computation. No fairness is
assumed for `Destroy`, because nothing forces an owner to release a script.

`GlobalBinding`, `InvocationDispatch` and `ForEachLaunch` check safety
only and assume no fairness. Their calls come from the host whenever it
chooses, and nothing in this file forces one to happen.

### `GlobalBinding`: global variables, reference counts and lookup

State:
- `plain`, `objs` and `gptr`: the contents of plain, object (and
  object-array) and bind globals.
- `bound`: `mBoundAllocs`.
- `rc`: the object counts.
- `freed`: the objects deleted so far.
- `host`: the objects the host still holds.
- `uaf`: a history flag, set when a count is changed on a deleted object.

Each setter is one action: the whole function, including its reference
loops and `memcpy`.
- `ApplyRefs` folds (`FoldLeft`) the sequence of `incRefs`/`decRefs` a call
  makes over the counts.
- `RefStep` is one such call: NULL handles are skipped, and an object is
  deleted when its count reaches 0.
- `Scan` is the loop of `getAllocationForPointer`, written as a recursive
  operator.
- `Teardown` is the destructor's loop over object-typed globals, calling
  `rsrClearObject` on each address.

Taken from spec.md, because the code is outside this repository:
- the counting semantics of `incRefs`/`decRefs` and `rsrSetObject`;
- the host's own reference on each object.

Left out:
- Globals whose address did not resolve, since every setter returns at
  once for them.
- `setGlobalVar` on object globals. The `rsAssert` that rules it out is
  commented out, and callers use it for plain globals only.

### `InvocationDispatch`: the thread-local current script

State:
- `tls`: the thread-local.
- `stack`: the calls in progress on one thread, each frame holding its
  script, its wrapper and the value saved on entry.

Actions:
- `Call` is entering a wrapper. `invokeRoot`, `invokeFunction` and
  `invokeForEach` save the old value and set their script; `invokeInit`
  and `invokeFreeChildren` leave it unchanged.
- `Return` restores the saved value where the wrapper had set it.

Nesting stands for script code invoking another script, or itself, through
the runtime.

## Observations

* `%500s` cannot overflow `tmpName`: `strgets` already limits a line to
  `MAXLINE - 1` characters.
* A root kernel name within seven characters of the bound gets `.expand`
  cut short. `dlsym` then misses it, which `init()` tolerates for slot 0
  and leaves `mForEachFunctions[0]` NULL. For any other slot the same name
  is a fatal error.
* A variable line longer than the buffer is split, which shifts every
  later line by one and ends in a parse error.
* After a failed `init()`, the compat destructor's object loop reads
  `mFieldIsObject` and `mFieldAddress` after `error:` has deleted them
  (line 1082), and `mExportedVariableCount` is still set. This is the same
  path on which `loader_double_release` finds the arrays deleted twice.
* The parser assumes every text ends in a newline. Without one `strgets`
  would leave `*ppstr` past the terminator (line 311); the model does not
  cover that read.

## Not modelled

1. **Composition of the parser with `GlobalBinding`.** The destructor
   loops are composed with the parse (compat) and the executable (bcc),
   down to which globals get `rsrClearObject`. What `rsrClearObject` does
   to a count is left to `GlobalBinding`. That module takes the kind of
   each global as a constant, because it also needs object arrays and
   bind globals, which `.rs.info` does not describe.
2. **Loader files.** The symlink is created, opened and unlinked in one
   step under the mutex. A failed `unlink` (line 128) leaves a directory
   entry that nothing in this file reads back.
   `ensureCacheDirExists` and `symlink` appear only as the failure of an
   aliased load.
3. **Which globals the bcc destructor clears.** `ObjectsCleared` models
   the walk (lines 1040-1064), but no property checks its result. The
   variable addresses and the object-slot list both come from libbcc,
   outside this repository, so the expected set could only restate the
   walk.
4. **`aout` extents** (line 760). spec.md §4.4 says the caller is trusted
   to pass matching extents. The writes happen in kernel code outside this
   file.
5. **Not planned.**
   - `populateScript`, a copy of values `ReadyAsWritten` already checks;
   - `compileBitcode`, which is process I/O;
   - `launchThreads`, which lives in another file and is only used through
     its spec;
   - `preLaunch`/`postLaunch`, which are empty;
   - pointers, strides and user data inside the launch.
