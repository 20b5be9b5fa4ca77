------------------------- MODULE InvocationDispatch -------------------------
(***************************************************************************)
(* The invocation wrappers of RsdCpuScriptImpl in                         *)
(* src/cpu_ref/rsCpuScript.cpp: invokeRoot, invokeInit,                   *)
(* invokeFreeChildren, invokeFunction and invokeForEach, and the          *)
(* thread-local "current script" (mCtx->setTLS, which returns the old     *)
(* value) that runtime callbacks from script code use to find their       *)
(* owner.                                                                  *)
(*                                                                         *)
(* One thread is modelled: the thread-local is per thread, and the        *)
(* dispatcher's workers set their own (spec.md 5).  Script code running   *)
(* in a call may call back into the runtime and may invoke another        *)
(* script, so calls nest; the stack holds one frame per call in progress. *)
(***************************************************************************)
EXTENDS Naturals, Sequences

CONSTANTS
  Scripts,   \* RsdCpuScriptImpl objects
  Kinds,     \* the wrappers callers use
  MaxDepth,  \* bound on nesting
  NULL

AllKinds == {"root", "init", "freeChildren", "function", "forEach"}

ASSUME Kinds \subseteq AllKinds
ASSUME MaxDepth \in Nat \ {0}

VARIABLES
  tls,    \* the thread-local current script, or NULL
  stack   \* Seq of [script, kind, saved]: the calls in progress, innermost last

vars == <<tls, stack>>

(* The wrappers that bracket the call with setTLS(this) / setTLS(oldTLS). *)
SetsTLS == {"root", "function", "forEach"}

Init ==
  /\ tls = NULL
  /\ stack = <<>>

(* Entering a wrapper: invokeRoot / invokeFunction / invokeForEach save   *)
(* the old value and set this script; invokeInit and invokeFreeChildren   *)
(* call mInit / mFreeChildren directly.                                   *)
Call(s, k) ==
  /\ Len(stack) < MaxDepth
  /\ stack' = Append(stack, [script |-> s, kind |-> k, saved |-> tls])
  /\ tls' = IF k \in SetsTLS THEN s ELSE tls

(* Mutant: the return never calls setTLS(oldTLS).                        *)
ReturnKeeps ==
  /\ stack # <<>>
  /\ tls' = tls
  /\ stack' = SubSeq(stack, 1, Len(stack) - 1)

(* Mutant: the return clears the thread-local instead of restoring it.    *)
ReturnClears ==
  /\ stack # <<>>
  /\ tls' = IF stack[Len(stack)].kind \in SetsTLS THEN NULL ELSE tls
  /\ stack' = SubSeq(stack, 1, Len(stack) - 1)

(* Leaving a wrapper: setTLS(oldTLS) where the wrapper set it.            *)
Return ==
  /\ stack # <<>>
  /\ tls' = IF stack[Len(stack)].kind \in SetsTLS
            THEN stack[Len(stack)].saved ELSE tls
  /\ stack' = SubSeq(stack, 1, Len(stack) - 1)

Next ==
  \/ \E s \in Scripts, k \in Kinds : Call(s, k)
  \/ Return

Spec == Init /\ [][Next]_vars
-----------------------------------------------------------------------------
(* spec.md 4.5: while script code runs, the thread-local names the script *)
(* whose code it is, however calls of several scripts nest, so a runtime *)
(* callback from that code resolves to its owner.                        *)
CurrentScriptIsOwner ==
  stack # <<>> => tls = stack[Len(stack)].script

(* spec.md 4.5: every wrapper restores the previous value on return, so  *)
(* once the outermost call has returned the thread-local is unset again. *)
RestoredWhenIdle == stack = <<>> => tls = NULL
=============================================================================
