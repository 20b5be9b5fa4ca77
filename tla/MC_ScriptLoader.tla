--------------------------- MODULE MC_ScriptLoader ---------------------------
(* Instantiates ScriptLoader for TLC: three scripts of one resource, so    *)
(* that the first load maps the library directly and the next two must go  *)
(* through symlinks; as many mapping identities as scripts.                *)
EXTENDS ScriptLoader

CONSTANTS s1, s2, s3, r1, h1, h2, h3, x1, x2

MCScripts == {s1, s2, s3}
MCRes == {r1}
MCHandles == {h1, h2, h3}
(* Two symlink names suffice for the two instancing loads. *)
MCRand == {x1, x2}
(* Two libraries, with MAXLINE = 10 (lines of at most nine characters):  *)
(*  - names at the bound: an eight-character variable, a root kernel      *)
(*    whose ".expand" name strncat cuts to ".expa", so dlsym misses it    *)
(*    and slot 0 is tolerated without it; object slots for that          *)
(*    variable, for a second variable the compiler optimized away (its    *)
(*    address is NULL), and for an index past varCount; its parse         *)
(*    succeeds;                                                           *)
(*  - a ten-character variable name, which strgets splits, so the parse   *)
(*    fails after the variable arrays are allocated.                      *)
Name(c, n) == [i \in 1..n |-> c]
MCPrograms ==
  { [vars |-> <<Name("g", 8), Name("h", 1)>>, gone |-> {Name("h", 1)},
     funcs |-> <<Name("f", 1)>>,
     kernels |-> <<[sig |-> 7, name |-> Name("r", 4)],
                   [sig |-> 3, name |-> Name("k", 1)]>>,
     objSlots |-> <<0, 1, 5>>],
    [vars |-> <<Name("g", 10)>>, gone |-> {},
     funcs |-> <<Name("f", 1)>>,
     kernels |-> <<[sig |-> 7, name |-> Name("r", 1)]>>,
     objSlots |-> <<>>] }
MCInfos == {Library(p) : p \in MCPrograms}
=============================================================================
