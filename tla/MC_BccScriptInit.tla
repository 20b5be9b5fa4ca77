-------------------------- MODULE MC_BccScriptInit --------------------------
(* Instantiates BccScriptInit: three scripts of one resource, from a       *)
(* bitcode that compiles, one whose metadata does not extract and one of   *)
(* unknown precision.  The executable of the first exports an object     *)
(* global, one the compiler optimized away and a plain one; RSInfo has   *)
(* one object-slot flag per exported global.                             *)
EXTENDS BccScriptInit

CONSTANTS s1, s2, s3, r1

MCScripts == {s1, s2, s3}
MCRes == {r1}
MCBitcodes == {[extracts |-> TRUE, prec |-> "relaxed",
                vars |-> <<"addr", "null", "addr">>, slots |-> <<TRUE, TRUE, FALSE>>],
               [extracts |-> FALSE, prec |-> "full", vars |-> <<>>, slots |-> <<>>],
               [extracts |-> TRUE, prec |-> "unknown", vars |-> <<>>, slots |-> <<>>]}
=============================================================================
