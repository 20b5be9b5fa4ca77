------------------------ MODULE MC_InvocationDispatch ------------------------
EXTENDS InvocationDispatch

CONSTANTS s1, s2, s3

MCScripts == {s1, s2, s3}
=============================================================================
