\* Ownership of what init() creates in the default (bcc) build.
CONSTANTS
  s1 = s1  s2 = s2  s3 = s3  r1 = r1  NULL = NULL
  Scripts <- MCScripts
  Res <- MCRes
  Bitcodes <- MCBitcodes
SPECIFICATION Spec
INVARIANT NoDoubleRelease
\* init() may return with the mutex locked (run BccScriptInit_lock_leak),
\* after which the other scripts' threads block for good; and once every
\* script is destroyed the process does nothing more.
CHECK_DEADLOCK FALSE
