\* Instancing and init/cleanup of the compatibility-library loader, with
\* scripts destroyed only after a successful init() (the destructor of a
\* failed one is ScriptLoader_double_release.cfg).
CONSTANTS
  s1 = s1  s2 = s2  s3 = s3  r1 = r1
  h1 = h1  h2 = h2  h3 = h3  x1 = x1  x2 = x2
  NULL = NULL
  Scripts <- MCScripts
  Res <- MCRes
  Handles <- MCHandles
  Rand <- MCRand
  FreshRandom = TRUE
  DestroyFailed = FALSE
  Infos <- MCInfos
  Maxline = 10
SPECIFICATION Spec
INVARIANT InstancesIsolated
INVARIANT MappingRefsMatchHolders
INVARIANT ParseWithinBuffers
INVARIANT ReadyAsWritten
INVARIANT TeardownReleasesObjects
PROPERTY InitReturns
\* Every script may end destroyed, after which the process does nothing.
CHECK_DEADLOCK FALSE
