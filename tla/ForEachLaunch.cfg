\* The launch domain invokeForEach computes, against spec.md's definition.
CONSTANTS
  k0 = k0  k1 = k1  g1 = g1  NULL = NULL
  Allocs <- MCAllocs
  Calls <- MCCalls
  Slots = {0, 1}
  ForEachCount = 2
  Kernels <- MCKernels
  Sigs = {31}
  Garbage <- MCGarbage
SPECIFICATION Spec
INVARIANT TypeOK
PROPERTY LaunchRefinesDomain
