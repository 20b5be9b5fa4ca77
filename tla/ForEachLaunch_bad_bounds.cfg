\* A sub-region outside the allocation: reported and empty, as spec.md 7 says?
CONSTANTS
  k0 = k0  k1 = k1  g1 = g1  NULL = NULL
  Allocs <- MCAllocs
  Calls <- MCCalls
  Slots = {0, 1}
  ForEachCount = 2
  Kernels <- MCKernels
  Sigs = {31}
  Garbage <- MCGarbage
SPECIFICATION Spec
INVARIANT BadBoundsRejected
