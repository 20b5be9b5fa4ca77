\* Reference transfer, teardown and pointer lookup of the script's globals.
CONSTANTS
  o1 = o1  o2 = o2  v1 = v1  a1 = a1  a2 = a2  p1 = p1  p2 = p2  NULL = NULL
  VarCount = 5
  Kind <- MCKindFn
  ArrLen = 1
  Objs <- MCObjs
  Values = {v1}
  Allocs <- MCAllocs
  Ptr <- MCPtr
  Ptrs <- MCPtrs
  DimLengths = {4}
SPECIFICATION Spec
INVARIANT RefsBalanced
INVARIANT NoUseAfterFree
INVARIANT LookupFindsBound
\* After the destructor only the host may act; once it has released every
\* object nothing more happens.
CHECK_DEADLOCK FALSE
