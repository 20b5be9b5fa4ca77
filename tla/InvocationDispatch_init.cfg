\* invokeInit and invokeFreeChildren among the nested invocations.
CONSTANTS
  s1 = s1  s2 = s2  s3 = s3  NULL = NULL
  Scripts <- MCScripts
  Kinds = {"root", "init", "freeChildren", "function", "forEach"}
  MaxDepth = 3
SPECIFICATION Spec
INVARIANT CurrentScriptIsOwner
