\* Nested root, function and forEach invocations of three scripts.
CONSTANTS
  s1 = s1  s2 = s2  s3 = s3  NULL = NULL
  Scripts <- MCScripts
  Kinds = {"root", "function", "forEach"}
  MaxDepth = 3
SPECIFICATION Spec
INVARIANT CurrentScriptIsOwner
INVARIANT RestoredWhenIdle
