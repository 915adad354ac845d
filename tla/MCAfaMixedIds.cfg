CONSTANTS
  h1 = h1
  h2 = h2
  a1 = a1
  a2 = a2
  a3 = a3
  Iter = Iter
  NULL = NULL
  Unused = Unused
  Garbage = Garbage
  Handle = {h1, h2, Iter}
  Addr = {a1, a2, a3}
  Archives <- MCMixedIds
  IoErrors = FALSE
SPECIFICATION Spec
INVARIANT ShowsOwnFile
CHECK_DEADLOCK FALSE
