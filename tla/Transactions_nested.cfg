SPECIFICATION Spec
CONSTANTS
  x1 = x1
  x2 = x2
  x3 = x3
  x4 = x4
  a = a
  b = b
  empty = empty
  none = none
  g = g
  h = h
  u = u
  v = v
  w = w
  Id = {x1, x2, x3}
  Atom = {a}
  EMPTY_SEQ = empty
  NONE = none
  SMALLEST = 2
  MAX_LENGTH = 2
  MAX_ELEMENTS = 4
  Glob = {g}
  Loc = {u, v}
  BuiltKinds = {"seq"}
  TRY_EXTENDS_STD = FALSE
  NESTED_APPEND = TRUE
INVARIANT CopyEnds
SYMMETRY HeapSymmetry
CHECK_DEADLOCK FALSE
