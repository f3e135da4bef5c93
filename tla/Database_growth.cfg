SPECIFICATION Spec
CONSTANTS
  a = a
  b = b
  c = c
  u = u
  m = m
  n = n
  Value = {a, b, c}
  Hash <- MCHash
  INIT_SIZE = 1
  UPDATES_INIT_SIZE = 1
  BITMAP_SIZE = 2
  UNARY_BUFFER_SIZE = 1
  Table = {u}
  Kind <- OnlyUnary
  MaxStaged = 3
INVARIANTS CountIsBits
SYMMETRY ValueSymmetry
