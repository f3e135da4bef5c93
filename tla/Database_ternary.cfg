SPECIFICATION Spec
CONSTANTS
  a = a
  b = b
  c = c
  u = u
  m = m
  n = n
  Value = {a, b}
  Hash <- MCHash
  INIT_SIZE = 1
  UPDATES_INIT_SIZE = 1
  BITMAP_SIZE = 4
  UNARY_BUFFER_SIZE = 1
  Table = {m}
  Kind <- OneTernary
  MaxStaged = 3
INVARIANTS IndexesAgree RowsCounted RangesExact
PROPERTY ImplementsRelations
SYMMETRY ValueSymmetry
