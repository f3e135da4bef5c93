SPECIFICATION Spec
CONSTANTS
  a = a
  b = b
  c = c
  u = u
  m = m
  n = n
  Value = {a, b}
  Hash <- MCHash
  INIT_SIZE = 1
  UPDATES_INIT_SIZE = 1
  BITMAP_SIZE = 4
  UNARY_BUFFER_SIZE = 1
  Table = {u, m}
  Kind <- UnaryAndBinary
  MaxStaged = 3
INVARIANTS TypeOK IndexesAgree RowsCounted KeysUnique LookupsExact
PROPERTY ImplementsRelations
SYMMETRY ValueSymmetry
