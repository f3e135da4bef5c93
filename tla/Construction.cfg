SPECIFICATION Spec
CONSTANTS
  HASH_MODULUS = 1048576
  Cells <- MCCells
  Tokens <- MCTokens
  MaxLength <- MCMaxLength
INVARIANTS
  BuiltExact
  ReferencesKept
  SearchesExact
  OrderExact
  MapIsRelation
  AcceptsValues
  NothingLeftBehind
  RoundTrip
