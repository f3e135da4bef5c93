SPECIFICATION Spec
CONSTANTS
  a = a
  b = b
  c = c
  Value = {a, b, c}
  Hash <- MCHash
  INIT_SIZE = 1
  UPDATES_INIT_SIZE = 1
  MaxHeld = 2
  MaxStaged = 3
INVARIANTS TypeOK FreeListSound StagedSound RefSafe LookupExact LookupNothingElse
PROPERTIES SurrogateStable PredictionKept
