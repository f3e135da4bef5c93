SPECIFICATION Spec
CONSTANTS
  null = null
  NULL = null
  Area = {0, 1, 2}
  SLOT_COUNT = 1
  SMALLEST = 64
  PAGE = 128
  CHUNK = 1
  MAX_SHIFT = 1
  MAX_QUEUE_SIZE = 2
  Shape <- Shapes
  BufferSize = {64, 80}
  MAX_OBJECTS = 4
  MAX_ROOTS = 2
  MAX_TRY_OBJECTS = 1
  MAX_REFS = 3
INVARIANTS TypeOK BlocksDisjoint NothingLeft UsageExact ReferencesAccounted
PROPERTY DeletionEnds
