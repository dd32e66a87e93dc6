SPECIFICATION FairSpec
CONSTANTS
  Containers = {1, 2, 3}
  INVALID_OBJECT_ID = 0
  Callers = {c1, c2}
  Arrays <- Pairs
  MAX_OBJECT_IDS = 2
  MAX_OBJECT_IDS_OVERLOAD = 1
  Failures = TRUE
INVARIANTS
  NoChangeForgotten
PROPERTIES
  FlushedUnlessPaused
  CallersReturn
