SPECIFICATION FairSpec
CONSTANTS
  Rounds = 3
  Objects = 3
INVARIANTS InStep OwnMetadata
PROPERTY TestEnds
CHECK_DEADLOCK FALSE
