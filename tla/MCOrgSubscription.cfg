\* Three blocks, three announced heads, one failed request.
CONSTANTS
  Contents <- MCContents
  Filter = {"a"}
  MaxBlocks = 3
  MaxHeads = 3
  MaxFaults = 1
SPECIFICATION Spec
INVARIANTS
  TypeOK
  NoFalseReorg
  NoEventLost
  BestLaneExact
CHECK_DEADLOCK FALSE
