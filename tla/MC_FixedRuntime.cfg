SPECIFICATION FairSpec
CONSTANTS
  N = 4
  Batch <- LegacyBatch
  Helper = 4
  MaxFaults = 3
INVARIANTS
  TypeOK
  PublishedIsWhole
PROPERTIES
  ReplacedIsKept
  RuntimeConverges
CHECK_DEADLOCK FALSE
