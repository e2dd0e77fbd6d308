SPECIFICATION SendSpec
CONSTANTS
  MaxParts = 3
  Pending = Pending
INVARIANTS
  SendIsSound
PROPERTIES
  SendKeepsItsPromise
CHECK_DEADLOCK FALSE
