SPECIFICATION FairSpec
CONSTANTS
  a = a
  b = b
  Address = {a, b}
  MaxId = 6
  None = None
  Window = 2
  MaxTime = 4
  MaxFaults = 2
  Renumberings = {TRUE, FALSE}
INVARIANTS
  TypeOK
  RulesMatchRelease
  LateChangesAreBounded
PROPERTIES
  ChangesAreAuthorised
  CommitIsTrue
  MigrationConverges
