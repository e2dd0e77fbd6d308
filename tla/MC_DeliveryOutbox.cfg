SPECIFICATION Spec
CONSTANTS
  Ids = {m1, m2, m3}
  Callers = {p, q}
  Nonces = {1, 2, 3, 4, 5, 6, 7, 8}
  MaxItems = 2
  Retention = 2
  MaxTime = 3
  None = None
INVARIANTS
  TypeOK
  NeverOverfull
  OwnersAreSafe
PROPERTIES
  RecordsEndAsPromised
SYMMETRY Symmetry
