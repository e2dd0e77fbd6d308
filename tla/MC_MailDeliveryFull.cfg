SPECIFICATION Spec
CONSTANTS
  Ids = {m1, m2}
  Deliveries = {p, q}
  Operators = {}
  Nonces = {1, 2, 3, 4, 5, 6, 7, 8}
  MaxItems = 1
  Retention = 3
  Ttl = 1
  MaxTime = 1
  None = None
INVARIANTS
  NothingIsSentTwice
SYMMETRY Symmetry
