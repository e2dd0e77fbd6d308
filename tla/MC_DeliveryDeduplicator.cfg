SPECIFICATION Spec
CONSTANTS
  Ids = {m1, m2}
  Callers = {p, q, r}
  Nonces = {1, 2, 3, 4, 5, 6}
  Ttl = 2
  MaxTime = 5
  None = None
INVARIANTS
  LeaseIsExclusive
PROPERTIES
  ClaimsEndAsPromised
SYMMETRY Symmetry
