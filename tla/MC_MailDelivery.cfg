SPECIFICATION FairSpec
CONSTANTS
  Ids = {m1}
  Deliveries = {p, q}
  Operators = {o}
  Nonces = {1, 2, 3, 4, 5, 6, 7, 8}
  MaxItems = 1
  Retention = 2
  Ttl = 1
  MaxTime = 2
  None = None
INVARIANTS
  TypeOK
  NothingIsSentTwice
PROPERTIES
  ImplementsNotification
  EveryMailIsTried
