SPECIFICATION FairSpec
CONSTANTS
  Tree = {t1, t2}
  Content = {c1, c2}
  Agreements = {TRUE, FALSE}
  MaxTransactions = 2
  MaxFaults = 2
  None = None
  Torn = Torn
INVARIANTS
  TypeOK
  NothingIsLost
PROPERTIES
  EndsWhole
  RemovalIsAsAsked
  RecoveryStaysUnderstood
  Converges
