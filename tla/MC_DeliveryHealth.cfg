SPECIFICATION FairSpec
CONSTANTS
  Observers = {p, q, r}
  MaxSequence = 5
  MaxTime = 2
  ClockSteps = FALSE
  None = None
INVARIANTS
  MonitorIsSound
PROPERTIES
  ResultsAreOrdered
  LockIsReleased
