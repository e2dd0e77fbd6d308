SPECIFICATION FairSpec
CONSTANTS
  a = a
  b = b
  s = s
  t = t
  Address = {a, b}
  Base = a
  Sessions = {s, t}
  Worlds <- AllWorlds
  MaxId = 6
  None = None
INVARIANTS
  TypeOK
  OneRulePerAddress
PROPERTIES
  CoverageIsKept
  NothingIsTaken
  CompletionIsTrue
  IntentIsSettled
