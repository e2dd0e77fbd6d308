SPECIFICATION StoreSpec
CONSTANTS
  Texts = {b1, b2, b3}
  MaxGeneration = 7
  SurvivesErrors = FALSE
  Void = Void
INVARIANTS
  JournalIsSound
PROPERTIES
  ImplementsRegister
