CONSTANTS
  Modulus = 32
  Ring = 2
  Runs = 1
  QueueLimit = 2
  Parts <- MCShort
  FirstSeqs = {13, 29}
  Linger = 1
  DupOn = TRUE
  GivesUp = TRUE
  CoDel = FALSE
  MaxAcks = 1
  MaxRestarts <- OneEach
SPECIFICATION FairSpec
INVARIANT NothingForgotten
PROPERTIES KeepsOrder Drains
CHECK_DEADLOCK FALSE
