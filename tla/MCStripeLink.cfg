CONSTANTS
  Modulus = 32
  Ring = 4
  Runs = 1
  QueueLimit = 2
  Parts <- MCParts
  FirstSeqs = {29}
  Linger = 3
  DupOn = TRUE
  GivesUp = TRUE
  CoDel = TRUE
  MaxAcks = 1
  MaxRestarts <- NoRestarts
SPECIFICATION Spec
INVARIANTS TypeOK NothingForgotten WindowHolds
PROPERTY KeepsOrder
CHECK_DEADLOCK FALSE
