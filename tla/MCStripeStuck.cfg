CONSTANTS
  Modulus = 32
  Ring = 4
  Runs = 1
  QueueLimit = 1
  Parts <- MCLong
  FirstSeqs = {29}
  Linger = 3
  DupOn = FALSE
  GivesUp = TRUE
  CoDel = FALSE
  MaxAcks = 1
  MaxRestarts <- ReceiverOnly
SPECIFICATION Spec
INVARIANT NextAckComes
CHECK_DEADLOCK FALSE
VIEW LinkState
