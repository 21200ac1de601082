CONSTANTS
  Recovering = {"cups", "telemost", "group", "direct"}
  Rooms = {1, 2}
  DeadAfter = 1
  TmSockets = 2
  TmFlaps = 0
  RoomPeers = 2
  RoomLeaves = 1
  GroupLanes = 2
  RoomReaders = {"reader"}
  MaxDials = 2
  MaxRecords = 2
  QueueRecords = 1
SPECIFICATION RecoverySpec
INVARIANTS RecoveryTypesOK OneCall RecordsInOrder
PROPERTIES ComesBack
\* A carrier that was stopped stays so.
CHECK_DEADLOCK FALSE
