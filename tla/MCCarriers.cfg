\* Three sockets: one worked on, one about to be closed, one published; for every wait a channel
\* that is waited for and one about to be closed.  Two callers, two chains, two links, two
\* members, two calls: an old one and a new one.
CONSTANTS
  Carriers = {"docs", "volga", "relay", "boards", "mailru", "mts", "stream", "oneme", "frames"}
  Conns = {1, 2, 3}
  Wakes = {1, 2}
  Forcers = {"host", "solver"}
  MaxPushes = 1
  MayStop = TRUE
  Links = {1, 2}
  MaxJars = 1
  VolgaStops = TRUE
  StallTicks = 2
  RelaySenders = {"x", "y"}
  RelayWorkers = {"v", "w"}
  MaxRelayPackets = 3
  RelayBatch = 2
  RelayQueue = 2
  MaxUsers = 2
  BoardsForcers = {"host", "solver"}
  BoardsWakes = {1, 2, 3}
  MaxBoardsJars = 1
  MaxWriters = 2
  SolvesItself = TRUE
  Chains = {1, 2}
  MaxApplies = 1
  MaxMailWriters = 2
  MtsCallers = {"other"}
  MtsWakes = {1, 2}
  MaxMtsPackets = 2
  MtsBatch = 1
  MtsStash = 1
  Members = {"a", "b"}
  MaxCupsPackets = 2
  PacketPieces = 2
  MessagePieces = 3
  BatchPackets = 2
  QueuePackets = 2
  MaxDrops = 1
  Calls = 2
  MaxMaxPackets = 2
  TmFrames = 3
  TmPieces = 2
  TmChunk = 1
  TmSeqSpace = 6
  TmSharers = 1
  TmPerTick = 2
  TmQueueMax = 2
  TmSlots = 2
  TmHold = 1
  TmRing = 2
  TmResends = 0
SPECIFICATION CarriersSpec
INVARIANTS CarriersTypesOK ChannelsSafe SessionIsServed SomebodyConnects HandedAsSent PacketsAccounted
PROPERTIES CarriersKeepOrder
\* A carrier that was stopped stays so.
CHECK_DEADLOCK FALSE
