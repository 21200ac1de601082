\* Four bits and numbers that turn the ring more than twice; three callers of one
\* name over two networks; a client and an exit whose contexts differ (MCSetups).
CONSTANTS
  Parts = {"window", "dns", "ring"}
  Window = 4
  MaxSeq = 9
  Callers = {a, b, c}
  Hosts = {h}
  LastNetwork = 2
  Contexts = {"a", "b"}
  Setups <- MCSetups
SPECIFICATION PartsSpec
INVARIANTS TypesOK RingIsTruth SingleFlight WaitersShare LockedIsShared
PROPERTIES PromiseKept LookupReturns FindsCommon
\* A key ring that has indexed past the end of its keys does not go on.
CHECK_DEADLOCK FALSE
