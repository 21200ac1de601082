\* A budget of two polls; room for three goroutines that ask for a window.  Four packets of two
\* callers in a queue of two and batches of two.
\* One connection and the flows of others in two slots.
CONSTANTS
  Topics = {"helper", "codec", "batching", "relay", "store"}
  Solvers = {1, 2, 3}
  Budget = 2
  CodecPairs <- MCPairs
  BatchCallers = {"a", "b"}
  MaxBatched = 4
  BatchCount = 2
  BatchDepth = 2
  Conns = {c}
  MaxFlows = 2
  Jars = {"old", "new"}
  Appliers = {"host", "peer"}
SPECIFICATION TopicSpec
INVARIANTS TopicTypesOK OneWindow BlockedKnowsAddress AcceptedInOrder NothingIsLeftBroken
PROPERTIES  EveryWaitEnds
\* A flusher that was stopped stays so.
CHECK_DEADLOCK FALSE
