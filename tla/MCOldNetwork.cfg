\* A query to the servers of the former network ends after the change of network.
CONSTANTS
  Parts = {"dns"}
  Window = 4
  MaxSeq = 9
  Callers = {a, b}
  Hosts = {h}
  LastNetwork = 2
  Contexts = {"a", "b"}
  Setups <- MCSetups
SPECIFICATION PartsSpec
INVARIANT NewNetworkIsAsked
