\* Data and keepalives: the client starts over up to twice, with any of two
\* parameter sets on either side.
CONSTANTS
  Links = {l1}
  Caps = {"udp"}
  Window = 2
  QuietTicks = 1
  SilentTicks = 1
  Offered <- MCOffered
  Ponging = {"exit"}
  MaxChallenge = 4
  MaxPackets = 1
  MaxRestarts = 0
  Ticking = {"client", "exit"}
  Redelivers = TRUE
  Loses = FALSE
  Slow = TRUE
SPECIFICATION Spec
INVARIANTS IInv PairAgreement AtMostOnce
