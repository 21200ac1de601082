\* Nothing is lost; the client may start over twice.
CONSTANTS
  Links = {l1}
  Caps = {"udp"}
  Window = 2
  QuietTicks = 1
  SilentTicks = 1
  Offered = {{"udp"}}
  Ponging = {"exit"}
  MaxChallenge = 4
  MaxPackets = 0
  MaxRestarts = 0
  Ticking = {"client"}
  Redelivers = FALSE
  Loses = FALSE
  Slow = FALSE
SPECIFICATION FairSpec
PROPERTY FindEachOther
