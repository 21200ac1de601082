\* Five processes or fresh starts meet over one carrier that delivers every
\* message as often and as late as it likes; no data.
CONSTANTS
  Links = {l1}
  Caps = {"udp"}
  Window = 2
  QuietTicks = 1
  SilentTicks = 1
  Offered = {{"udp"}}
  Ponging = {}
  MaxChallenge = 5
  MaxPackets = 0
  MaxRestarts = 2
  Ticking = {"client", "exit"}
  Redelivers = TRUE
  Loses = FALSE
  Slow = TRUE
SPECIFICATION Spec
INVARIANT ExitConfirmed
PROPERTIES NotDisplaced NeverBack
