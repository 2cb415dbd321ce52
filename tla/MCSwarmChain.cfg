\* A SuperNode and a GPU provider that both ping.
SPECIFICATION FairSwarmSpec
CONSTANTS
  Worker = {w1, w2}
  Big = {w1, w2}
  Conn = {c1, c2}
  Pinging = {c1, c2}
  Checker = Checker
  None = None
  FirstPort = 3
  PortMod = 5
PROPERTY SuperNodeChains
CHECK_DEADLOCK FALSE
