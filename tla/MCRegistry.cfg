\* Two machines with a big GPU, three connections: elections, a reconnection
\* that meets the clean-up of the old connection, evictions, PINGs on one of
\* the connections.
SPECIFICATION Spec
CONSTANTS
  Worker = {w1, w2}
  Big = {w1, w2}
  Conn = {c1, c2, c3}
  Pinging = {c1}
  Checker = Checker
  None = None
  FirstPort = 3
  PortMod = 5
  TotalLayers = 5
SYMMETRY Symmetry
INVARIANTS TypeOK NoDanglingSuperNode NodesHaveHandlers DistinctPorts LayersAreSplit
CHECK_DEADLOCK FALSE
