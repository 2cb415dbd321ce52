\* Two machines that ping, two connections: what the applications make of the
\* answers, and what a silent worker and a change of the slaves lead to.
SPECIFICATION FairSwarmSpec
CONSTANTS
  Worker = {w1, w2}
  Big = {w1, w2}
  Conn = {c1, c2}
  Pinging = {c1, c2}
  Checker = Checker
  None = None
  FirstPort = 3
  PortMod = 5
INVARIANTS RolesAgree ChainsAreOfProviders
PROPERTIES LostWorkersAreForgotten SlaveListConverges
CHECK_DEADLOCK FALSE
