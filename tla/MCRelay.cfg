\* One tunnel that connects twice (its old thread at the relay meets the new
\* one), two requests.
SPECIFICATION FairSpec
CONSTANTS
  WConn = {c1, c2}
  AConn = {a1, a2}
  Tunnel = {t1}
  None = None
INVARIANTS TypeOK ServingIsRegistered HeldOnce OwnAnswer
PROPERTY BridgesEnd
CHECK_DEADLOCK FALSE
