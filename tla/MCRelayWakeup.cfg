\* One tunnel, one request.
SPECIFICATION FairSpec
CONSTANTS
  WConn = {c1}
  AConn = {a1}
  Tunnel = {t1}
  None = None
PROPERTY RequestsEnd
CHECK_DEADLOCK FALSE
