\* Two workers that come and go, two requests, one key, restarts.
SPECIFICATION BillingSpec
CONSTANTS
  Key = {k1}
  Worker = {w1, w2}
  Request = {r1, r2}
  Admin = Admin
  NoKey = NoKey
  None = None
  Amount = {1}
  MaxCredits = 1
  PoolMod = 2
  DefaultPool = 1
  MaxPool = 1
  MaxServed = 2
SYMMETRY Symmetry
INVARIANTS BillingTypeOK WorkersNotOverpaid
