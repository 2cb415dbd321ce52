\* Two requests with one credit, of the pool and of a key.
SPECIFICATION BillingSpec
CONSTANTS
  Key = {k1}
  Worker = {w1}
  Request = {r1, r2}
  Admin = Admin
  NoKey = NoKey
  None = None
  Amount = {1}
  MaxCredits = 1
  PoolMod = 4
  DefaultPool = 1
  MaxPool = 3
  MaxServed = 2
PROPERTY ChargesAreTaken
