\* Two keys and three handlers; any of them may be cut short by a restart;
\* step by step against the promises of KeyStore.
SPECIFICATION Spec
CONSTANTS
  Key = {k1, k2}
  Task = {t1, t2, t3}
  NoKey = NoKey
  NoTask = NoTask
  Unreadable = Unreadable
  Amount = {1}
  MaxCredits = 2
SYMMETRY Symmetry
INVARIANTS TypeOK FileCatchesUp DeletedStaysDeleted
PROPERTY StoreSpec
