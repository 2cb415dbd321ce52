\* Three lists, one change of model; unbounded PINGs, evictions, reconnections.
SPECIFICATION FairSpec
CONSTANTS
  MaxLists = 3
  MaxSwitch = 1
INVARIANTS TypeOK ListsInOrder NoStandoff
PROPERTIES IsListChannel ListsArrive PingsGoOn
