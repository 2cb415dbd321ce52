\* A SuperNode that is told of slaves once.
SPECIFICATION Spec
CONSTANTS
  Offers = {"SuperNode"}
  MaxUpdates = 1
  None = None
PROPERTY DroppedIsTerminated
CHECK_DEADLOCK FALSE
