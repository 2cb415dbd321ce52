\* Any role, three lists of slaves.
SPECIFICATION FairSpec
CONSTANTS
  Offers = {"SuperNode", "GpuProvider", "Consumer"}
  MaxUpdates = 3
  None = None
INVARIANTS TypeOK ChildrenAreHeld ChainIsCurrent
PROPERTIES ServerListens RpcEndEndsWorker UpdatesAreTaken
CHECK_DEADLOCK FALSE
