\* Four files, the third of which stands for the engine; two models.
SPECIFICATION FairSpec
CONSTANTS
  Entries = 4
  RpcEntry = 3
  Model = {m1, m2}
  Page = Page
  Chunks = 2
  None = None
INVARIANTS TypeOK ModelIsWhole EngineIsWhole
PROPERTY DownloadEnds
