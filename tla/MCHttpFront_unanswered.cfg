SPECIFICATION FairSpec
CONSTANTS
  piper = piper waiter = waiter
  Clients = {piper}
  Pipelines = {piper}
  Breaks = {}
  Requests <- Catalogue
  Scripts <- Contradicted
  HomePlmn <- Home
  DnnNames <- Names
  kU64 = 100000
  kU32 = 5000
  kMaxConnectionsPerWorker = 3
  kRequestBuffer = 3
  kAcceptBatch = 2
  MaxVersion = 1
PROPERTIES IdleMeansAnswered
