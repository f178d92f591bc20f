SPECIFICATION FairSpec
CONSTANTS
  piper = piper waiter = waiter
  Clients = {piper, waiter}
  Pipelines = {piper}
  Breaks = {waiter}
  Requests <- Catalogue
  Scripts <- Conversations
  HomePlmn <- Home
  DnnNames <- Names
  kU64 = 100000
  kU32 = 5000
  kMaxConnectionsPerWorker = 3
  kRequestBuffer = 3
  kAcceptBatch = 2
  MaxVersion = 2
INVARIANTS AnswersInOrder RoundsAreComplete
PROPERTIES RequestsAreAnswered
