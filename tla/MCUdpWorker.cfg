SPECIFICATION FairSpec
CONSTANTS
  Workers = {0, 1}
  Layouts <- ServerLayouts
  MaxVersion = 2
  Datagrams = {known, unknown, garbled, short, oversized}
  c1 = c1 c2 = c2
  known = known unknown = unknown garbled = garbled short = short oversized = oversized
  Clients = {c1, c2}
  ClientOf <- SenderOf
  LengthOf <- LengthTable
  IsRequest <- MagicTable
  IsKnown <- KnownTable
INVARIANTS AnsweredOnceToSender OneVersionPerBatch IdleWorkersHoldNoGuard CountersBalance
           PolicyNeverGoesBack DecidedByALivePolicy
PROPERTIES StopCompletes QueuesAreServed
