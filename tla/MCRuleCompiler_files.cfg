\* Files of up to three rules, all of them compiled and decided.
SPECIFICATION Spec
CONSTANTS
  NoRecord = NoRecord
  Bad = Bad
  NoDecision = NoDecision
  Now = 5
  kMaxPlans = 2
  kMaxTimeWindows = 2
  kMaxUsageThresholds = 2
  kMaxDnns = 2
  kMaxRedirects = 2
  kMaxRules = 6
  kMaxExpansionPerRule = 4
  MaxFile = 3
  Headers <- AllHeaders
  Texts <- AllTexts
  Requests <- MCRequests
  Records <- MCRecords
INVARIANTS
  PairsMeanTheConditions
  DecidesLikeTheFile
  WarnedPairsNeverFire
  CreditIsWhatIsLeft
  ReplyIsAsWritten
CHECK_DEADLOCK FALSE
