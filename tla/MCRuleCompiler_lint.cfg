\* A rule of which the lint reports one pair.
SPECIFICATION Spec
CONSTANTS
  NoRecord = NoRecord
  Bad = Bad
  NoDecision = NoDecision
  Now = 5
  kMaxPlans = 2
  kMaxTimeWindows = 2
  kMaxUsageThresholds = 2
  kMaxDnns = 2
  kMaxRedirects = 2
  kMaxRules = 6
  kMaxExpansionPerRule = 4
  MaxFile = 2
  Headers <- MCHeaders
  Texts <- PartlyShadowedTexts
  Requests <- MCRequests
  Records <- MCRecords
INVARIANT
  WarnedRulesNeverFire
CHECK_DEADLOCK FALSE
