CONSTANTS
  w1 = w1
  w2 = w2
  h1 = h1
  h2 = h2
  admin = admin
  Workers = {w1, w2}
  ControlReaders = {admin}
  ControlSlot <- AdminLastSlot
  MaxReaders = 3
  MaxPublish = 4

SPECIFICATION TwoSituations
INVARIANTS
  NoUseAfterFree
  SlotsAreExclusive
  FreedAtMostOnce
  SuccessLeavesOneSnapshot
  DestroyFreesEverything
PROPERTIES
  TimeoutHasACulprit
  ImplementsCell
  NobodyIsStuck
