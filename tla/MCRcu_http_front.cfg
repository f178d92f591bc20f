CONSTANTS
  w1 = w1
  w2 = w2
  h1 = h1
  h2 = h2
  admin = admin
  Workers = {w1, w2, h1, h2}
  ControlReaders = {admin}
  ControlSlot <- AdminSlot
  MaxReaders = 6
  MaxPublish = 2

SPECIFICATION SharedSlotSpec
CHECK_DEADLOCK FALSE
INVARIANTS
  NoUseAfterFree
