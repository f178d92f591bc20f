SPECIFICATION FairSpec
CONSTANTS
  BatchSize = 1
  Entries = 8
  MaxVersion = 2
  MaxFaults = 1
  Traffic = 4
  c1 = c1 c2 = c2
  Clients = {c1, c2}
  ClientOf <- Sender
  LengthOf <- LengthTable
  IsRequest <- MagicTable
INVARIANTS SlotsHaveOneOwner RepliesAreRight NothingUnaccounted
PROPERTIES QueueIsServed StopCompletes
