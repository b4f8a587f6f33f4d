SPECIFICATION PhotoSpec
CONSTANTS
  b1 = b1
  b2 = b2
  Person = {1, 2}
  Batch = {b1}
  BatchOf <- MCBatchOf
  NoBatch = NoBatch
  Client = {c1, c2}
  MaxTries = 1
  MaxAsks = 2
  MaxFaults = 1
CHECK_DEADLOCK FALSE
INVARIANTS
  PhotoTypeOK
  ClosedBatchIsSettled
  CardComplete
PROPERTIES
  EverybodySettled
