\* A chat of two messages with one more to come, and one more process.
SPECIFICATION FairSpec
CONSTANTS
  d1 = d1
  Sync = Sync
  Doc = {d1}
  Limit = 1
  LocalLimit = 2
  Old = 2
  MaxMsg = 3
  MaxOps = 1
  MaxTaps = 2
  MaxRun = 2
  None = None
CHECK_DEADLOCK FALSE
INVARIANTS ChatTypeOK ShownOnce OnlyConfirmed RemovedStaysAway
 
