SPECIFICATION FairSpec
CONSTANTS
  Job = {1}
  Worker = {r1, r2}
  NoWorker = NoWorker
  MaxAttempts = 2
  Threads = 2
  MaxFaults = 1
INVARIANTS
  OverlapNeedsExpiry
  LateResultOnlyOfHolder
  SlotsAccounted
PROPERTIES
  SettledForever
  StoreSpec
  EveryJobSettles
CHECK_DEADLOCK FALSE
