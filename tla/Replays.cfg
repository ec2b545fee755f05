SPECIFICATION FairSpec
CONSTANTS
  Job <- MCJob
  Worker <- MCJob
  WorkerOf <- MCWorkerOf
  NoWorker = NoWorker
  MaxAttempts = 1
  Server = {s1, s2}
  MaxRestarts = 1
INVARIANTS
  EventsAgreeWithRow
PROPERTY ScheduledReplaySettles
CHECK_DEADLOCK FALSE
