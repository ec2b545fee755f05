SPECIFICATION Spec
CONSTANTS
  Job = {1}
  Worker = {r1}
  NoWorker = NoWorker
  MaxAttempts = 2
  Threads = 2
  MaxFaults = 0
INVARIANTS
  HeartbeatWhileRunning
CHECK_DEADLOCK FALSE
