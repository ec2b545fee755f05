SPECIFICATION FairSpec
CONSTANTS
  h1 = h1
  h2 = h2
  e1 = e1
  e2 = e2
  Server = {s1}
  Hook <- MCHook
  Event <- MCEvent
  Matches <- MCMatches
  STOP = STOP
  QueueMax = 1
  MaxAttempts = 2
  MaxAdmin = 1
  MaxFaults = 1
INVARIANTS
  OpenRowsAreDriven
  EvidenceBeforeState
PROPERTIES
  DeliveredIsFinal
  EveryDeliverySettles
  EveryHookIsTold
CHECK_DEADLOCK FALSE
