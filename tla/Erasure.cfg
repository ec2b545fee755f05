SPECIFICATION Spec
CONSTANTS
  s1 = s1
  s2 = s2
  cli = cli
  Actor <- MCActor
  Server <- MCServer
  MaxKeys = 2
  MaxRequests = 2
  MaxFaults = 1
SYMMETRY Interchangeable
INVARIANTS
  ErasureInv
  CompletedMeansGone
  FailureMeansNothingErased
  PendingIsAttended
PROPERTIES
  AnswersAreFinal
  DestroyedLawfully
CHECK_DEADLOCK FALSE
