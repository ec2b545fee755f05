SPECIFICATION Spec
CONSTANTS
  Writer = {w1, w2}
  Event = {e1, e2}
  NoEvent = NoEvent
  MaxFiles = 0
  Batch = 1
  MaxCrashes = 0
  MaxDropped = 0
  MaxExits = 0
SYMMETRY Interchangeable
INVARIANT AcceptedIsReachable
CHECK_DEADLOCK FALSE
