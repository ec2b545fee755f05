SPECIFICATION Spec
CONSTANTS
  Writer = {w1, w2}
  Event = {e1, e2, e3}
  NoEvent = NoEvent
  MaxFiles = 1
  Batch = 2
  MaxCrashes = 1
  MaxDropped = 1
  MaxExits = 1
SYMMETRY Interchangeable
INVARIANTS
  NoSilentLoss
  PublishedInOrder
  AcceptedOrOvertaken
  RedeliveryBounded
  CapExceededByRacersOnly
PROPERTIES
  ImplementsDeliveryLog
  SegmentNeverReplaced
CHECK_DEADLOCK FALSE
