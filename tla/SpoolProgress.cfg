SPECIFICATION FairSpec
CONSTANTS
  Writer = {w1, w2}
  Event = {e1, e2}
  NoEvent = NoEvent
  MaxFiles = 1
  Batch = 2
  MaxCrashes = 1
  MaxDropped = 1
  MaxExits = 1
PROPERTIES
  LoggedIsPublished
  AcceptedIsPublished
CHECK_DEADLOCK FALSE
