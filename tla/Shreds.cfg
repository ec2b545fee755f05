SPECIFICATION Spec
CONSTANTS
  Actor = {w1}
  Item = {i1, i2}
  NoItem = NoItem
  MaxKeys = 2
  MaxBackups = 1
  MaxRestores = 2
  MaxFaults = 1
SYMMETRY Interchangeable
INVARIANTS
  EveryShredIsRecorded
  RecordedShredsStay
PROPERTIES
  SweepSparesRetained
  RestoreFailsForAReason
CHECK_DEADLOCK FALSE
