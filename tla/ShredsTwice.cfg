SPECIFICATION Spec
CONSTANTS
  Actor = {w1}
  Item = {i1, i2}
  NoItem = NoItem
  MaxKeys = 2
  MaxBackups = 1
  MaxRestores = 2
  MaxFaults = 0
SYMMETRY Interchangeable
INVARIANT ShreddedSubjectsStay
CHECK_DEADLOCK FALSE
