SPECIFICATION Spec
CONSTANTS
  Run = {a}
  UuidRun = {a}
  MaxUploads = 2
  Tenant = {"acme", "umbra"}
  Deleter = {"api", "bulk"}
  KindOf <- MCKindOf
  TenantOf <- MCTenantOf
  MaxFaults = 2
INVARIANTS
  DeleteOwnsItsBytes
  FailedDeleteKeepsBytes
  MetaRowHasBytes
PROPERTY HoldStopsLaterDeletes
CHECK_DEADLOCK FALSE
