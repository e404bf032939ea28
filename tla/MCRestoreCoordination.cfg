SPECIFICATION Spec
CONSTANTS
  Tasks = {t1, t2}
  Unit = unit
  Hook = hook
  Snapshots = {s1, s2, s3}
  Kept = {s1}
  TransactionIds = {old, x1, x2}
  PackageIds = {p1, p2}
  Old = old
  None = none
  MaxCalls = 3
  MaxHooks = 1
  MaxFaults = 1
INVARIANTS BoundaryHasOneOwner OutcomesAreRecorded NoLockIsLeft
PROPERTIES ReferencedStays
SYMMETRY Alike
CHECK_DEADLOCK FALSE
