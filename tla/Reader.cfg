CONSTANTS
  Thread = {t1, t2}
  Iter = {i1, i2}
  Method <- AllMethods
  V4 = {a, b, c}
  V6 = {d}
  NotAnIp = {x}
  Absent = {b}
  Corrupt = {c}
  IpVersion = 4
  MaxBatch = 2
  None = None
SPECIFICATION FairSpec
INVARIANTS TypeOK CountExact NoUseAfterUnmap ClosedIsNeverPartial LateCallsGetNothing BatchComplete OneBorrower
PROPERTIES ImplementsLease CallsReturn ClosedIsUnmapped
