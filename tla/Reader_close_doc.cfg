CONSTANTS
  Thread = {t1, t2}
  Iter = {i1}
  Method <- ClosingMethods
  V4 = {a, c}
  V6 = {}
  NotAnIp = {x}
  Absent = {}
  Corrupt = {c}
  IpVersion = 4
  MaxBatch = 2
  None = None
SPECIFICATION Spec
INVARIANT CloseReleases
