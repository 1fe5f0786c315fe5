CONSTANTS
  Thread = {t1, t2}
  Tuple = {a1, a2, a3}
  Good = {p, q}
  Bad = {bad}
  MaxEntries = 1
  MaxCalls = 2
  FreeThreading = FALSE
  NoGil = NoGil
  Finalizers = TRUE
  None = None
SPECIFICATION FairSpec
PROPERTY CallsReturn
CHECK_DEADLOCK FALSE
