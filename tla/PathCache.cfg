CONSTANTS
  Thread = {t1, t2}
  Tuple = {a1, a2, a3}
  Good = {p, q, r}
  Bad = {bad}
  MaxEntries = 2
  MaxCalls = 2
  FreeThreading = TRUE
  NoGil = NoGil
  Finalizers = FALSE
  None = None
SPECIFICATION FairSpec
INVARIANTS TypeOK OwnPath NoDuplicates
PROPERTIES Fifo CallsReturn
