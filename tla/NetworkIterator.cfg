CONSTANTS
  Thread = {t1, t2, t3}
  Size = 4
  Corrupt = {2}
  None = None
SPECIFICATION Spec
SYMMETRY ThreadSymmetry
INVARIANTS OnceInOrder NothingLost StopMeansAll
