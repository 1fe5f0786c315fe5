CONSTANTS
  Opener = {t1, t2}
  Inode = {i1, i2, i3}
  Version = {v1, bad}
  Garbage = {bad}
  None = None
SPECIFICATION Spec
INVARIANTS NoLeak OneVersion
PROPERTIES ImplementsAtomicOpen Frozen
SYMMETRY Symmetry
