\* A restart outlives the process.
SPECIFICATION Spec
CONSTANTS
  Threads = {t1, t2, t3}
  Free = Free
  Threshold = 3
CHECK_DEADLOCK FALSE
SYMMETRY Symmetric
INVARIANT NoOrphan
