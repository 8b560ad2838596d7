\* Two overlapping sign-ins, a fallback and a sign-out: the two copies agree.
SPECIFICATION ExtSpec
CONSTANTS
  AuthIds = {a1, a2}
  PlayIds = {}
  SetupIds = {}
  Origins = {o1, o2}
  None = None
  Elsewhere = Elsewhere
  MaxPending = 2
  MaxKeys = 2
  MaxRedeems = 2
  MaxEpoch = 1
  MaxGeneration = 0
  MaxAttempts = 2
  MaxPlays = 4
  MaxOutbox = 1
  MaxToPage = 1
  MaxLoads = 2
CHECK_DEADLOCK FALSE
SYMMETRY Symmetric
INVARIANTS HandoffAgrees HandoffIsCarried
PROPERTY PartsForCause
