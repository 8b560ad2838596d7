\* Two overlapping sign-ins, two plays and a setup opened on top of them.
SPECIFICATION Spec
CONSTANTS
  AuthIds = {a1, a2}
  PlayIds = {p1, p2}
  SetupIds = {}
  Origins = {lan, wan}
  None = None
  MaxPending = 1
  MaxKeys = 2
  MaxRedeems = 2
  MaxEpoch = 1
  MaxGeneration = 1
SYMMETRY Symmetric
VIEW View
CHECK_DEADLOCK FALSE
INVARIANTS TypeOK ProofsBounded VerifierUsedOnce SessionIsCurrent PendingAgrees
PROPERTIES ReadyForOwnSession NoSilentDrop
