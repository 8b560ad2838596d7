\* One sign-in, one play, page reloads, a redirect and a sign-out: it concludes.
SPECIFICATION ExtFairSpec
CONSTANTS
  AuthIds = {a1}
  PlayIds = {p1}
  SetupIds = {}
  Origins = {o1}
  None = None
  Elsewhere = Elsewhere
  MaxPending = 1
  MaxKeys = 1
  MaxRedeems = 1
  MaxEpoch = 1
  MaxGeneration = 0
  MaxAttempts = 2
  MaxPlays = 4
  MaxOutbox = 1
  MaxToPage = 1
  MaxLoads = 2
CHECK_DEADLOCK FALSE
INVARIANT ExtTypeOK NeverStranded
PROPERTIES SignInConcludes ControllerSpec
