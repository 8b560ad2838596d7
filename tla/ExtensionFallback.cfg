\* session.failed gives a sign-in up although it names a fallback.
SPECIFICATION ExtSpec
CONSTANTS
  AuthIds = {a1}
  PlayIds = {p1}
  SetupIds = {}
  Origins = {o1, o2}
  None = None
  Elsewhere = Elsewhere
  MaxPending = 2
  MaxKeys = 1
  MaxRedeems = 1
  MaxEpoch = 0
  MaxGeneration = 0
  MaxAttempts = 2
  MaxPlays = 4
  MaxOutbox = 1
  MaxToPage = 1
  MaxLoads = 2
CHECK_DEADLOCK FALSE
PROPERTY FallbackIsTried
