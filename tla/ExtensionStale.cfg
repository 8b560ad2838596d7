\* What was redeemed before a sign-out is delivered after it.
SPECIFICATION ExtSpec
CONSTANTS
  AuthIds = {a1, a2}
  PlayIds = {}
  SetupIds = {}
  Origins = {o1}
  None = None
  Elsewhere = Elsewhere
  MaxPending = 2
  MaxKeys = 2
  MaxRedeems = 2
  MaxEpoch = 1
  MaxGeneration = 0
  MaxAttempts = 2
  MaxPlays = 4
  MaxOutbox = 1
  MaxToPage = 1
  MaxLoads = 2
CHECK_DEADLOCK FALSE
PROPERTY StaleNeverDelivered
