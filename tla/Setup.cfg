\* Two servers, three calls, reopened setups, other processes, kills and restarts.
SPECIFICATION FairSetupSpec
CONSTANTS
  AuthIds = {}
  PlayIds = {}
  SetupIds = {s1, s2, s3}
  Origins = {}
  None = None
  MaxPending = 1
  MaxKeys = 0
  MaxRedeems = 0
  MaxEpoch = 0
  MaxGeneration = 3
  Servers = {u1, u2}
  BadUrl = BadUrl
  LongUrl = LongUrl
  Local = Local
  SetupDoc = SetupDoc
  Opening = Opening
  MaxBoots = 2
CHECK_DEADLOCK FALSE
INVARIANTS SetupTypeOK RedeemedWhereShown OpenedIsSaved
PROPERTIES ButtonsComeBack OvertakenStaysSilent
