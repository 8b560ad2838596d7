\* Two versions, installed in any order: failures, crashes, survivors, retries.
\* Two backups are kept instead of three, so that five starts prune one.
SPECIFICATION FairSpec
CONSTANTS
  Versions <- Releases
  Rank <- NameOrder
  Keep = 2
  Threshold = 3
  MaxStarts = 5
  Slots = {n1}
  None = None
CHECK_DEADLOCK FALSE
INVARIANTS TypeOK CopyIsQuiet HealthyNeverGivenUp
PROPERTIES UpgradeIsBackedUp RuntimeSettles SupervisionSpec
