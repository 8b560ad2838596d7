\* A newer backup is removed before an older one.
SPECIFICATION Spec
CONSTANTS
  Versions <- Releases
  Rank <- NameOrder
  Keep = 3
  Threshold = 3
  MaxStarts = 6
  Slots = {n1}
  None = None
CHECK_DEADLOCK FALSE
PROPERTY NewestAreKept
