\* Crashes, sick children, restarts, retries and quits.
SPECIFICATION FairSpec
CONSTANTS
  Threads = {t1, t2, t3}
  Free = Free
  Threshold = 3
CHECK_DEADLOCK FALSE
INVARIANTS TypeOK OneKeeper NeverTwoChildren RetryIsHonored
PROPERTIES FailureSurfaces QuitTerminates SupervisionSpec
