SPECIFICATION FairSpec
CONSTANTS
  k1 = k1
  d1 = d1
  d2 = d2
  None = None
  Keys = {k1}
  Dispatchers = {d1, d2}
  Outcomes = {"done", "failed", "later"}
  MaxGeneration = 2
  MaxAttempts = 2
INVARIANTS TypeOK SettledWasSent GivesUpOnlyAfterFailures
PROPERTIES EventuallySettled
CHECK_DEADLOCK FALSE
