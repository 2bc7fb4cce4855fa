SPECIFICATION Spec
CONSTANTS
  s1 = s1
  c1 = c1
  c2 = c2
  None = None
  Sessions = {s1}
  Resumers = {c1, c2}
  MaxWaits = 2
  MaxTurn = 2
  MaxTime = 1
  StoreMayFail = TRUE
SYMMETRY ResumerSymmetry
INVARIANTS ClaimedAtMostOnce
PROPERTIES NewerWaitSurvives KeepsPromise
CHECK_DEADLOCK FALSE
