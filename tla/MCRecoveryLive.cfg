SPECIFICATION FairSpec
CONSTANTS
  s1 = s1
  r1 = r1
  r2 = r2
  replay = replay
  None = None
  Sessions = {s1}
  Runs = {r1, r2}
  Replay = replay
  MaxUserTurns = 1
  MaxRestarts = 0
  MaxCleanups = 0
  TurnsMayFail = TRUE
  LogMayFail = TRUE
  MaxRowId = 2
  MAX_DELIVERY_ATTEMPTS = 2
  OUTBOX_MAX_ROWS = 2
  StorageMayFail = FALSE
  IndexMayFail = FALSE
  MaxWaits = 2
  MaxTurn = 3
  MaxTime = 1
  StoreMayFail = FALSE
INVARIANTS ResumedAfterItsRuns
PROPERTIES EveryWaitSettles
CHECK_DEADLOCK FALSE
