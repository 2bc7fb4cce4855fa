SPECIFICATION Spec
CONSTANTS
  s1 = s1
  r1 = r1
  replay = replay
  None = None
  Sessions = {s1}
  Runs = {r1}
  Replay = replay
  MaxUserTurns = 2
  MaxRestarts = 1
  MaxCleanups = 1
  TurnsMayFail = TRUE
  LogMayFail = FALSE
  MaxRowId = 1
  MAX_DELIVERY_ATTEMPTS = 1
  OUTBOX_MAX_ROWS = 1
  StorageMayFail = TRUE
  IndexMayFail = FALSE
  MaxWaits = 2
  MaxTurn = 3
  MaxTime = 0
  StoreMayFail = TRUE
INVARIANTS ResumedOncePerLife DeliveredWasHeard
PROPERTIES RefinesOutbox RefinesRegistry
CHECK_DEADLOCK FALSE
