SPECIFICATION Spec
CONSTANTS
  s1 = s1
  r1 = r1
  r2 = r2
  replay = replay
  None = None
  Sessions = {s1}
  Runs = {r1, r2}
  Replay = replay
  MaxUserTurns = 2
  MaxRestarts = 0
  MaxCleanups = 0
  TurnsMayFail = FALSE
  LogMayFail = FALSE
  MaxRowId = 2
  MAX_DELIVERY_ATTEMPTS = 2
  OUTBOX_MAX_ROWS = 2
  StorageMayFail = FALSE
  IndexMayFail = FALSE
  MaxWaits = 2
  MaxTurn = 4
  MaxTime = 1
  StoreMayFail = FALSE
SYMMETRY RunSymmetry
PROPERTIES SupersededIsNotReused
CHECK_DEADLOCK FALSE
