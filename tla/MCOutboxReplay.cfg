SPECIFICATION FairSpec
CONSTANTS
  n1 = n1
  r1 = r1
  k1 = k1
  None = None
  Notifiers = {n1}
  Replayers = {r1}
  Keys = {k1}
  MaxRowId = 2
  MAX_DELIVERY_ATTEMPTS = 2
  OUTBOX_MAX_ROWS = 1
  StorageMayFail = TRUE
  IndexMayFail = TRUE
PROPERTIES NoForgottenSettlement
CHECK_DEADLOCK FALSE
