SPECIFICATION Spec
CONSTANTS
  n1 = n1
  n2 = n2
  r1 = r1
  k1 = k1
  k2 = k2
  None = None
  Notifiers = {n1, n2}
  Replayers = {r1}
  Keys = {k1, k2}
  MaxRowId = 2
  MAX_DELIVERY_ATTEMPTS = 1
  OUTBOX_MAX_ROWS = 1
  StorageMayFail = TRUE
  IndexMayFail = TRUE
SYMMETRY OutboxSymmetry
INVARIANTS TypeOK LiveRowUnique
PROPERTIES TerminalIsFinal UnsettledIsKept
CHECK_DEADLOCK FALSE
