SPECIFICATION Spec
CONSTANTS
  s1 = s1
  s2 = s2
  None = None
  Sessions = {s1, s2}
  Calls = {1, 2}
  NTurns = 2
  SessionOf <- TwoSessions
  MaxPolls = 1
  MaxIds = 2
  MaxFaults = 0
  MaxCrashes = 0
INVARIANT ToolCallsStayApart
CHECK_DEADLOCK FALSE
