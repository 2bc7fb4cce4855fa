SPECIFICATION FairSpec
CONSTANTS
  s1 = s1
  s2 = s2
  None = None
  Sessions = {s1}
  Calls = {1, 2}
  NTurns = 2
  SessionOf <- OneSession
  MaxPolls = 2
  MaxIds = 4
  MaxFaults = 1
  MaxCrashes = 2
INVARIANTS TypeOK ActiveIsOwner KeptBlocks FencedAcrossRestarts RecoveredIsJudged OneStreamAtATime EffectIsRecorded LostOnlyIfLeftBehind
PROPERTIES TerminalIsFinal EveryTurnEnds
CHECK_DEADLOCK FALSE
