SPECIFICATION FairSpec
CONSTANTS
  c1 = c1
  c2 = c2
  s1 = s1
  None = None
  Calls = {c1, c2}
  Session = s1
  Batches <- OneBatch
  MaxTasks = 2
  Limit = 2
  SWARM_CONCURRENCY = 2
  RECENT_CAP = 1
  MaxUpsets = 1
  Verified <- OneTask
  VerifyRetry = TRUE
INVARIANTS TypeOK AnswersOncePerSettlement WithinLimit NothingLiveAfterNotice OneNoticeOneVerdict AbortReachesAll
PROPERTIES EveryRunIsNotified
CHECK_DEADLOCK FALSE
