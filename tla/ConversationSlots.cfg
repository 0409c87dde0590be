SPECIFICATION FairSpec
CONSTANTS
  d1 = d1  d2 = d2  d3 = d3  r1 = r1  r2 = r2  r3 = r3  s1 = s1  s2 = s2  none = none
  Delivery <- LongThread
  Request <- LongThreadRequests
  Session <- TwoSessions
  RequestOf <- LongThreadRequestOf
  SessionOf <- TwoThreadsSessionOf
  Mention <- SecondSession
  ActiveRuns = 1
  AdmittedRuns = 2
  PerThreadRuns = 2
  RecentTurns = 1
  NoCache = none
  MayMiss <- NoDelivery
  MaxCrashes = 0
PROPERTIES EveryDeliveryEnds
CHECK_DEADLOCK FALSE
