SPECIFICATION Spec
CONSTANTS
  d1 = d1  d2 = d2  d3 = d3  r1 = r1  r2 = r2  r3 = r3  s1 = s1  s2 = s2  none = none
  Delivery <- OneThread
  Request <- OneThreadRequests
  Session <- OneSession
  RequestOf <- OneThreadRequestOf
  SessionOf <- OneThreadSessionOf
  Mention <- NoSession
  ActiveRuns = 1
  AdmittedRuns = 2
  PerThreadRuns = 2
  RecentTurns = 1
  NoCache = none
  MayMiss <- OneThread
  MaxCrashes = 0
INVARIANT StoppedStaysOutOfHistory
CHECK_DEADLOCK FALSE
