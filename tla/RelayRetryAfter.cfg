SPECIFICATION Spec
CONSTANTS
  e1 = e1  e2 = e2  p1 = p1  p2 = p2  none = none
  Event <- OneEvent
  Proc <- OneProc
  Token <- FourTokens
  NoToken <- NullToken
  NoHeader = none
  RetryAfters <- SomeRetryAfters
  RetryDefault = 1
  MaxRetryAfter = 2
  BatchSize = 2
  Concurrency = 1
  MaxAttempts = 2
  Lease = 1
  BaseBackoff = 1
  MaxBackoff = 1
  MaxPendingAge = 1
  DeliveredKeep = 0
  FailedKeep = 1
  MaxFaults = 1
  MaxDetours = 1
PROPERTY RetryAfterHonoured
