SPECIFICATION MCSpec
CONSTANTS
  p1 = p1
  p2 = p2
  h1 = h1
  h2 = h2
  c1 = c1
  c2 = c2
  s1 = s1
  None = None
  Proc = {p1, p2}
  Handler = {h1, h2}
  Callback = {c1, c2}
  State = {s1}
  Home <- HomeOf
  Retries = 1
  MaxCreds = 3
  MaxFaults = 1
INVARIANTS
  SuccessorInReach
  NoOrphans
  OneGrantPerLink
PROPERTIES
  LostOnlyForCause
  CallsEnd
CHECK_DEADLOCK FALSE
