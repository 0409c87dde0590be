SPECIFICATION MCSpec
CONSTANTS
  d1 = d1
  d2 = d2
  r1 = r1
  k1 = k1
  team = team
  crowd = crowd
  NoCache = NoCache
  Delivery = {d1, d2}
  Resume = {r1}
  Command = {k1}
  EventOf <- Events
  Roster = {team, crowd}
  Long = {crowd}
  MaxRev = 1
  MaxFaults = 1
  MaxGrants = 2
INVARIANTS
  CatalogWasCurrent
  NeverSilent
PROPERTIES
  ReplacedOnce
  GrantSurvives
  CallsEnd
CHECK_DEADLOCK FALSE
