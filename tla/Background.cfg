SPECIFICATION MCSpec
CONSTANTS
  e1 = e1  e2 = e2  m1 = m1  r1 = r1  r2 = r2
  c1 = c1  c2 = c2  c3 = c3  reads1 = reads1  reads2 = reads2
  Event <- MCEvent
  body <- MCBody
  TeamId = "T1"
  AppId = "A1"
  None = None
  Invalid = Invalid
  Delivery = {d1, d2}
  MaxSends = 2
  DedupeLimit = 1
  MaxCaptureFaults = 2
  Reminder = {r1, r2}
  Poller = {p1, p2}
  NoReminder = NoReminder
  MaxReminderFaults = 2
  User = {u1, u2, u3}
  Channels <- MCChannels
  Handler = {h1, h2}
  MaxToggles = 3
  MaxReactionFaults = 1
  Search = {s1, s2}
  Query = {q1}
  Pages <- MCPages
  PrefixOf <- MCPrefixOf
  MaxPages = 3
  MaxShown = 3
  MaxCursors = 1
  MaxChains = 1
  MaxSearches = 4
  NoCursor = NoCursor
  Unknown = Unknown
  Clone = {c1, c2, c3}
  Reader = {reads1, reads2}
  actorOf <- MCActorOf
  MaxSnapshots = 2
  Capacity = 5
  Reservation = 2
  CloneBytes = 1
  NoDir = NoDir
  NoSnapshot = NoSnapshot
INVARIANTS
  AckedIsDurable
  RemindedOnce
  RelayedForCause
  PagesAddUp
  SnapshotsKept
PROPERTIES
  ShutdownQuiet
  BackgroundSettles
CHECK_DEADLOCK FALSE
