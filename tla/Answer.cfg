SPECIFICATION Spec
CONSTANTS
  None = None
  MaxCalls = 3
  MaxFaults = 3
  Failed = Failed
INVARIANTS
  OneAnswer
  SavedNeverDenied
  GoneMeansShown
PROPERTIES
  FinalStays
  EndsClearly
CHECK_DEADLOCK FALSE
