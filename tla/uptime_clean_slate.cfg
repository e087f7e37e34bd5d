CONSTANTS
  w1 = w1
  i1 = i1
  i2 = i2
  i3 = i3
  j1 = j1
  j2 = j2
  None = None
  FailureThreshold = 3
  RecoveryThreshold = 1
  TriggerChecks = 1
  RecoveryChecks = 1
  MaxStreak = 3
  Websites <- OneWebsite
  Incidents <- TwoIncidents
  Jobs <- OneJob
  Outcomes <- UpOrFailed
  DetectionReads <- OnlyOff
  AnalysesEnabled = FALSE
  LeaseOutlivesJob = TRUE
  Faults = {}
  Operations = {"pause", "resume"}
SPECIFICATION Spec
PROPERTY CleanSlate
CHECK_DEADLOCK FALSE
