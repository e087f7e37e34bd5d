CONSTANTS
  w1 = w1
  i1 = i1
  i2 = i2
  i3 = i3
  j1 = j1
  j2 = j2
  None = None
  FailureThreshold = 2
  RecoveryThreshold = 1
  TriggerChecks = 1
  RecoveryChecks = 1
  MaxStreak = 2
  Websites <- OneWebsite
  Incidents <- TwoIncidents
  Jobs <- OneJob
  Outcomes <- AnyButSlow
  DetectionReads <- OnlyOn
  AnalysesEnabled = FALSE
  LeaseOutlivesJob = TRUE
  Faults = {}
  Operations = {"resolve"}
SPECIFICATION Spec
INVARIANT DegradationHasFacts
CHECK_DEADLOCK FALSE
