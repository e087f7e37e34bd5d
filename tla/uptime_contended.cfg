CONSTANTS
  w1 = w1
  i1 = i1
  i2 = i2
  i3 = i3
  j1 = j1
  j2 = j2
  None = None
  FailureThreshold = 1
  RecoveryThreshold = 1
  TriggerChecks = 1
  RecoveryChecks = 1
  MaxStreak = 1
  Websites <- OneWebsite
  Incidents <- TwoIncidents
  Jobs <- TwoJobs
  Outcomes <- AnomalousOrFailed
  DetectionReads <- OnlyOn
  AnalysesEnabled = FALSE
  LeaseOutlivesJob = FALSE
  Faults = {"crash"}
  Operations = {"resolve"}
SPECIFICATION Spec
SYMMETRY SymmetrySet
INVARIANT WellFormed
INVARIANT OneOpenIncident
INVARIANT DispatchOnce
INVARIANT ClosedByHandIsNotAnnounced
