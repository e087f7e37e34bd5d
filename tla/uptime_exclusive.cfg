CONSTANTS
  w1 = w1
  i1 = i1
  i2 = i2
  i3 = i3
  j1 = j1
  j2 = j2
  None = None
  FailureThreshold = 2
  RecoveryThreshold = 2
  TriggerChecks = 2
  RecoveryChecks = 2
  MaxStreak = 2
  Websites <- OneWebsite
  Incidents <- ThreeIncidents
  Jobs <- TwoJobs
  Outcomes <- AnyButSlow
  DetectionReads <- Both
  AnalysesEnabled = TRUE
  LeaseOutlivesJob = TRUE
  Faults = {"crash", "error"}
  Operations = {"pause", "resume", "resolve", "url", "delete"}
SPECIFICATION Spec
ACTION_CONSTRAINT OneDisturbance
SYMMETRY SymmetrySet
INVARIANT ExclusiveJob
INVARIANT ConfirmedTransitions
INVARIANT AnnouncedInOrder
INVARIANT MirrorsIncidents
PROPERTY NoSlowdownDuringOutage
CHECK_DEADLOCK FALSE
