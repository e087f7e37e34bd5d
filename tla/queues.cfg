CONSTANTS
  w1 = w1
  i1 = i1
  i2 = i2
  i3 = i3
  j1 = j1
  j2 = j2
  None = None
  FailureThreshold = 1
  RecoveryThreshold = 1
  TriggerChecks = 1
  RecoveryChecks = 1
  MaxStreak = 1
  Websites <- OneWebsite
  Incidents <- TwoIncidents
  Jobs <- OneJob
  Outcomes <- UpOrFailed
  DetectionReads <- OnlyOff
  AnalysesEnabled = FALSE
  LeaseOutlivesJob = TRUE
  Faults = {"crash", "error"}
  Operations = {"pause", "resume"}
  Channels = {c1}
  ChannelEvents = {e1}
  Workers = {k1, k2}
  MaxAttempts = 3
  AttemptCap = 4
  ChannelFaults = {"abandon", "overrun"}
  Ticks = {t1, t2}
  Callers = {q1}
  Messages = {m1, m2}
  BatchSize = 1
SPECIFICATION QueuesSpec
INVARIANT QueuesTypeOK
INVARIANT HonestLog
INVARIANT AttemptsAccounted
INVARIANT FailuresCounted
INVARIANT SoleDriver
INVARIANT Prompt
PROPERTY SettledOnce
PROPERTY StopIsFinal
PROPERTY WebsitesAreChecked
PROPERTY OutageIsAnnounced
PROPERTY EventuallySettled
PROPERTY EventuallyClaimed
PROPERTY CallsReturn
CHECK_DEADLOCK FALSE
