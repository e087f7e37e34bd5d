CONSTANTS
    None = None
    i1 = i1
    i2 = i2
    p1 = p1
    p2 = p2
    p3 = p3
    c1 = c1
    c2 = c2
    m1 = m1
    m2 = m2
    s1 = s1
    s2 = s2
    t1 = t1
    t2 = t2
    Incidents <- MCIncidents
    Analysts = {w1, w2}
    Allowance <- MCAllowance
    AnalysisAttempts = 2
    MaxMonth = 1
    MaxAnalysisAsks = 1
    MaxAnalysisFaults = 1
    MaxPlanChanges = 1
    Reports <- MCReports
    Builders = {b1, b2}
    Recipients = {x1}
    ReportAttempts = 2
    MaxOccurrences = 2
    MaxReportFaults = 1
    Members <- MCMembers
    Dispatchers = {d1, d2}
    MailAttempts = 2
    MaxMailFaults = 1
    CriticalDays = 1
    WarningDays = 2
    PerformanceBound = 1
    MinScore = 1
    ChangeThreshold = 1
    MonitorIncidents <- MCMonitorIncidents
    MonitorJobs = {j1, j2}
    ErrorStatusThreshold = 2
    MaxMonitorFaults = 1
    Hops = {"home", "other", "private", "mailto"}
    Home = "home"
    BlockedHops = {"private"}
    InvalidHops = {"mailto"}
    CheckAttempts = 2
    MaxRedirects = 2
    Urls = {"start", "a", "b", "file", "away"}
    Start = "start"
    External = {"away"}
    Files = {"file"}
    MaxPages = 3
    QueueFactor = 1
    MaxDepth = 2
    MaxLinksChecked = 1
    Producers = {"uptime"}
    Sweeps <- MCSweeps
    Posts <- MCPosts
    PostBatch = 2
SPECIFICATION Spec
INVARIANT BackgroundTypeOK
INVARIANT AllowanceHolds
INVARIANT MailedOnce
INVARIANT MonitorsTellTheTruth
INVARIANT ProbesKeepTheirWord
INVARIANT RuntimeKeepsOrder
PROPERTY ImplementsLeasedWork
CHECK_DEADLOCK FALSE
