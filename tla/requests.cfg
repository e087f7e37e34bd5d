CONSTANTS
    None = None
    r1 = r1
    r2 = r2
    x1 = x1
    x2 = x2
    u1 = u1
    PaidPlans = {"agency"}
    Subscriptions = {s1}
    WebhookHandlers <- MCRequestIds
    MaxEvents = 3
    MaxEventTime = 2
    MaxWebhookFaults = 1
    Users <- MCTrio
    Founder = u1
    Clients = {c1}
    InvitedRoles = {"member"}
    MaxMembers = 3
    MemberRequests <- MCRequestIds
    Pages <- MCPair
    Domains = {d1}
    Processes = {a1}
    Visits = {v1}
    PageRequests <- MCRequestIds
    MaxVersion = 3
    ApiProcesses = {a1}
    ApiKeys <- MCPair
    Calls <- MCRequestIds
    Urls <- MCTrio
    PlanLimits <- MCPlanLimits
    AddressLimit = 3
    KeyLimit = 2
    WindowLength = 2
    SweepInterval = 2
    DayLength = 2
    MaxClock = 4
    MaxRotations = 2
SPECIFICATION Spec
SYMMETRY Symmetry
INVARIANT RequestsTypeOK
INVARIANT AcknowledgedTakesEffect
INVARIANT NewestEventDecides
PROPERTY OwnerRemains
INVARIANT ArchivedClientIsClosed
INVARIANT NothingOutlivesDeletion
INVARIANT OwnChangesShow
INVARIANT RoutesAreProven
INVARIANT OvershootIsBounded
INVARIANT QuotaIsExact
INVARIANT BudgetAtMostDoubled
CHECK_DEADLOCK FALSE
