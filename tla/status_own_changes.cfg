CONSTANTS
    None = None
    Pages = {p1}
    Domains = {}
    Processes = {a1}
    Visits = {v1}
    PageRequests = {r1}
    MaxVersion = 3
SPECIFICATION StatusSpec
INVARIANT ChangesShowAtOnce
CHECK_DEADLOCK FALSE
