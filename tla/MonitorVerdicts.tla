--------------------------- MODULE MonitorVerdicts ---------------------------
(***************************************************************************)
(* What the runners of the auxiliary monitors make of what they find.  An  *)
(* outcome is what a run learned, a verdict what it reports: "error" when  *)
(* it learned nothing.  Measured values keep only their distance from the  *)
(* thresholds of the configuration.                                        *)
(***************************************************************************)
EXTENDS Shared, Integers

CONSTANTS
    CriticalDays, WarningDays,   \* config.criticalDays, config.warningDays
    PerformanceBound,            \* each threshold of the performance monitor
    MinScore,                    \* config.minScore of the SEO monitor
    ChangeThreshold              \* CHANGE_THRESHOLD of config.sensitivity

ASSUME MonitorVerdictsAssumption ==
    /\ CriticalDays \in Nat /\ WarningDays \in Nat /\ CriticalDays <= WarningDays
    /\ PerformanceBound \in Nat \ {0} /\ MinScore \in Nat \ {0} /\ ChangeThreshold \in Nat \ {0}

MonitorTypes == {"ssl", "domain", "performance", "content", "seo", "links"}

Verdicts == {"passing", "warning", "failing", "error"}

Rank == [unknown |-> 0, passing |-> 1, warning |-> 2, error |-> 3, failing |-> 4]

WorstStatus(S) ==
    CHOOSE s \in S \cup {"passing"} : \A t \in S \cup {"passing"} : Rank[t] <= Rank[s]

Orders(bound) == (0 .. bound + 1) \cup {None}

-----------------------------------------------------------------------------
(* Certificates and registrations.                                         *)

Days == (-1 .. WarningDays + 1) \cup {None}

ExpiryStatus(days) ==
    IF days = None THEN "warning"
    ELSE IF days <= CriticalDays THEN "failing"
    ELSE IF days <= WarningDays THEN "warning" ELSE "passing"

SslOutcomes == [reached: {"nothing", "plain http", "tls"}, hostnameMatches: BOOLEAN,
                validates: BOOLEAN, days: Days]

SslVerdict(o) ==
    CASE o.reached = "nothing" -> "error"
      [] o.reached = "plain http" -> "failing"
      [] OTHER -> WorstStatus({ExpiryStatus(o.days)} \cup
                     IF o.hostnameMatches /\ o.validates THEN {} ELSE {"failing"})

\* A registry answers with a registration, dated or not, with "no such name", or not at all.
Answers == {[outcome |-> "found", dated |-> TRUE, days |-> d] : d \in Days}
           \cup [outcome: {"found", "not_found", "error"}, dated: {FALSE}, days: {None}]

\* The names that may be the registered one, and each provider's answer on each of them.
DomainOutcomes == UNION {[1 .. n -> [1 .. 2 -> Answers]] : n \in 0 .. 2}

Where(answers, P(_)) == {i \in DOMAIN answers : P(answers[i])}

Found(a) == a.outcome = "found"
NotFound(a) == a.outcome = "not_found"
Dated(a) == Found(a) /\ a.dated

\* The first registration found; otherwise one "no such name" outweighs any failure.
LookupRegistration(answers) ==
    LET found == Where(answers, Found)
        absent == Where(answers, NotFound)
    IN  IF found # {} THEN answers[Least(found)]
        ELSE answers[IF absent # {} THEN Least(absent) ELSE 1]

\* The first dated registration; a dateless one only if no name has a dated one.
DomainVerdict(o) ==
    LET results == [i \in DOMAIN o |-> LookupRegistration(o[i])]
        dated == Where(results, Dated)
    IN  IF dated # {} THEN ExpiryStatus(results[Least(dated)].days)
        ELSE IF Where(results, Found) # {} THEN ExpiryStatus(None)
        ELSE IF results # <<>> /\ Where(results, NotFound) = DOMAIN results THEN "failing"
        ELSE "error"

-----------------------------------------------------------------------------
(* Pages.                                                                  *)

Over(x, bound) == x # None /\ x > bound
Under(x, bound) == x # None /\ x < bound

PerformanceOutcomes == [ok: BOOLEAN, score: Orders(PerformanceBound), lcp: Orders(PerformanceBound),
                        cls: Orders(PerformanceBound), ttfb: Orders(PerformanceBound)]

PerformanceVerdict(o) ==
    IF ~o.ok THEN "error"
    ELSE IF \/ Under(o.score, PerformanceBound)
            \/ Over(o.lcp, PerformanceBound) \/ Over(o.cls, PerformanceBound)
            \/ o.score = None /\ Over(o.ttfb, PerformanceBound)
         THEN "warning" ELSE "passing"

\* fetchPage failed, or the status was 400 or above, or there is a page.
Fetches == {"failed", "refused", "page"}

ContentOutcomes == [fetch: Fetches, identical: BOOLEAN, ratio: 0 .. ChangeThreshold + 1]

\* baseline: the latest stored result carries a hash to compare with.
ContentVerdict(o, baseline) ==
    IF o.fetch # "page" THEN "error"
    ELSE IF baseline /\ ~o.identical /\ o.ratio >= ChangeThreshold THEN "warning"
    ELSE "passing"

SeoOutcomes == [fetch: Fetches, indexable: BOOLEAN, score: 0 .. MinScore]

SeoVerdict(o) ==
    IF o.fetch # "page" THEN "error"
    ELSE IF ~o.indexable THEN "failing"
    ELSE IF o.score < MinScore THEN "warning" ELSE "passing"

LinksOutcomes == [pagesCrawled: 0 .. 1, brokenCount: 0 .. 1]

LinksVerdict(o) ==
    IF o.pagesCrawled = 0 THEN "error" ELSE IF o.brokenCount > 0 THEN "warning" ELSE "passing"

-----------------------------------------------------------------------------
SslVerdicts == {SslVerdict(o) : o \in SslOutcomes}
DomainVerdicts == {DomainVerdict(o) : o \in DomainOutcomes}
PerformanceVerdicts == {PerformanceVerdict(o) : o \in PerformanceOutcomes}
SeoVerdicts == {SeoVerdict(o) : o \in SeoOutcomes}
LinksVerdicts == {LinksVerdict(o) : o \in LinksOutcomes}
ContentVerdicts == [b \in BOOLEAN |-> {ContentVerdict(o, b) : o \in ContentOutcomes}]

\* What a run of each type can report, given whether there is a baseline.
RunVerdicts(type, baseline) ==
    CASE type = "ssl" -> SslVerdicts [] type = "domain" -> DomainVerdicts
      [] type = "performance" -> PerformanceVerdicts [] type = "seo" -> SeoVerdicts
      [] type = "links" -> LinksVerdicts [] OTHER -> ContentVerdicts[baseline]

-----------------------------------------------------------------------------
\* "A lookup that cannot answer is error, never passing", and an answer is never "error": a run
\* that heard of no registration reports none as healthy, and one that heard of a date
\* reports it whatever else failed.
DomainAnswersCount ==
    \A o \in DomainOutcomes :
        LET heard == {o[i][p] : i \in DOMAIN o, p \in 1 .. 2}
        IN  /\ DomainVerdict(o) = "passing" =>
                   \E a \in heard : a.dated /\ a.days # None /\ a.days > WarningDays
            /\ (\E a \in heard : Found(a)) => DomainVerdict(o) # "error"
            /\ (\A a \in heard : a.outcome = "error") => DomainVerdict(o) = "error"

\* "Getting it backwards would report a failing check as passing": a certificate no browser
\* accepts is failing however long it is valid.
CertificateDefectsWin ==
    \A o \in SslOutcomes :
        o.reached = "tls" /\ (~o.hostnameMatches \/ ~o.validates) => SslVerdict(o) = "failing"
=============================================================================
