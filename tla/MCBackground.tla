---------------------------- MODULE MCBackground ----------------------------
(***************************************************************************)
(* The components that work in the background, side by side: each          *)
(* behaviour exercises one of them, or one part of it, and leaves the      *)
(* others alone.  They share no state.                                     *)
(***************************************************************************)
EXTENDS BackgroundWork

CONSTANTS i1, i2, p1, p2, p3, c1, c2, m1, m2, s1, s2, t1, t2

VARIABLE focus   \* the part that is exercised

MCIncidents == {i1, i2}
MCReports == {p1, p2, p3}
MCMonitorIncidents == {c1, c2}
MCMembers == {m1, m2}
MCSweeps == {s1, s2}
MCPosts == {t1, t2}
MCAllowance == [free |-> 0, business |-> 1, agency |-> 2]

Init ==
    /\ AnalysisInit /\ ReportInit /\ MailInit /\ MonitorInit /\ CheckInit /\ CrawlInit /\ RuntimeInit
    /\ focus \in {"analysis", "allowance", "reports", "schedule", "mail", "monitor", "check", "crawl",
                 "host", "sweeps"}
    /\ focus # "analysis" => aiPlan.now = "business"
    /\ focus = "analysis" => aiPlan.now = "agency"
    /\ focus # "mail" => mailer /\ member[m1] = member[m2]
    /\ member[m2].verified /\ member[m2].prefers = "on"
    /\ ~mailer => member[m1] = member[m2]
    /\ member[m1].verified => member[m1].prefers # "on" \/ focus # "mail" \/ ~mailer
    /\ focus # "monitor" => monitor.type = "ssl"
    /\ focus # "crawl" => disallowed = {} /\ checkExternal
    /\ disallowed = {} \/ (disallowed = {"a"} /\ checkExternal)
    /\ focus = "sweeps" => host = "api"
    /\ focus \notin {"host", "sweeps"} => host = "worker"

-----------------------------------------------------------------------------
(* What each focus leaves out.                                             *)

\* One incident that is asked for, without months and allowances that run out; faults, or a
\* change of the plan and a deletion.
OnlyAnalysis ==
    /\ asker' \in {None, i1} /\ analysis'[i2] = analysis[i2]
    /\ month' = 0 /\ aiPlan'.now # "business"
    /\ aiFaults' = 0 \/ (aiPlan'.changes = 0 /\ analysis'[i1].state # "gone")

\* Two incidents and a month that ends: no plan changes, nothing is deleted or asked for.
OnlyAllowance ==
    /\ asker' = None /\ \A i \in Incidents : analysis'[i].state = "resolved"
    /\ aiPlan'.now = "business" /\ aiFaults' = 0
    /\ aiPlan.cached # None => aiPlan'.cached # None

\* Requested reports: the schedule is not due.
OnlyReports ==
    /\ ~schedule'.due /\ schedule'.enabled /\ schedule'.exists
    /\ report'[p3].status = "none"

\* Scheduled runs: their reports are built by them alone, and keep to the order of ids; faults,
\* or a schedule that is switched off or deleted.
OnlySchedule ==
    /\ schedule'.exists \/ (schedule'.occurrence = 1 /\ reportFaults' = 0)
    /\ schedule'.enabled \/ reportFaults' = 0
    /\ report'[p3].status # "none" => reportFaults' > 0
    /\ reportFaults' = 0 \/ \A r \in Reports : report'[r].status # "gone"
    /\ \A b \in Builders : builder'[b].pc # "idle" => builder'[b].run > 0
    /\ \A r \in Reports :
           /\ report'[r].status # "none" => r \in outlived'
           /\ report'[r].lease = "none" /\ report'[r].status # "gone"
           /\ report'[r].due # report[r].due => builder' # builder
    /\ report'[p2].status # "none" => report'[p1].status # "none"
    /\ report'[p3].status # "none" => report'[p2].status # "none"

\* Every answer of the provider for one member, heard at once for the other.
OnlyMail ==
    /\ member'[m2] = member[m2] /\ sends'[m2] \in {0, accepted'[m2]}
    /\ unheard'[m2] = 0
    /\ member' # member => mailFaults = 0

MonitorRuns == {j \in MonitorJobs : runner'[j].pc # "idle"}

\* Certificates with everything but a deletion and two runs at once, content without faults,
\* registrations with two runs at once, and the other types undisturbed.
OnlyMonitor ==
    /\ problem'[c2].status # "none" => problem'[c1].status # "none"
    /\ CASE monitor.type = "ssl" ->
                /\ site' = "running" /\ monitor'.enabled /\ MonitorRuns # MonitorJobs
                /\ runWanted' => monitorFaults' = 0
                /\ ~problem'[c2].byHand
                /\ problem'[c2].status # "none" => ~runWanted'
         [] monitor.type = "content" -> MonitorRuns # MonitorJobs /\ monitorFaults' = 0
         [] monitor.type = "domain" ->
                /\ site' = "running" /\ monitor'.enabled /\ ~runWanted'
                /\ MonitorRuns = MonitorJobs => outran'
                /\ monitorFaults' > 0 => outran'
                /\ Running = {} /\ MonitorRuns # {} => ~outran'
                /\ problem'[c2].status = "none" /\ ~problem'[c1].byHand
                /\ \A j \in MonitorJobs : runner'[j].verdict \notin {"error", "failing"}
         [] OTHER ->
                /\ MonitorRuns # MonitorJobs /\ site' = "running" /\ monitorFaults' = 0
                /\ monitor'.enabled /\ ~runWanted'

\* One sweep, with the shutdown and every timer but that of the analyses.
OnlyHost == sweep'[s2].pc = "idle" /\ ticks'["analysis"]["timer"].phase = "off"

\* Two sweeps, which only the timer of the channels disturbs.
OnlySweeps ==
    /\ shutdown'.done = None /\ post'[t2] = "none"
    /\ \A l \in Loops \ {"channels"} : ticks'[l]["timer"].phase = "off"

NotAnalysis == UNCHANGED <<reportVars, mailVars, monitorVars, checkVars, crawlVars, runtimeVars, focus>>
NotReports == UNCHANGED <<analysisVars, mailVars, monitorVars, checkVars, crawlVars, runtimeVars, focus>>
NotMail == UNCHANGED <<analysisVars, reportVars, monitorVars, checkVars, crawlVars, runtimeVars, focus>>
NotMonitor == UNCHANGED <<analysisVars, reportVars, mailVars, checkVars, crawlVars, runtimeVars, focus>>
NotCheck == UNCHANGED <<analysisVars, reportVars, mailVars, monitorVars, crawlVars, runtimeVars, focus>>
NotCrawl == UNCHANGED <<analysisVars, reportVars, mailVars, monitorVars, checkVars, runtimeVars, focus>>
NotRuntime == UNCHANGED <<analysisVars, reportVars, mailVars, monitorVars, checkVars, crawlVars, focus>>

Next ==
    \/ focus = "analysis" /\ AnalysisNext /\ OnlyAnalysis /\ NotAnalysis
    \/ focus = "allowance" /\ AnalysisNext /\ OnlyAllowance /\ NotAnalysis
    \/ focus = "reports" /\ ReportNext /\ OnlyReports /\ NotReports
    \/ focus = "schedule" /\ ReportNext /\ OnlySchedule /\ NotReports
    \/ focus = "mail" /\ MailNext /\ OnlyMail /\ NotMail
    \/ focus = "monitor" /\ MonitorNext /\ OnlyMonitor /\ NotMonitor
    \/ focus = "check" /\ CheckNext /\ NotCheck
    \/ focus = "crawl" /\ CrawlNext /\ NotCrawl
    \/ focus = "host" /\ RuntimeNext /\ OnlyHost /\ NotRuntime
    \/ focus = "sweeps" /\ RuntimeNext /\ OnlySweeps /\ NotRuntime

vars == <<analysisVars, reportVars, mailVars, monitorVars, checkVars, crawlVars, runtimeVars, focus>>

-----------------------------------------------------------------------------
(* The fairness of the two queues, for the parts that exercise them: loops *)
(* go on polling, jobs go on to their next step, time passes.              *)

AnalysisStep(A) ==
    \/ focus = "analysis" /\ A /\ OnlyAnalysis /\ NotAnalysis
    \/ focus = "allowance" /\ A /\ OnlyAllowance /\ NotAnalysis

ReportStep(A) == focus = "reports" /\ A /\ OnlyReports /\ NotReports

AnalysesGoOn ==
    /\ WF_analysisVars(AnalysisStep(\E w \in Analysts, i \in Incidents : ClaimAnalysis(w, i)))
    /\ \A w \in Analysts : WF_analysisVars(AnalysisStep(AnalystWorks(w)))
    /\ \A i \in Incidents : WF_analysisVars(AnalysisStep(AnalysisFallsDue(i)))
    /\ \A i \in Incidents : WF_analysisVars(AnalysisStep(AnalysisLeaseLapses(i)))

ReportsGoOn ==
    /\ WF_reportVars(ReportStep(\E b \in Builders, r \in Reports : ClaimPending(b, r)))
    /\ \A b \in Builders : WF_reportVars(ReportStep(BuilderWorks(b)))
    /\ \A r \in Reports : WF_reportVars(ReportStep(ReportFallsDue(r)))
    /\ \A r \in Reports : WF_reportVars(ReportStep(ReportLeaseLapses(r)))

Spec == Init /\ [][Next]_vars /\ AnalysesGoOn /\ ReportsGoOn
=============================================================================
