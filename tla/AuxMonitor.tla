----------------------------- MODULE AuxMonitor -----------------------------
(***************************************************************************)
(* One auxiliary monitor of a website: its document, which is the queue    *)
(* entry of its runs, the incidents of its category, and the jobs that run *)
(* it.  A bad verdict opens the incident, a good one closes it, and a run  *)
(* that learned nothing leaves everything alone.                           *)
(*                                                                         *)
(* People switch the monitor, ask for a run, pause the website, close an   *)
(* incident by hand, delete the website.  A process may stop, a database   *)
(* call may fail, and a run may outlive its lease.                         *)
(***************************************************************************)
EXTENDS MonitorVerdicts

CONSTANTS
    MonitorIncidents,       \* incidents of the monitor's category
    MonitorJobs,            \* runs that can be under way, in all processes
    ErrorStatusThreshold,   \* ERROR_STATUS_THRESHOLD
    MaxMonitorFaults        \* bound: crashes, database faults and overruns together

ASSUME AuxMonitorAssumption ==
    /\ ErrorStatusThreshold \in Nat \ {0} /\ MaxMonitorFaults \in Nat
    /\ None \notin MonitorIncidents

VARIABLES
    monitor,          \* the website_monitors document
    site,             \* the website: running, paused, gone, or gone with its incidents
    lastResult,       \* status of the latest monitor_results document
    problem,          \* incidents
    runner,           \* runs under way
    runWanted,        \* history: a run was asked for while none was under way
    outran,           \* history: a run outlived its lease
    adrift,           \* history: incidents a fault cut off from the monitor
    muted,            \* history: incidents a fault cut off from an announcement
    monitorFaults     \* history: faults so far

monitorVars ==
    <<monitor, site, lastResult, problem, runner, runWanted, outran, adrift, muted,
      monitorFaults>>

Shown == Verdicts \cup {"unknown"}

Monitor == [exists: BOOLEAN, type: MonitorTypes, enabled: BOOLEAN, due: BOOLEAN,
            lease: {"none", "held", "lapsed"}, current: MonitorIncidents \cup {None},
            consecutiveErrors: 0 .. ErrorStatusThreshold, status: Shown]

\* problemTold, recoveryTold: downNotifiedAt and recoveryNotifiedAt are set.
Problem == [status: {"none", "open", "resolved", "gone"}, severity: {"none", "warning", "critical"},
            byHand: BOOLEAN, problemTold: BOOLEAN, recoveryTold: BOOLEAN]

Runner == [pc: {"idle", "claimed", "run", "record", "apply", "create", "adopt", "save",
                "notify", "finally"},
           current: MonitorIncidents \cup {None}, consecutiveErrors: 0 .. ErrorStatusThreshold,
           verdict: Shown, open: MonitorIncidents \cup {None},
           opened: MonitorIncidents \cup {None}, resolved: MonitorIncidents \cup {None}]

IdleRunner == [pc |-> "idle", current |-> None, consecutiveErrors |-> 0, verdict |-> "unknown",
               open |-> None, opened |-> None, resolved |-> None]

MonitorInit ==
    /\ \E t \in MonitorTypes :
           monitor = [exists |-> TRUE, type |-> t, enabled |-> TRUE, due |-> TRUE, lease |-> "none",
                      current |-> None, consecutiveErrors |-> 0, status |-> "unknown"]
    /\ site = "running"
    /\ lastResult = "unknown"
    /\ problem = [c \in MonitorIncidents |->
                     [status |-> "none", severity |-> "none", byHand |-> FALSE,
                      problemTold |-> FALSE, recoveryTold |-> FALSE]]
    /\ runner = [j \in MonitorJobs |-> IdleRunner]
    /\ runWanted = FALSE
    /\ outran = FALSE
    /\ adrift = {}
    /\ muted = {}
    /\ monitorFaults = 0

Open(c) == problem[c].status = "open"

RunnerGoes(j, pc) == runner' = [runner EXCEPT ![j].pc = pc]

MonitorHistory == <<runWanted, outran, adrift, muted, monitorFaults>>

Running == {j \in MonitorJobs : runner[j].pc # "idle"}

MonitorFault == monitorFaults < MaxMonitorFaults /\ monitorFaults' = monitorFaults + 1

-----------------------------------------------------------------------------
(* Requests.                                                               *)

\* Enabling makes it due; disabling leaves the schedule alone.
SwitchMonitor ==
    /\ monitor.exists
    /\ monitor' = [monitor EXCEPT !.enabled = ~@, !.due = @ \/ ~monitor.enabled]
    /\ UNCHANGED <<site, lastResult, problem, runner, MonitorHistory>>

RunNow ==
    /\ monitor.exists /\ monitor.enabled
    /\ monitor' = [monitor EXCEPT !.due = TRUE]
    /\ runWanted' = (runWanted \/ Running = {})
    /\ UNCHANGED <<site, lastResult, problem, runner, outran, adrift, muted, monitorFaults>>

Gone == site \in {"gone", "emptied"}

PauseSite ==
    /\ ~Gone
    /\ site' = IF site = "paused" THEN "running" ELSE "paused"
    /\ UNCHANGED <<monitor, lastResult, problem, runner, MonitorHistory>>

CloseByHand(c) ==
    /\ Open(c)
    /\ problem' = [problem EXCEPT ![c].status = "resolved", ![c].byHand = TRUE]
    /\ UNCHANGED <<monitor, site, lastResult, runner, MonitorHistory>>

\* The website first, then its incidents, then its monitors.
DeleteSite ==
    /\ ~Gone
    /\ site' = "gone"
    /\ UNCHANGED <<monitor, lastResult, problem, runner, MonitorHistory>>

DeleteProblems ==
    /\ site = "gone"
    /\ site' = "emptied"
    /\ problem' = [c \in MonitorIncidents |->
           IF problem[c].status = "none" THEN problem[c] ELSE [problem[c] EXCEPT !.status = "gone"]]
    /\ UNCHANGED <<monitor, lastResult, runner, MonitorHistory>>

DeleteMonitor ==
    /\ site = "emptied" /\ monitor.exists
    /\ monitor' = [monitor EXCEPT !.exists = FALSE]
    /\ UNCHANGED <<site, lastResult, problem, runner, MonitorHistory>>

-----------------------------------------------------------------------------
(* The run.                                                                *)

Runnable == monitor.exists /\ monitor.enabled /\ monitor.due /\ monitor.lease # "held"

\* What the job knows of the monitor is what it was when it was claimed.
ClaimMonitor(j) ==
    /\ runner[j].pc = "idle"
    /\ Runnable
    /\ monitor' = [monitor EXCEPT !.lease = "held"]
    /\ runner' = [runner EXCEPT ![j] =
           [IdleRunner EXCEPT !.pc = "claimed", !.current = monitor.current,
                              !.consecutiveErrors = monitor.consecutiveErrors]]
    /\ runWanted' = FALSE
    /\ UNCHANGED <<site, lastResult, problem, outran, adrift, muted, monitorFaults>>

\* The website is joined in: without one the monitor is dropped with its lease, and a
\* paused one is not measured.
JoinWebsite(j) ==
    /\ runner[j].pc = "claimed"
    /\ CASE Gone -> runner' = [runner EXCEPT ![j] = IdleRunner]
         [] site = "paused" -> RunnerGoes(j, "finally")
         [] OTHER -> RunnerGoes(j, "run")
    /\ UNCHANGED <<monitor, site, lastResult, problem, MonitorHistory>>

RunMonitor(j) ==
    /\ runner[j].pc = "run"
    /\ \E v \in RunVerdicts(monitor.type, lastResult \in {"passing", "warning"}) :
           runner' = [runner EXCEPT ![j].pc = "record", ![j].verdict = v]
    /\ UNCHANGED <<monitor, site, lastResult, problem, MonitorHistory>>

RecordResult(j) ==
    /\ runner[j].pc = "record"
    /\ lastResult' = runner[j].verdict
    /\ RunnerGoes(j, "apply")
    /\ UNCHANGED <<monitor, site, problem, MonitorHistory>>

SeverityFor(verdict) == IF verdict = "failing" THEN "critical" ELSE "warning"

\* Mutant: a run that learned nothing drops the incident.
NothingKept(c) == None

\* A run that learned nothing keeps the incident it was claimed with.
KeptOnError(c) == c

\* applyMonitorIncident, up to the incident it may open.
ApplyVerdict(j) ==
    LET r == runner[j]
        c == r.current
    IN  /\ r.pc = "apply"
        /\ CASE r.verdict = "error" ->
                    /\ runner' = [runner EXCEPT ![j].pc = "save", ![j].open = KeptOnError(c)]
                    /\ UNCHANGED problem
             [] r.verdict = "passing" ->
                    IF c # None /\ Open(c)
                    THEN /\ problem' = [problem EXCEPT ![c].status = "resolved"]
                         /\ runner' = [runner EXCEPT ![j].pc = "save", ![j].resolved = c]
                    ELSE RunnerGoes(j, "save") /\ UNCHANGED problem
             [] OTHER ->
                    IF c # None /\ Open(c)
                    THEN /\ problem' = [problem EXCEPT ![c].severity = SeverityFor(r.verdict)]
                         /\ runner' = [runner EXCEPT ![j].pc = "save", ![j].open = c]
                    ELSE RunnerGoes(j, "create") /\ UNCHANGED problem
        /\ UNCHANGED <<monitor, site, lastResult, MonitorHistory>>

\* The unique index on the open incident of a category.
CreateProblem(j) ==
    /\ runner[j].pc = "create"
    /\ IF \E c \in MonitorIncidents : Open(c)
       THEN RunnerGoes(j, "adopt") /\ UNCHANGED problem
       ELSE \E c \in MonitorIncidents :
                /\ problem[c].status = "none"
                /\ problem' = [problem EXCEPT ![c].status = "open",
                                              ![c].severity = SeverityFor(runner[j].verdict)]
                /\ runner' = [runner EXCEPT ![j].pc = "save", ![j].open = c, ![j].opened = c]
    /\ UNCHANGED <<monitor, site, lastResult, MonitorHistory>>

\* The one that is open, which is not announced again; none if it was closed just now.
AdoptProblem(j) ==
    /\ runner[j].pc = "adopt"
    /\ runner' = [runner EXCEPT ![j].pc = "save",
           ![j].open = IF \E c \in MonitorIncidents : Open(c)
                       THEN CHOOSE c \in MonitorIncidents : Open(c) ELSE None]
    /\ UNCHANGED <<monitor, site, lastResult, problem, MonitorHistory>>

\* Past the threshold the count goes on, without making a difference.
ErrorsAfter(j) ==
    IF runner[j].verdict # "error" THEN 0
    ELSE IF runner[j].consecutiveErrors < ErrorStatusThreshold
    THEN runner[j].consecutiveErrors + 1 ELSE ErrorStatusThreshold

SaveMonitor(j) ==
    LET r == runner[j]
        hidden == r.verdict = "error" /\ ErrorsAfter(j) < ErrorStatusThreshold
    IN  /\ r.pc = "save"
        /\ monitor' = IF ~monitor.exists THEN monitor
                      ELSE [monitor EXCEPT !.current = r.open, !.consecutiveErrors = ErrorsAfter(j),
                                           !.status = IF hidden THEN @ ELSE r.verdict]
        /\ adrift' = IF monitor.exists /\ r.verdict # "error" THEN adrift \ {r.open} ELSE adrift
        /\ RunnerGoes(j, IF r.opened # None \/ r.resolved # None THEN "notify" ELSE "finally")
        /\ UNCHANGED <<site, lastResult, problem, runWanted, outran, muted, monitorFaults>>

\* claimDispatch, whatever becomes of the mails.
NotifyTransition(j) ==
    LET r == runner[j]
    IN  /\ r.pc = "notify"
        /\ problem' = IF r.opened # None
                      THEN [problem EXCEPT ![r.opened].problemTold = TRUE]
                      ELSE [problem EXCEPT ![r.resolved].recoveryTold = TRUE]
        /\ RunnerGoes(j, "finally")
        /\ UNCHANGED <<monitor, site, lastResult, MonitorHistory>>

\* By id, and due an interval from now whatever was asked meanwhile.
ReleaseMonitor(j) ==
    /\ runner[j].pc = "finally"
    /\ monitor' = IF monitor.exists THEN [monitor EXCEPT !.lease = "none", !.due = FALSE] ELSE monitor
    /\ runner' = [runner EXCEPT ![j] = IdleRunner]
    /\ UNCHANGED <<site, lastResult, problem, MonitorHistory>>

-----------------------------------------------------------------------------
(* Time and faults.                                                        *)

MonitorFallsDue ==
    /\ monitor.exists /\ ~monitor.due
    /\ monitor' = [monitor EXCEPT !.due = TRUE]
    /\ UNCHANGED <<site, lastResult, problem, runner, MonitorHistory>>

\* A run outlives its lease only when it takes longer than planned.
MonitorLeaseLapses ==
    /\ monitor.exists /\ monitor.lease = "held"
    /\ monitor' = [monitor EXCEPT !.lease = "lapsed"]
    /\ IF Running # {} THEN MonitorFault /\ outran' = TRUE ELSE UNCHANGED <<outran, monitorFaults>>
    /\ UNCHANGED <<site, lastResult, problem, runner, runWanted, adrift, muted>>

Transition(j) == {runner[j].opened, runner[j].resolved} \ {None}

\* A fault hits run j before it has saved, or announced, what it did.
CutShort(j) ==
    LET pc == runner[j].pc
    IN  /\ adrift' = IF pc = "save" THEN adrift \cup Transition(j) \cup ({runner[j].open} \ {None})
                     ELSE adrift
        /\ muted' = IF pc \in {"save", "notify"} THEN muted \cup Transition(j) ELSE muted

\* A database call throws: the run skips to its end.
RunThrows(j) ==
    /\ runner[j].pc \in {"run", "record", "apply", "create", "adopt", "save", "notify"}
    /\ MonitorFault
    /\ RunnerGoes(j, "finally")
    /\ CutShort(j)
    /\ UNCHANGED <<monitor, site, lastResult, problem, runWanted, outran>>

\* The process stops, or the release itself fails.
RunnerStops(j) ==
    /\ runner[j].pc # "idle"
    /\ MonitorFault
    /\ runner' = [runner EXCEPT ![j] = IdleRunner]
    /\ CutShort(j)
    /\ UNCHANGED <<monitor, site, lastResult, problem, runWanted, outran>>

-----------------------------------------------------------------------------
RunnerWorks(j) ==
    \/ JoinWebsite(j) \/ RunMonitor(j) \/ RecordResult(j) \/ ApplyVerdict(j) \/ CreateProblem(j)
    \/ AdoptProblem(j) \/ SaveMonitor(j) \/ NotifyTransition(j) \/ ReleaseMonitor(j)

MonitorNext ==
    \/ \E j \in MonitorJobs : ClaimMonitor(j) \/ RunnerWorks(j) \/ RunThrows(j) \/ RunnerStops(j)
    \/ \E c \in MonitorIncidents : CloseByHand(c)
    \/ SwitchMonitor \/ RunNow \/ PauseSite \/ DeleteSite \/ DeleteProblems
    \/ DeleteMonitor \/ MonitorFallsDue \/ MonitorLeaseLapses

MonitorSpec == MonitorInit /\ [][MonitorNext]_monitorVars

-----------------------------------------------------------------------------
MonitorTypeOK ==
    /\ monitor \in Monitor
    /\ site \in {"running", "paused", "gone", "emptied"}
    /\ lastResult \in Shown
    /\ problem \in [MonitorIncidents -> Problem]
    /\ runner \in [MonitorJobs -> Runner]
    /\ runWanted \in BOOLEAN /\ outran \in BOOLEAN
    /\ adrift \subseteq MonitorIncidents /\ muted \subseteq MonitorIncidents
    /\ monitorFaults \in 0 .. MaxMonitorFaults

-----------------------------------------------------------------------------
Saving(j) == runner[j].pc = "save"

Kept(c) == monitor.current = c \/ \E j \in MonitorJobs : Saving(j) /\ runner[j].open = c

\* An incident of the monitor that is open is the one the monitor refers to, or a run is about
\* to save, so that a later run can close it.
OpenIsKept == \A c \in MonitorIncidents : Open(c) => Kept(c) \/ c \in adrift

\* What the dashboard shows: no open incident behind "passing", and behind a problem an incident
\* of that severity, unless a person has closed it; "error" only after so many in a row.
ShownIsTrue ==
    \/ \E j \in MonitorJobs : Saving(j)
    \/ adrift # {}
    \/ /\ monitor.status = "passing" => \A c \in MonitorIncidents : ~Open(c)
       /\ monitor.status \in {"warning", "failing"} =>
              /\ monitor.current # None
              /\ \/ monitor.current \in muted
                 \/ /\ problem[monitor.current].severity = SeverityFor(monitor.status)
                    /\ Open(monitor.current) \/ problem[monitor.current].byHand
       /\ monitor.status = "error" => monitor.consecutiveErrors = ErrorStatusThreshold

\* Every incident a run opens or resolves is announced, and what a person closes is not.
TransitionsAreTold ==
    \A c \in MonitorIncidents \ muted :
        /\ Open(c) => problem[c].problemTold \/ \E j \in MonitorJobs : runner[j].opened = c
        /\ problem[c].status = "resolved" /\ ~problem[c].byHand =>
               problem[c].recoveryTold \/ \E j \in MonitorJobs : runner[j].resolved = c
        /\ problem[c].byHand => ~problem[c].recoveryTold

\* applyMonitorIncident, runMonitorJob: as long as no run outlives its lease, the monitor, its
\* incident and what is shown of both agree, whatever is closed by hand, fails or stops in
\* between; a run asked for while none is under way is made; and no announcement is lost
\* but to a fault.
MonitorsKeepTrack ==
    /\ monitor.exists /\ ~Gone /\ ~outran =>
           OpenIsKept /\ ShownIsTrue /\ (runWanted => monitor.due)
    /\ TransitionsAreTold
=============================================================================
