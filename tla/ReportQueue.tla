---------------------------- MODULE ReportQueue -----------------------------
(***************************************************************************)
(* Reports and their schedules.  A report is requested by a person or by   *)
(* the run of a schedule, is built under a lease with a bounded number of  *)
(* tries, and ends ready or failed.  A schedule, when its time has come,   *)
(* is claimed under a lease of its own; its run creates a report, builds   *)
(* it on the spot, mails it to each recipient and sets the next time.  The *)
(* report a run creates is in the queue from the start, so that another    *)
(* process may build it too.                                               *)
(*                                                                         *)
(* Any process may stop and any database call may fail.  A build is meant  *)
(* to be shorter than its lease; nothing makes it so.                      *)
(***************************************************************************)
EXTENDS Shared

CONSTANTS
    Reports,          \* report documents
    Builders,         \* builds and runs that can be under way, in all processes
    Recipients,       \* recipients of the schedule
    ReportAttempts,   \* MAX_GENERATION_ATTEMPTS
    MaxOccurrences,   \* bound: times the schedule comes due
    MaxReportFaults   \* bound: crashes, database faults and overruns together

ASSUME ReportQueueAssumption ==
    /\ ReportAttempts \in Nat \ {0} /\ MaxOccurrences \in Nat /\ MaxReportFaults \in Nat
    /\ IsFiniteSet(Builders)

VARIABLES
    report,         \* reports
    schedule,       \* the report_schedules document
    builder,        \* builds and runs under way
    outlived,       \* history: reports built by somebody without a lease on them
    mails,          \* history: mails to each recipient, per occurrence
    cutOff,         \* history: faults that cut off a run, per occurrence
    reportFaults    \* history: faults so far

reportVars == <<report, schedule, builder, outlived, mails, cutOff, reportFaults>>

Occurrences == 1 .. MaxOccurrences
Leases == {"none", "held", "lapsed"}

Report == [status: {"none", "pending", "generating", "ready", "failed", "gone"},
           attempts: Nat, due: BOOLEAN, lease: Leases]

\* occurrence: how often it came due.
Schedule == [exists: BOOLEAN, enabled: BOOLEAN, due: BOOLEAN, lease: Leases,
             occurrence: 0 .. MaxOccurrences]

\* run: the occurrence a scheduled run is for, 0 for a build from the queue.
Builder == [pc: {"idle", "create", "build", "ready", "failed", "deliver", "finally"},
            report: Reports \cup {None}, attempt: Nat, run: 0 .. MaxOccurrences,
            left: SUBSET Recipients]

IdleBuilder == [pc |-> "idle", report |-> None, attempt |-> 0, run |-> 0, left |-> {}]

ReportInit ==
    /\ report = [r \in Reports |->
                    [status |-> "none", attempts |-> 0, due |-> FALSE, lease |-> "none"]]
    /\ schedule = [exists |-> TRUE, enabled |-> TRUE, due |-> FALSE, lease |-> "none",
                   occurrence |-> 0]
    /\ builder = [b \in Builders |-> IdleBuilder]
    /\ outlived = {}
    /\ mails = [o \in Occurrences |-> [x \in Recipients |-> 0]]
    /\ cutOff = [o \in Occurrences |-> 0]
    /\ reportFaults = 0

InQueue(r) == report[r].status \in {"pending", "generating"}

Written(r) == report[r].status \notin {"none", "gone"}

Scheduled(b) == builder[b].run > 0

BuilderGoes(b, pc) == builder' = [builder EXCEPT ![b].pc = pc]

\* A build is over: a run goes on, a build from the queue ends.
BuildEnds(b, pc) ==
    builder' = [builder EXCEPT ![b] = IF Scheduled(b) THEN [@ EXCEPT !.pc = pc] ELSE IdleBuilder]

ReportHistory == <<outlived, mails, cutOff, reportFaults>>

FaultAllowed == reportFaults < MaxReportFaults /\ reportFaults' = reportFaults + 1

\* A fault ends the run of b before its last write.
RunCutOff(b) ==
    cutOff' = IF Scheduled(b) THEN [cutOff EXCEPT ![builder[b].run] = @ + 1] ELSE cutOff

-----------------------------------------------------------------------------
(* Requests.                                                               *)

\* Due at once.
CreateReport(r) ==
    /\ report[r].status = "none"
    /\ report' = [report EXCEPT ![r].status = "pending", ![r].due = TRUE]

RequestReport(r) ==
    /\ CreateReport(r)
    /\ UNCHANGED <<schedule, builder, ReportHistory>>

DeleteReport(r) ==
    /\ Written(r)
    /\ report' = [report EXCEPT ![r].status = "gone"]
    /\ UNCHANGED <<schedule, builder, ReportHistory>>

\* A new timing moves the next run into the future.
RescheduleReport ==
    /\ schedule.exists
    /\ schedule' = [schedule EXCEPT !.due = FALSE]
    /\ UNCHANGED <<report, builder, ReportHistory>>

ToggleSchedule ==
    /\ schedule.exists
    /\ schedule' = [schedule EXCEPT !.enabled = ~@]
    /\ UNCHANGED <<report, builder, ReportHistory>>

DeleteSchedule ==
    /\ schedule.exists
    /\ schedule' = [schedule EXCEPT !.exists = FALSE]
    /\ UNCHANGED <<report, builder, ReportHistory>>

-----------------------------------------------------------------------------
(* The queue of reports.                                                   *)

\* A report abandoned while it was generating is claimed again.
ClaimableReport(r) == InQueue(r) /\ report[r].due /\ report[r].lease # "held"

ClaimPending(b, r) ==
    /\ builder[b].pc = "idle"
    /\ ClaimableReport(r)
    /\ report' = [report EXCEPT ![r].status = "generating", ![r].lease = "held",
                                ![r].attempts = @ + 1]
    /\ builder' = [builder EXCEPT ![b] =
           [IdleBuilder EXCEPT !.pc = "build", !.report = r, !.attempt = report[r].attempts + 1]]
    /\ UNCHANGED <<schedule, ReportHistory>>

\* The data is there, an error is thrown, or the organization is not there any more.
BuildReport(b) ==
    /\ builder[b].pc = "build"
    /\ \/ BuilderGoes(b, "ready")
       \/ BuilderGoes(b, "failed")
       \/ builder' = [builder EXCEPT ![b].pc = "failed", ![b].attempt = ReportAttempts]
    /\ UNCHANGED <<report, schedule, ReportHistory>>

\* By id, whatever its status is by now.
MarkReady(b) ==
    /\ builder[b].pc = "ready"
    /\ report' = IF Written(builder[b].report)
                 THEN [report EXCEPT ![builder[b].report] =
                          [@ EXCEPT !.status = "ready", !.due = FALSE, !.lease = "none"]]
                 ELSE report
    /\ BuildEnds(b, "deliver")
    /\ UNCHANGED <<schedule, ReportHistory>>

\* Mutant: one try too many.
ExhaustedLate(b) == builder[b].attempt > ReportAttempts
Exhausted(b) == builder[b].attempt >= ReportAttempts

MarkAttemptFailed(b) ==
    /\ builder[b].pc = "failed"
    /\ report' = IF Written(builder[b].report)
                 THEN [report EXCEPT ![builder[b].report] =
                          [@ EXCEPT !.status = IF Exhausted(b) THEN "failed" ELSE "pending",
                                    !.due = FALSE, !.lease = "none"]]
                 ELSE report
    /\ BuildEnds(b, "finally")
    /\ UNCHANGED <<schedule, ReportHistory>>

\* The database fails: marking a report ready then counts as a failed attempt, and a
\* failed attempt is not recorded.
MarkingFails(b) ==
    /\ FaultAllowed
    /\ \/ builder[b].pc = "ready" /\ BuilderGoes(b, "failed")
       \/ builder[b].pc = "failed" /\ BuildEnds(b, "finally")
    /\ UNCHANGED <<report, schedule, outlived, mails, cutOff>>

-----------------------------------------------------------------------------
(* The run of a schedule.                                                  *)

ScheduleDue == schedule.exists /\ schedule.enabled /\ schedule.due

ClaimableSchedule == ScheduleDue /\ schedule.lease # "held"

ClaimDueSchedule(b) ==
    /\ builder[b].pc = "idle"
    /\ ClaimableSchedule
    /\ schedule' = [schedule EXCEPT !.lease = "held"]
    /\ builder' = [builder EXCEPT ![b] =
           [IdleBuilder EXCEPT !.pc = "create", !.run = schedule.occurrence, !.left = Recipients]]
    /\ UNCHANGED <<report, ReportHistory>>

\* The report is built here as its first attempt, without a lease on it.
CreateScheduledReport(b, r) ==
    /\ builder[b].pc = "create"
    /\ CreateReport(r)
    /\ builder' = [builder EXCEPT ![b].pc = "build", ![b].report = r, ![b].attempt = 1]
    /\ outlived' = outlived \cup {r}
    /\ UNCHANGED <<schedule, mails, cutOff, reportFaults>>

CreationFails(b) ==
    /\ builder[b].pc = "create"
    /\ FaultAllowed
    /\ BuilderGoes(b, "finally")
    /\ UNCHANGED <<report, schedule, outlived, mails, cutOff>>

\* One mail at a time; an undelivered one does not stop the next.
MailReport(b, x) ==
    /\ builder[b].pc = "deliver" /\ x \in builder[b].left
    /\ builder' = [builder EXCEPT ![b].left = @ \ {x}]
    /\ mails' = [mails EXCEPT ![builder[b].run][x] = @ + 1]
    /\ UNCHANGED <<report, schedule, outlived, cutOff, reportFaults>>

\* All are mailed, or the branding or the rendering failed before the first.
DeliveryEnds(b) ==
    /\ builder[b].pc = "deliver" /\ builder[b].left \in {{}, Recipients}
    /\ BuilderGoes(b, "finally")
    /\ UNCHANGED <<report, schedule, ReportHistory>>

\* Mutant: the lease is let go and the schedule stays due.
Released == [schedule EXCEPT !.lease = "none"]

\* The next occurrence is in the future, computed from the timing the run was claimed with.
ReleasedForNext == [schedule EXCEPT !.lease = "none", !.due = FALSE]

CompleteScheduleRun(b) ==
    /\ builder[b].pc = "finally"
    /\ schedule' = ReleasedForNext
    /\ builder' = [builder EXCEPT ![b] = IdleBuilder]
    /\ UNCHANGED <<report, ReportHistory>>

ScheduleReleaseFails(b) ==
    /\ builder[b].pc = "finally"
    /\ FaultAllowed
    /\ RunCutOff(b)
    /\ builder' = [builder EXCEPT ![b] = IdleBuilder]
    /\ UNCHANGED <<report, schedule, outlived, mails>>

-----------------------------------------------------------------------------
(* Time and crashes.                                                       *)

ReportFallsDue(r) ==
    /\ InQueue(r) /\ ~report[r].due
    /\ report' = [report EXCEPT ![r].due = TRUE]
    /\ UNCHANGED <<schedule, builder, ReportHistory>>

ScheduleComesDue ==
    /\ ~schedule.due /\ schedule.occurrence < MaxOccurrences
    /\ schedule' = [schedule EXCEPT !.due = TRUE, !.occurrence = @ + 1]
    /\ UNCHANGED <<report, builder, ReportHistory>>

InHand(r) == \E b \in Builders : builder[b].report = r

ReportLeaseLapses(r) ==
    /\ report[r].lease = "held"
    /\ report' = [report EXCEPT ![r].lease = "lapsed"]
    /\ IF InHand(r) THEN FaultAllowed /\ outlived' = outlived \cup {r}
                    ELSE UNCHANGED <<outlived, reportFaults>>
    /\ UNCHANGED <<schedule, builder, mails, cutOff>>

Runs == {b \in Builders : Scheduled(b)}

ScheduleLeaseLapses ==
    /\ schedule.lease = "held"
    /\ schedule' = [schedule EXCEPT !.lease = "lapsed"]
    /\ IF Runs # {}
       THEN /\ FaultAllowed
            /\ cutOff' = [o \in Occurrences |->
                   cutOff[o] + Cardinality({b \in Runs : builder[b].run = o})]
       ELSE UNCHANGED <<cutOff, reportFaults>>
    /\ UNCHANGED <<report, builder, outlived, mails>>

BuilderStops(b) ==
    /\ builder[b].pc # "idle"
    /\ FaultAllowed
    /\ RunCutOff(b)
    /\ builder' = [builder EXCEPT ![b] = IdleBuilder]
    /\ UNCHANGED <<report, schedule, outlived, mails>>

-----------------------------------------------------------------------------
BuilderWorks(b) ==
    \/ BuildReport(b) \/ MarkReady(b) \/ MarkAttemptFailed(b)
    \/ \E r \in Reports : CreateScheduledReport(b, r)
    \/ \E x \in Recipients : MailReport(b, x)
    \/ DeliveryEnds(b) \/ CompleteScheduleRun(b)

BuilderFails(b) ==
    MarkingFails(b) \/ CreationFails(b) \/ ScheduleReleaseFails(b) \/ BuilderStops(b)

ScheduleEdited == RescheduleReport \/ ToggleSchedule \/ DeleteSchedule

ReportNext ==
    \/ \E r \in Reports : RequestReport(r) \/ DeleteReport(r) \/ ReportFallsDue(r)
                          \/ ReportLeaseLapses(r)
    \/ \E b \in Builders, r \in Reports : ClaimPending(b, r)
    \/ \E b \in Builders : ClaimDueSchedule(b) \/ BuilderWorks(b) \/ BuilderFails(b)
    \/ ScheduleEdited \/ ScheduleComesDue \/ ScheduleLeaseLapses

ReportSpec == ReportInit /\ [][ReportNext]_reportVars

-----------------------------------------------------------------------------
ReportTypeOK ==
    /\ report \in [Reports -> Report]
    /\ schedule \in Schedule
    /\ builder \in [Builders -> Builder]
    /\ outlived \subseteq Reports
    /\ mails \in [Occurrences -> [Recipients -> Nat]]
    /\ cutOff \in [Occurrences -> Nat]
    /\ reportFaults \in 0 .. MaxReportFaults

\* "Duplicate claims would mail a client twice": for one occurrence of a schedule nobody is
\* mailed twice, unless a run for it was cut off or outlived its lease, and then at most
\* once more for each time.
ReportMailedOnce ==
    \A o \in Occurrences, x \in Recipients : mails[o][x] <= 1 + cutOff[o]

\* The queue of reports as leased work: those that were requested, as long as no build
\* outlives its lease.
QueuedReport(r) == InQueue(r) /\ r \notin outlived

Builds == INSTANCE LeasedWork WITH
    Items <- Reports,
    MaxTries <- ReportAttempts + MaxReportFaults,
    work <- [r \in Reports |->
                IF ~QueuedReport(r) THEN "none"
                ELSE IF report[r].lease = "held" THEN "held" ELSE "waiting"],
    tries <- [r \in Reports |-> IF QueuedReport(r) THEN report[r].attempts ELSE 0]
=============================================================================
