-------------------------- MODULE UptimeMonitoring --------------------------
(***************************************************************************)
(* The uptime pipeline.  Worker processes claim due websites under an      *)
(* expiring lease, check them, open and resolve incidents, save the        *)
(* website, announce the transition and release the lease; every database  *)
(* call is a step of its own, so claims, crashes, expiring leases and the  *)
(* API's own writes interleave between any two of them.                    *)
(*                                                                         *)
(* Time is abstracted to what the queries compare: "due" says nextCheckAt  *)
(* has passed, and a lease is absent, in the future or expired.            *)
(***************************************************************************)
EXTENDS IncidentRules, Shared

CONSTANTS
    Websites,         \* website documents
    Incidents,        \* incident ids still to be handed out or in use
    Jobs,             \* slots that can run runMonitoringJob, in any process
    Outcomes,         \* the check outcomes that occur
    DetectionReads,   \* what PlanLookup may answer for anomaly_detection
    AnalysesEnabled,  \* whether a model is configured
    LeaseOutlivesJob, \* whether a lease can only expire under a dead job
    Faults,           \* the faults that occur, of {"crash", "error"}
    Operations        \* the API calls that arrive, of ApiOperations

ApiOperations == {"pause", "resume", "url", "resolve", "delete"}

ASSUME ConstantsAssumption ==
    /\ None \notin Websites \cup Incidents \cup {"availability", "anomaly"}
    /\ Outcomes \subseteq CheckOutcomes
    /\ DetectionReads \subseteq BOOLEAN
    /\ AnalysesEnabled \in BOOLEAN
    /\ LeaseOutlivesJob \in BOOLEAN
    /\ Faults \subseteq {"crash", "error"}
    /\ Operations \subseteq ApiOperations

VARIABLES
    website,    \* the websites collection
    incident,   \* the incidents collection
    job,        \* what each running job holds in memory
    edit,       \* URL updates between their read and their write
    purge,      \* deleted websites whose incidents are still to be deleted
    dispatched, \* how often each announcement reached dispatchToRecipients
    queued,     \* announcements with a channel_deliveries document
    analysing,  \* incidents whose analysis was queued
    run,        \* history: the run of saved check outcomes of each website, since
                \* it was last paused, resumed or pointed elsewhere
    interrupted \* history: websites with a job that did not run to its end

vars == <<website, incident, job, edit, purge, dispatched, queued, analysing,
          run, interrupted>>

api == <<edit, purge>>
ledger == <<dispatched, queued, analysing>>
history == <<run, interrupted>>

-----------------------------------------------------------------------------
(* The documents.                                                          *)

Categories == {"availability", "anomaly"}
Events == {"down", "recovered", "degraded", "restored"}
Announcements == Events \X Incidents

\* The events that end an incident claim recoveryNotifiedAt, the others
\* downNotifiedAt.
Endings == {"recovered", "restored"}

Website == [exists: BOOLEAN, enabled: BOOLEAN,
            status: {"unknown", "operational", "degraded", "down", "paused"},
            streaks: Streaks,
            outage: Incidents \cup {None}, slowdown: Incidents \cup {None},
            due: BOOLEAN, lease: {"none", "held", "expired"}]

NewWebsite == [exists |-> TRUE, enabled |-> TRUE, status |-> "unknown",
               streaks |-> ZeroStreaks, outage |-> None, slowdown |-> None,
               due |-> TRUE, lease |-> "none"]

Incident == [state: {"unused", "open", "resolved", "deleted"},
             site: Websites \cup {None}, category: Categories \cup {None},
             downNotified: BOOLEAN, recoveryNotified: BOOLEAN, byHand: BOOLEAN]

UnusedIncident == [state |-> "unused", site |-> None, category |-> None,
                   downNotified |-> FALSE, recoveryNotified |-> FALSE,
                   byHand |-> FALSE]

OpenIncident(w, c) == [UnusedIncident EXCEPT !.state = "open", !.site = w,
                                             !.category = c]

Stored(i) == incident[i].state \in {"open", "resolved"}

OpenFor(w, c) == {i \in Incidents : /\ incident[i].state = "open"
                                    /\ incident[i].site = w
                                    /\ incident[i].category = c}

-----------------------------------------------------------------------------
(* What a job holds.  "outage" and "slowdown" are the references of the    *)
(* claimed snapshot until the transition is applied, and the ones to store *)
(* afterwards; the four fields named for events are the incidents this job *)
(* itself opened or resolved.                                              *)

Tasks == [event: Events, incident: Incidents, part: {"claim", "send", "publish"}]

Job == [pc: {"idle", "check", "outage", "adoptOutage", "slowdown", "adoptSlowdown",
             "save", "announce", "release"},
        site: Websites \cup {None}, streaks: Streaks, outcome: Outcome,
        detecting: BOOLEAN,
        outage: Incidents \cup {None}, slowdown: Incidents \cup {None},
        down: Incidents \cup {None}, recovered: Incidents \cup {None},
        degraded: Incidents \cup {None}, restored: Incidents \cup {None},
        tasks: SUBSET Tasks]

IdleJob == [pc |-> "idle", site |-> None, streaks |-> ZeroStreaks,
            outcome |-> FailedCheck, detecting |-> FALSE,
            outage |-> None, slowdown |-> None,
            down |-> None, recovered |-> None, degraded |-> None, restored |-> None,
            tasks |-> {}]

Working(k, w) == job[k].pc # "idle" /\ job[k].site = w

Idle(w) == \A k \in Jobs : ~Working(k, w)

TypeOK ==
    /\ website \in [Websites -> Website]
    /\ incident \in [Incidents -> Incident]
    /\ job \in [Jobs -> Job]
    /\ edit \in [Websites -> {"none", "on", "off"}]
    /\ purge \subseteq Websites
    /\ dispatched \in [Announcements -> Nat]
    /\ queued \subseteq Announcements
    /\ analysing \subseteq Incidents
    /\ run \in [Websites -> [failed: Count, ok: Count]]
    /\ interrupted \subseteq Websites

Init ==
    /\ website = [w \in Websites |-> NewWebsite]
    /\ incident = [i \in Incidents |-> UnusedIncident]
    /\ job = [k \in Jobs |-> IdleJob]
    /\ edit = [w \in Websites |-> "none"]
    /\ purge = {}
    /\ dispatched = [a \in Announcements |-> 0]
    /\ queued = {}
    /\ analysing = {}
    /\ run = [w \in Websites |-> [failed |-> 0, ok |-> 0]]
    /\ interrupted = {}

-----------------------------------------------------------------------------
(* The queue.                                                              *)

\* Mutants of the claim: a lease is never taken over; a lease is ignored.
ClaimableOnlyUnleased(w) ==
    website[w].exists /\ website[w].enabled /\ website[w].due /\ website[w].lease = "none"

ClaimableDespiteLease(w) ==
    website[w].exists /\ website[w].enabled /\ website[w].due

\* Due and claimed are one findOneAndUpdate.  The job keeps the document as
\* it stood at the claim.
Claimable(w) ==
    /\ website[w].exists
    /\ website[w].enabled
    /\ website[w].due
    /\ website[w].lease # "held"

Claim(k, w) ==
    /\ job[k].pc = "idle"
    /\ Claimable(w)
    /\ website' = [website EXCEPT ![w].lease = "held"]
    /\ job' = [job EXCEPT ![k] =
                 [IdleJob EXCEPT !.pc = "check", !.site = w,
                                 !.streaks = website[w].streaks,
                                 !.outage = website[w].outage,
                                 !.slowdown = website[w].slowdown]]
    /\ UNCHANGED <<incident, api, ledger, history>>

\* The release names only the website: it clears whatever lease is there.
FreeLease(w) == [website EXCEPT ![w].lease = "none", ![w].due = FALSE]

Release(k) ==
    /\ job[k].pc = "release"
    /\ website' = IF website[job[k].site].exists
                  THEN FreeLease(job[k].site)
                  ELSE website
    /\ job' = [job EXCEPT ![k] = IdleJob]
    /\ UNCHANGED <<incident, api, ledger, history>>

\* The release itself fails; only the lease's expiry is left.
ReleaseFails(k) ==
    /\ "error" \in Faults
    /\ job[k].pc = "release"
    /\ job' = [job EXCEPT ![k] = IdleJob]
    /\ UNCHANGED <<website, incident, api, ledger, history>>

BecomeDue(w) ==
    /\ website[w].exists
    /\ ~website[w].due
    /\ website' = [website EXCEPT ![w].due = TRUE]
    /\ UNCHANGED <<incident, job, api, ledger, history>>

\* The lease duration exceeds every check; LeaseOutlivesJob says it also
\* exceeds the database and the mail provider the rest of the job waits for.
LeaseExpires(w) ==
    /\ website[w].lease = "held"
    /\ LeaseOutlivesJob => Idle(w)
    /\ website' = [website EXCEPT ![w].lease = "expired"]
    /\ UNCHANGED <<incident, job, api, ledger, history>>

-----------------------------------------------------------------------------
(* One check.                                                              *)

\* The request with its retries, the plan lookup, the check row and the
\* streaks derived from the claimed snapshot.  No row of the collections of
\* this model changes.
NextStreaks(streaks, o, detecting) ==
    LET s == DeriveCounters(streaks, o)
    IN  IF detecting THEN DeriveAnomalyCounters(s, o) ELSE StopCounting(s)

Check(k, o, detecting) ==
    /\ job[k].pc = "check"
    /\ o.anomalous => detecting
    /\ job' = [job EXCEPT ![k].pc = "outage", ![k].outcome = o,
                          ![k].detecting = detecting,
                          ![k].streaks = NextStreaks(@, o, detecting)]
    /\ UNCHANGED <<website, incident, api, ledger, history>>

OutageTransition(k) ==
    DecideIncidentTransition(job[k].streaks, job[k].outage # None)

\* Nothing to open or to resolve.  An ongoing outage only counts the failed
\* check, on a document that is still open, and keeps the reference.
KeepOutage(k) ==
    /\ job[k].pc = "outage"
    /\ OutageTransition(k) \in {"none", "ongoing"}
    /\ job' = [job EXCEPT ![k].pc = "slowdown"]
    /\ UNCHANGED <<website, incident, api, ledger, history>>

\* Mutant: no unique index.
NoUniqueIndex(w, c) == TRUE

\* The unique partial index on (websiteId, category, status open).
IndexAllows(w, c) == OpenFor(w, c) = {}

OpenOutage(k, i) ==
    /\ job[k].pc = "outage"
    /\ OutageTransition(k) = "open"
    /\ IndexAllows(job[k].site, "availability")
    /\ incident[i].state = "unused"
    /\ incident' = [incident EXCEPT ![i] = OpenIncident(job[k].site, "availability")]
    /\ job' = [job EXCEPT ![k].pc = "slowdown", ![k].outage = i, ![k].down = i]
    /\ UNCHANGED <<website, api, ledger, history>>

\* The insert loses to an incident that is already open ...
OutageAlreadyOpen(k) ==
    /\ job[k].pc = "outage"
    /\ OutageTransition(k) = "open"
    /\ ~IndexAllows(job[k].site, "availability")
    /\ job' = [job EXCEPT ![k].pc = "adoptOutage"]
    /\ UNCHANGED <<website, incident, api, ledger, history>>

\* Mutant: whatever incident of the website is open.
FoundOfAnyCategory(w, c) ==
    LET open == UNION {OpenFor(w, d) : d \in Categories}
    IN  IF open = {} THEN {None} ELSE open

\* ... which is read back in a second query and may be gone by then.
Found(w, c) == IF OpenFor(w, c) = {} THEN {None} ELSE OpenFor(w, c)

AdoptOutage(k, i) ==
    /\ job[k].pc = "adoptOutage"
    /\ i \in Found(job[k].site, "availability")
    /\ job' = [job EXCEPT ![k].pc = "slowdown", ![k].outage = i]
    /\ UNCHANGED <<website, incident, api, ledger, history>>

\* The update is conditioned on the incident being open; losing it still lets
\* go of the reference.
Close(i) == [incident EXCEPT ![i].state = "resolved"]

\* Mutant: the update by id alone, without the condition on the status.
ResolveUnconditionally(k) ==
    /\ job[k].pc = "outage"
    /\ OutageTransition(k) = "resolve"
    /\ incident' = Close(job[k].outage)
    /\ job' = [job EXCEPT ![k].pc = "slowdown", ![k].outage = None,
                          ![k].recovered = job[k].outage]
    /\ UNCHANGED <<website, api, ledger, history>>

ResolveOutage(k) ==
    LET i == job[k].outage
        won == incident[i].state = "open"
    IN  /\ job[k].pc = "outage"
        /\ OutageTransition(k) = "resolve"
        /\ incident' = IF won THEN Close(i) ELSE incident
        /\ job' = [job EXCEPT ![k].pc = "slowdown", ![k].outage = None,
                              ![k].recovered = IF won THEN i ELSE None]
        /\ UNCHANGED <<website, api, ledger, history>>

-----------------------------------------------------------------------------
(* The same check judged against the website's own response times.         *)

SlowdownTransition(k) ==
    DecideAnomalyTransition(job[k].streaks, job[k].slowdown # None,
                            job[k].outage # None)

\* An ongoing slowdown is kept by a check that is not anomalous; an anomalous
\* one counts itself on the open document, and lets go of a closed one.
KeepSlowdown(k) ==
    LET i == job[k].slowdown
        held == ~job[k].outcome.anomalous \/ incident[i].state = "open"
    IN  /\ job[k].pc = "slowdown"
        /\ job[k].detecting
        /\ \/ /\ SlowdownTransition(k) = "none"
              /\ job' = [job EXCEPT ![k].pc = "save"]
           \/ /\ SlowdownTransition(k) = "ongoing"
              /\ job' = [job EXCEPT ![k].pc = "save",
                                    ![k].slowdown = IF held THEN i ELSE None]
        /\ UNCHANGED <<website, incident, api, ledger, history>>

OpenSlowdown(k, i) ==
    /\ job[k].pc = "slowdown"
    /\ job[k].detecting
    /\ SlowdownTransition(k) = "open"
    /\ IndexAllows(job[k].site, "anomaly")
    /\ incident[i].state = "unused"
    /\ incident' = [incident EXCEPT ![i] = OpenIncident(job[k].site, "anomaly")]
    /\ job' = [job EXCEPT ![k].pc = "save", ![k].slowdown = i, ![k].degraded = i]
    /\ UNCHANGED <<website, api, ledger, history>>

SlowdownAlreadyOpen(k) ==
    /\ job[k].pc = "slowdown"
    /\ job[k].detecting
    /\ SlowdownTransition(k) = "open"
    /\ ~IndexAllows(job[k].site, "anomaly")
    /\ job' = [job EXCEPT ![k].pc = "adoptSlowdown"]
    /\ UNCHANGED <<website, incident, api, ledger, history>>

AdoptSlowdown(k, i) ==
    /\ job[k].pc = "adoptSlowdown"
    /\ i \in Found(job[k].site, "anomaly")
    /\ job' = [job EXCEPT ![k].pc = "save", ![k].slowdown = i]
    /\ UNCHANGED <<website, incident, api, ledger, history>>

\* Recovery, or a plan that no longer includes detection: the latter closes
\* the incident without announcing it.
CloseSlowdown(k) ==
    LET i == job[k].slowdown
        won == i # None /\ incident[i].state = "open"
    IN  /\ job[k].pc = "slowdown"
        /\ job[k].detecting => SlowdownTransition(k) = "resolve"
        /\ incident' = IF won THEN Close(i) ELSE incident
        /\ job' = [job EXCEPT ![k].pc = "save", ![k].slowdown = None,
                              ![k].restored = IF won /\ job[k].detecting
                                              THEN i ELSE None]
        /\ UNCHANGED <<website, api, ledger, history>>

-----------------------------------------------------------------------------
(* The website document, and the announcements.                            *)

Parts(e, i) == IF i = None THEN {}
               ELSE [event: {e}, incident: {i}, part: {"claim", "publish"}]

\* A slowdown is announced with the numbers of the check that confirmed it,
\* and not at all when that check has none.
TasksOf(j) ==
    Parts("down", j.down) \cup Parts("recovered", j.recovered)
      \cup (IF j.outcome.anomalous THEN Parts("degraded", j.degraded) ELSE {})
      \cup Parts("restored", j.restored)

\* Mutants: the save forgets the reference; the save also gives up the lease.
SavedWithoutReference(doc, j) ==
    [doc EXCEPT !.status = DeriveDisplayStatus(j.outcome, j.outage # None,
                                               j.slowdown # None),
                !.streaks = j.streaks]

SavedAndReleased(doc, j) ==
    [doc EXCEPT !.status = DeriveDisplayStatus(j.outcome, j.outage # None,
                                               j.slowdown # None),
                !.streaks = j.streaks, !.outage = j.outage,
                !.slowdown = j.slowdown, !.lease = "none"]

\* One unconditional update, by id, with values derived from the snapshot.
Saved(doc, j) ==
    [doc EXCEPT !.status = DeriveDisplayStatus(j.outcome, j.outage # None,
                                               j.slowdown # None),
                !.streaks = j.streaks,
                !.outage = j.outage,
                !.slowdown = j.slowdown]

\* What the rest of the job uses of its result.
Announcing(j) ==
    [IdleJob EXCEPT !.pc = "announce", !.site = j.site, !.recovered = j.recovered,
                    !.restored = j.restored, !.tasks = TasksOf(j)]

NextRun(r, o) == IF o.ok THEN [failed |-> 0, ok |-> Bump(r.ok)]
                         ELSE [failed |-> Bump(r.failed), ok |-> 0]

SaveWebsite(k) ==
    /\ job[k].pc = "save"
    /\ website' = IF website[job[k].site].exists
                  THEN [website EXCEPT ![job[k].site] = Saved(@, job[k])]
                  ELSE website
    /\ job' = [job EXCEPT ![k] = Announcing(job[k])]
    /\ run' = [run EXCEPT ![job[k].site] = NextRun(@, job[k].outcome)]
    /\ UNCHANGED <<incident, api, ledger, interrupted>>

OutageEvents == {"down", "recovered"}

\* Outage announcements are awaited before slowdown ones; e-mail and channels
\* of one announcement run side by side.
Ready(k, t) ==
    /\ job[k].pc = "announce"
    /\ t \in job[k].tasks
    /\ t.event \notin OutageEvents =>
           \A u \in job[k].tasks : u.event \notin OutageEvents

\* Mutant: one flag for both ends of an incident.
NotifiedEither(i, e) == incident[i].downNotified \/ incident[i].recoveryNotified

Notified(i, e) == IF e \in Endings THEN incident[i].recoveryNotified
                                   ELSE incident[i].downNotified

MarkNotified(i, e) ==
    IF e \in Endings
    THEN [incident EXCEPT ![i].recoveryNotified = TRUE]
    ELSE [incident EXCEPT ![i].downNotified = TRUE]

\* claimDispatch: only the caller whose conditional update modified the
\* incident goes on to send.
ClaimDispatch(k, t) ==
    LET claims == Stored(t.incident) /\ ~Notified(t.incident, t.event)
    IN  /\ Ready(k, t)
        /\ t.part = "claim"
        /\ incident' = IF claims THEN MarkNotified(t.incident, t.event) ELSE incident
        /\ job' = [job EXCEPT ![k].tasks =
                     (@ \ {t}) \cup
                        (IF claims THEN {[t EXCEPT !.part = "send"]} ELSE {})]
        /\ UNCHANGED <<website, api, ledger, history>>

\* The incident is read back, except for "degraded", whose facts the job holds.
Readable(t) ==
    CASE t.event = "down" -> Stored(t.incident)
      [] t.event \in Endings -> incident[t.incident].state = "resolved"
      [] OTHER -> TRUE

\* Mutant: a dispatch that is retried without claiming again.
SendMailAndKeep(k, t) ==
    /\ Ready(k, t)
    /\ t.part = "send"
    /\ dispatched' = [dispatched EXCEPT ![<<t.event, t.incident>>] = @ + 1]
    /\ UNCHANGED <<website, incident, job, api, queued, analysing, history>>

SendMail(k, t) ==
    /\ Ready(k, t)
    /\ t.part = "send"
    /\ dispatched' = IF Readable(t)
                     THEN [dispatched EXCEPT ![<<t.event, t.incident>>] = @ + 1]
                     ELSE dispatched
    /\ job' = [job EXCEPT ![k].tasks = @ \ {t}]
    /\ UNCHANGED <<website, incident, api, queued, analysing, history>>

\* The channel's delivery carries a dedupe key, so queuing again is a no-op.
Publish(k, t) ==
    /\ Ready(k, t)
    /\ t.part = "publish"
    /\ queued' = IF Stored(t.incident)
                 THEN queued \cup {<<t.event, t.incident>>}
                 ELSE queued
    /\ job' = [job EXCEPT ![k].tasks = @ \ {t}]
    /\ UNCHANGED <<website, incident, api, dispatched, analysing, history>>

\* A failed announcement is logged, and the others go on.
AnnouncementFails(k, t) ==
    /\ "error" \in Faults
    /\ Ready(k, t)
    /\ job' = [job EXCEPT ![k].tasks = @ \ {t}]
    /\ interrupted' = interrupted \cup {job[k].site}
    /\ UNCHANGED <<website, incident, api, ledger, run>>

\* Which of these incidents get an analysis: a filter on the plan, the
\* incident's duration and the absence of one, so any subset of the resolved.
QueueAnalyses(ended) ==
    IF AnalysesEnabled
    THEN \E chosen \in SUBSET {i \in ended : incident[i].state = "resolved"} :
             analysing' = analysing \cup chosen
    ELSE UNCHANGED analysing

\* All that the finally block still uses of the claimed website is its id.
Finally(k) == [job EXCEPT ![k] = [IdleJob EXCEPT !.pc = "release", !.site = job[k].site]]

FinishAnnouncing(k) ==
    /\ job[k].pc = "announce"
    /\ job[k].tasks = {}
    /\ QueueAnalyses({job[k].recovered, job[k].restored} \ {None})
    /\ job' = Finally(k)
    /\ UNCHANGED <<website, incident, api, dispatched, queued, history>>

-----------------------------------------------------------------------------
(* Faults.                                                                 *)

\* A call before the announcements throws: logged, and straight to finally.
PipelineFails(k) ==
    /\ "error" \in Faults
    /\ job[k].pc \notin {"idle", "announce", "release"}
    /\ job' = Finally(k)
    /\ interrupted' = interrupted \cup {job[k].site}
    /\ UNCHANGED <<website, incident, api, ledger, run>>

\* The process dies; only what is in the database survives.
Crash(k) ==
    /\ "crash" \in Faults
    /\ job[k].pc # "idle"
    /\ job' = [job EXCEPT ![k] = IdleJob]
    /\ interrupted' = interrupted \cup {job[k].site}
    /\ UNCHANGED <<website, incident, api, ledger, run>>

-----------------------------------------------------------------------------
(* The API.                                                                *)

\* History: what was counted before does not count any more, except to a job
\* that is under way.
StartedAnew(w) ==
    IF website[w].exists /\ Idle(w)
    THEN [run EXCEPT ![w] = [failed |-> 0, ok |-> 0]]
    ELSE run

\* Pausing and resuming write the same five fields.  Neither looks at the
\* lease or at the open incident.
SetEnabled(w, enabled) ==
    /\ (IF enabled THEN "resume" ELSE "pause") \in Operations
    /\ website[w].exists
    /\ website' = [website EXCEPT
                     ![w].enabled = enabled,
                     ![w].status = IF enabled THEN "unknown" ELSE "paused",
                     ![w].streaks = [@ EXCEPT !.failures = 0, !.successes = 0],
                     ![w].due = TRUE]
    /\ run' = StartedAnew(w)
    /\ UNCHANGED <<incident, job, api, ledger, interrupted>>

\* An update that points the website elsewhere reads the document first ...
ReadForUrlChange(w) ==
    /\ "url" \in Operations
    /\ website[w].exists
    /\ edit[w] = "none"
    /\ edit' = [edit EXCEPT ![w] = IF website[w].enabled THEN "on" ELSE "off"]
    /\ UNCHANGED <<website, incident, job, purge, ledger, history>>

\* ... and writes a status chosen from what it read.
WriteUrlChange(w) ==
    /\ edit[w] # "none"
    /\ edit' = [edit EXCEPT ![w] = "none"]
    /\ website' = IF website[w].exists
                  THEN [website EXCEPT
                          ![w].streaks = ZeroStreaks,
                          ![w].status = IF edit[w] = "on" THEN "unknown" ELSE "paused",
                          ![w].due = TRUE]
                  ELSE website
    /\ run' = StartedAnew(w)
    /\ UNCHANGED <<incident, job, purge, ledger, interrupted>>

\* A person closes an incident.  The website's reference is not touched.
ResolveManually(i) ==
    /\ "resolve" \in Operations
    /\ incident[i].state = "open"
    /\ incident' = [incident EXCEPT ![i].state = "resolved", ![i].byHand = TRUE]
    /\ IF AnalysesEnabled
       THEN \E chosen \in SUBSET {i} : analysing' = analysing \cup chosen
       ELSE UNCHANGED analysing
    /\ UNCHANGED <<website, job, api, dispatched, queued, history>>

\* The website goes first, its incidents in a second call.
DeleteWebsite(w) ==
    /\ "delete" \in Operations
    /\ website[w].exists
    /\ website' = [website EXCEPT ![w] = [NewWebsite EXCEPT !.exists = FALSE]]
    /\ purge' = purge \cup {w}
    /\ UNCHANGED <<incident, job, edit, ledger, history>>

DeleteIncidents(w) ==
    /\ w \in purge
    /\ purge' = purge \ {w}
    /\ incident' = [i \in Incidents |->
                      IF Stored(i) /\ incident[i].site = w
                      THEN [incident[i] EXCEPT !.state = "deleted"]
                      ELSE incident[i]]
    /\ UNCHANGED <<website, job, edit, ledger, history>>

-----------------------------------------------------------------------------
(* The specification.                                                      *)

\* What a live job does next when nothing fails.
JobStep(k) ==
    \/ \E o \in Outcomes, detecting \in DetectionReads : Check(k, o, detecting)
    \/ KeepOutage(k)
    \/ \E i \in Incidents : OpenOutage(k, i)
    \/ OutageAlreadyOpen(k)
    \/ \E i \in Incidents \cup {None} : AdoptOutage(k, i)
    \/ ResolveOutage(k)
    \/ KeepSlowdown(k)
    \/ \E i \in Incidents : OpenSlowdown(k, i)
    \/ SlowdownAlreadyOpen(k)
    \/ \E i \in Incidents \cup {None} : AdoptSlowdown(k, i)
    \/ CloseSlowdown(k)
    \/ SaveWebsite(k)
    \/ \E t \in job[k].tasks : ClaimDispatch(k, t) \/ SendMail(k, t) \/ Publish(k, t)
    \/ FinishAnnouncing(k)
    \/ Release(k)

JobFault(k) ==
    \/ PipelineFails(k)
    \/ \E t \in job[k].tasks : AnnouncementFails(k, t)
    \/ ReleaseFails(k)
    \/ Crash(k)

Api ==
    \/ \E w \in Websites :
          \/ \E enabled \in BOOLEAN : SetEnabled(w, enabled)
          \/ ReadForUrlChange(w)
          \/ WriteUrlChange(w)
          \/ DeleteWebsite(w)
          \/ DeleteIncidents(w)
    \/ \E i \in Incidents : ResolveManually(i)

Next ==
    \/ \E k \in Jobs :
          \/ \E w \in Websites : Claim(k, w)
          \/ JobStep(k)
          \/ JobFault(k)
    \/ \E w \in Websites : BecomeDue(w) \/ LeaseExpires(w)
    \/ Api

Spec == Init /\ [][Next]_vars

\* Live processes keep running their jobs, time passes, and the claim takes
\* the oldest due website first, so none is passed over for ever.
Fairness ==
    /\ \A k \in Jobs : WF_vars(JobStep(k))
    /\ \A w \in Websites : /\ WF_vars(BecomeDue(w))
                           /\ WF_vars(LeaseExpires(w))
                           /\ SF_vars(\E k \in Jobs : Claim(k, w))

FairSpec == Spec /\ Fairness

-----------------------------------------------------------------------------
(* Properties.                                                             *)

RefersTo(r, w, c) ==
    r # None => incident[r].state # "unused" /\ incident[r].site = w /\ incident[r].category = c

\* The references of a website, and of a job that works on it, are to incidents
\* of that website and of the right category, also when a job adopts an incident
\* it lost the insert to.
ReferencesFit ==
    /\ \A w \in Websites :
          RefersTo(website[w].outage, w, "availability") /\ RefersTo(website[w].slowdown, w, "anomaly")
    /\ \A k \in Jobs : job[k].pc # "idle" =>
          /\ RefersTo(job[k].outage, job[k].site, "availability")
          /\ RefersTo(job[k].slowdown, job[k].site, "anomaly")

\* What the collections and the jobs hold is of its type, and refers to what it
\* should: the fields of website.model.ts and incident.model.ts.
WellFormed == TypeOK /\ ReferencesFit

\* A website never has two open incidents of one category, however leases
\* expire and processes die: what incident_one_open_per_website_category is for.
OneOpenIncident ==
    \A w \in Websites, c \in Categories :
        \A i, j \in OpenFor(w, c) : i = j

\* "One notification per incident transition": an announcement reaches
\* dispatchToRecipients at most once, even when two jobs work on one website
\* because a lease expired under the first.
DispatchOnce == \A a \in Announcements : dispatched[a] <= 1

\* A person who closes an incident is not followed by a recovery e-mail: the
\* job that finds the site up again did not resolve that incident.
ClosedByHandIsNotAnnounced ==
    \A i \in Incidents : incident[i].byHand =>
        \A e \in Endings : dispatched[<<e, i>>] = 0

\* At most one job works on a website, as long as no lease expires under a
\* live job; crashes, failed releases and every API call are allowed.
ExclusiveJob ==
    \A k, l \in Jobs :
        k # l /\ job[k].pc # "idle" /\ job[l].pc # "idle" => job[k].site # job[l].site

\* "Never declare a site down on one failed check": a job opens an outage only
\* when the last FailureThreshold checks of the website, its own included, all
\* failed, and resolves one only after RecoveryThreshold successes in a row,
\* none of them from before the website was paused, resumed or pointed elsewhere
\* while no job worked on it (CleanSlate is about a job that does).  A check that
\* was cut off before its save is not counted: the code forgets it, and so does
\* the run.
ConfirmedTransitions ==
    \A k \in Jobs : job[k].pc \in {"slowdown", "adoptSlowdown", "save"} =>
        LET seen == NextRun(run[job[k].site], job[k].outcome)
        IN  /\ job[k].down # None => seen.failed >= FailureThreshold
            /\ job[k].recovered # None => seen.ok >= RecoveryThreshold

\* "Resuming starts from a clean slate rather than continuing a failure streak
\* from before the pause": while monitoring is on, no write brings an older
\* streak back, so a streak grows by the one check a job saves.
CleanSlate ==
    [][\A w \in Websites : website[w].enabled =>
          /\ website'[w].streaks.failures <= website[w].streaks.failures + 1
          /\ website'[w].streaks.successes <= website[w].streaks.successes + 1]_vars

\* The e-mail that ends an incident is never sent while the one that announces
\* it is still waiting in some job.
AnnouncedInOrder ==
    \A i \in Incidents, k \in Jobs : \A t \in job[k].tasks :
        t.incident = i /\ t.event \in {"down", "degraded"} =>
            dispatched[<<"recovered", i>>] + dispatched[<<"restored", i>>] = 0

ReferenceMirrors(w, c, reference) ==
    OpenFor(w, c) = {reference} \ {None}

\* Between jobs, the website's references are exactly its open incidents, and
\* the status agrees with them, unless a job was cut off on the way, or a person
\* closed an incident the website still refers to (ReportedOutageIsOpen).
MirrorsIncidents ==
    \A w \in Websites :
        website[w].exists /\ Idle(w) /\ w \notin interrupted
            /\ ~(\E i \in Incidents : incident[i].site = w /\ incident[i].byHand) =>
            /\ ReferenceMirrors(w, "availability", website[w].outage)
            /\ ReferenceMirrors(w, "anomaly", website[w].slowdown)
            /\ website[w].status = "down" => website[w].outage # None
            /\ website[w].status = "operational" =>
                   website[w].outage = None /\ website[w].slowdown = None

\* "A site that is down is not degraded": no slowdown incident is opened while
\* an outage of the same website is open.
NoSlowdownDuringOutage ==
    [][\A i \in Incidents :
          incident[i].state = "unused" /\ incident'[i].category = "anomaly" =>
              \/ OpenFor(incident'[i].site, "availability") = {}
              \/ incident'[i].site \in interrupted]_vars

\* Every slowdown incident that is opened is announced: the check that opens it
\* is anomalous, so the job has the numbers the alert is sent with, unless a
\* job of the website was cut off before.
DegradationHasFacts ==
    \A k \in Jobs : job[k].degraded # None /\ job[k].site \notin interrupted =>
        job[k].outcome.anomalous

\* "The website's open incident after this check, or null if none is open":
\* what a job keeps as the outage after applying its transition is open.
ReportedOutageIsOpen ==
    [][\A k \in Jobs :
          job[k].pc = "outage" /\ job'[k].pc = "slowdown" /\ job'[k].outage # None =>
              incident'[job'[k].outage].state = "open"]_vars

\* The bound of the model: every incident id has been used.
Exhausted == \A i \in Incidents : incident[i].state # "unused"

\* A website that is being checked, or need not be.
Attended(w) ==
    \/ \E k \in Jobs : job[k].pc = "check" /\ job[k].site = w
    \/ ~website[w].exists \/ ~website[w].enabled
    \/ Exhausted

\* A website is checked again and again, whatever process held its lease and
\* died, unless it is paused or deleted.
EventuallyChecked == \A w \in Websites : []<>Attended(w)

\* An end of the outage that is still to be announced, by a job that nothing cut
\* off; what a person resolved needs no announcement.
Unannounced(i) ==
    /\ Stored(i) /\ incident[i].category = "availability"
    /\ incident[i].site \notin interrupted
    /\ \/ dispatched[<<"down", i>>] = 0
       \/ /\ incident[i].state = "resolved" /\ ~incident[i].byHand
          /\ dispatched[<<"recovered", i>>] = 0

\* Both ends of an outage are eventually dispatched, unless a job of the
\* website was cut off or a person closed the incident.
OutageIsAnnounced == \A i \in Incidents : []<>~Unannounced(i)

=============================================================================
