----------------------- MODULE UptimeMonitoringProofs -----------------------
(***************************************************************************)
(* Proofs about the uptime pipeline that hold whatever leases expire and   *)
(* whatever dies, for every set of websites, incidents and jobs, every     *)
(* threshold and every combination of faults: types, one open incident per *)
(* website and category, one dispatch per announcement, and no recovery    *)
(* announced for an incident a person closed.                              *)
(***************************************************************************)
EXTENDS UptimeMonitoring, TLAPS

-----------------------------------------------------------------------------
(* The rules keep streaks within what the model counts.                    *)

\* A streak that grows stays within Count.
LEMMA BumpInCount ==
    ASSUME NEW n \in Count
    PROVE  Bump(n) \in Count
BY ThresholdAssumption DEF Bump, Count

\* The zero streaks of a new, paused or edited website are streaks.
LEMMA ZeroStreaksType == ZeroStreaks \in Streaks
BY ThresholdAssumption DEF ZeroStreaks, Streaks, Count

\* One check outcome turns streaks into streaks, with or without detection.
LEMMA NextStreaksType ==
    ASSUME NEW streaks \in Streaks, NEW o \in Outcome, NEW detecting \in BOOLEAN
    PROVE  NextStreaks(streaks, o, detecting) \in Streaks
<1>0. 0 \in Count
  BY ThresholdAssumption DEF Count
<1>1. \A t \in Streaks : DeriveCounters(t, o) \in Streaks
  BY <1>0, BumpInCount DEF DeriveCounters, Streaks
<1>2. \A t \in Streaks : DeriveAnomalyCounters(t, o) \in Streaks
  BY <1>0, BumpInCount DEF DeriveAnomalyCounters, Streaks
<1>3. \A t \in Streaks : StopCounting(t) \in Streaks
  BY <1>0 DEF StopCounting, Streaks
<1> QED BY <1>1, <1>2, <1>3 DEF NextStreaks

\* The stored run of outcomes is counted like a streak.
LEMMA NextRunType ==
    ASSUME NEW r \in [failed: Count, ok: Count], NEW o \in Outcome
    PROVE  NextRun(r, o) \in [failed: Count, ok: Count]
BY BumpInCount, ThresholdAssumption DEF NextRun, Count

-----------------------------------------------------------------------------
(* Types.                                                                  *)

\* An idle job is a job.
LEMMA IdleJobType == IdleJob \in Job
BY ZeroStreaksType DEF IdleJob, Job, FailedCheck, Outcome

\* The documents a website and an incident start as.
LEMMA NewDocumentsType ==
    /\ NewWebsite \in Website
    /\ UnusedIncident \in Incident
    /\ \A w \in Websites, c \in Categories : OpenIncident(w, c) \in Incident
BY ZeroStreaksType
   DEF NewWebsite, Website, UnusedIncident, Incident, OpenIncident, Categories

\* The tasks a check leaves behind are tasks.
LEMMA TasksOfType ==
    ASSUME NEW j \in Job
    PROVE  TasksOf(j) \subseteq Tasks
<1>1. \A e \in Events, i \in Incidents \cup {None} : Parts(e, i) \subseteq Tasks
  BY DEF Parts, Tasks
<1>2. {"down", "recovered", "degraded", "restored"} \subseteq Events
  BY DEF Events
<1>3. /\ j.down \in Incidents \cup {None}
      /\ j.recovered \in Incidents \cup {None}
      /\ j.degraded \in Incidents \cup {None}
      /\ j.restored \in Incidents \cup {None}
  BY DEF Job
<1> QED BY <1>1, <1>2, <1>3 DEF TasksOf

\* What the save writes is a website, and what it leaves is a job.
LEMMA SavedType ==
    ASSUME NEW doc \in Website, NEW j \in Job
    PROVE  Saved(doc, j) \in Website
BY DEF Saved, Website, Job, DeriveDisplayStatus

LEMMA AnnouncingType ==
    ASSUME NEW j \in Job, j.site \in Websites
    PROVE  Announcing(j) \in Job
BY TasksOfType, IdleJobType DEF Announcing, Job

LEMMA InitTypeOK == Init => TypeOK
BY ZeroStreaksType, NewDocumentsType, IdleJobType, ThresholdAssumption
   DEF Init, TypeOK, Announcements, Count

\* Jobs are jobs, and a working one knows which website it works on.
JobsOK ==
    /\ job \in [Jobs -> Job]
    /\ \A k \in Jobs : job[k].pc # "idle" => job[k].site \in Websites

\* Replacing what one job holds.
LEMMA JobReplaced ==
    ASSUME JobsOK, NEW k \in Jobs, NEW j \in Job,
           j.pc # "idle" => j.site \in Websites,
           job' = [job EXCEPT ![k] = j]
    PROVE  JobsOK'
BY DEF JobsOK

\* What a step may read of one working job.
LEMMA JobFields ==
    ASSUME JobsOK, NEW k \in Jobs
    PROVE  /\ job[k] \in Job
           /\ job[k].pc # "idle" => job[k].site \in Websites
           /\ job[k].outage \in Incidents \cup {None}
           /\ job[k].slowdown \in Incidents \cup {None}
           /\ job[k].recovered \in Incidents \cup {None}
           /\ job[k].restored \in Incidents \cup {None}
           /\ job[k].streaks \in Streaks
           /\ job[k].tasks \subseteq Tasks
BY DEF JobsOK, Job

\* The steps of a job between its check and its save.
Transition(k) ==
    \/ KeepOutage(k)
    \/ \E i \in Incidents : OpenOutage(k, i)
    \/ OutageAlreadyOpen(k)
    \/ \E i \in Incidents \cup {None} : AdoptOutage(k, i)
    \/ ResolveOutage(k)
    \/ KeepSlowdown(k)
    \/ \E i \in Incidents : OpenSlowdown(k, i)
    \/ SlowdownAlreadyOpen(k)
    \/ \E i \in Incidents \cup {None} : AdoptSlowdown(k, i)
    \/ CloseSlowdown(k)

\* A transition changes nothing but the incidents and the job itself.
LEMMA TransitionUnchanged ==
    ASSUME NEW k \in Jobs, Transition(k)
    PROVE  UNCHANGED <<website, api, ledger, history>>
BY DEF Transition, KeepOutage, OpenOutage, OutageAlreadyOpen, AdoptOutage,
       ResolveOutage, KeepSlowdown, OpenSlowdown, SlowdownAlreadyOpen,
       AdoptSlowdown, CloseSlowdown

\* A transition leaves the job a job, working on the same website.
LEMMA TransitionJob ==
    ASSUME JobsOK, NEW k \in Jobs, Transition(k)
    PROVE  JobsOK'
<1>1. CASE KeepOutage(k)
  <2> DEFINE j == [job[k] EXCEPT !.pc = "slowdown"]
  <2>1. job' = [job EXCEPT ![k] = j]
    BY <1>1 DEF KeepOutage
  <2>2. j \in Job
    BY DEF JobsOK, Job
  <2>3. j.site \in Websites
    BY <1>1, JobFields DEF KeepOutage, Job
  <2> QED BY <2>1, <2>2, <2>3, JobReplaced
<1>2. ASSUME NEW i \in Incidents, OpenOutage(k, i)
      PROVE  JobsOK'
  <2> DEFINE j == [job[k] EXCEPT !.pc = "slowdown", !.outage = i, !.down = i]
  <2>1. job' = [job EXCEPT ![k] = j]
    BY <1>2 DEF OpenOutage
  <2>2. j \in Job
    BY DEF JobsOK, Job
  <2>3. j.site \in Websites
    BY <1>2, JobFields DEF OpenOutage, Job
  <2> QED BY <2>1, <2>2, <2>3, JobReplaced
<1>3. CASE OutageAlreadyOpen(k)
  <2> DEFINE j == [job[k] EXCEPT !.pc = "adoptOutage"]
  <2>1. job' = [job EXCEPT ![k] = j]
    BY <1>3 DEF OutageAlreadyOpen
  <2>2. j \in Job
    BY DEF JobsOK, Job
  <2>3. j.site \in Websites
    BY <1>3, JobFields DEF OutageAlreadyOpen, Job
  <2> QED BY <2>1, <2>2, <2>3, JobReplaced
<1>4. ASSUME NEW i \in Incidents \cup {None}, AdoptOutage(k, i)
      PROVE  JobsOK'
  <2> DEFINE j == [job[k] EXCEPT !.pc = "slowdown", !.outage = i]
  <2>1. job' = [job EXCEPT ![k] = j]
    BY <1>4 DEF AdoptOutage
  <2>2. j \in Job
    BY DEF JobsOK, Job
  <2>3. j.site \in Websites
    BY <1>4, JobFields DEF AdoptOutage, Job
  <2> QED BY <2>1, <2>2, <2>3, JobReplaced
<1>5. CASE ResolveOutage(k)
  <2> DEFINE h == IF incident[job[k].outage].state = "open"
                  THEN job[k].outage ELSE None
             j == [job[k] EXCEPT !.pc = "slowdown", !.outage = None, !.recovered = h]
  <2>0. h \in Incidents \cup {None}
    BY JobFields
  <2>1. job' = [job EXCEPT ![k] = j]
    BY <1>5 DEF ResolveOutage
  <2>2. j \in Job
    <3> HIDE DEF h
    <3> QED BY <2>0 DEF JobsOK, Job
  <2>3. j.site \in Websites
    BY <1>5, JobFields DEF ResolveOutage, Job
  <2> QED BY <2>1, <2>2, <2>3, JobReplaced
<1>6. CASE KeepSlowdown(k)
  <2>1. CASE job' = [job EXCEPT ![k].pc = "save"]
    <3> DEFINE j == [job[k] EXCEPT !.pc = "save"]
    <3>1. job' = [job EXCEPT ![k] = j]
      BY <2>1
    <3>2. j \in Job
      BY DEF JobsOK, Job
    <3>3. j.site \in Websites
      BY <1>6, JobFields DEF KeepSlowdown, Job
    <3> QED BY <3>1, <3>2, <3>3, JobReplaced
  <2>2. CASE \E h \in Incidents \cup {None} :
               job' = [job EXCEPT ![k].pc = "save", ![k].slowdown = h]
    <3>1. PICK h \in Incidents \cup {None} :
               job' = [job EXCEPT ![k].pc = "save", ![k].slowdown = h]
      BY <2>2
    <3> DEFINE j == [job[k] EXCEPT !.pc = "save", !.slowdown = h]
    <3>2. job' = [job EXCEPT ![k] = j]
      BY <3>1
    <3>3. j \in Job
      BY DEF JobsOK, Job
    <3>4. j.site \in Websites
      BY <1>6, JobFields DEF KeepSlowdown, Job
    <3> QED BY <3>2, <3>3, <3>4, JobReplaced
  <2> QED BY <1>6, <2>1, <2>2, JobFields DEF KeepSlowdown
<1>7. ASSUME NEW i \in Incidents, OpenSlowdown(k, i)
      PROVE  JobsOK'
  <2> DEFINE j == [job[k] EXCEPT !.pc = "save", !.slowdown = i, !.degraded = i]
  <2>1. job' = [job EXCEPT ![k] = j]
    BY <1>7 DEF OpenSlowdown
  <2>2. j \in Job
    BY DEF JobsOK, Job
  <2>3. j.site \in Websites
    BY <1>7, JobFields DEF OpenSlowdown, Job
  <2> QED BY <2>1, <2>2, <2>3, JobReplaced
<1>8. CASE SlowdownAlreadyOpen(k)
  <2> DEFINE j == [job[k] EXCEPT !.pc = "adoptSlowdown"]
  <2>1. job' = [job EXCEPT ![k] = j]
    BY <1>8 DEF SlowdownAlreadyOpen
  <2>2. j \in Job
    BY DEF JobsOK, Job
  <2>3. j.site \in Websites
    BY <1>8, JobFields DEF SlowdownAlreadyOpen, Job
  <2> QED BY <2>1, <2>2, <2>3, JobReplaced
<1>9. ASSUME NEW i \in Incidents \cup {None}, AdoptSlowdown(k, i)
      PROVE  JobsOK'
  <2> DEFINE j == [job[k] EXCEPT !.pc = "save", !.slowdown = i]
  <2>1. job' = [job EXCEPT ![k] = j]
    BY <1>9 DEF AdoptSlowdown
  <2>2. j \in Job
    BY DEF JobsOK, Job
  <2>3. j.site \in Websites
    BY <1>9, JobFields DEF AdoptSlowdown, Job
  <2> QED BY <2>1, <2>2, <2>3, JobReplaced
<1>10. CASE CloseSlowdown(k)
  <2> DEFINE h == IF /\ job[k].slowdown # None
                     /\ incident[job[k].slowdown].state = "open"
                     /\ job[k].detecting
                  THEN job[k].slowdown ELSE None
             j == [job[k] EXCEPT !.pc = "save", !.slowdown = None, !.restored = h]
  <2>0. h \in Incidents \cup {None}
    BY JobFields
  <2>1. job' = [job EXCEPT ![k] = j]
    BY <1>10 DEF CloseSlowdown
  <2>2. j \in Job
    <3> HIDE DEF h
    <3> QED BY <2>0 DEF JobsOK, Job
  <2>3. j.site \in Websites
    BY <1>10, JobFields DEF CloseSlowdown, Job
  <2> QED BY <2>1, <2>2, <2>3, JobReplaced
<1> QED BY <1>1, <1>2, <1>3, <1>4, <1>5, <1>6, <1>7, <1>8, <1>9, <1>10
       DEF Transition

\* A transition opens or closes incidents and leaves them incidents.
LEMMA TransitionIncident ==
    ASSUME JobsOK, incident \in [Incidents -> Incident], NEW k \in Jobs, Transition(k)
    PROVE  incident' \in [Incidents -> Incident]
<1>1. CASE \E i \in Incidents : OpenOutage(k, i)
  BY <1>1, JobFields, NewDocumentsType DEF OpenOutage, Categories
<1>2. CASE \E i \in Incidents : OpenSlowdown(k, i)
  BY <1>2, JobFields, NewDocumentsType DEF OpenSlowdown, Categories
<1>3. ASSUME NEW i \in Incidents PROVE Close(i) \in [Incidents -> Incident]
  BY DEF Close, Incident
<1>4. CASE ResolveOutage(k)
  <2>1. incident[job[k].outage].state = "open" => job[k].outage \in Incidents
    BY <1>4, JobFields DEF ResolveOutage, OutageTransition, DecideIncidentTransition
  <2> QED BY <1>3, <1>4, <2>1 DEF ResolveOutage
<1>5. CASE CloseSlowdown(k)
  BY <1>3, <1>5, JobFields DEF CloseSlowdown
<1>6. CASE ~ \/ \E i \in Incidents : OpenOutage(k, i) \/ OpenSlowdown(k, i)
             \/ ResolveOutage(k)
             \/ CloseSlowdown(k)
  BY <1>6 DEF Transition, KeepOutage, OutageAlreadyOpen, AdoptOutage,
              KeepSlowdown, SlowdownAlreadyOpen, AdoptSlowdown
<1> QED BY <1>1, <1>2, <1>4, <1>5, <1>6

\* The steps that end a job, whatever became of its work.
LEMMA EndingJob ==
    ASSUME JobsOK, NEW k \in Jobs, Release(k) \/ ReleaseFails(k) \/ Crash(k)
    PROVE  JobsOK'
<1>1. job' = [job EXCEPT ![k] = IdleJob]
  BY DEF Release, ReleaseFails, Crash
<1>2. IdleJob \in Job /\ IdleJob.pc = "idle"
  BY IdleJobType DEF IdleJob
<1> QED BY <1>1, <1>2, JobReplaced

\* The steps after which all that is left to do is the release.
LEMMA FinallyJob ==
    ASSUME JobsOK, NEW k \in Jobs, FinishAnnouncing(k) \/ PipelineFails(k)
    PROVE  JobsOK'
<1> DEFINE j == [IdleJob EXCEPT !.pc = "release", !.site = job[k].site]
<1>1. job' = [job EXCEPT ![k] = j]
  BY DEF FinishAnnouncing, PipelineFails, Finally
<1>2. job[k].site \in Websites
  BY JobFields DEF FinishAnnouncing, PipelineFails
<1>3. j \in Job /\ j.site \in Websites
  BY <1>2, IdleJobType DEF IdleJob, Job
<1> QED BY <1>1, <1>3, JobReplaced

\* A claim copies a website into the job.
LEMMA ClaimJob ==
    ASSUME JobsOK, website \in [Websites -> Website],
           NEW k \in Jobs, NEW w \in Websites, Claim(k, w)
    PROVE  JobsOK'
<1> DEFINE j == [IdleJob EXCEPT !.pc = "check", !.site = w,
                                !.streaks = website[w].streaks,
                                !.outage = website[w].outage,
                                !.slowdown = website[w].slowdown]
<1>1. job' = [job EXCEPT ![k] = j]
  BY DEF Claim
<1>2. /\ website[w].streaks \in Streaks
      /\ website[w].outage \in Incidents \cup {None}
      /\ website[w].slowdown \in Incidents \cup {None}
  BY DEF Website
<1>3. j \in Job
  BY <1>2, IdleJobType DEF IdleJob, Job
<1>4. j.site \in Websites
  BY DEF IdleJob
<1> QED BY <1>1, <1>3, <1>4, JobReplaced

\* A check fills in its outcome and the streaks it leads to.
LEMMA CheckJob ==
    ASSUME JobsOK, NEW k \in Jobs, NEW o \in Outcomes,
           NEW detecting \in DetectionReads, Check(k, o, detecting)
    PROVE  JobsOK'
<1> DEFINE next == NextStreaks(job[k].streaks, o, detecting)
           j == [job[k] EXCEPT !.pc = "outage", !.outcome = o,
                               !.detecting = detecting, !.streaks = next]
<1>0. CheckOutcomes \subseteq Outcome
  <2>1. FailedCheck \in Outcome
    BY DEF FailedCheck, Outcome
  <2>2. [ok: {TRUE}, anomalous: BOOLEAN, slow: BOOLEAN] \subseteq Outcome
    BY DEF Outcome
  <2> QED BY <2>1, <2>2 DEF CheckOutcomes
<1>1. o \in Outcome /\ detecting \in BOOLEAN
  BY <1>0, ConstantsAssumption
<1>2. next \in Streaks
  BY <1>1, JobFields, NextStreaksType
<1>3. job' = [job EXCEPT ![k] = j]
  BY DEF Check
<1>4. j \in Job
  <2> HIDE DEF next
  <2> QED BY <1>1, <1>2 DEF JobsOK, Job
<1>5. j.site \in Websites
  BY JobFields DEF Check, Job
<1> QED BY <1>3, <1>4, <1>5, JobReplaced

\* The save leaves the announcements to be made.
LEMMA SaveJob ==
    ASSUME JobsOK, NEW k \in Jobs, SaveWebsite(k)
    PROVE  JobsOK'
<1>1. job' = [job EXCEPT ![k] = Announcing(job[k])]
  BY DEF SaveWebsite
<1>2. job[k].site \in Websites
  BY JobFields DEF SaveWebsite
<1>3. Announcing(job[k]) \in Job
  BY <1>2, JobFields, AnnouncingType
<1>4. Announcing(job[k]).site = job[k].site
  BY DEF Announcing, IdleJob
<1> QED BY <1>1, <1>2, <1>3, <1>4, JobReplaced

\* Working off one task of an announcement.
LEMMA TaskJob ==
    ASSUME JobsOK, NEW k \in Jobs, NEW t \in job[k].tasks,
           \/ ClaimDispatch(k, t)
           \/ SendMail(k, t)
           \/ Publish(k, t)
           \/ AnnouncementFails(k, t)
    PROVE  JobsOK'
<1>1. t \in Tasks
  BY JobFields
<1>2. [t EXCEPT !.part = "send"] \in Tasks
  BY <1>1 DEF Tasks
<1>3. \E left \in SUBSET Tasks : job' = [job EXCEPT ![k].tasks = left]
  <2> DEFINE others == job[k].tasks \ {t}
             sending == others \cup {[t EXCEPT !.part = "send"]}
  <2>1. others \in SUBSET Tasks /\ sending \in SUBSET Tasks
    BY <1>2, JobFields
  <2>2. \/ job' = [job EXCEPT ![k].tasks = others]
        \/ job' = [job EXCEPT ![k].tasks = sending]
    BY DEF ClaimDispatch, SendMail, Publish, AnnouncementFails
  <2> QED BY <2>1, <2>2
<1>7. PICK left \in SUBSET Tasks : job' = [job EXCEPT ![k].tasks = left]
  BY <1>3
<1> DEFINE j == [job[k] EXCEPT !.tasks = left]
<1>4. job' = [job EXCEPT ![k] = j]
  BY <1>7
<1>5. j \in Job
  BY DEF JobsOK, Job
<1>6. j.site \in Websites
  BY JobFields DEF ClaimDispatch, SendMail, Publish, AnnouncementFails, Ready, Job
<1> QED BY <1>4, <1>5, <1>6, JobReplaced

\* The type invariant, strengthened to be inductive.
TypeInv == TypeOK /\ JobsOK

\* What is left of TypeOK when the documents and the jobs are taken out.
LedgersOK ==
    /\ edit \in [Websites -> {"none", "on", "off"}]
    /\ purge \subseteq Websites
    /\ dispatched \in [Announcements -> Nat]
    /\ queued \subseteq Announcements
    /\ analysing \subseteq Incidents
    /\ run \in [Websites -> [failed: Count, ok: Count]]
    /\ interrupted \subseteq Websites

DocumentsOK ==
    /\ website \in [Websites -> Website]
    /\ incident \in [Incidents -> Incident]

LEMMA TypeParts == TypeInv <=> DocumentsOK /\ JobsOK /\ LedgersOK
BY DEF TypeInv, TypeOK, DocumentsOK, JobsOK, LedgersOK

LEMMA LedgersUnchanged ==
    ASSUME LedgersOK, UNCHANGED <<api, ledger, history>>
    PROVE  LedgersOK'
BY DEF LedgersOK, api, ledger, history

\* A run that starts anew is counted like any other.
LEMMA StartedAnewType ==
    ASSUME LedgersOK, NEW w \in Websites
    PROVE  StartedAnew(w) \in [Websites -> [failed: Count, ok: Count]]
<1>1. [failed |-> 0, ok |-> 0] \in [failed: Count, ok: Count]
  BY ThresholdAssumption DEF Count
<1> QED BY <1>1 DEF StartedAnew, LedgersOK

\* One step of a live job.
LEMMA JobStepTypes ==
    ASSUME DocumentsOK, JobsOK, LedgersOK, NEW k \in Jobs, JobStep(k)
    PROVE  DocumentsOK' /\ JobsOK' /\ LedgersOK'
<1>1. ASSUME NEW o \in Outcomes, NEW detecting \in DetectionReads,
             Check(k, o, detecting)
      PROVE  DocumentsOK' /\ JobsOK' /\ LedgersOK'
  BY <1>1, CheckJob, LedgersUnchanged DEF Check, DocumentsOK
<1>2. CASE Transition(k)
  BY <1>2, TransitionJob, TransitionIncident, TransitionUnchanged, LedgersUnchanged
     DEF DocumentsOK
<1>3. CASE SaveWebsite(k)
  <2> DEFINE w == job[k].site
  <2>1. website' \in [Websites -> Website]
    BY <1>3, JobFields, SavedType DEF SaveWebsite, DocumentsOK
  <2>2. run' \in [Websites -> [failed: Count, ok: Count]]
    <3>1. job[k].outcome \in Outcome
      BY JobFields DEF Job
    <3> QED BY <1>3, <3>1, JobFields, NextRunType DEF SaveWebsite, LedgersOK
  <2> QED BY <1>3, <2>1, <2>2, SaveJob DEF SaveWebsite, DocumentsOK, LedgersOK, api, ledger
<1>4. ASSUME NEW t \in job[k].tasks, ClaimDispatch(k, t)
      PROVE  DocumentsOK' /\ JobsOK' /\ LedgersOK'
  <2>1. t.incident \in Incidents
    BY JobFields DEF Tasks
  <2>2. MarkNotified(t.incident, t.event) \in [Incidents -> Incident]
    BY <2>1 DEF MarkNotified, DocumentsOK, Incident
  <2> QED BY <1>4, <2>2, TaskJob, LedgersUnchanged DEF ClaimDispatch, DocumentsOK
<1>5. ASSUME NEW t \in job[k].tasks, SendMail(k, t)
      PROVE  DocumentsOK' /\ JobsOK' /\ LedgersOK'
  <2>1. <<t.event, t.incident>> \in Announcements
    BY JobFields DEF Tasks, Announcements
  <2>2. dispatched' \in [Announcements -> Nat]
    BY <1>5, <2>1 DEF SendMail, LedgersOK
  <2> QED BY <1>5, <2>2, TaskJob DEF SendMail, DocumentsOK, LedgersOK, api, history
<1>6. ASSUME NEW t \in job[k].tasks, Publish(k, t)
      PROVE  DocumentsOK' /\ JobsOK' /\ LedgersOK'
  <2>1. <<t.event, t.incident>> \in Announcements
    BY JobFields DEF Tasks, Announcements
  <2>2. queued' \subseteq Announcements
    BY <1>6, <2>1 DEF Publish, LedgersOK
  <2> QED BY <1>6, <2>2, TaskJob DEF Publish, DocumentsOK, LedgersOK, api, history
<1>7. CASE FinishAnnouncing(k)
  <2>1. analysing' \subseteq Incidents
    BY <1>7, JobFields DEF FinishAnnouncing, QueueAnalyses, LedgersOK
  <2> QED BY <1>7, <2>1, FinallyJob
          DEF FinishAnnouncing, DocumentsOK, LedgersOK, api, history
<1>8. CASE Release(k)
  <2>1. website' \in [Websites -> Website]
    BY <1>8, JobFields DEF Release, FreeLease, DocumentsOK, Website
  <2> QED BY <1>8, <2>1, EndingJob, LedgersUnchanged DEF Release, DocumentsOK
<1> QED BY <1>1, <1>2, <1>3, <1>4, <1>5, <1>6, <1>7, <1>8 DEF JobStep, Transition

\* A fault in a job loses memory, never the shape of a document.
LEMMA JobFaultTypes ==
    ASSUME DocumentsOK, JobsOK, LedgersOK, NEW k \in Jobs, JobFault(k)
    PROVE  DocumentsOK' /\ JobsOK' /\ LedgersOK'
<1>1. CASE PipelineFails(k)
  <2>1. interrupted' \subseteq Websites
    BY <1>1, JobFields DEF PipelineFails, LedgersOK
  <2> QED BY <1>1, <2>1, FinallyJob DEF PipelineFails, DocumentsOK, LedgersOK, api, ledger
<1>2. ASSUME NEW t \in job[k].tasks, AnnouncementFails(k, t)
      PROVE  DocumentsOK' /\ JobsOK' /\ LedgersOK'
  <2>1. interrupted' \subseteq Websites
    BY <1>2, JobFields DEF AnnouncementFails, Ready, LedgersOK
  <2> QED BY <1>2, <2>1, TaskJob DEF AnnouncementFails, DocumentsOK, LedgersOK, api, ledger
<1>3. CASE ReleaseFails(k)
  BY <1>3, EndingJob, LedgersUnchanged DEF ReleaseFails, DocumentsOK
<1>4. CASE Crash(k)
  <2>1. interrupted' \subseteq Websites
    BY <1>4, JobFields DEF Crash, LedgersOK
  <2> QED BY <1>4, <2>1, EndingJob DEF Crash, DocumentsOK, LedgersOK, api, ledger
<1> QED BY <1>1, <1>2, <1>3, <1>4 DEF JobFault

\* The API writes documents of the right shape.
LEMMA ApiTypes ==
    ASSUME DocumentsOK, JobsOK, LedgersOK, Api
    PROVE  DocumentsOK' /\ JobsOK' /\ LedgersOK'
<1>1. JobsOK'
  <2>1. UNCHANGED job
    <3>1. \A w \in Websites :
             /\ \A enabled \in BOOLEAN : SetEnabled(w, enabled) => UNCHANGED job
             /\ ReadForUrlChange(w) => UNCHANGED job
             /\ WriteUrlChange(w) => UNCHANGED job
             /\ DeleteWebsite(w) => UNCHANGED job
             /\ DeleteIncidents(w) => UNCHANGED job
      BY DEF SetEnabled, ReadForUrlChange, WriteUrlChange, DeleteWebsite,
             DeleteIncidents
    <3>2. \A i \in Incidents : ResolveManually(i) => UNCHANGED job
      BY DEF ResolveManually
    <3> QED BY <3>1, <3>2, Zenon DEF Api
  <2> QED BY <2>1 DEF JobsOK
<1>2. ASSUME NEW w \in Websites, NEW enabled \in BOOLEAN, SetEnabled(w, enabled)
      PROVE  DocumentsOK' /\ LedgersOK'
  <2> DEFINE streaks == [website[w].streaks EXCEPT !.failures = 0, !.successes = 0]
             doc == [website[w] EXCEPT !.enabled = enabled,
                       !.status = IF enabled THEN "unknown" ELSE "paused",
                       !.streaks = streaks, !.due = TRUE]
  <2>1. website' \in [Websites -> Website]
    <3>1. website[w] \in Website /\ website[w].streaks \in Streaks
      BY DEF DocumentsOK, Website
    <3>2. streaks \in Streaks
      <4>1. 0 \in Count
        BY ThresholdAssumption DEF Count
      <4> QED BY <3>1, <4>1 DEF Streaks
    <3>3. doc \in Website
      <4> HIDE DEF streaks
      <4>1. (IF enabled THEN "unknown" ELSE "paused")
               \in {"unknown", "operational", "degraded", "down", "paused"}
        OBVIOUS
      <4> QED BY <3>1, <3>2, <4>1 DEF Website
    <3>4. website' = [website EXCEPT ![w] = doc]
      BY <1>2 DEF SetEnabled
    <3> QED BY <3>3, <3>4 DEF DocumentsOK
  <2> QED BY <1>2, <2>1, StartedAnewType DEF SetEnabled, DocumentsOK, LedgersOK, api, ledger
<1>3. ASSUME NEW w \in Websites, ReadForUrlChange(w)
      PROVE  DocumentsOK' /\ LedgersOK'
  BY <1>3 DEF ReadForUrlChange, DocumentsOK, LedgersOK, ledger, history
<1>4. ASSUME NEW w \in Websites, WriteUrlChange(w)
      PROVE  DocumentsOK' /\ LedgersOK'
  <2> DEFINE doc == [website[w] EXCEPT !.streaks = ZeroStreaks,
                       !.status = IF edit[w] = "on" THEN "unknown" ELSE "paused",
                       !.due = TRUE]
  <2>1. website' \in [Websites -> Website]
    <3>1. website[w] \in Website
      BY DEF DocumentsOK
    <3>2. doc \in Website
      BY <3>1, ZeroStreaksType DEF Website
    <3>3. website' = [website EXCEPT ![w] = doc] \/ website' = website
      BY <1>4 DEF WriteUrlChange
    <3> QED BY <3>2, <3>3 DEF DocumentsOK
  <2> QED BY <1>4, <2>1, StartedAnewType DEF WriteUrlChange, DocumentsOK, LedgersOK, ledger
<1>5. ASSUME NEW w \in Websites, DeleteWebsite(w)
      PROVE  DocumentsOK' /\ LedgersOK'
  <2>1. website' \in [Websites -> Website]
    BY <1>5, NewDocumentsType DEF DeleteWebsite, DocumentsOK, Website
  <2> QED BY <1>5, <2>1 DEF DeleteWebsite, DocumentsOK, LedgersOK, ledger, history
<1>6. ASSUME NEW w \in Websites, DeleteIncidents(w)
      PROVE  DocumentsOK' /\ LedgersOK'
  <2>1. incident' \in [Incidents -> Incident]
    BY <1>6 DEF DeleteIncidents, DocumentsOK, Incident
  <2> QED BY <1>6, <2>1 DEF DeleteIncidents, DocumentsOK, LedgersOK, ledger, history
<1>7. ASSUME NEW i \in Incidents, ResolveManually(i)
      PROVE  DocumentsOK' /\ LedgersOK'
  <2>1. incident' \in [Incidents -> Incident]
    BY <1>7 DEF ResolveManually, DocumentsOK, Incident
  <2>2. analysing' \subseteq Incidents
    BY <1>7 DEF ResolveManually, LedgersOK
  <2> QED BY <1>7, <2>1, <2>2 DEF ResolveManually, DocumentsOK, LedgersOK, api, history
<1> QED BY <1>1, <1>2, <1>3, <1>4, <1>5, <1>6, <1>7 DEF Api

\* Every step of the specification, and a stuttering one.
LEMMA NextTypes == TypeInv /\ [Next]_vars => TypeInv'
<1> SUFFICES ASSUME DocumentsOK, JobsOK, LedgersOK, [Next]_vars
             PROVE  DocumentsOK' /\ JobsOK' /\ LedgersOK'
  BY TypeParts DEF TypeInv, TypeOK, DocumentsOK, JobsOK, LedgersOK
<1>1. ASSUME NEW k \in Jobs, NEW w \in Websites, Claim(k, w)
      PROVE  DocumentsOK' /\ JobsOK' /\ LedgersOK'
  <2>1. website' \in [Websites -> Website]
    BY <1>1 DEF Claim, DocumentsOK, Website
  <2> QED BY <1>1, <2>1, ClaimJob, LedgersUnchanged DEF Claim, DocumentsOK
<1>2. ASSUME NEW w \in Websites, BecomeDue(w) \/ LeaseExpires(w)
      PROVE  DocumentsOK' /\ JobsOK' /\ LedgersOK'
  <2>1. website' \in [Websites -> Website]
    <3>1. CASE BecomeDue(w)
      BY <3>1 DEF BecomeDue, DocumentsOK, Website
    <3>2. CASE LeaseExpires(w)
      BY <3>2 DEF LeaseExpires, DocumentsOK, Website
    <3> QED BY <1>2, <3>1, <3>2
  <2> QED BY <1>2, <2>1, LedgersUnchanged DEF BecomeDue, LeaseExpires, DocumentsOK, JobsOK
<1>3. CASE UNCHANGED vars
  BY <1>3 DEF vars, DocumentsOK, JobsOK, LedgersOK
<1> QED BY <1>1, <1>2, <1>3, JobStepTypes, JobFaultTypes, ApiTypes DEF Next

\* The invariant holds initially.
LEMMA InitTypeInv == Init => TypeInv
<1>1. Init => JobsOK
  BY IdleJobType DEF JobsOK, Init, IdleJob
<1> QED BY <1>1, InitTypeOK DEF TypeInv

\* Type correctness, for every number of websites, incidents and jobs.
THEOREM TypeCorrectness == Spec => []TypeOK
<1>1. TypeInv => TypeOK
  BY DEF TypeInv
<1> QED BY <1>1, InitTypeInv, NextTypes, PTL DEF Spec

-----------------------------------------------------------------------------
(* One open incident.                                                      *)

\* Incidents that are only closed, changed or deleted stay unique.
LEMMA FewerOpen ==
    ASSUME OneOpenIncident,
           \A w \in Websites, c \in Categories : OpenFor(w, c)' \subseteq OpenFor(w, c)
    PROVE  OneOpenIncident'
BY DEF OneOpenIncident

\* An incident opened where the index allows it is the only one.
LEMMA OpenedAlone ==
    ASSUME OneOpenIncident, incident \in [Incidents -> Incident],
           NEW v \in Websites, NEW d \in Categories, NEW i \in Incidents,
           OpenFor(v, d) = {},
           incident' = [incident EXCEPT ![i] = OpenIncident(v, d)]
    PROVE  OneOpenIncident'
<1> SUFFICES ASSUME NEW w \in Websites, NEW c \in Categories,
                    NEW x \in OpenFor(w, c)', NEW y \in OpenFor(w, c)'
             PROVE  x = y
  BY DEF OneOpenIncident
<1>1. \A z \in OpenFor(w, c)' : z = i \/ z \in OpenFor(w, c)
  BY DEF OpenFor
<1>2. i \in OpenFor(w, c)' => w = v /\ c = d
  BY DEF OpenFor, OpenIncident, UnusedIncident
<1> QED BY <1>1, <1>2 DEF OneOpenIncident

\* A step preserves uniqueness.
LEMMA OneOpenIncidentStep ==
    ASSUME TypeInv, OneOpenIncident, [Next]_vars
    PROVE  OneOpenIncident'
<1> DEFINE Fewer == \A w \in Websites, c \in Categories :
                        OpenFor(w, c)' \subseteq OpenFor(w, c)
<1>1. JobsOK /\ incident \in [Incidents -> Incident]
  BY TypeParts DEF DocumentsOK
<1>2. ASSUME NEW x \in Incidents, incident' = Close(x)
      PROVE  Fewer
  BY <1>1, <1>2 DEF Close, OpenFor
<1>3. ASSUME UNCHANGED incident
      PROVE  Fewer
  BY <1>3 DEF OpenFor
<1>4. ASSUME NEW k \in Jobs, JobStep(k)
      PROVE  OneOpenIncident'
  <2>1. ASSUME NEW i \in Incidents, OpenOutage(k, i)
        PROVE  OneOpenIncident'
    BY <1>1, <2>1, OpenedAlone, JobFields DEF OpenOutage, IndexAllows, Categories
  <2>2. ASSUME NEW i \in Incidents, OpenSlowdown(k, i)
        PROVE  OneOpenIncident'
    BY <1>1, <2>2, OpenedAlone, JobFields DEF OpenSlowdown, IndexAllows, Categories
  <2>3. CASE ResolveOutage(k)
    <3>1. incident[job[k].outage].state = "open" => job[k].outage \in Incidents
      BY <1>1, <2>3, JobFields DEF ResolveOutage, OutageTransition,
                                   DecideIncidentTransition
    <3> QED BY <1>2, <1>3, <2>3, <3>1, FewerOpen DEF ResolveOutage
  <2>4. CASE CloseSlowdown(k)
    BY <1>1, <1>2, <1>3, <2>4, JobFields, FewerOpen DEF CloseSlowdown
  <2>5. ASSUME NEW t \in job[k].tasks, ClaimDispatch(k, t)
        PROVE  OneOpenIncident'
    <3>1. t.incident \in Incidents
      BY <1>1, JobFields DEF Tasks
    <3>2. Fewer
      BY <1>1, <1>3, <2>5, <3>1 DEF ClaimDispatch, MarkNotified, OpenFor, Incident
    <3> QED BY <3>2, FewerOpen
  <2>6. ASSUME ~\E i \in Incidents : OpenOutage(k, i) \/ OpenSlowdown(k, i),
               ~ResolveOutage(k), ~CloseSlowdown(k),
               ~\E t \in job[k].tasks : ClaimDispatch(k, t)
        PROVE  OneOpenIncident'
    <3>1. UNCHANGED incident
      BY <1>4, <2>6 DEF JobStep, Check, KeepOutage, OutageAlreadyOpen, AdoptOutage,
                        KeepSlowdown, SlowdownAlreadyOpen, AdoptSlowdown, SaveWebsite,
                        SendMail, Publish, FinishAnnouncing, Release
    <3> QED BY <1>3, <3>1, FewerOpen
  <2> QED BY <2>1, <2>2, <2>3, <2>4, <2>5, <2>6
<1>5. ASSUME Api
      PROVE  OneOpenIncident'
  <2>1. ASSUME NEW i \in Incidents, ResolveManually(i)
        PROVE  Fewer
    BY <1>1, <2>1 DEF ResolveManually, OpenFor
  <2>2. ASSUME NEW w \in Websites, DeleteIncidents(w)
        PROVE  Fewer
    BY <1>1, <2>2 DEF DeleteIncidents, OpenFor
  <2>3. ASSUME NEW w \in Websites,
               \/ \E enabled \in BOOLEAN : SetEnabled(w, enabled)
               \/ ReadForUrlChange(w)
               \/ WriteUrlChange(w)
               \/ DeleteWebsite(w)
        PROVE  Fewer
    BY <1>3, <2>3 DEF SetEnabled, ReadForUrlChange, WriteUrlChange, DeleteWebsite
  <2> QED BY <1>5, <2>1, <2>2, <2>3, FewerOpen DEF Api
<1>6. ASSUME NEW k \in Jobs, JobFault(k)
      PROVE  OneOpenIncident'
  <2>1. UNCHANGED incident
    BY <1>6 DEF JobFault, PipelineFails, AnnouncementFails, ReleaseFails, Crash
  <2> QED BY <1>3, <2>1, FewerOpen
<1>7. ASSUME NEW w \in Websites,
             (\E k \in Jobs : Claim(k, w)) \/ BecomeDue(w) \/ LeaseExpires(w)
      PROVE  OneOpenIncident'
  <2>1. UNCHANGED incident
    BY <1>7 DEF Claim, BecomeDue, LeaseExpires
  <2> QED BY <1>3, <2>1, FewerOpen
<1>8. CASE UNCHANGED vars
  BY <1>3, <1>8, FewerOpen DEF vars
<1> QED BY <1>4, <1>5, <1>6, <1>7, <1>8 DEF Next

\* A website never has two open incidents of one category: the unique partial
\* index is enough, whoever else works on the website.
THEOREM OneOpenIncidentAlways == Spec => []OneOpenIncident
<1>1. Init => OneOpenIncident
  BY DEF Init, OneOpenIncident, OpenFor, UnusedIncident
<1>2. TypeInv /\ OneOpenIncident /\ [Next]_vars => (TypeInv /\ OneOpenIncident)'
  BY OneOpenIncidentStep, NextTypes
<1> QED BY <1>1, <1>2, InitTypeInv, PTL DEF Spec

-----------------------------------------------------------------------------
(* One dispatch per announcement.                                          *)

\* A job that claimed an announcement and has not yet dispatched it.
Sends(k, e, i) ==
    \E t \in job[k].tasks : t.event = e /\ t.incident = i /\ t.part = "send"

\* The flag on the incident is what makes a dispatch happen once: it is set
\* before any job may send, only one job sets it, and an incident starts
\* without it.
DispatchInv ==
    /\ \A i \in Incidents, e \in Events :
          incident[i].state = "unused" => ~Notified(i, e)
    /\ \A i \in Incidents, e \in Events :
          /\ dispatched[<<e, i>>] \in {0, 1}
          /\ dispatched[<<e, i>>] = 1 =>
                 Notified(i, e) /\ \A k \in Jobs : ~Sends(k, e, i)
          /\ \A k \in Jobs : Sends(k, e, i) => Notified(i, e)
          /\ \A k, l \in Jobs : Sends(k, e, i) /\ Sends(l, e, i) => k = l

\* A step that takes no claim and dispatches nothing: nobody starts to send,
\* and no flag is lost.
Quiet ==
    /\ UNCHANGED dispatched
    /\ \A k \in Jobs, e \in Events, i \in Incidents : Sends(k, e, i)' => Sends(k, e, i)
    /\ \A i \in Incidents, e \in Events : Notified(i, e) => Notified(i, e)'
    /\ \A i \in Incidents, e \in Events :
          incident'[i].state = "unused" => ~Notified(i, e)'

LEMMA QuietStep ==
    ASSUME DispatchInv, Quiet
    PROVE  DispatchInv'
BY DEF DispatchInv, Quiet

\* The two parts of Quiet, for steps that leave the jobs' tasks or the
\* incidents alone.
NoNewSends == \A k \in Jobs, e \in Events, i \in Incidents :
                  Sends(k, e, i)' => Sends(k, e, i)

FlagsKept ==
    /\ \A i \in Incidents, e \in Events : Notified(i, e) => Notified(i, e)'
    /\ \A i \in Incidents, e \in Events :
          incident'[i].state = "unused" => ~Notified(i, e)'

LEMMA QuietParts ==
    ASSUME NoNewSends, FlagsKept, UNCHANGED dispatched
    PROVE  Quiet
BY DEF NoNewSends, FlagsKept, Quiet

\* Only a claim of a dispatch adds a task that sends.
LEMMA FewerTasks ==
    ASSUME \A k \in Jobs : \A t \in job'[k].tasks :
               t.part = "send" => t \in job[k].tasks
    PROVE  NoNewSends
BY DEF NoNewSends, Sends

\* Incidents nobody touches keep their flags.
LEMMA SameFlags ==
    ASSUME DispatchInv, UNCHANGED incident
    PROVE  FlagsKept
BY DEF DispatchInv, FlagsKept, Notified

\* The tasks a job starts announcing with are all still to be claimed.
LEMMA TasksOfUnclaimed ==
    ASSUME NEW j, NEW t \in TasksOf(j)
    PROVE  t.part \in {"claim", "publish"}
<1>1. \A e, i : \A u \in Parts(e, i) : u.part \in {"claim", "publish"}
  BY DEF Parts
<1> QED BY <1>1 DEF TasksOf

\* A transition touches no other job.
LEMMA OthersUntouched ==
    ASSUME job \in [Jobs -> Job], NEW k \in Jobs, Transition(k),
           NEW l \in Jobs \ {k}
    PROVE  job'[l] = job[l]
<1>1. CASE \E i \in Incidents : OpenOutage(k, i) \/ OpenSlowdown(k, i)
  BY <1>1 DEF OpenOutage, OpenSlowdown
<1>2. CASE \E i \in Incidents \cup {None} : AdoptOutage(k, i) \/ AdoptSlowdown(k, i)
  BY <1>2 DEF AdoptOutage, AdoptSlowdown
<1>3. CASE KeepOutage(k) \/ OutageAlreadyOpen(k) \/ SlowdownAlreadyOpen(k)
  BY <1>3 DEF KeepOutage, OutageAlreadyOpen, SlowdownAlreadyOpen
<1>4. CASE ResolveOutage(k) \/ CloseSlowdown(k) \/ KeepSlowdown(k)
  BY <1>4 DEF ResolveOutage, CloseSlowdown, KeepSlowdown
<1> QED BY <1>1, <1>2, <1>3, <1>4 DEF Transition

\* A transition does not touch the tasks.
LEMMA TransitionTasks ==
    ASSUME JobsOK, NEW k \in Jobs, Transition(k)
    PROVE  \A l \in Jobs : job'[l].tasks = job[l].tasks
<1>0. job \in [Jobs -> Job]
  BY DEF JobsOK
<1>1. job'[k].tasks = job[k].tasks
  <2>1. CASE KeepOutage(k) \/ OutageAlreadyOpen(k) \/ SlowdownAlreadyOpen(k)
    BY <1>0, <2>1 DEF KeepOutage, OutageAlreadyOpen, SlowdownAlreadyOpen, Job
  <2>2. ASSUME NEW i \in Incidents, OpenOutage(k, i)
        PROVE  job'[k].tasks = job[k].tasks
    BY <1>0, <2>2 DEF OpenOutage, Job
  <2>3. ASSUME NEW i \in Incidents, OpenSlowdown(k, i)
        PROVE  job'[k].tasks = job[k].tasks
    BY <1>0, <2>3 DEF OpenSlowdown, Job
  <2>4. ASSUME NEW i \in Incidents \cup {None}, AdoptOutage(k, i)
        PROVE  job'[k].tasks = job[k].tasks
    BY <1>0, <2>4 DEF AdoptOutage, Job
  <2>5. ASSUME NEW i \in Incidents \cup {None}, AdoptSlowdown(k, i)
        PROVE  job'[k].tasks = job[k].tasks
    BY <1>0, <2>5 DEF AdoptSlowdown, Job
  <2>6. CASE ResolveOutage(k)
    BY <1>0, <2>6 DEF ResolveOutage, Job
  <2>7. CASE KeepSlowdown(k)
    BY <1>0, <2>7 DEF KeepSlowdown, Job
  <2>8. CASE CloseSlowdown(k)
    BY <1>0, <2>8 DEF CloseSlowdown, Job
  <2> QED BY <2>1, <2>2, <2>3, <2>4, <2>5, <2>6, <2>7, <2>8 DEF Transition
<1>2. \A l \in Jobs \ {k} : job'[l] = job[l]
  BY <1>0, OthersUntouched
<1> QED BY <1>1, <1>2

\* A transition keeps the flags: an incident it opens had none set.
LEMMA TransitionFlags ==
    ASSUME JobsOK, incident \in [Incidents -> Incident], DispatchInv,
           NEW k \in Jobs, Transition(k)
    PROVE  FlagsKept
<1>1. ASSUME NEW v, NEW d, NEW x \in Incidents, incident[x].state = "unused",
             incident' = [incident EXCEPT ![x] = OpenIncident(v, d)]
      PROVE  FlagsKept
  <2>1. \A i \in Incidents \ {x} : incident'[i] = incident[i]
    BY <1>1
  <2>2. incident'[x] = OpenIncident(v, d) /\ OpenIncident(v, d).state = "open"
    BY <1>1 DEF OpenIncident, UnusedIncident
  <2>3. \A e \in Events : ~Notified(x, e)
    BY <1>1 DEF DispatchInv
  <2> QED BY <2>1, <2>2, <2>3 DEF DispatchInv, FlagsKept, Notified
<1>2. ASSUME NEW x \in Incidents, incident' = Close(x)
      PROVE  FlagsKept
  BY <1>2 DEF Close, DispatchInv, FlagsKept, Notified
<1>3. CASE \E i \in Incidents : OpenOutage(k, i) \/ OpenSlowdown(k, i)
  BY <1>1, <1>3 DEF OpenOutage, OpenSlowdown
<1>4. CASE ResolveOutage(k)
  <2>1. incident[job[k].outage].state = "open" => job[k].outage \in Incidents
    BY <1>4, JobFields DEF ResolveOutage, OutageTransition, DecideIncidentTransition
  <2> QED BY <1>2, <1>4, <2>1, SameFlags DEF ResolveOutage
<1>5. CASE CloseSlowdown(k)
  BY <1>2, <1>5, JobFields, SameFlags DEF CloseSlowdown
<1>6. CASE UNCHANGED incident
  BY <1>6, SameFlags
<1> QED BY <1>3, <1>4, <1>5, <1>6
        DEF Transition, KeepOutage, OutageAlreadyOpen, AdoptOutage, KeepSlowdown,
            SlowdownAlreadyOpen, AdoptSlowdown

\* The steps that empty or fill a job's memory without claiming a dispatch.
LEMMA JobMemoryQuiet ==
    ASSUME TypeInv, DispatchInv, NEW k \in Jobs,
           \/ \E w \in Websites : Claim(k, w)
           \/ \E o \in Outcomes, detecting \in DetectionReads : Check(k, o, detecting)
           \/ SaveWebsite(k)
           \/ \E t \in job[k].tasks : Publish(k, t) \/ AnnouncementFails(k, t)
           \/ FinishAnnouncing(k) \/ Release(k)
           \/ PipelineFails(k) \/ ReleaseFails(k) \/ Crash(k)
    PROVE  Quiet
<1>0. job \in [Jobs -> Job]
  BY TypeParts DEF JobsOK
<1>1. UNCHANGED <<incident, dispatched>>
  BY DEF Claim, Check, SaveWebsite, Publish, AnnouncementFails, FinishAnnouncing,
         Release, PipelineFails, ReleaseFails, Crash, ledger
<1>2. CASE \E w \in Websites : Claim(k, w)
  <2>1. job'[k].tasks = {}
    <3>1. PICK w \in Websites : Claim(k, w)
      BY <1>2
    <3>2. job'[k] = [IdleJob EXCEPT !.pc = "check", !.site = w, !.streaks = website[w].streaks,
                                    !.outage = website[w].outage, !.slowdown = website[w].slowdown]
      BY <1>0, <3>1 DEF Claim
    <3> QED BY <3>2 DEF IdleJob
  <2>2. \A l \in Jobs \ {k} : job'[l] = job[l]
    BY <1>0, <1>2 DEF Claim
  <2> QED BY <1>1, <2>1, <2>2, FewerTasks, SameFlags, QuietParts
<1>3. CASE \E o \in Outcomes, detecting \in DetectionReads : Check(k, o, detecting)
  <2>1. job'[k].tasks = job[k].tasks
    <3>1. PICK o \in Outcomes, detecting \in DetectionReads : Check(k, o, detecting)
      BY <1>3
    <3>2. job'[k] = [job[k] EXCEPT !.pc = "outage", !.outcome = o,
                       !.detecting = detecting,
                       !.streaks = NextStreaks(job[k].streaks, o, detecting)]
      BY <1>0, <3>1 DEF Check
    <3>3. job[k] \in Job
      BY <1>0
    <3> QED BY <3>2, <3>3 DEF Job
  <2>2. \A l \in Jobs \ {k} : job'[l] = job[l]
    BY <1>0, <1>3 DEF Check
  <2> QED BY <1>1, <2>1, <2>2, FewerTasks, SameFlags, QuietParts
<1>4. CASE SaveWebsite(k)
  <2>1. job' = [job EXCEPT ![k] = Announcing(job[k])]
    BY <1>4 DEF SaveWebsite
  <2>2. Announcing(job[k]).tasks = TasksOf(job[k])
    BY DEF Announcing, IdleJob
  <2>3. NoNewSends
    BY <1>0, <2>1, <2>2, TasksOfUnclaimed, FewerTasks
  <2> QED BY <1>1, <2>3, SameFlags, QuietParts
<1>5. CASE \E t \in job[k].tasks : Publish(k, t) \/ AnnouncementFails(k, t)
  <2>1. job'[k].tasks \subseteq job[k].tasks
    BY <1>0, <1>5 DEF Publish, AnnouncementFails, Job
  <2>2. \A l \in Jobs \ {k} : job'[l] = job[l]
    BY <1>0, <1>5 DEF Publish, AnnouncementFails
  <2> QED BY <1>1, <2>1, <2>2, FewerTasks, SameFlags, QuietParts
<1>6. CASE FinishAnnouncing(k) \/ PipelineFails(k)
  BY <1>0, <1>1, <1>6, FewerTasks, SameFlags, QuietParts
     DEF FinishAnnouncing, PipelineFails, Finally, IdleJob
<1>7. CASE Release(k) \/ ReleaseFails(k) \/ Crash(k)
  BY <1>0, <1>1, <1>7, FewerTasks, SameFlags, QuietParts
     DEF Release, ReleaseFails, Crash, IdleJob
<1> QED BY <1>2, <1>3, <1>4, <1>5, <1>6, <1>7

\* The steps of the API and of time.
LEMMA OutsideQuiet ==
    ASSUME TypeInv, DispatchInv,
           Api \/ \E w \in Websites : BecomeDue(w) \/ LeaseExpires(w)
    PROVE  Quiet
<1>0. incident \in [Incidents -> Incident]
  BY TypeParts DEF DocumentsOK
<1>1. ASSUME UNCHANGED <<incident, job, dispatched>>
      PROVE  Quiet
  BY <1>1, FewerTasks, SameFlags, QuietParts
<1>2. CASE \E w \in Websites : BecomeDue(w) \/ LeaseExpires(w)
  BY <1>1, <1>2 DEF BecomeDue, LeaseExpires, ledger
<1>3. ASSUME NEW w \in Websites,
             \/ \E enabled \in BOOLEAN : SetEnabled(w, enabled)
             \/ ReadForUrlChange(w)
             \/ WriteUrlChange(w)
             \/ DeleteWebsite(w)
      PROVE  Quiet
  BY <1>1, <1>3 DEF SetEnabled, ReadForUrlChange, WriteUrlChange, DeleteWebsite, ledger
<1>4. ASSUME NEW w \in Websites, DeleteIncidents(w)
      PROVE  Quiet
  <2>1. FlagsKept
    BY <1>0, <1>4 DEF DeleteIncidents, Stored, FlagsKept, DispatchInv, Notified
  <2> QED BY <1>4, <2>1, FewerTasks, QuietParts DEF DeleteIncidents, ledger
<1>5. ASSUME NEW i \in Incidents, ResolveManually(i)
      PROVE  Quiet
  <2>1. FlagsKept
    BY <1>0, <1>5 DEF ResolveManually, FlagsKept, DispatchInv, Notified
  <2> QED BY <1>5, <2>1, FewerTasks, QuietParts DEF ResolveManually
<1> QED BY <1>2, <1>3, <1>4, <1>5 DEF Api

\* Claiming a dispatch sets the flag the claim was conditioned on, in the step
\* that makes this job its only sender.
LEMMA ClaimDispatchStep ==
    ASSUME TypeInv, DispatchInv, NEW k \in Jobs, NEW t \in job[k].tasks,
           ClaimDispatch(k, t)
    PROVE  DispatchInv'
<1>0. job \in [Jobs -> Job] /\ incident \in [Incidents -> Incident]
  BY TypeParts DEF JobsOK, DocumentsOK
<1>1. t \in Tasks /\ t.incident \in Incidents /\ t.event \in Events
  BY JobFields, TypeParts DEF Tasks
<1>2. \A l \in Jobs \ {k} : job'[l] = job[l]
  BY <1>0 DEF ClaimDispatch
<1>3. UNCHANGED dispatched
  BY DEF ClaimDispatch, ledger
<1>4. CASE ~(Stored(t.incident) /\ ~Notified(t.incident, t.event))
  <2>1. job'[k].tasks \subseteq job[k].tasks
    BY <1>0, <1>4 DEF ClaimDispatch, Job
  <2>2. UNCHANGED incident
    BY <1>4 DEF ClaimDispatch
  <2> QED BY <1>2, <1>3, <2>1, <2>2, FewerTasks, SameFlags, QuietParts, QuietStep
<1>5. CASE Stored(t.incident) /\ ~Notified(t.incident, t.event)
  <2> DEFINE sending == [t EXCEPT !.part = "send"]
  <2>1. job'[k].tasks = (job[k].tasks \ {t}) \cup {sending}
    BY <1>0, <1>5 DEF ClaimDispatch, Job
  <2>2. sending.event = t.event /\ sending.incident = t.incident
    BY <1>1 DEF Tasks
  <2>3. \A l \in Jobs, e \in Events, i \in Incidents :
           Sends(l, e, i)' => \/ Sends(l, e, i)
                              \/ l = k /\ e = t.event /\ i = t.incident
    BY <1>2, <2>1, <2>2 DEF Sends
  <2>4. incident' = MarkNotified(t.incident, t.event)
    BY <1>5 DEF ClaimDispatch
  <2>5. Notified(t.incident, t.event)'
    BY <1>0, <1>1, <2>4 DEF MarkNotified, Notified, Incident
  <2>6. \A i \in Incidents, e \in Events : Notified(i, e) => Notified(i, e)'
    BY <1>0, <2>4 DEF MarkNotified, Notified
  <2>7. \A i \in Incidents :
           /\ incident'[i].state = incident[i].state
           /\ i # t.incident => incident'[i] = incident[i]
    BY <1>0, <2>4 DEF MarkNotified
  <2>8. incident[t.incident].state # "unused"
    BY <1>5 DEF Stored
  <2>9. \A i \in Incidents, e \in Events :
           incident'[i].state = "unused" => ~Notified(i, e)'
    BY <2>7, <2>8 DEF DispatchInv, Notified
  <2>10. /\ dispatched[<<t.event, t.incident>>] = 0
         /\ \A l \in Jobs : ~Sends(l, t.event, t.incident)
    BY <1>1, <1>5 DEF DispatchInv
  <2> QED BY <1>3, <2>3, <2>5, <2>6, <2>9, <2>10 DEF DispatchInv
<1> QED BY <1>4, <1>5

\* Dispatching uses up the task: the flag stays, and nobody else may send.
LEMMA SendMailStep ==
    ASSUME TypeInv, DispatchInv, NEW k \in Jobs, NEW t \in job[k].tasks,
           SendMail(k, t)
    PROVE  DispatchInv'
<1>0. job \in [Jobs -> Job] /\ dispatched \in [Announcements -> Nat]
  BY TypeParts DEF JobsOK, LedgersOK
<1>1. t.incident \in Incidents /\ t.event \in Events
  BY JobFields, TypeParts DEF Tasks
<1>2. UNCHANGED incident
  BY DEF SendMail
<1>3. job'[k].tasks = job[k].tasks \ {t} /\ \A l \in Jobs \ {k} : job'[l] = job[l]
  BY <1>0 DEF SendMail, Job
<1>4. Sends(k, t.event, t.incident)
  BY DEF SendMail, Sends
<1>5. ~Sends(k, t.event, t.incident)'
  <2>1. \A u \in job[k].tasks :
           u.event = t.event /\ u.incident = t.incident /\ u.part = "send" => u = t
    BY JobFields, TypeParts DEF SendMail, Tasks
  <2> QED BY <1>3, <2>1 DEF Sends
<1>6. NoNewSends
  BY <1>3, FewerTasks
<1>7. \A i \in Incidents, e \in Events : Notified(i, e)' = Notified(i, e)
  BY <1>2 DEF Notified
<1>8. \A l \in Jobs : ~Sends(l, t.event, t.incident)'
  BY <1>1, <1>4, <1>5, <1>6 DEF DispatchInv, NoNewSends
<1>9. \A i \in Incidents, e \in Events :
         \/ dispatched'[<<e, i>>] = dispatched[<<e, i>>]
         \/ e = t.event /\ i = t.incident /\ dispatched'[<<e, i>>] = dispatched[<<e, i>>] + 1
  BY <1>0 DEF SendMail, Announcements
<1>10. dispatched[<<t.event, t.incident>>] = 0
  BY <1>1, <1>4 DEF DispatchInv
<1>11. Notified(t.incident, t.event)
  BY <1>1, <1>4 DEF DispatchInv
<1>12. \A i \in Incidents, e \in Events :
          /\ dispatched'[<<e, i>>] \in {0, 1}
          /\ dispatched'[<<e, i>>] = 1 =>
                 Notified(i, e)' /\ \A l \in Jobs : ~Sends(l, e, i)'
  <2> SUFFICES ASSUME NEW i \in Incidents, NEW e \in Events
               PROVE  /\ dispatched'[<<e, i>>] \in {0, 1}
                      /\ dispatched'[<<e, i>>] = 1 =>
                             Notified(i, e)' /\ \A l \in Jobs : ~Sends(l, e, i)'
    OBVIOUS
  <2>1. CASE dispatched'[<<e, i>>] = dispatched[<<e, i>>]
    BY <1>6, <1>7, <2>1 DEF DispatchInv, NoNewSends
  <2>2. CASE e = t.event /\ i = t.incident /\ dispatched'[<<e, i>>] = dispatched[<<e, i>>] + 1
    BY <1>7, <1>8, <1>10, <1>11, <2>2
  <2> QED BY <1>9, <2>1, <2>2
<1> QED BY <1>2, <1>6, <1>7, <1>12 DEF DispatchInv, NoNewSends

LEMMA DispatchStep == TypeInv /\ DispatchInv /\ [Next]_vars => DispatchInv'
<1> SUFFICES ASSUME TypeInv, DispatchInv, [Next]_vars
             PROVE  DispatchInv'
  OBVIOUS
<1>1. ASSUME NEW k \in Jobs, Transition(k)
      PROVE  DispatchInv'
  <2>1. JobsOK /\ incident \in [Incidents -> Incident]
    BY TypeParts DEF DocumentsOK
  <2>2. UNCHANGED dispatched
    BY <1>1, TransitionUnchanged DEF ledger
  <2> QED BY <1>1, <2>1, <2>2, TransitionTasks, TransitionFlags, FewerTasks,
             QuietParts, QuietStep
<1>2. ASSUME NEW k \in Jobs, JobStep(k)
      PROVE  DispatchInv'
  BY <1>1, <1>2, JobMemoryQuiet, QuietStep, ClaimDispatchStep, SendMailStep
     DEF JobStep, Transition
<1>3. ASSUME NEW k \in Jobs, JobFault(k)
      PROVE  DispatchInv'
  BY <1>3, JobMemoryQuiet, QuietStep DEF JobFault
<1>4. CASE UNCHANGED vars
  BY <1>4, FewerTasks, SameFlags, QuietParts, QuietStep DEF vars
<1> QED BY <1>2, <1>3, <1>4, JobMemoryQuiet, OutsideQuiet, QuietStep DEF Next

\* An announcement is dispatched at most once, by whichever job wins the
\* claim on the incident's flag.
THEOREM DispatchOnceAlways == Spec => []DispatchOnce
<1>1. Init => DispatchInv
  BY DEF Init, DispatchInv, UnusedIncident, Notified, Announcements, Sends, IdleJob
<1>2. DispatchInv => DispatchOnce
  BY DEF DispatchInv, DispatchOnce, Announcements
<1> QED BY <1>1, <1>2, DispatchStep, InitTypeInv, NextTypes, PTL DEF Spec

-----------------------------------------------------------------------------
(* An incident closed by a person.                                         *)

\* Job k believes it ended incident i, or is about to announce an end of it.
Ends(k, i) ==
    \/ job[k].recovered = i
    \/ job[k].restored = i
    \/ \E t \in job[k].tasks : t.incident = i /\ t.event \in Endings

\* The incidents no job has ended: those not closed yet, and those a person
\* closed.
NotEnded(i) == incident[i].state \in {"unused", "open"} \/ incident[i].byHand

\* No end of such an incident was sent, and no job has one to send.  Only a
\* closed incident was closed by a person, or opening it would lift the claim.
Silent ==
    \A i \in Incidents : NotEnded(i) =>
        /\ \A k \in Jobs : ~Ends(k, i)
        /\ \A e \in Endings : dispatched[<<e, i>>] = 0

ClosedFirst ==
    \A i \in Incidents : incident[i].byHand =>
        incident[i].state \notin {"unused", "open"}

ClosedInv == Silent /\ ClosedFirst

\* A step that makes a job end nothing but an incident that is ended by it.
OnlyEndsItsOwn ==
    \A l \in Jobs, i \in Incidents : Ends(l, i)' => Ends(l, i) \/ ~NotEnded(i)'

\* An ended incident stays so.
StayEnded == \A i \in Incidents : NotEnded(i)' => NotEnded(i)

LEMMA QuietEnding ==
    ASSUME ClosedInv, OnlyEndsItsOwn, StayEnded, ClosedFirst', UNCHANGED dispatched
    PROVE  ClosedInv'
BY DEF ClosedInv, Silent, OnlyEndsItsOwn, StayEnded

LEMMA IncidentsUntouched ==
    ASSUME ClosedInv, UNCHANGED incident
    PROVE  StayEnded /\ ClosedFirst'
BY DEF ClosedInv, ClosedFirst, StayEnded, NotEnded

\* Only the end of an incident this job ended is among its announcements.
LEMMA EndingTasks ==
    ASSUME NEW j, NEW t \in TasksOf(j), t.event \in Endings
    PROVE  t.incident = j.recovered \/ t.incident = j.restored
<1>1. \A e, i : \A u \in Parts(e, i) : u.event = e /\ u.incident = i
  BY DEF Parts
<1> QED BY <1>1 DEF TasksOf, Endings

\* The steps of a job that change no incident and dispatch nothing.
LEMMA MemoryStep ==
    ASSUME TypeInv, ClosedInv, NEW k \in Jobs,
           \/ \E w \in Websites : Claim(k, w)
           \/ \E o \in Outcomes, detecting \in DetectionReads : Check(k, o, detecting)
           \/ SaveWebsite(k)
           \/ \E t \in job[k].tasks : Publish(k, t) \/ AnnouncementFails(k, t)
           \/ FinishAnnouncing(k) \/ Release(k)
           \/ PipelineFails(k) \/ ReleaseFails(k) \/ Crash(k)
    PROVE  ClosedInv'
<1>0. job \in [Jobs -> Job]
  BY TypeParts DEF JobsOK
<1>1. UNCHANGED <<incident, dispatched>>
  BY DEF Claim, Check, SaveWebsite, Publish, AnnouncementFails, FinishAnnouncing,
         Release, PipelineFails, ReleaseFails, Crash, ledger
<1>2. ASSUME \A l \in Jobs \ {k} : job'[l] = job[l],
             job'[k].recovered \in {job[k].recovered, None},
             job'[k].restored \in {job[k].restored, None},
             \A t \in job'[k].tasks : t.event \in Endings =>
                 t \in job[k].tasks \/ t.incident \in {job[k].recovered, job[k].restored}
      PROVE  ClosedInv'
  <2>1. OnlyEndsItsOwn
    BY <1>2, ConstantsAssumption DEF OnlyEndsItsOwn, Ends
  <2> QED BY <1>1, <2>1, IncidentsUntouched, QuietEnding
<1>3. ASSUME NEW w \in Websites, Claim(k, w)
      PROVE  ClosedInv'
  <2>1. job'[k] = [IdleJob EXCEPT !.pc = "check", !.site = w, !.streaks = website[w].streaks,
                                  !.outage = website[w].outage, !.slowdown = website[w].slowdown]
    BY <1>0, <1>3 DEF Claim
  <2>2. job'[k].recovered = None /\ job'[k].restored = None /\ job'[k].tasks = {}
    BY <2>1 DEF IdleJob
  <2> QED BY <1>0, <1>2, <1>3, <2>2 DEF Claim
<1>4. ASSUME NEW o \in Outcomes, NEW detecting \in DetectionReads, Check(k, o, detecting)
      PROVE  ClosedInv'
  <2>1. job'[k] = [job[k] EXCEPT !.pc = "outage", !.outcome = o,
                     !.detecting = detecting,
                     !.streaks = NextStreaks(job[k].streaks, o, detecting)]
    BY <1>0, <1>4 DEF Check
  <2>2. /\ job'[k].recovered = job[k].recovered
        /\ job'[k].restored = job[k].restored
        /\ job'[k].tasks = job[k].tasks
    BY <1>0, <2>1 DEF Job
  <2> QED BY <1>0, <1>2, <1>4, <2>2 DEF Check
<1>5. CASE SaveWebsite(k)
  <2>1. job' = [job EXCEPT ![k] = Announcing(job[k])]
    BY <1>5 DEF SaveWebsite
  <2>2. /\ Announcing(job[k]).recovered = job[k].recovered
        /\ Announcing(job[k]).restored = job[k].restored
        /\ Announcing(job[k]).tasks = TasksOf(job[k])
    BY DEF Announcing, IdleJob
  <2> QED BY <1>0, <1>2, <2>1, <2>2, EndingTasks
<1>6. ASSUME NEW t \in job[k].tasks, Publish(k, t) \/ AnnouncementFails(k, t)
      PROVE  ClosedInv'
  <2>1. job' = [job EXCEPT ![k].tasks = @ \ {t}]
    BY <1>6 DEF Publish, AnnouncementFails
  <2>2. /\ job'[k].recovered = job[k].recovered
        /\ job'[k].restored = job[k].restored
        /\ job'[k].tasks = job[k].tasks \ {t}
    BY <1>0, <2>1 DEF Job
  <2> QED BY <1>0, <1>2, <2>1, <2>2
<1>7. CASE FinishAnnouncing(k) \/ PipelineFails(k)
  <2>1. job' = Finally(k)
    BY <1>7 DEF FinishAnnouncing, PipelineFails
  <2>2. job'[k].recovered = None /\ job'[k].restored = None /\ job'[k].tasks = {}
    BY <1>0, <2>1 DEF Finally, IdleJob
  <2> QED BY <1>0, <1>2, <2>1, <2>2 DEF Finally
<1>8. CASE Release(k) \/ ReleaseFails(k) \/ Crash(k)
  <2>1. job' = [job EXCEPT ![k] = IdleJob]
    BY <1>8 DEF Release, ReleaseFails, Crash
  <2>2. job'[k].recovered = None /\ job'[k].restored = None /\ job'[k].tasks = {}
    BY <1>0, <2>1 DEF IdleJob
  <2> QED BY <1>0, <1>2, <2>1, <2>2
<1> QED BY <1>3, <1>4, <1>5, <1>6, <1>7, <1>8

\* A transition that ends an incident wins the update conditioned on it being
\* open, so no person closed it.
LEMMA TransitionEnds ==
    ASSUME TypeInv, ClosedInv, NEW k \in Jobs, Transition(k)
    PROVE  ClosedInv'
<1>0. job \in [Jobs -> Job] /\ JobsOK /\ incident \in [Incidents -> Incident]
  BY TypeParts DEF JobsOK, DocumentsOK
<1>1. /\ UNCHANGED dispatched
      /\ \A l \in Jobs \ {k} : job'[l] = job[l]
      /\ \A l \in Jobs : job'[l].tasks = job[l].tasks
  BY <1>0, TransitionUnchanged, OthersUntouched, TransitionTasks DEF ledger
<1>2. ASSUME UNCHANGED incident,
             job'[k].recovered \in {job[k].recovered, None},
             job'[k].restored \in {job[k].restored, None}
      PROVE  ClosedInv'
  <2>1. OnlyEndsItsOwn
    BY <1>1, <1>2, ConstantsAssumption DEF OnlyEndsItsOwn, Ends
  <2> QED BY <1>1, <1>2, <2>1, IncidentsUntouched, QuietEnding
<1>3. ASSUME NEW x \in Incidents, NEW v, NEW d, incident[x].state = "unused",
             incident' = [incident EXCEPT ![x] = OpenIncident(v, d)],
             job'[k].recovered = job[k].recovered, job'[k].restored = job[k].restored
      PROVE  ClosedInv'
  <2>1. OpenIncident(v, d).state = "open" /\ ~OpenIncident(v, d).byHand
    BY DEF OpenIncident, UnusedIncident
  <2>2. incident'[x] = OpenIncident(v, d) /\ \A i \in Incidents \ {x} : incident'[i] = incident[i]
    BY <1>0, <1>3
  <2>3. StayEnded /\ ClosedFirst'
    BY <1>3, <2>1, <2>2 DEF StayEnded, NotEnded, ClosedInv, ClosedFirst
  <2>4. OnlyEndsItsOwn
    BY <1>1, <1>3 DEF OnlyEndsItsOwn, Ends
  <2> QED BY <1>1, <2>3, <2>4, QuietEnding
<1>4. ASSUME NEW x \in Incidents, incident[x].state = "open", incident' = Close(x),
             job'[k].recovered \in {job[k].recovered, x, None},
             job'[k].restored \in {job[k].restored, x, None}
      PROVE  ClosedInv'
  <2>1. ~incident[x].byHand
    BY <1>4 DEF ClosedInv, ClosedFirst
  <2>2. incident'[x].state = "resolved" /\ ~incident'[x].byHand
    BY <1>0, <1>4, <2>1 DEF Close, Incident
  <2>3. \A i \in Incidents \ {x} : incident'[i] = incident[i]
    BY <1>0, <1>4 DEF Close
  <2>4. StayEnded /\ ClosedFirst'
    BY <2>2, <2>3 DEF StayEnded, NotEnded, ClosedInv, ClosedFirst
  <2>5. OnlyEndsItsOwn
    BY <1>1, <1>4, <2>2, ConstantsAssumption DEF OnlyEndsItsOwn, Ends, NotEnded
  <2> QED BY <1>1, <2>4, <2>5, QuietEnding
<1>5. CASE KeepOutage(k) \/ OutageAlreadyOpen(k) \/ SlowdownAlreadyOpen(k)
  BY <1>0, <1>2, <1>5 DEF KeepOutage, OutageAlreadyOpen, SlowdownAlreadyOpen, Job
<1>6. CASE KeepSlowdown(k)
  <2>1. job'[k].recovered = job[k].recovered /\ job'[k].restored = job[k].restored
    BY <1>0, <1>6 DEF KeepSlowdown, Job
  <2> QED BY <1>2, <1>6, <2>1 DEF KeepSlowdown
<1>7. ASSUME NEW i \in Incidents \cup {None}, AdoptOutage(k, i) \/ AdoptSlowdown(k, i)
      PROVE  ClosedInv'
  <2>1. job'[k].recovered = job[k].recovered /\ job'[k].restored = job[k].restored
    BY <1>0, <1>7 DEF AdoptOutage, AdoptSlowdown, Job
  <2> QED BY <1>2, <1>7, <2>1 DEF AdoptOutage, AdoptSlowdown
<1>8. ASSUME NEW i \in Incidents, OpenOutage(k, i)
      PROVE  ClosedInv'
  <2>1. job'[k].recovered = job[k].recovered /\ job'[k].restored = job[k].restored
    BY <1>0, <1>8 DEF OpenOutage, Job
  <2> QED BY <1>3, <1>8, <2>1 DEF OpenOutage
<1>9. ASSUME NEW i \in Incidents, OpenSlowdown(k, i)
      PROVE  ClosedInv'
  <2>1. job'[k].recovered = job[k].recovered /\ job'[k].restored = job[k].restored
    BY <1>0, <1>9 DEF OpenSlowdown, Job
  <2> QED BY <1>3, <1>9, <2>1 DEF OpenSlowdown
<1>10. CASE ResolveOutage(k)
  <2> DEFINE i == job[k].outage
             won == incident[i].state = "open"
  <2>1. i \in Incidents
    BY <1>0, <1>10, JobFields DEF ResolveOutage, OutageTransition, DecideIncidentTransition
  <2>2. /\ job'[k].recovered = IF won THEN i ELSE None
        /\ job'[k].restored = job[k].restored
    BY <1>0, <1>10 DEF ResolveOutage, Job
  <2>3. incident' = IF won THEN Close(i) ELSE incident
    BY <1>10 DEF ResolveOutage
  <2> HIDE DEF i
  <2> QED BY <1>2, <1>4, <2>1, <2>2, <2>3
<1>11. CASE CloseSlowdown(k)
  <2> DEFINE i == job[k].slowdown
             won == i # None /\ incident[i].state = "open"
  <2>1. i \in Incidents \cup {None}
    BY <1>0, JobFields
  <2>2. /\ job'[k].restored = IF won /\ job[k].detecting THEN i ELSE None
        /\ job'[k].recovered = job[k].recovered
    BY <1>0, <1>11 DEF CloseSlowdown, Job
  <2>3. incident' = IF won THEN Close(i) ELSE incident
    BY <1>11 DEF CloseSlowdown
  <2> HIDE DEF i
  <2> QED BY <1>2, <1>4, <2>1, <2>2, <2>3
<1> QED BY <1>5, <1>6, <1>7, <1>8, <1>9, <1>10, <1>11 DEF Transition

\* Claiming a dispatch turns a task into another of the same announcement.
LEMMA ClaimDispatchEnds ==
    ASSUME TypeInv, ClosedInv, NEW k \in Jobs, NEW t \in job[k].tasks,
           ClaimDispatch(k, t)
    PROVE  ClosedInv'
<1>0. job \in [Jobs -> Job] /\ incident \in [Incidents -> Incident]
  BY TypeParts DEF JobsOK, DocumentsOK
<1> DEFINE sending == [t EXCEPT !.part = "send"]
<1>1. t \in Tasks /\ t.incident \in Incidents
  BY JobFields, TypeParts DEF Tasks
<1>2. sending.event = t.event /\ sending.incident = t.incident
  BY <1>1 DEF Tasks
<1>3. /\ job'[k].tasks \subseteq job[k].tasks \cup {sending}
      /\ job'[k].recovered = job[k].recovered
      /\ job'[k].restored = job[k].restored
      /\ \A l \in Jobs \ {k} : job'[l] = job[l]
  BY <1>0 DEF ClaimDispatch, Job
<1> HIDE DEF sending
<1>4. OnlyEndsItsOwn
  BY <1>2, <1>3 DEF OnlyEndsItsOwn, Ends
<1>5. \A i \in Incidents : /\ incident'[i].state = incident[i].state
                           /\ incident'[i].byHand = incident[i].byHand
  BY <1>0, <1>1 DEF ClaimDispatch, MarkNotified, Incident
<1>6. StayEnded /\ ClosedFirst'
  BY <1>5 DEF StayEnded, NotEnded, ClosedInv, ClosedFirst
<1> QED BY <1>4, <1>6, QuietEnding DEF ClaimDispatch, ledger

\* What is sent is the end of an incident some job ended.
LEMMA SendMailEnds ==
    ASSUME TypeInv, ClosedInv, NEW k \in Jobs, NEW t \in job[k].tasks,
           SendMail(k, t)
    PROVE  ClosedInv'
<1>0. job \in [Jobs -> Job] /\ dispatched \in [Announcements -> Nat]
  BY TypeParts DEF JobsOK, LedgersOK
<1>1. /\ job'[k].tasks = job[k].tasks \ {t}
      /\ job'[k].recovered = job[k].recovered
      /\ job'[k].restored = job[k].restored
      /\ \A l \in Jobs \ {k} : job'[l] = job[l]
  BY <1>0 DEF SendMail, Job
<1>2. OnlyEndsItsOwn
  BY <1>1 DEF OnlyEndsItsOwn, Ends
<1>3. UNCHANGED incident
  BY DEF SendMail
<1>4. StayEnded /\ ClosedFirst'
  BY <1>3, IncidentsUntouched
<1>5. \A i \in Incidents, e \in Endings :
         dispatched'[<<e, i>>] = dispatched[<<e, i>>] \/ (e = t.event /\ i = t.incident)
  BY <1>0 DEF SendMail, Announcements, Events, Endings
<1>6. \A i \in Incidents, e \in Endings : NotEnded(i) /\ i = t.incident => e # t.event
  BY DEF ClosedInv, Silent, Ends
<1>7. Silent'
  BY <1>2, <1>4, <1>5, <1>6 DEF Silent, ClosedInv, OnlyEndsItsOwn, StayEnded
<1> QED BY <1>4, <1>7 DEF ClosedInv

\* A person closes an open incident, which no job has ended.
LEMMA OutsideEnds ==
    ASSUME TypeInv, ClosedInv,
           Api \/ \E w \in Websites : BecomeDue(w) \/ LeaseExpires(w)
    PROVE  ClosedInv'
<1>0. incident \in [Incidents -> Incident]
  BY TypeParts DEF DocumentsOK
<1>1. ASSUME UNCHANGED <<job, dispatched>>, StayEnded, ClosedFirst'
      PROVE  ClosedInv'
  BY <1>1, QuietEnding DEF OnlyEndsItsOwn, Ends
<1>2. ASSUME NEW w \in Websites,
             \/ BecomeDue(w) \/ LeaseExpires(w)
             \/ \E enabled \in BOOLEAN : SetEnabled(w, enabled)
             \/ ReadForUrlChange(w) \/ WriteUrlChange(w) \/ DeleteWebsite(w)
      PROVE  ClosedInv'
  BY <1>1, <1>2, IncidentsUntouched
     DEF BecomeDue, LeaseExpires, SetEnabled, ReadForUrlChange, WriteUrlChange,
         DeleteWebsite, ledger
<1>3. ASSUME NEW w \in Websites, DeleteIncidents(w)
      PROVE  ClosedInv'
  <2>1. \A i \in Incidents : \/ incident'[i] = incident[i]
                             \/ /\ incident'[i].state = "deleted"
                                /\ incident'[i].byHand = incident[i].byHand
    BY <1>0, <1>3 DEF DeleteIncidents, Incident
  <2>2. StayEnded /\ ClosedFirst'
    BY <2>1 DEF StayEnded, NotEnded, ClosedInv, ClosedFirst
  <2> QED BY <1>1, <1>3, <2>2 DEF DeleteIncidents, ledger
<1>4. ASSUME NEW i \in Incidents, ResolveManually(i)
      PROVE  ClosedInv'
  <2>1. incident'[i].state = "resolved" /\ \A x \in Incidents \ {i} : incident'[x] = incident[x]
    BY <1>0, <1>4 DEF ResolveManually, Incident
  <2>2. incident[i].state = "open" /\ UNCHANGED <<job, dispatched>>
    BY <1>4 DEF ResolveManually
  <2>3. StayEnded /\ ClosedFirst'
    BY <2>1, <2>2 DEF StayEnded, NotEnded, ClosedInv, ClosedFirst
  <2> QED BY <1>1, <2>2, <2>3
<1> QED BY <1>2, <1>3, <1>4 DEF Api

LEMMA ClosedStep == TypeInv /\ ClosedInv /\ [Next]_vars => ClosedInv'
<1> SUFFICES ASSUME TypeInv, ClosedInv, [Next]_vars
             PROVE  ClosedInv'
  OBVIOUS
<1>1. CASE UNCHANGED vars
  BY <1>1, IncidentsUntouched, QuietEnding DEF vars, OnlyEndsItsOwn, Ends
<1>2. ASSUME NEW k \in Jobs, JobStep(k)
      PROVE  ClosedInv'
  BY <1>2, MemoryStep, TransitionEnds, ClaimDispatchEnds, SendMailEnds
     DEF JobStep, Transition
<1>3. ASSUME NEW k \in Jobs, JobFault(k)
      PROVE  ClosedInv'
  BY <1>3, MemoryStep DEF JobFault
<1> QED BY <1>1, <1>2, <1>3, MemoryStep, OutsideEnds DEF Next

LEMMA ClosedInit == Init => ClosedInv
BY ConstantsAssumption
   DEF Init, ClosedInv, Silent, ClosedFirst, NotEnded, Ends, UnusedIncident, IdleJob,
       Announcements, Events, Endings

\* An incident a person closed is never announced as recovered or restored,
\* whatever job was about to resolve it: only the one whose conditional update
\* closed it announces its end.
THEOREM ClosedByHandIsNotAnnouncedAlways == Spec => []ClosedByHandIsNotAnnounced
<1>1. Init => ClosedInv
  BY ClosedInit
<1>2. ClosedInv => ClosedByHandIsNotAnnounced
  BY DEF ClosedInv, Silent, NotEnded, ClosedByHandIsNotAnnounced
<1> QED BY <1>1, <1>2, ClosedStep, InitTypeInv, NextTypes, PTL DEF Spec

=============================================================================
