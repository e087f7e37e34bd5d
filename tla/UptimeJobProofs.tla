-------------------------- MODULE UptimeJobProofs ---------------------------
(***************************************************************************)
(* Proofs about the uptime pipeline as long as no lease expires under a live *)
(* job, for every value of the other constants: jobs exclude each other, and *)
(* what follows from that.  Transitions are confirmed, announcements of one *)
(* incident go out in order, a website mirrors its open incidents, and no  *)
(* slowdown is opened during an outage.                                    *)
(***************************************************************************)
EXTENDS UptimeMonitoringProofs

-----------------------------------------------------------------------------
(* One job per website.                                                    *)

\* A website that exists and is worked on is held, so nobody else claims it.
HeldByWorker ==
    \A k \in Jobs, w \in Websites :
        Working(k, w) /\ website[w].exists => website[w].lease = "held"

ExclusiveInv == HeldByWorker /\ ExclusiveJob

\* A step that starts no job, and revives or releases no website.
NoNewWork ==
    \A l \in Jobs : job'[l].pc # "idle" => /\ job[l].pc # "idle"
                                           /\ job'[l].site = job[l].site

LeasesKept ==
    \A w \in Websites : website'[w].exists => /\ website[w].exists
                                              /\ website'[w].lease = website[w].lease

LEMMA SteadyStep ==
    ASSUME ExclusiveInv, NoNewWork, LeasesKept
    PROVE  ExclusiveInv'
BY DEF ExclusiveInv, HeldByWorker, ExclusiveJob, Working, NoNewWork, LeasesKept

\* A step of one job that leaves the others alone.
LEMMA OneJobSteps ==
    ASSUME NEW k \in Jobs, \A l \in Jobs \ {k} : job'[l] = job[l],
           job'[k].pc # "idle" => job[k].pc # "idle" /\ job'[k].site = job[k].site
    PROVE  NoNewWork
BY DEF NoNewWork

\* A transition moves the job on, on the same website.
LEMMA TransitionSite ==
    ASSUME JobsOK, NEW k \in Jobs, Transition(k)
    PROVE  job[k].pc # "idle" /\ job'[k].site = job[k].site
<1>0. job \in [Jobs -> Job]
  BY DEF JobsOK
<1>1. CASE KeepOutage(k) \/ OutageAlreadyOpen(k) \/ SlowdownAlreadyOpen(k)
  BY <1>0, <1>1 DEF KeepOutage, OutageAlreadyOpen, SlowdownAlreadyOpen, Job
<1>2. ASSUME NEW i \in Incidents, OpenOutage(k, i) \/ OpenSlowdown(k, i)
      PROVE  job[k].pc # "idle" /\ job'[k].site = job[k].site
  BY <1>0, <1>2 DEF OpenOutage, OpenSlowdown, Job
<1>3. ASSUME NEW i \in Incidents \cup {None}, AdoptOutage(k, i) \/ AdoptSlowdown(k, i)
      PROVE  job[k].pc # "idle" /\ job'[k].site = job[k].site
  BY <1>0, <1>3 DEF AdoptOutage, AdoptSlowdown, Job
<1>4. CASE ResolveOutage(k)
  BY <1>0, <1>4 DEF ResolveOutage, Job
<1>5. CASE KeepSlowdown(k)
  BY <1>0, <1>5 DEF KeepSlowdown, Job
<1>6. CASE CloseSlowdown(k)
  BY <1>0, <1>6 DEF CloseSlowdown, Job
<1> QED BY <1>1, <1>2, <1>3, <1>4, <1>5, <1>6 DEF Transition

\* Everything a job does after its claim but the release, faults included.
LEMMA WorkStep ==
    ASSUME TypeInv, ExclusiveInv, NEW k \in Jobs,
           JobStep(k) \/ JobFault(k), ~Release(k)
    PROVE  ExclusiveInv'
<1>0. job \in [Jobs -> Job] /\ JobsOK /\ website \in [Websites -> Website]
  BY TypeParts DEF JobsOK, DocumentsOK
<1>1. ASSUME NEW o \in Outcomes, NEW detecting \in DetectionReads,
             Check(k, o, detecting)
      PROVE  ExclusiveInv'
  <2>1. job'[k].site = job[k].site
    BY <1>0, <1>1 DEF Check, Job
  <2>2. \A l \in Jobs \ {k} : job'[l] = job[l]
    BY <1>0, <1>1 DEF Check
  <2> QED BY <1>1, <2>1, <2>2, OneJobSteps, SteadyStep DEF Check, LeasesKept
<1>2. CASE Transition(k)
  <2>1. UNCHANGED website
    BY <1>2, TransitionUnchanged
  <2>2. \A l \in Jobs \ {k} : job'[l] = job[l]
    BY <1>0, <1>2, OthersUntouched
  <2>3. job[k].pc # "idle" /\ job'[k].site = job[k].site
    BY <1>0, <1>2, TransitionSite
  <2> QED BY <2>1, <2>2, <2>3, OneJobSteps, SteadyStep DEF LeasesKept
<1>3. CASE SaveWebsite(k)
  <2>1. job'[k] = Announcing(job[k])
    BY <1>0, <1>3 DEF SaveWebsite
  <2>2. Announcing(job[k]).site = job[k].site
    BY DEF Announcing, IdleJob
  <2>3. \A l \in Jobs \ {k} : job'[l] = job[l]
    BY <1>0, <1>3 DEF SaveWebsite
  <2>4. \A doc \in Website : /\ Saved(doc, job[k]).exists = doc.exists
                             /\ Saved(doc, job[k]).lease = doc.lease
    BY DEF Saved, Website
  <2>5. LeasesKept
    BY <1>0, <1>3, <2>4 DEF SaveWebsite, LeasesKept
  <2> QED BY <1>3, <2>1, <2>2, <2>3, <2>5, OneJobSteps, SteadyStep DEF SaveWebsite
<1>4. ASSUME NEW t \in job[k].tasks,
             \/ ClaimDispatch(k, t)
             \/ SendMail(k, t)
             \/ Publish(k, t)
             \/ AnnouncementFails(k, t)
      PROVE  ExclusiveInv'
  <2>1. UNCHANGED website
    BY <1>4 DEF ClaimDispatch, SendMail, Publish, AnnouncementFails
  <2>2. job[k].pc # "idle"
    BY <1>4 DEF ClaimDispatch, SendMail, Publish, AnnouncementFails, Ready
  <2>3. PICK tasks : job' = [job EXCEPT ![k].tasks = tasks]
    BY <1>4 DEF ClaimDispatch, SendMail, Publish, AnnouncementFails
  <2>4. job'[k].site = job[k].site /\ \A l \in Jobs \ {k} : job'[l] = job[l]
    BY <1>0, <2>3 DEF Job
  <2> QED BY <2>1, <2>2, <2>4, OneJobSteps, SteadyStep DEF LeasesKept
<1>5. CASE FinishAnnouncing(k) \/ PipelineFails(k)
  <2>1. job' = Finally(k) /\ UNCHANGED website /\ job[k].pc # "idle"
    BY <1>5 DEF FinishAnnouncing, PipelineFails
  <2>2. job'[k].site = job[k].site /\ \A l \in Jobs \ {k} : job'[l] = job[l]
    BY <1>0, <2>1 DEF Finally, IdleJob
  <2> QED BY <2>1, <2>2, OneJobSteps, SteadyStep DEF LeasesKept
<1>6. CASE ReleaseFails(k) \/ Crash(k)
  <2>1. job' = [job EXCEPT ![k] = IdleJob] /\ UNCHANGED website
    BY <1>6 DEF ReleaseFails, Crash
  <2>2. job'[k].pc = "idle" /\ \A l \in Jobs \ {k} : job'[l] = job[l]
    BY <1>0, <2>1 DEF IdleJob
  <2> QED BY <2>1, <2>2, OneJobSteps, SteadyStep DEF LeasesKept
<1> QED BY <1>1, <1>2, <1>3, <1>4, <1>5, <1>6 DEF JobStep, JobFault, Transition

\* Claiming takes a lease that is not held, so nobody works on the website.
LEMMA ClaimExclusive ==
    ASSUME TypeInv, ExclusiveInv, NEW k \in Jobs, NEW w \in Websites, Claim(k, w)
    PROVE  ExclusiveInv'
<1>0. job \in [Jobs -> Job] /\ website \in [Websites -> Website]
  BY TypeParts DEF JobsOK, DocumentsOK
<1>1. Idle(w)
  BY DEF Claim, Claimable, Idle, ExclusiveInv, HeldByWorker
<1>2. job'[k].site = w /\ \A l \in Jobs \ {k} : job'[l] = job[l]
  <2>1. job'[k] = [IdleJob EXCEPT !.pc = "check", !.site = w, !.streaks = website[w].streaks,
                                  !.outage = website[w].outage, !.slowdown = website[w].slowdown]
    BY <1>0 DEF Claim
  <2> QED BY <1>0, <2>1 DEF Claim, IdleJob
<1>3. website'[w].lease = "held" /\ \A v \in Websites \ {w} : website'[v] = website[v]
  BY <1>0 DEF Claim, Website
<1>4. HeldByWorker'
  <2> SUFFICES ASSUME NEW l \in Jobs, NEW v \in Websites, Working(l, v)', website'[v].exists,
                      v # w
               PROVE  website'[v].lease = "held"
    BY <1>3 DEF HeldByWorker
  <2>1. l # k
    BY <1>2 DEF Working
  <2> QED BY <1>2, <1>3, <2>1 DEF ExclusiveInv, HeldByWorker, Working
<1>5. ExclusiveJob'
  BY <1>1, <1>2 DEF ExclusiveInv, ExclusiveJob, Idle, Working
<1> QED BY <1>4, <1>5 DEF ExclusiveInv

\* The release frees whatever lease the website has: its own, since nobody
\* else works on the website.
LEMMA ReleaseExclusive ==
    ASSUME TypeInv, ExclusiveInv, NEW k \in Jobs, Release(k)
    PROVE  ExclusiveInv'
<1>0. job \in [Jobs -> Job] /\ website \in [Websites -> Website]
  BY TypeParts DEF JobsOK, DocumentsOK
<1> PICK w \in Websites : w = job[k].site
  BY TypeParts, JobFields DEF Release
<1>1. job'[k].pc = "idle" /\ \A l \in Jobs \ {k} : job'[l] = job[l]
  BY <1>0 DEF Release, IdleJob
<1>2. NoNewWork
  BY <1>1, OneJobSteps
<1>3. \A v \in Websites \ {w} : website'[v] = website[v]
  BY <1>0 DEF Release, FreeLease
<1>4. website'[w].exists = website[w].exists
  BY <1>0 DEF Release, FreeLease, Website
<1>5. \A l \in Jobs : ~Working(l, w)'
  <2> SUFFICES ASSUME NEW l \in Jobs, job'[l].pc # "idle", job'[l].site = w
               PROVE  FALSE
    BY DEF Working
  <2>1. l # k /\ job[l].pc # "idle" /\ job[l].site = w
    BY <1>1, <1>2 DEF NoNewWork
  <2> QED BY <2>1 DEF Release, ExclusiveInv, ExclusiveJob
<1>6. HeldByWorker'
  <2> SUFFICES ASSUME NEW l \in Jobs, NEW v \in Websites, Working(l, v)', website'[v].exists
               PROVE  website'[v].lease = "held"
    BY DEF HeldByWorker
  <2>1. v # w
    BY <1>5
  <2>2. Working(l, v) /\ website'[v] = website[v]
    BY <1>2, <1>3, <2>1 DEF Working, NoNewWork
  <2> QED BY <2>2 DEF HeldByWorker, ExclusiveInv
<1>7. ExclusiveJob'
  BY <1>2 DEF NoNewWork, ExclusiveInv, ExclusiveJob
<1> QED BY <1>6, <1>7 DEF ExclusiveInv

\* The API writes a website without looking at its lease, or deletes it.
LEMMA OutsideExclusive ==
    ASSUME LeaseOutlivesJob, TypeInv, ExclusiveInv,
           Api \/ \E w \in Websites : BecomeDue(w) \/ LeaseExpires(w)
    PROVE  ExclusiveInv'
<1>0. website \in [Websites -> Website]
  BY TypeParts DEF DocumentsOK
<1>1. ASSUME UNCHANGED job, LeasesKept
      PROVE  ExclusiveInv'
  BY <1>1, SteadyStep DEF NoNewWork
<1>2. ASSUME NEW w \in Websites, LeaseExpires(w)
      PROVE  ExclusiveInv'
  <2>1. Idle(w) /\ UNCHANGED job /\ \A v \in Websites \ {w} : website'[v] = website[v]
    BY <1>0, <1>2 DEF LeaseExpires
  <2> QED BY <2>1 DEF Idle, Working, ExclusiveInv, HeldByWorker, ExclusiveJob
<1>3. ASSUME NEW w \in Websites, BecomeDue(w)
      PROVE  ExclusiveInv'
  BY <1>0, <1>1, <1>3 DEF BecomeDue, LeasesKept, Website
<1>4. ASSUME NEW w \in Websites, NEW enabled \in BOOLEAN, SetEnabled(w, enabled)
      PROVE  ExclusiveInv'
  <2>1. \A v \in Websites : /\ website'[v].exists = website[v].exists
                            /\ website'[v].lease = website[v].lease
    BY <1>0, <1>4 DEF SetEnabled, Website
  <2> QED BY <1>1, <1>4, <2>1 DEF SetEnabled, LeasesKept
<1>5. ASSUME NEW w \in Websites, WriteUrlChange(w)
      PROVE  ExclusiveInv'
  <2>1. \A v \in Websites : /\ website'[v].exists = website[v].exists
                            /\ website'[v].lease = website[v].lease
    BY <1>0, <1>5 DEF WriteUrlChange, Website
  <2> QED BY <1>1, <1>5, <2>1 DEF WriteUrlChange, LeasesKept
<1>6. ASSUME NEW w \in Websites, DeleteWebsite(w)
      PROVE  ExclusiveInv'
  BY <1>0, <1>1, <1>6 DEF DeleteWebsite, LeasesKept, NewWebsite
<1>7. ASSUME NEW w \in Websites, ReadForUrlChange(w) \/ DeleteIncidents(w)
      PROVE  ExclusiveInv'
  BY <1>1, <1>7 DEF ReadForUrlChange, DeleteIncidents, LeasesKept
<1>8. ASSUME NEW i \in Incidents, ResolveManually(i)
      PROVE  ExclusiveInv'
  BY <1>1, <1>8 DEF ResolveManually, LeasesKept
<1> QED BY <1>2, <1>3, <1>4, <1>5, <1>6, <1>7, <1>8 DEF Api

LEMMA ExclusiveStep ==
    ASSUME LeaseOutlivesJob
    PROVE  TypeInv /\ ExclusiveInv /\ [Next]_vars => ExclusiveInv'
<1> SUFFICES ASSUME TypeInv, ExclusiveInv, [Next]_vars
             PROVE  ExclusiveInv'
  OBVIOUS
<1>1. CASE UNCHANGED vars
  BY <1>1, SteadyStep DEF vars, NoNewWork, LeasesKept
<1>2. ASSUME NEW k \in Jobs, JobStep(k) \/ JobFault(k)
      PROVE  ExclusiveInv'
  BY <1>2, WorkStep, ReleaseExclusive
<1>3. CASE Api \/ \E w \in Websites : BecomeDue(w) \/ LeaseExpires(w)
  BY <1>3, OutsideExclusive
<1> QED BY <1>1, <1>2, <1>3, ClaimExclusive DEF Next

LEMMA ExclusiveInit == Init => ExclusiveInv /\ ExclusiveJob
BY DEF Init, ExclusiveInv, HeldByWorker, ExclusiveJob, Working, IdleJob

\* While leases outlive the jobs they are taken for, no two jobs work on one
\* website: crashes, failed releases and every API call are allowed.
THEOREM ExclusiveJobAlways ==
    ASSUME LeaseOutlivesJob
    PROVE  Spec => []ExclusiveJob
<1>1. Init => ExclusiveInv
  BY ExclusiveInit
<1>2. ExclusiveInv => ExclusiveJob
  BY DEF ExclusiveInv
<1>3. TypeInv /\ ExclusiveInv /\ [Next]_vars => ExclusiveInv'
  BY ExclusiveStep
<1> QED BY <1>1, <1>2, <1>3, InitTypeInv, NextTypes, PTL DEF Spec

-----------------------------------------------------------------------------
(* What a transition does to the memory of its job.                        *)

\* A transition keeps what the job was given: its website, the streaks, the
\* outcome and the announcements; and every other job.
Given(k) ==
    /\ job'[k].site = job[k].site /\ job'[k].streaks = job[k].streaks
    /\ job'[k].outcome = job[k].outcome /\ job'[k].tasks = job[k].tasks
    /\ \A l \in Jobs \ {k} : job'[l] = job[l]

Moves(k, from, to) == job[k].pc = from /\ job'[k].pc = to

SameOutage(k) == /\ job'[k].outage = job[k].outage
                 /\ job'[k].down = job[k].down /\ job'[k].recovered = job[k].recovered

SameSlowdown(k) == /\ job'[k].slowdown = job[k].slowdown
                   /\ job'[k].degraded = job[k].degraded /\ job'[k].restored = job[k].restored

OutageKept(k) ==
    /\ Moves(k, "outage", "slowdown")
    /\ SameOutage(k) /\ SameSlowdown(k) /\ UNCHANGED incident

OutageOpened(k, i) ==
    /\ Moves(k, "outage", "slowdown")
    /\ job[k].outage = None /\ job[k].streaks.failures >= FailureThreshold
    /\ incident[i].state = "unused"
    /\ incident' = [incident EXCEPT ![i] = OpenIncident(job[k].site, "availability")]
    /\ job'[k].outage = i /\ job'[k].down = i /\ job'[k].recovered = job[k].recovered
    /\ SameSlowdown(k)

OutageLost(k) ==
    /\ Moves(k, "outage", "adoptOutage")
    /\ job[k].outage = None /\ OpenFor(job[k].site, "availability") # {}
    /\ SameOutage(k) /\ SameSlowdown(k) /\ UNCHANGED incident

OutageAdopted(k, i) ==
    /\ Moves(k, "adoptOutage", "slowdown")
    /\ i \in Found(job[k].site, "availability")
    /\ job'[k].outage = i /\ job'[k].down = job[k].down /\ job'[k].recovered = job[k].recovered
    /\ SameSlowdown(k) /\ UNCHANGED incident

OutageResolved(k) ==
    /\ Moves(k, "outage", "slowdown")
    /\ job[k].outage \in Incidents /\ job[k].streaks.successes >= RecoveryThreshold
    /\ job'[k].outage = None /\ job'[k].down = job[k].down
    /\ \/ /\ incident[job[k].outage].state = "open"
          /\ incident' = Close(job[k].outage) /\ job'[k].recovered = job[k].outage
       \/ /\ incident[job[k].outage].state # "open"
          /\ UNCHANGED incident /\ job'[k].recovered = None
    /\ SameSlowdown(k)

SlowdownKept(k) ==
    /\ Moves(k, "slowdown", "save")
    /\ \/ job'[k].slowdown = job[k].slowdown
       \/ /\ job[k].slowdown # None /\ incident[job[k].slowdown].state # "open"
          /\ job'[k].slowdown = None
    /\ job'[k].degraded = job[k].degraded /\ job'[k].restored = job[k].restored
    /\ SameOutage(k) /\ UNCHANGED incident

SlowdownOpened(k, i) ==
    /\ Moves(k, "slowdown", "save")
    /\ job[k].slowdown = None /\ job[k].outage = None
    /\ incident[i].state = "unused"
    /\ incident' = [incident EXCEPT ![i] = OpenIncident(job[k].site, "anomaly")]
    /\ job'[k].slowdown = i /\ job'[k].degraded = i /\ job'[k].restored = job[k].restored
    /\ SameOutage(k)

SlowdownLost(k) ==
    /\ Moves(k, "slowdown", "adoptSlowdown")
    /\ job[k].slowdown = None /\ OpenFor(job[k].site, "anomaly") # {}
    /\ SameOutage(k) /\ SameSlowdown(k) /\ UNCHANGED incident

SlowdownAdopted(k, i) ==
    /\ Moves(k, "adoptSlowdown", "save")
    /\ i \in Found(job[k].site, "anomaly")
    /\ job'[k].slowdown = i /\ job'[k].degraded = job[k].degraded
    /\ job'[k].restored = job[k].restored
    /\ SameOutage(k) /\ UNCHANGED incident

SlowdownClosed(k) ==
    /\ Moves(k, "slowdown", "save")
    /\ job'[k].slowdown = None /\ job'[k].degraded = job[k].degraded
    /\ \/ /\ job[k].slowdown \in Incidents /\ incident[job[k].slowdown].state = "open"
          /\ incident' = Close(job[k].slowdown)
          /\ job'[k].restored \in {job[k].slowdown, None}
       \/ /\ job[k].slowdown = None \/ incident[job[k].slowdown].state # "open"
          /\ UNCHANGED incident /\ job'[k].restored = None
    /\ SameOutage(k)

\* The effects of the ten transitions.
LEMMA TransitionEffects ==
    ASSUME JobsOK, NEW k \in Jobs, Transition(k)
    PROVE  /\ Given(k)
           /\ \/ OutageKept(k) \/ OutageLost(k) \/ OutageResolved(k)
              \/ SlowdownKept(k) \/ SlowdownLost(k) \/ SlowdownClosed(k)
              \/ \E i \in Incidents : OutageOpened(k, i) \/ SlowdownOpened(k, i)
              \/ \E i \in Incidents \cup {None} : OutageAdopted(k, i) \/ SlowdownAdopted(k, i)
<1>t. /\ job \in [Jobs -> Job] /\ job[k] \in Job /\ None \notin Incidents
      /\ job[k].outage \in Incidents \cup {None} /\ job[k].slowdown \in Incidents \cup {None}
  BY ConstantsAssumption, JobFields DEF JobsOK
<1>1. CASE KeepOutage(k)
  <2>1. Given(k) /\ OutageKept(k)
    BY <1>1, <1>t DEF KeepOutage, Given, OutageKept, Moves, SameOutage, SameSlowdown, Job
  <2> QED BY <2>1
<1>2. ASSUME NEW i \in Incidents, OpenOutage(k, i) PROVE Given(k) /\ OutageOpened(k, i)
  <2>1. job[k].outage = None /\ job[k].streaks.failures >= FailureThreshold
    BY <1>2 DEF OpenOutage, OutageTransition, DecideIncidentTransition
  <2> QED BY <1>2, <1>t, <2>1 DEF OpenOutage, Given, OutageOpened, Moves, SameSlowdown, Job
<1>3. CASE OutageAlreadyOpen(k)
  <2>1. job[k].outage = None
    BY <1>3 DEF OutageAlreadyOpen, OutageTransition, DecideIncidentTransition
  <2>2. Given(k) /\ OutageLost(k)
    BY <1>3, <1>t, <2>1 DEF OutageAlreadyOpen, IndexAllows, Given, OutageLost, Moves, SameOutage,
                            SameSlowdown, Job
  <2> QED BY <2>2
<1>4. ASSUME NEW i \in Incidents \cup {None}, AdoptOutage(k, i) PROVE Given(k) /\ OutageAdopted(k, i)
  BY <1>4, <1>t DEF AdoptOutage, Given, OutageAdopted, Moves, SameSlowdown, Job
<1>5. CASE ResolveOutage(k)
  <2>1. job[k].outage # None /\ job[k].streaks.successes >= RecoveryThreshold
    BY <1>5 DEF ResolveOutage, OutageTransition, DecideIncidentTransition
  <2>2. Given(k) /\ OutageResolved(k)
    BY <1>5, <1>t, <2>1 DEF ResolveOutage, Given, OutageResolved, Moves, SameSlowdown, Job
  <2> QED BY <2>2
<1>6. CASE KeepSlowdown(k)
  <2>1. SlowdownTransition(k) = "ongoing" => job[k].slowdown # None
    BY DEF SlowdownTransition, DecideAnomalyTransition
  <2>2. Given(k) /\ SlowdownKept(k)
    BY <1>6, <1>t, <2>1 DEF KeepSlowdown, Given, SlowdownKept, Moves, SameOutage, Job
  <2> QED BY <2>2
<1>7. ASSUME NEW i \in Incidents, OpenSlowdown(k, i) PROVE Given(k) /\ SlowdownOpened(k, i)
  <2>1. job[k].slowdown = None /\ job[k].outage = None
    BY <1>7 DEF OpenSlowdown, SlowdownTransition, DecideAnomalyTransition
  <2> QED BY <1>7, <1>t, <2>1 DEF OpenSlowdown, Given, SlowdownOpened, Moves, SameOutage, Job
<1>8. CASE SlowdownAlreadyOpen(k)
  <2>1. job[k].slowdown = None
    BY <1>8 DEF SlowdownAlreadyOpen, SlowdownTransition, DecideAnomalyTransition
  <2>2. Given(k) /\ SlowdownLost(k)
    BY <1>8, <1>t, <2>1 DEF SlowdownAlreadyOpen, IndexAllows, Given, SlowdownLost, Moves,
                            SameOutage, SameSlowdown, Job
  <2> QED BY <2>2
<1>9. ASSUME NEW i \in Incidents \cup {None}, AdoptSlowdown(k, i)
      PROVE  Given(k) /\ SlowdownAdopted(k, i)
  BY <1>9, <1>t DEF AdoptSlowdown, Given, SlowdownAdopted, Moves, SameOutage, Job
<1>10. CASE CloseSlowdown(k)
  <2>1. Given(k) /\ SlowdownClosed(k)
    BY <1>10, <1>t DEF CloseSlowdown, Given, SlowdownClosed, Moves, SameOutage, Job
  <2> QED BY <2>1
<1> QED BY <1>1, <1>2, <1>3, <1>4, <1>5, <1>6, <1>7, <1>8, <1>9, <1>10 DEF Transition

-----------------------------------------------------------------------------
(* What the other steps do.                                                *)

\* The websites keep all that outlives a lease.
WebsitesAlike ==
    \A v \in Websites :
        /\ website'[v].exists = website[v].exists /\ website'[v].status = website[v].status
        /\ website'[v].outage = website[v].outage /\ website'[v].slowdown = website[v].slowdown
        /\ website'[v].streaks = website[v].streaks

\* What a job holds while it concerns no incident that is still to be decided.
Blank(k) == /\ job'[k].outage = None /\ job'[k].slowdown = None
            /\ job'[k].down = None /\ job'[k].degraded = None

LEMMA ClaimEffects ==
    ASSUME TypeInv, NEW k \in Jobs, NEW w \in Websites, Claim(k, w)
    PROVE  /\ Moves(k, "idle", "check") /\ job'[k].site = w /\ website[w].exists
           /\ website[w].lease # "held"
           /\ job'[k].streaks = website[w].streaks
           /\ job'[k].outage = website[w].outage /\ job'[k].slowdown = website[w].slowdown
           /\ job'[k].down = None /\ job'[k].recovered = None
           /\ job'[k].degraded = None /\ job'[k].restored = None /\ job'[k].tasks = {}
           /\ \A l \in Jobs \ {k} : job'[l] = job[l]
           /\ WebsitesAlike /\ UNCHANGED <<incident, run, dispatched, interrupted>>
<1>t. job \in [Jobs -> Job] /\ website \in [Websites -> Website]
  BY TypeParts DEF JobsOK, DocumentsOK
<1> DEFINE j == [IdleJob EXCEPT !.pc = "check", !.site = w, !.streaks = website[w].streaks,
                                !.outage = website[w].outage, !.slowdown = website[w].slowdown]
<1>1. job' = [job EXCEPT ![k] = j]
  BY DEF Claim
<1>2. /\ j.pc = "check" /\ j.site = w /\ j.streaks = website[w].streaks
      /\ j.outage = website[w].outage /\ j.slowdown = website[w].slowdown
      /\ j.down = None /\ j.recovered = None /\ j.degraded = None /\ j.restored = None
      /\ j.tasks = {}
  BY DEF IdleJob
<1> HIDE DEF j
<1>3. job'[k] = j /\ \A l \in Jobs \ {k} : job'[l] = job[l]
  BY <1>1, <1>t
<1>4. WebsitesAlike
  BY <1>t DEF Claim, WebsitesAlike, Website
<1> QED BY <1>2, <1>3, <1>4 DEF Claim, Claimable, Moves, ledger, history

LEMMA CheckEffects ==
    ASSUME TypeInv, NEW k \in Jobs, NEW o \in Outcomes, NEW detecting \in DetectionReads,
           Check(k, o, detecting)
    PROVE  /\ Moves(k, "check", "outage") /\ job'[k].site = job[k].site
           /\ job'[k].outcome = o /\ job'[k].streaks = NextStreaks(job[k].streaks, o, detecting)
           /\ SameOutage(k) /\ SameSlowdown(k) /\ job'[k].tasks = job[k].tasks
           /\ \A l \in Jobs \ {k} : job'[l] = job[l]
           /\ UNCHANGED <<website, incident, run, dispatched, interrupted>>
<1>t. job \in [Jobs -> Job] /\ job[k] \in Job
  BY TypeParts DEF JobsOK
<1> DEFINE next == NextStreaks(job[k].streaks, o, detecting)
<1>1. job' = [job EXCEPT ![k] = [job[k] EXCEPT !.pc = "outage", !.outcome = o,
                                               !.detecting = detecting, !.streaks = next]]
  BY DEF Check
<1> HIDE DEF next
<1>2. /\ job'[k].pc = "outage" /\ job'[k].site = job[k].site /\ job'[k].outcome = o
      /\ job'[k].streaks = next /\ SameOutage(k) /\ SameSlowdown(k)
      /\ job'[k].tasks = job[k].tasks /\ \A l \in Jobs \ {k} : job'[l] = job[l]
  BY <1>1, <1>t DEF Job, SameOutage, SameSlowdown
<1> QED BY <1>2 DEF Check, Moves, next, ledger, history

LEMMA SaveEffects ==
    ASSUME TypeInv, NEW k \in Jobs, SaveWebsite(k)
    PROVE  /\ Moves(k, "save", "announce") /\ job'[k].site = job[k].site /\ Blank(k)
           /\ job'[k].recovered = job[k].recovered /\ job'[k].restored = job[k].restored
           /\ job'[k].tasks = TasksOf(job[k])
           /\ \A l \in Jobs \ {k} : job'[l] = job[l]
           /\ \A v \in Websites \ {job[k].site} : website'[v] = website[v]
           /\ website'[job[k].site].exists = website[job[k].site].exists
           /\ IF website[job[k].site].exists
              THEN /\ website'[job[k].site].outage = job[k].outage
                   /\ website'[job[k].site].slowdown = job[k].slowdown
                   /\ website'[job[k].site].streaks = job[k].streaks
                   /\ website'[job[k].site].status =
                          DeriveDisplayStatus(job[k].outcome, job[k].outage # None,
                                              job[k].slowdown # None)
              ELSE website'[job[k].site] = website[job[k].site]
           /\ run' = [run EXCEPT ![job[k].site] = NextRun(run[job[k].site], job[k].outcome)]
           /\ UNCHANGED <<incident, dispatched, interrupted>>
<1>t. /\ job \in [Jobs -> Job] /\ job[k] \in Job /\ website \in [Websites -> Website]
      /\ job[k].site \in Websites
  BY TypeParts, JobFields DEF JobsOK, DocumentsOK, SaveWebsite
<1>1. job'[k] = Announcing(job[k]) /\ \A l \in Jobs \ {k} : job'[l] = job[l]
  BY <1>t DEF SaveWebsite
<1>2. /\ job'[k].pc = "announce" /\ job'[k].site = job[k].site /\ Blank(k)
      /\ job'[k].recovered = job[k].recovered /\ job'[k].restored = job[k].restored
      /\ job'[k].tasks = TasksOf(job[k])
  BY <1>1 DEF Announcing, IdleJob, Blank
<1> DEFINE saved == Saved(website[job[k].site], job[k])
           status == DeriveDisplayStatus(job[k].outcome, job[k].outage # None,
                                         job[k].slowdown # None)
<1>3. website[job[k].site] \in Website
  BY <1>t
<1>4. /\ saved.outage = job[k].outage /\ saved.slowdown = job[k].slowdown
      /\ saved.streaks = job[k].streaks /\ saved.status = status
      /\ saved.exists = website[job[k].site].exists
  BY <1>3 DEF Saved, Website
<1>5. website' = IF website[job[k].site].exists
                 THEN [website EXCEPT ![job[k].site] = saved] ELSE website
  BY DEF SaveWebsite
<1> HIDE DEF saved, status
<1>6. /\ \A v \in Websites \ {job[k].site} : website'[v] = website[v]
      /\ website'[job[k].site] = IF website[job[k].site].exists THEN saved
                                 ELSE website[job[k].site]
  BY <1>5, <1>t
<1> QED BY <1>1, <1>2, <1>4, <1>6 DEF SaveWebsite, Moves, ledger, status

\* A job that announces: it works off its tasks, and nothing else changes but
\* the flags of incidents and what was dispatched.
TaskStep(k, t) ==
    ClaimDispatch(k, t) \/ SendMail(k, t) \/ Publish(k, t) \/ AnnouncementFails(k, t)

LEMMA TaskEffects ==
    ASSUME TypeInv, NEW k \in Jobs, NEW t \in job[k].tasks, TaskStep(k, t)
    PROVE  /\ Moves(k, "announce", "announce") /\ job'[k].site = job[k].site
           /\ SameOutage(k) /\ SameSlowdown(k)
           /\ \A u \in job'[k].tasks : \E v \in job[k].tasks :
                  u.event = v.event /\ u.incident = v.incident
           /\ \A l \in Jobs \ {k} : job'[l] = job[l]
           /\ \/ UNCHANGED dispatched
              \/ dispatched' = [dispatched EXCEPT ![<<t.event, t.incident>>] =
                                    dispatched[<<t.event, t.incident>>] + 1]
           /\ \A i \in Incidents : /\ incident'[i].state = incident[i].state
                                   /\ incident'[i].site = incident[i].site
                                   /\ incident'[i].category = incident[i].category
           /\ interrupted \subseteq interrupted'
           /\ UNCHANGED <<website, run>>
<1>t. /\ job \in [Jobs -> Job] /\ job[k] \in Job /\ incident \in [Incidents -> Incident]
      /\ t \in Tasks
  BY TypeParts, JobFields DEF JobsOK, DocumentsOK
<1>1. t.incident \in Incidents
  BY <1>t DEF Tasks
<1> DEFINE sending == [t EXCEPT !.part = "send"]
<1>2. sending.event = t.event /\ sending.incident = t.incident
  BY <1>t DEF Tasks
<1> HIDE DEF sending
<1>3. \E tasks \in SUBSET (job[k].tasks \cup {sending}) :
          job' = [job EXCEPT ![k] = [job[k] EXCEPT !.tasks = tasks]]
  <2>1. CASE SendMail(k, t) \/ Publish(k, t) \/ AnnouncementFails(k, t)
    <3>1. job' = [job EXCEPT ![k] = [job[k] EXCEPT !.tasks = job[k].tasks \ {t}]]
      BY <2>1 DEF SendMail, Publish, AnnouncementFails
    <3> QED BY <3>1
  <2>2. CASE ClaimDispatch(k, t)
    <3>1. \/ job' = [job EXCEPT ![k] = [job[k] EXCEPT !.tasks = (job[k].tasks \ {t}) \cup {}]]
          \/ job' = [job EXCEPT ![k] =
                        [job[k] EXCEPT !.tasks = (job[k].tasks \ {t}) \cup {sending}]]
      BY <2>2 DEF ClaimDispatch, sending
    <3> QED BY <3>1
  <2> QED BY <2>1, <2>2 DEF TaskStep
<1>4. PICK tasks \in SUBSET (job[k].tasks \cup {sending}) :
          job' = [job EXCEPT ![k] = [job[k] EXCEPT !.tasks = tasks]]
  BY <1>3
<1>5. /\ job'[k].pc = job[k].pc /\ job'[k].site = job[k].site /\ SameOutage(k) /\ SameSlowdown(k)
      /\ job'[k].tasks = tasks /\ \A l \in Jobs \ {k} : job'[l] = job[l]
  BY <1>4, <1>t DEF Job, SameOutage, SameSlowdown
<1>6. \A u \in tasks : \E v \in job[k].tasks : u.event = v.event /\ u.incident = v.incident
  BY <1>2
<1>7. \A i \in Incidents : /\ incident'[i].state = incident[i].state
                           /\ incident'[i].site = incident[i].site
                           /\ incident'[i].category = incident[i].category
  <2>1. CASE UNCHANGED incident
    BY <2>1
  <2>2. CASE incident' = MarkNotified(t.incident, t.event)
    BY <1>1, <1>t, <2>2 DEF MarkNotified, Incident
  <2> QED BY <2>1, <2>2 DEF TaskStep, ClaimDispatch, SendMail, Publish, AnnouncementFails
<1>8. job[k].pc = "announce"
  BY DEF TaskStep, ClaimDispatch, SendMail, Publish, AnnouncementFails, Ready
<1>9. /\ UNCHANGED <<website, run>> /\ interrupted \subseteq interrupted'
      /\ \/ UNCHANGED dispatched
         \/ dispatched' = [dispatched EXCEPT ![<<t.event, t.incident>>] =
                                    dispatched[<<t.event, t.incident>>] + 1]
  BY DEF TaskStep, ClaimDispatch, SendMail, Publish, AnnouncementFails, ledger, history
<1> QED BY <1>5, <1>6, <1>7, <1>8, <1>9 DEF Moves

\* A job that ends, or goes to its release.
EndStep(k) ==
    FinishAnnouncing(k) \/ PipelineFails(k) \/ Release(k) \/ ReleaseFails(k) \/ Crash(k)

LEMMA EndEffects ==
    ASSUME TypeInv, NEW k \in Jobs, EndStep(k)
    PROVE  /\ job[k].pc # "idle" /\ job'[k].pc \in {"release", "idle"} /\ Blank(k)
           /\ job'[k].pc = "release" => job'[k].site = job[k].site
           /\ job'[k].recovered = None /\ job'[k].restored = None /\ job'[k].tasks = {}
           /\ \A l \in Jobs \ {k} : job'[l] = job[l]
           /\ WebsitesAlike /\ UNCHANGED <<incident, run, dispatched>>
           /\ interrupted \subseteq interrupted'
           /\ job[k].pc \in {"announce", "release"} \/ job[k].site \in interrupted'
<1>t. job \in [Jobs -> Job] /\ job[k] \in Job /\ website \in [Websites -> Website]
  BY TypeParts DEF JobsOK, DocumentsOK
<1>1. CASE FinishAnnouncing(k) \/ PipelineFails(k)
  <2>1. job'[k] = [IdleJob EXCEPT !.pc = "release", !.site = job[k].site]
        /\ \A l \in Jobs \ {k} : job'[l] = job[l]
    BY <1>1, <1>t DEF FinishAnnouncing, PipelineFails, Finally
  <2>2. /\ job'[k].pc = "release" /\ job'[k].site = job[k].site /\ Blank(k)
        /\ job'[k].recovered = None /\ job'[k].restored = None /\ job'[k].tasks = {}
    BY <2>1 DEF IdleJob, Blank
  <2>3. /\ UNCHANGED <<website, incident, run, dispatched>> /\ interrupted \subseteq interrupted'
        /\ job[k].pc = "announce" \/ job[k].site \in interrupted'
        /\ job[k].pc # "idle"
    BY <1>1 DEF FinishAnnouncing, PipelineFails, ledger, history
  <2> QED BY <2>1, <2>2, <2>3 DEF WebsitesAlike
<1>2. CASE Release(k) \/ ReleaseFails(k) \/ Crash(k)
  <2>1. job'[k] = IdleJob /\ \A l \in Jobs \ {k} : job'[l] = job[l]
    BY <1>2, <1>t DEF Release, ReleaseFails, Crash
  <2>2. /\ job'[k].pc = "idle" /\ Blank(k)
        /\ job'[k].recovered = None /\ job'[k].restored = None /\ job'[k].tasks = {}
    BY <2>1 DEF IdleJob, Blank
  <2>3. WebsitesAlike
    BY <1>2, <1>t DEF Release, ReleaseFails, Crash, FreeLease, WebsitesAlike, Website
  <2>4. /\ UNCHANGED <<incident, run, dispatched>> /\ interrupted \subseteq interrupted'
        /\ job[k].pc = "release" \/ job[k].site \in interrupted'
        /\ job[k].pc # "idle"
    BY <1>2 DEF Release, ReleaseFails, Crash, ledger, history
  <2> QED BY <2>1, <2>2, <2>3, <2>4
<1> QED BY <1>1, <1>2 DEF EndStep

\* Time and the API leave the jobs alone; they write a website only to
\* restart its streaks and its status, or to delete it.
OutsideStep == Api \/ \E w \in Websites : BecomeDue(w) \/ LeaseExpires(w)

Touched(v) ==
    /\ website'[v].exists => /\ website[v].exists /\ website'[v].outage = website[v].outage
                             /\ website'[v].slowdown = website[v].slowdown
    /\ website'[v].outage \in {website[v].outage, None}
    /\ website'[v].slowdown \in {website[v].slowdown, None}
    /\ website'[v].streaks.failures \in {website[v].streaks.failures, 0}
    /\ website'[v].streaks.successes \in {website[v].streaks.successes, 0}
    /\ website'[v].status \in {website[v].status, "unknown", "paused"}

\* Runs start anew with the streaks, where no job works.
RunsKept ==
    \A v \in Websites :
        \/ run'[v] = run[v]
        \/ /\ Idle(v)
           /\ website'[v].streaks.failures = 0 /\ website'[v].streaks.successes = 0

LEMMA OutsideRuns ==
    ASSUME TypeInv, OutsideStep
    PROVE  RunsKept
<1>t. website \in [Websites -> Website] /\ run \in [Websites -> [failed: Count, ok: Count]]
  BY TypeParts DEF DocumentsOK, LedgersOK
<1>1. UNCHANGED run => RunsKept
  BY DEF RunsKept
<1>2. ASSUME NEW w \in Websites, run' = StartedAnew(w),
             website[w].exists => /\ website'[w].streaks.failures = 0
                                  /\ website'[w].streaks.successes = 0
      PROVE  RunsKept
  BY <1>1, <1>2, <1>t DEF StartedAnew, RunsKept
<1>3. ASSUME NEW w \in Websites, NEW enabled \in BOOLEAN, SetEnabled(w, enabled)
      PROVE  RunsKept
  <2>1. website[w] \in Website /\ website[w].streaks \in Streaks
    BY <1>t DEF Website
  <2>2. website'[w].streaks = [website[w].streaks EXCEPT !.failures = 0, !.successes = 0]
    BY <1>3, <1>t, <2>1 DEF SetEnabled, Website
  <2>3. website'[w].streaks.failures = 0 /\ website'[w].streaks.successes = 0
    BY <2>1, <2>2 DEF Streaks
  <2> QED BY <1>2, <1>3, <2>3 DEF SetEnabled
<1>4. ASSUME NEW w \in Websites, WriteUrlChange(w)
      PROVE  RunsKept
  <2>1. website[w].exists => website'[w].streaks = ZeroStreaks
    BY <1>4, <1>t DEF WriteUrlChange, Website
  <2>2. run' = StartedAnew(w)
    BY <1>4 DEF WriteUrlChange
  <2>3. website[w].exists => /\ website'[w].streaks.failures = 0
                             /\ website'[w].streaks.successes = 0
    BY <2>1 DEF ZeroStreaks
  <2> QED BY <1>2, <2>2, <2>3
<1>5. ASSUME NEW w \in Websites,
             \/ BecomeDue(w) \/ LeaseExpires(w) \/ ReadForUrlChange(w) \/ DeleteWebsite(w)
             \/ DeleteIncidents(w)
      PROVE  UNCHANGED run
  BY <1>5 DEF BecomeDue, LeaseExpires, ReadForUrlChange, DeleteWebsite, DeleteIncidents, history
<1>6. ASSUME NEW i \in Incidents, ResolveManually(i) PROVE UNCHANGED run
  BY <1>6 DEF ResolveManually, history
<1> QED BY <1>1, <1>3, <1>4, <1>5, <1>6 DEF OutsideStep, Api

LEMMA OutsideEffects ==
    ASSUME TypeInv, OutsideStep
    PROVE  /\ UNCHANGED <<job, dispatched, interrupted>>
           /\ \A v \in Websites : website'[v] = website[v] \/ Touched(v)
           /\ RunsKept
           /\ \A i \in Incidents :
                 /\ \/ incident'[i].state = incident[i].state
                    \/ /\ incident[i].state # "unused"
                       /\ incident'[i].state \in {"resolved", "deleted"}
                 /\ incident'[i].site = incident[i].site
                 /\ incident'[i].category = incident[i].category
<1>t. website \in [Websites -> Website] /\ incident \in [Incidents -> Incident]
  BY TypeParts DEF DocumentsOK
<1> DEFINE Sites == \A v \in Websites : website'[v] = website[v] \/ Touched(v)
           Stays == \A i \in Incidents :
                 /\ \/ incident'[i].state = incident[i].state
                    \/ /\ incident[i].state # "unused"
                       /\ incident'[i].state \in {"resolved", "deleted"}
                 /\ incident'[i].site = incident[i].site
                 /\ incident'[i].category = incident[i].category
<1>1. ASSUME NEW w \in Websites, BecomeDue(w) \/ LeaseExpires(w) PROVE Sites /\ UNCHANGED incident
  BY <1>1, <1>t DEF BecomeDue, LeaseExpires, Touched, Website
<1>2. ASSUME NEW w \in Websites, NEW enabled \in BOOLEAN, SetEnabled(w, enabled)
      PROVE  Sites /\ UNCHANGED incident
  <2> DEFINE streaks == [website[w].streaks EXCEPT !.failures = 0, !.successes = 0]
             status == IF enabled THEN "unknown" ELSE "paused"
             doc == [website[w] EXCEPT !.enabled = enabled, !.status = status,
                                       !.streaks = streaks, !.due = TRUE]
  <2>1. website' = [website EXCEPT ![w] = doc] /\ website[w].exists /\ UNCHANGED incident
    BY <1>2 DEF SetEnabled
  <2>2. website[w].streaks \in Streaks /\ website[w] \in Website
    BY <1>t DEF Website
  <2>3. streaks.failures = 0 /\ streaks.successes = 0
    BY <2>2 DEF Streaks
  <2> HIDE DEF streaks
  <2>4. /\ doc.exists = website[w].exists /\ doc.outage = website[w].outage
        /\ doc.slowdown = website[w].slowdown /\ doc.streaks = streaks
        /\ doc.status \in {"unknown", "paused"}
    BY <2>2 DEF Website
  <2> HIDE DEF doc
  <2>5. website'[w] = doc /\ \A v \in Websites \ {w} : website'[v] = website[v]
    BY <2>1, <1>t
  <2>6. Touched(w)
    BY <2>3, <2>4, <2>5, <2>1 DEF Touched
  <2> QED BY <2>1, <2>5, <2>6
<1>3. ASSUME NEW w \in Websites, WriteUrlChange(w) PROVE Sites /\ UNCHANGED incident
  <2> DEFINE status == IF edit[w] = "on" THEN "unknown" ELSE "paused"
             doc == [website[w] EXCEPT !.streaks = ZeroStreaks, !.status = status, !.due = TRUE]
  <2>1. website' = (IF website[w].exists THEN [website EXCEPT ![w] = doc] ELSE website)
        /\ UNCHANGED incident
    BY <1>3 DEF WriteUrlChange
  <2>2. website[w] \in Website
    BY <1>t
  <2>3. /\ doc.exists = website[w].exists /\ doc.outage = website[w].outage
        /\ doc.slowdown = website[w].slowdown /\ doc.streaks = ZeroStreaks
        /\ doc.status \in {"unknown", "paused"}
    BY <2>2 DEF Website
  <2> HIDE DEF doc
  <2>4. ZeroStreaks.failures = 0 /\ ZeroStreaks.successes = 0
    BY DEF ZeroStreaks
  <2>5. website'[w] \in {doc, website[w]} /\ \A v \in Websites \ {w} : website'[v] = website[v]
    BY <2>1, <1>t
  <2>6. website'[w] = doc => Touched(w) \/ website'[w] = website[w]
    BY <2>1, <2>3, <2>4 DEF Touched
  <2> QED BY <2>1, <2>5, <2>6
<1>4. ASSUME NEW w \in Websites, DeleteWebsite(w) PROVE Sites /\ UNCHANGED incident
  <2>1. website' = [website EXCEPT ![w] = [NewWebsite EXCEPT !.exists = FALSE]] /\ UNCHANGED incident
    BY <1>4 DEF DeleteWebsite
  <2>2. \A v \in Websites \ {w} : website'[v] = website[v]
    BY <2>1, <1>t
  <2>3. website'[w] = [NewWebsite EXCEPT !.exists = FALSE]
    BY <2>1, <1>t
  <2>4. Touched(w)
    BY <2>3 DEF Touched, NewWebsite, ZeroStreaks
  <2> QED BY <2>1, <2>2, <2>4
<1>5. ASSUME NEW w \in Websites, ReadForUrlChange(w) PROVE UNCHANGED <<website, incident>>
  BY <1>5 DEF ReadForUrlChange
<1>6. ASSUME NEW w \in Websites, DeleteIncidents(w) PROVE Stays /\ UNCHANGED website
  <2>1. \A i \in Incidents : \/ incident'[i] = incident[i]
                             \/ Stored(i) /\ incident'[i] = [incident[i] EXCEPT !.state = "deleted"]
    BY <1>6 DEF DeleteIncidents
  <2>2. Stays
    BY <2>1, <1>t DEF Stored, Incident
  <2> QED BY <1>6, <2>2 DEF DeleteIncidents
<1>7. ASSUME NEW i \in Incidents, ResolveManually(i) PROVE Stays /\ UNCHANGED website
  <2> DEFINE doc == [incident[i] EXCEPT !.state = "resolved", !.byHand = TRUE]
  <2>1. incident' = [incident EXCEPT ![i] = doc] /\ incident[i].state = "open" /\ UNCHANGED website
    BY <1>7 DEF ResolveManually
  <2>2. doc.state = "resolved" /\ doc.site = incident[i].site /\ doc.category = incident[i].category
    BY <1>t DEF Incident
  <2> HIDE DEF doc
  <2>3. Stays
    BY <1>t, <2>1, <2>2
  <2> QED BY <2>1, <2>3
<1>8. UNCHANGED incident => Stays
  OBVIOUS
<1>9. UNCHANGED website => Sites
  OBVIOUS
<1>10. UNCHANGED <<job, dispatched, interrupted>>
  <2>1. OutsideStep => UNCHANGED <<job, dispatched, interrupted>>
    BY DEF OutsideStep, Api, BecomeDue, LeaseExpires, SetEnabled, ReadForUrlChange, WriteUrlChange,
           DeleteWebsite, DeleteIncidents, ResolveManually, ledger, history
  <2> QED BY <2>1
<1> HIDE DEF Sites, Stays
<1>11. Sites /\ Stays
  BY <1>1, <1>2, <1>3, <1>4, <1>5, <1>6, <1>7, <1>8, <1>9 DEF OutsideStep, Api
<1> QED BY <1>10, <1>11, OutsideRuns DEF Sites, Stays

\* Every step is one of these.
LEMMA StepKinds ==
    ASSUME [Next]_vars
    PROVE  \/ UNCHANGED vars
           \/ OutsideStep
           \/ \E k \in Jobs : \/ \E w \in Websites : Claim(k, w)
                              \/ \E o \in Outcomes, detecting \in DetectionReads : Check(k, o, detecting)
                              \/ Transition(k)
                              \/ SaveWebsite(k)
                              \/ \E t \in job[k].tasks : TaskStep(k, t)
                              \/ EndStep(k)
<1>1. ASSUME NEW k \in Jobs, JobStep(k) \/ JobFault(k)
      PROVE  \/ \E o \in Outcomes, detecting \in DetectionReads : Check(k, o, detecting)
             \/ Transition(k)
             \/ SaveWebsite(k)
             \/ \E t \in job[k].tasks : TaskStep(k, t)
             \/ EndStep(k)
  BY <1>1 DEF JobStep, JobFault, Transition, TaskStep, EndStep
<1> QED BY <1>1 DEF Next, OutsideStep

-----------------------------------------------------------------------------
(* References.                                                             *)

\* What makes ReferencesFit inductive is that unused incidents have no category.
RefsInv ==
    /\ \A i \in Incidents : incident[i].state = "unused" => incident[i].category = None
    /\ ReferencesFit

\* An incident keeps its website and its category once it is opened.
Stays(i) ==
    /\ incident[i].state # "unused" => /\ incident'[i].state # "unused"
                                       /\ incident'[i].site = incident[i].site
                                       /\ incident'[i].category = incident[i].category
    /\ incident'[i].state = "unused" => incident'[i].category = incident[i].category

LEMMA OpenedStays ==
    ASSUME incident \in [Incidents -> Incident], NEW w, NEW c, NEW i \in Incidents,
           incident[i].state = "unused", incident' = [incident EXCEPT ![i] = OpenIncident(w, c)]
    PROVE  /\ \A x \in Incidents : Stays(x)
           /\ \A x \in Incidents \ {i} : incident'[x] = incident[x]
           /\ incident'[i].state = "open" /\ incident'[i].site = w /\ incident'[i].category = c
           /\ incident'[i].byHand = FALSE
<1>1. incident'[i] = OpenIncident(w, c) /\ \A x \in Incidents \ {i} : incident'[x] = incident[x]
  OBVIOUS
<1>2. /\ OpenIncident(w, c).state = "open" /\ OpenIncident(w, c).site = w
      /\ OpenIncident(w, c).category = c /\ OpenIncident(w, c).byHand = FALSE
  BY DEF OpenIncident, UnusedIncident
<1> QED BY <1>1, <1>2 DEF Stays

LEMMA ClosedStays ==
    ASSUME incident \in [Incidents -> Incident], NEW i \in Incidents,
           incident[i].state = "open", incident' = Close(i)
    PROVE  /\ \A x \in Incidents : Stays(x)
           /\ \A x \in Incidents \ {i} : incident'[x] = incident[x]
           /\ incident'[i].state = "resolved"
           /\ incident'[i].site = incident[i].site /\ incident'[i].category = incident[i].category
BY DEF Close, Stays, Incident

LEMMA TransitionStays ==
    ASSUME TypeInv, NEW k \in Jobs, Transition(k)
    PROVE  \A i \in Incidents : Stays(i)
<1>t. incident \in [Incidents -> Incident] /\ JobsOK
  BY TypeParts DEF DocumentsOK
<1>1. \/ UNCHANGED incident
      \/ \E i \in Incidents : incident[i].state = "open" /\ incident' = Close(i)
      \/ \E i \in Incidents, w \in {job[k].site}, c \in Categories :
            incident[i].state = "unused" /\ incident' = [incident EXCEPT ![i] = OpenIncident(w, c)]
  BY <1>t, TransitionEffects
     DEF OutageKept, OutageLost, OutageResolved, SlowdownKept, SlowdownLost, SlowdownClosed,
         OutageOpened, SlowdownOpened, OutageAdopted, SlowdownAdopted, Categories
<1>2. UNCHANGED incident => \A i \in Incidents : Stays(i)
  BY DEF Stays
<1> QED BY <1>1, <1>2, <1>t, OpenedStays, ClosedStays

LEMMA IncidentsStay ==
    ASSUME TypeInv, [Next]_vars
    PROVE  \A i \in Incidents : Stays(i)
<1>1. UNCHANGED incident => \A i \in Incidents : Stays(i)
  BY DEF Stays
<1>2. ASSUME NEW k \in Jobs, NEW t \in job[k].tasks, TaskStep(k, t)
      PROVE  \A i \in Incidents : Stays(i)
  BY <1>2, TaskEffects DEF Stays
<1>3. OutsideStep => \A i \in Incidents : Stays(i)
  BY OutsideEffects DEF Stays
<1> QED BY <1>1, <1>2, <1>3, StepKinds, TransitionStays, ClaimEffects, CheckEffects, SaveEffects,
           EndEffects DEF vars

\* References stay right while the incidents stay.
LEMMA RefStays ==
    ASSUME \A i \in Incidents : Stays(i), NEW r \in Incidents \cup {None}, NEW w, NEW c, RefersTo(r, w, c)
    PROVE  RefersTo(r, w, c)'
BY DEF RefersTo, Stays

\* What is found open is open for the website.
LEMMA FoundRef ==
    ASSUME NEW w, NEW c, NEW i \in Incidents \cup {None}, i \in Found(w, c)
    PROVE  RefersTo(i, w, c)
BY DEF Found, OpenFor, RefersTo

\* What a job refers to after a transition.
LEMMA TransitionRefs ==
    ASSUME TypeInv, RefsInv, NEW k \in Jobs, Transition(k),
           NEW w, w = job[k].site, NEW o, o = job'[k].outage, NEW s, s = job'[k].slowdown
    PROVE  RefersTo(o, w, "availability")' /\ RefersTo(s, w, "anomaly")'
<1>t. /\ incident \in [Incidents -> Incident] /\ JobsOK /\ None \notin Incidents
      /\ job[k].outage \in Incidents \cup {None} /\ job[k].slowdown \in Incidents \cup {None}
  BY TypeParts, JobFields, ConstantsAssumption DEF DocumentsOK
<1>1. RefersTo(job[k].outage, w, "availability") /\ RefersTo(job[k].slowdown, w, "anomaly")
  BY <1>t, TransitionSite DEF RefsInv, ReferencesFit
<1>2. \A i \in Incidents : Stays(i)
  BY TransitionStays
<1>3. o = job[k].outage => RefersTo(o, w, "availability")'
  BY <1>t, <1>1, <1>2, RefStays
<1>4. s = job[k].slowdown => RefersTo(s, w, "anomaly")'
  BY <1>t, <1>1, <1>2, RefStays
<1>5. \A c : RefersTo(None, w, c)'
  BY DEF RefersTo
<1>6. ASSUME NEW i \in Incidents, OutageOpened(k, i)
      PROVE  RefersTo(o, w, "availability")' /\ s = job[k].slowdown
  <2>1. incident'[i].state = "open" /\ incident'[i].site = w /\ incident'[i].category = "availability"
    <3>1. incident[i].state = "unused" /\ incident' = [incident EXCEPT ![i] = OpenIncident(w, "availability")]
      BY <1>6 DEF OutageOpened
    <3> QED BY <1>t, <3>1 DEF OpenIncident, UnusedIncident
  <2> QED BY <1>6, <2>1 DEF OutageOpened, SameSlowdown, RefersTo
<1>7. ASSUME NEW i \in Incidents, SlowdownOpened(k, i)
      PROVE  RefersTo(s, w, "anomaly")' /\ o = job[k].outage
  <2>1. incident'[i].state = "open" /\ incident'[i].site = w /\ incident'[i].category = "anomaly"
    <3>1. incident[i].state = "unused" /\ incident' = [incident EXCEPT ![i] = OpenIncident(w, "anomaly")]
      BY <1>7 DEF SlowdownOpened
    <3> QED BY <1>t, <3>1 DEF OpenIncident, UnusedIncident
  <2> QED BY <1>7, <2>1 DEF SlowdownOpened, SameOutage, RefersTo
<1>8. ASSUME NEW i \in Incidents \cup {None}, OutageAdopted(k, i)
      PROVE  RefersTo(o, w, "availability")' /\ s = job[k].slowdown
  <2>1. RefersTo(i, w, "availability") /\ i = o
    BY <1>8, FoundRef DEF OutageAdopted
  <2>2. RefersTo(o, w, "availability")'
    BY <1>2, <2>1, RefStays
  <2> QED BY <1>8, <2>2 DEF OutageAdopted, SameSlowdown
<1>9. ASSUME NEW i \in Incidents \cup {None}, SlowdownAdopted(k, i)
      PROVE  RefersTo(s, w, "anomaly")' /\ o = job[k].outage
  <2>1. RefersTo(i, w, "anomaly") /\ i = s
    BY <1>9, FoundRef DEF SlowdownAdopted
  <2>2. RefersTo(s, w, "anomaly")'
    BY <1>2, <2>1, RefStays
  <2> QED BY <1>9, <2>2 DEF SlowdownAdopted, SameOutage
<1>10. ASSUME OutageKept(k) \/ OutageLost(k) \/ OutageResolved(k)
              \/ SlowdownKept(k) \/ SlowdownLost(k) \/ SlowdownClosed(k)
       PROVE  o \in {job[k].outage, None} /\ s \in {job[k].slowdown, None}
  BY <1>10 DEF OutageKept, OutageLost, OutageResolved, SlowdownKept, SlowdownLost, SlowdownClosed,
               SameOutage, SameSlowdown
<1> HIDE DEF RefersTo
<1> QED BY <1>t, <1>3, <1>4, <1>5, <1>6, <1>7, <1>8, <1>9, <1>10, TransitionEffects

LEMMA RefsStep == TypeInv /\ RefsInv /\ [Next]_vars => RefsInv'
<1> SUFFICES ASSUME TypeInv, RefsInv, [Next]_vars PROVE RefsInv'
  OBVIOUS
<1>t. /\ job \in [Jobs -> Job] /\ JobsOK /\ website \in [Websites -> Website]
      /\ \A k \in Jobs : job[k].outage \in Incidents \cup {None} /\ job[k].slowdown \in Incidents \cup {None}
      /\ \A w \in Websites : /\ website[w].outage \in Incidents \cup {None}
                             /\ website[w].slowdown \in Incidents \cup {None}
  BY TypeParts, JobFields DEF JobsOK, DocumentsOK, Website
<1>1. \A i \in Incidents : Stays(i)
  BY IncidentsStay
<1>2. \A i \in Incidents : incident'[i].state = "unused" => incident'[i].category = None
  BY <1>1 DEF Stays, RefsInv, ReferencesFit
<1> DEFINE SiteOK(w) == RefersTo(website[w].outage, w, "availability") /\ RefersTo(website[w].slowdown, w, "anomaly")
           JobOK(k) == job[k].pc # "idle" => /\ RefersTo(job[k].outage, job[k].site, "availability")
                                             /\ RefersTo(job[k].slowdown, job[k].site, "anomaly")
<1>3. \A w, c : RefersTo(None, w, c)'
  BY DEF RefersTo
<1>r. ASSUME NEW w, NEW c, NEW r \in Incidents \cup {None}, RefersTo(r, w, c), NEW q \in {r, None}
      PROVE  RefersTo(q, w, c)'
  BY <1>1, <1>3, <1>r, RefStays
<1>4. \A w \in Websites : RefersTo(website[w].outage, w, "availability")
                          /\ RefersTo(website[w].slowdown, w, "anomaly")
  BY DEF RefsInv, ReferencesFit
<1>5. \A k \in Jobs : job[k].pc # "idle" => /\ RefersTo(job[k].outage, job[k].site, "availability")
                                            /\ RefersTo(job[k].slowdown, job[k].site, "anomaly")
  BY DEF RefsInv, ReferencesFit
<1>6. ASSUME NEW w \in Websites, website'[w].outage \in {website[w].outage, None},
             website'[w].slowdown \in {website[w].slowdown, None}
      PROVE  SiteOK(w)'
  <2>1. PICK o, d : o = website'[w].outage /\ d = website'[w].slowdown
    OBVIOUS
  <2>2. RefersTo(o, w, "availability")'
    BY <1>4, <1>6, <1>r, <1>t, <2>1
  <2>3. RefersTo(d, w, "anomaly")'
    BY <1>4, <1>6, <1>r, <1>t, <2>1
  <2> QED BY <2>1, <2>2, <2>3 DEF RefersTo
<1>7. ASSUME NEW k \in Jobs, job'[k].pc # "idle" => job[k].pc # "idle" /\ job'[k].site = job[k].site,
             job'[k].outage \in {job[k].outage, None}, job'[k].slowdown \in {job[k].slowdown, None}
      PROVE  JobOK(k)'
  <2> SUFFICES ASSUME job[k].pc # "idle", job'[k].site = job[k].site PROVE JobOK(k)'
    BY <1>7
  <2>1. PICK w, o, d : w = job[k].site /\ o = job'[k].outage /\ d = job'[k].slowdown
    OBVIOUS
  <2>2. RefersTo(o, w, "availability")'
    BY <1>5, <1>7, <1>r, <1>t, <2>1
  <2>3. RefersTo(d, w, "anomaly")'
    BY <1>5, <1>7, <1>r, <1>t, <2>1
  <2> QED BY <2>1, <2>2, <2>3 DEF RefersTo
<1>8. ASSUME NEW k \in Jobs, job'[k] = job[k] PROVE JobOK(k)'
  BY <1>7, <1>8
<1>9. ASSUME NEW k \in Jobs, Transition(k) PROVE JobOK(k)'
  <2>1. PICK w, o, d : w = job[k].site /\ o = job'[k].outage /\ d = job'[k].slowdown
    OBVIOUS
  <2>2. job'[k].outage \in Incidents \cup {None} /\ job'[k].slowdown \in Incidents \cup {None}
    <3>1. JobsOK'
      BY NextTypes DEF TypeInv
    <3> QED BY <3>1 DEF JobsOK, Job
  <2>3. RefersTo(o, w, "availability")' /\ RefersTo(d, w, "anomaly")'
    BY <1>9, <2>1, <2>2, TransitionRefs
  <2>4. job'[k].site = w
    BY <1>9, <1>t, <2>1, TransitionSite
  <2> QED BY <2>1, <2>3, <2>4 DEF RefersTo
<1>10. ASSUME NEW k \in Jobs, NEW w \in Websites, job'[k].site = w,
              job'[k].outage = website[w].outage, job'[k].slowdown = website[w].slowdown
       PROVE  JobOK(k)'
  <2>1. PICK o, d : o = job'[k].outage /\ d = job'[k].slowdown
    OBVIOUS
  <2>2. RefersTo(o, w, "availability")'
    BY <1>4, <1>10, <1>r, <1>t, <2>1
  <2>3. RefersTo(d, w, "anomaly")'
    BY <1>4, <1>10, <1>r, <1>t, <2>1
  <2> QED BY <1>10, <2>1, <2>2, <2>3 DEF RefersTo
<1>11. ASSUME NEW k \in Jobs, SaveWebsite(k) PROVE \A w \in Websites : SiteOK(w)'
  <2> SUFFICES ASSUME NEW w \in Websites PROVE SiteOK(w)'
    OBVIOUS
  <2>1. CASE website'[w] = website[w]
    BY <1>6, <2>1
  <2>2. CASE website'[w] # website[w]
    <3>1. /\ w = job[k].site /\ job[k].pc # "idle"
          /\ website'[w].outage = job[k].outage /\ website'[w].slowdown = job[k].slowdown
      BY <1>11, <2>2, SaveEffects DEF Moves
    <3>2. PICK o, d : o = website'[w].outage /\ d = website'[w].slowdown
      OBVIOUS
    <3>3. RefersTo(o, w, "availability")'
      BY <1>5, <1>r, <1>t, <3>1, <3>2
    <3>4. RefersTo(d, w, "anomaly")'
      BY <1>5, <1>r, <1>t, <3>1, <3>2
    <3> QED BY <3>2, <3>3, <3>4 DEF RefersTo
  <2> QED BY <2>1, <2>2
<1> HIDE DEF SiteOK, JobOK
<1>12. (\A w \in Websites : SiteOK(w)') /\ \A k \in Jobs : JobOK(k)'
  <2>1. CASE UNCHANGED vars
    BY <1>6, <1>8, <2>1 DEF vars
  <2>2. CASE OutsideStep
    <3>1. \A w \in Websites : /\ website'[w].outage \in {website[w].outage, None}
                              /\ website'[w].slowdown \in {website[w].slowdown, None}
      BY <2>2, OutsideEffects DEF Touched
    <3> QED BY <1>6, <1>8, <2>2, <3>1, OutsideEffects
  <2>3. ASSUME NEW k \in Jobs, NEW w \in Websites, Claim(k, w)
        PROVE  (\A v \in Websites : SiteOK(v)') /\ \A l \in Jobs : JobOK(l)'
    BY <1>6, <1>8, <1>10, <2>3, ClaimEffects DEF WebsitesAlike
  <2>4. ASSUME NEW k \in Jobs, UNCHANGED website \/ WebsitesAlike,
               job'[k].pc # "idle" => job[k].pc # "idle" /\ job'[k].site = job[k].site,
               job'[k].outage \in {job[k].outage, None}, job'[k].slowdown \in {job[k].slowdown, None},
               \A l \in Jobs \ {k} : job'[l] = job[l]
        PROVE  (\A v \in Websites : SiteOK(v)') /\ \A l \in Jobs : JobOK(l)'
    BY <1>6, <1>7, <1>8, <2>4 DEF WebsitesAlike
  <2>5. ASSUME NEW k \in Jobs, NEW o \in Outcomes, NEW detecting \in DetectionReads,
               Check(k, o, detecting)
        PROVE  (\A v \in Websites : SiteOK(v)') /\ \A l \in Jobs : JobOK(l)'
    BY <2>4, <2>5, CheckEffects DEF Moves, SameOutage, SameSlowdown
  <2>6. ASSUME NEW k \in Jobs, Transition(k)
        PROVE  (\A v \in Websites : SiteOK(v)') /\ \A l \in Jobs : JobOK(l)'
    BY <1>6, <1>8, <1>9, <1>t, <2>6, TransitionUnchanged, OthersUntouched
  <2>7. ASSUME NEW k \in Jobs, SaveWebsite(k)
        PROVE  (\A v \in Websites : SiteOK(v)') /\ \A l \in Jobs : JobOK(l)'
    BY <1>7, <1>8, <1>11, <2>7, SaveEffects DEF Moves, Blank
  <2>8. ASSUME NEW k \in Jobs, NEW t \in job[k].tasks, TaskStep(k, t)
        PROVE  (\A v \in Websites : SiteOK(v)') /\ \A l \in Jobs : JobOK(l)'
    BY <2>4, <2>8, TaskEffects DEF Moves, SameOutage, SameSlowdown
  <2>9. ASSUME NEW k \in Jobs, EndStep(k)
        PROVE  (\A v \in Websites : SiteOK(v)') /\ \A l \in Jobs : JobOK(l)'
    BY <2>4, <2>9, EndEffects DEF Blank
  <2> QED BY <2>1, <2>2, <2>3, <2>5, <2>6, <2>7, <2>8, <2>9, StepKinds
<1> QED BY <1>2, <1>12 DEF RefsInv, ReferencesFit, SiteOK, JobOK

LEMMA RefsInit == Init => RefsInv
BY DEF Init, RefsInv, ReferencesFit, RefersTo, NewWebsite, UnusedIncident, IdleJob

\* Documents and jobs are of their type, and their references are to incidents
\* of the right website and category, for any number of each and whatever leases
\* expire: an adopted incident is one the query asked for.
THEOREM WellFormedAlways == Spec => []WellFormed
<1>1. TypeInv /\ RefsInv => WellFormed
  BY DEF TypeInv, RefsInv, WellFormed
<1> QED BY <1>1, RefsInit, RefsStep, InitTypeInv, NextTypes, PTL DEF Spec

-----------------------------------------------------------------------------
(* What a job holds by how far it has got.                                 *)

Early == {"check", "outage", "adoptOutage"}

Stage(k) ==
    /\ job[k].pc \notin {"slowdown", "adoptSlowdown", "save"} => job[k].down = None
    /\ job[k].pc \in Early => job[k].recovered = None
    /\ job[k].pc # "save" => job[k].degraded = None
    /\ job[k].pc # "announce" => job[k].tasks = {}

StagesInv == \A k \in Jobs : Stage(k)

LEMMA StagesStep == TypeInv /\ StagesInv /\ [Next]_vars => StagesInv'
<1> SUFFICES ASSUME TypeInv, StagesInv, [Next]_vars PROVE StagesInv'
  OBVIOUS
<1>t. job \in [Jobs -> Job] /\ JobsOK
  BY TypeParts DEF JobsOK
<1>1. ASSUME NEW k \in Jobs, job'[k] = job[k] PROVE Stage(k)'
  BY <1>1 DEF StagesInv, Stage
<1>2. ASSUME NEW k \in Jobs, NEW w \in Websites, Claim(k, w) PROVE Stage(k)'
  BY <1>2, ClaimEffects DEF Stage, Moves
<1>3. ASSUME NEW k \in Jobs, NEW o \in Outcomes, NEW detecting \in DetectionReads,
             Check(k, o, detecting)
      PROVE  Stage(k)'
  BY <1>3, CheckEffects DEF StagesInv, Stage, Moves, SameOutage, SameSlowdown, Early
<1>4. ASSUME NEW k \in Jobs, Transition(k) PROVE Stage(k)'
  <2>1. job'[k].tasks = job[k].tasks /\ job[k].pc # "announce"
    BY <1>4, <1>t, TransitionEffects
       DEF Given, Moves, OutageKept, OutageLost, OutageResolved, SlowdownKept, SlowdownLost,
           SlowdownClosed, OutageOpened, SlowdownOpened, OutageAdopted, SlowdownAdopted
  <2>2. CASE OutageKept(k) \/ OutageLost(k) \/ OutageResolved(k)
    BY <2>1, <2>2 DEF StagesInv, Stage, Early, OutageKept, OutageLost, OutageResolved, Moves,
                      SameOutage, SameSlowdown
  <2>3. CASE SlowdownKept(k) \/ SlowdownLost(k) \/ SlowdownClosed(k)
    BY <2>1, <2>3 DEF StagesInv, Stage, Early, SlowdownKept, SlowdownLost, SlowdownClosed, Moves,
                      SameOutage, SameSlowdown
  <2>4. ASSUME NEW i \in Incidents, OutageOpened(k, i) \/ SlowdownOpened(k, i) PROVE Stage(k)'
    BY <2>1, <2>4 DEF StagesInv, Stage, Early, OutageOpened, SlowdownOpened, Moves, SameOutage,
                      SameSlowdown
  <2>5. ASSUME NEW i \in Incidents \cup {None}, OutageAdopted(k, i) \/ SlowdownAdopted(k, i)
        PROVE  Stage(k)'
    BY <2>1, <2>5 DEF StagesInv, Stage, Early, OutageAdopted, SlowdownAdopted, Moves, SameOutage,
                      SameSlowdown
  <2> HIDE DEF Stage
  <2> QED BY <1>4, <1>t, <2>2, <2>3, <2>4, <2>5, TransitionEffects
<1>5. ASSUME NEW k \in Jobs, SaveWebsite(k) PROVE Stage(k)'
  BY <1>5, SaveEffects DEF Stage, Moves, Blank, Early
<1>6. ASSUME NEW k \in Jobs, NEW t \in job[k].tasks, TaskStep(k, t) PROVE Stage(k)'
  <2>1. Moves(k, "announce", "announce") /\ SameOutage(k) /\ SameSlowdown(k)
    BY <1>6, TaskEffects
  <2>2. Stage(k)
    BY DEF StagesInv
  <2> QED BY <2>1, <2>2 DEF Stage, Moves, SameOutage, SameSlowdown, Early
<1>7. ASSUME NEW k \in Jobs, EndStep(k) PROVE Stage(k)'
  BY <1>7, EndEffects DEF Stage, Blank, Early
<1> HIDE DEF Stage
<1>8. \A l \in Jobs : Stage(l)'
  <2>1. CASE UNCHANGED job
    BY <1>1, <2>1
  <2>2. ASSUME NEW k \in Jobs, Stage(k)', \A l \in Jobs \ {k} : job'[l] = job[l]
        PROVE  \A l \in Jobs : Stage(l)'
    BY <1>1, <2>2
  <2>3. ASSUME NEW k \in Jobs, NEW w \in Websites, Claim(k, w) PROVE \A l \in Jobs : Stage(l)'
    BY <1>2, <2>2, <2>3, ClaimEffects
  <2>4. ASSUME NEW k \in Jobs, NEW o \in Outcomes, NEW detecting \in DetectionReads,
               Check(k, o, detecting)
        PROVE  \A l \in Jobs : Stage(l)'
    BY <1>3, <2>2, <2>4, CheckEffects
  <2>5. ASSUME NEW k \in Jobs, Transition(k) PROVE \A l \in Jobs : Stage(l)'
    BY <1>4, <1>t, <2>2, <2>5, OthersUntouched
  <2>6. ASSUME NEW k \in Jobs, SaveWebsite(k) PROVE \A l \in Jobs : Stage(l)'
    BY <1>5, <2>2, <2>6, SaveEffects
  <2>7. ASSUME NEW k \in Jobs, NEW t \in job[k].tasks, TaskStep(k, t)
        PROVE  \A l \in Jobs : Stage(l)'
    BY <1>6, <2>2, <2>7, TaskEffects
  <2>8. ASSUME NEW k \in Jobs, EndStep(k) PROVE \A l \in Jobs : Stage(l)'
    BY <1>7, <2>2, <2>8, EndEffects
  <2>9. OutsideStep \/ UNCHANGED vars => UNCHANGED job
    BY OutsideEffects DEF vars
  <2> QED BY <2>1, <2>3, <2>4, <2>5, <2>6, <2>7, <2>8, <2>9, StepKinds
<1> QED BY <1>8 DEF StagesInv

LEMMA StagesInit == Init => StagesInv
BY DEF Init, StagesInv, Stage, IdleJob, Early

-----------------------------------------------------------------------------
(* Confirmed transitions.                                                  *)

\* Streaks a run of outcomes has earned: a website's streaks forget more than
\* the run does, but never count what did not happen.
Earned(s, r) == s.failures <= r.failed /\ s.successes <= r.ok

Runs == [failed: Count, ok: Count]

Counting == {"outage", "adoptOutage", "slowdown", "adoptSlowdown", "save"}

\* The run with the outcome of the job's own check.
Seen(k) == NextRun(run[job[k].site], job[k].outcome)

Justified(k) ==
    /\ job[k].pc = "check" => Earned(job[k].streaks, run[job[k].site])
    /\ job[k].pc \in Counting => Earned(job[k].streaks, Seen(k))
    /\ job[k].pc \in {"slowdown", "adoptSlowdown", "save"} =>
          /\ job[k].down # None => Seen(k).failed >= FailureThreshold
          /\ job[k].recovered # None => Seen(k).ok >= RecoveryThreshold

ConfirmedInv ==
    /\ \A w \in Websites : website[w].exists => Earned(website[w].streaks, run[w])
    /\ \A k \in Jobs : Justified(k)

LEMMA EarnedNext ==
    ASSUME NEW s \in Streaks, NEW r \in Runs, NEW o \in Outcome, NEW detecting \in BOOLEAN,
           Earned(s, r)
    PROVE  Earned(NextStreaks(s, o, detecting), NextRun(r, o))
<1>0. /\ s.failures \in Nat /\ s.successes \in Nat /\ r.failed \in Nat /\ r.ok \in Nat
      /\ MaxStreak \in Nat
  BY ThresholdAssumption DEF Streaks, Runs, Count
<1>1. Bump(s.failures) <= Bump(r.failed) /\ Bump(s.successes) <= Bump(r.ok)
  BY <1>0 DEF Earned, Bump
<1> DEFINE t == DeriveCounters(s, o)
<1>2. t \in Streaks
  <2>1. 0 \in Count
    BY ThresholdAssumption DEF Count
  <2> QED BY <2>1, BumpInCount DEF DeriveCounters, Streaks
<1>3. IF o.ok THEN t.failures = 0 /\ t.successes = Bump(s.successes)
              ELSE t.failures = Bump(s.failures) /\ t.successes = 0
  BY DEF DeriveCounters, Streaks
<1>4. Earned(t, NextRun(r, o))
  BY <1>1, <1>3 DEF Earned, NextRun
<1> HIDE DEF t
<1>5. /\ DeriveAnomalyCounters(t, o).failures = t.failures
      /\ DeriveAnomalyCounters(t, o).successes = t.successes
      /\ StopCounting(t).failures = t.failures /\ StopCounting(t).successes = t.successes
  BY <1>2 DEF DeriveAnomalyCounters, StopCounting, Streaks
<1> QED BY <1>4, <1>5 DEF NextStreaks, Earned, t

\* A step of one job alone, as far as the runs are concerned: they only change
\* when that job saves.
LEMMA JustifiedOthers ==
    ASSUME ConfirmedInv, ExclusiveJob, NEW k \in Jobs, NEW l \in Jobs \ {k}, job'[l] = job[l],
           \/ UNCHANGED run
           \/ job[k].pc # "idle" /\ \A w \in Websites \ {job[k].site} : run'[w] = run[w],
           JobsOK
    PROVE  Justified(l)'
<1>1. Justified(l)
  BY DEF ConfirmedInv
<1>2. job[l].pc = "idle" => Justified(l)'
  BY DEF Justified, Counting
<1>3. job[l].pc # "idle" => run'[job[l].site] = run[job[l].site]
  BY JobFields DEF ExclusiveJob
<1>4. run'[job[l].site] = run[job[l].site] => Justified(l)'
  BY <1>1 DEF Justified, Seen
<1> QED BY <1>2, <1>3, <1>4

LEMMA JustifiedTransition ==
    ASSUME TypeInv, StagesInv, ConfirmedInv, NEW k \in Jobs, Transition(k)
    PROVE  Justified(k)'
<1>t. /\ JobsOK /\ job[k].streaks \in Streaks /\ job[k].site \in Websites
      /\ job[k].outcome \in Outcome /\ run \in [Websites -> Runs] /\ None \notin Incidents
  <2>1. JobsOK
    BY TypeParts
  <2>2. job[k].pc # "idle"
    BY <2>1, TransitionSite
  <2> QED BY <2>1, <2>2, JobFields, TypeParts, ConstantsAssumption DEF Job, LedgersOK, Runs
<1>1. /\ job'[k].site = job[k].site /\ job'[k].streaks = job[k].streaks
      /\ job'[k].outcome = job[k].outcome /\ UNCHANGED run
  BY <1>t, TransitionEffects, TransitionUnchanged DEF Given, history
<1>2. Seen(k)' = Seen(k)
  BY <1>1 DEF Seen
<1> DEFINE Counted ==
             /\ job[k].pc \in Counting /\ job'[k].pc \in Counting
             /\ \/ job'[k].pc = "adoptOutage"
                \/ /\ \/ job'[k].down \in {job[k].down, None}
                      \/ job[k].streaks.failures >= FailureThreshold
                   /\ \/ job'[k].recovered \in {job[k].recovered, None}
                      \/ job[k].streaks.successes >= RecoveryThreshold
<1>3. Counted
  <2>1. CASE OutageKept(k) \/ OutageLost(k) \/ OutageResolved(k)
    BY <2>1 DEF OutageKept, OutageLost, OutageResolved, Moves, SameOutage, Counting
  <2>2. CASE SlowdownKept(k) \/ SlowdownLost(k) \/ SlowdownClosed(k)
    BY <2>2 DEF SlowdownKept, SlowdownLost, SlowdownClosed, Moves, SameOutage, Counting
  <2>3. ASSUME NEW i \in Incidents, OutageOpened(k, i) \/ SlowdownOpened(k, i) PROVE Counted
    BY <2>3 DEF OutageOpened, SlowdownOpened, Moves, SameOutage, Counting
  <2>4. ASSUME NEW i \in Incidents \cup {None}, OutageAdopted(k, i) \/ SlowdownAdopted(k, i) PROVE Counted
    BY <2>4 DEF OutageAdopted, SlowdownAdopted, Moves, SameOutage, Counting
  <2> HIDE DEF Counted
  <2> QED BY <1>t, <2>1, <2>2, <2>3, <2>4, TransitionEffects
<1>4. /\ Earned(job[k].streaks, Seen(k)) /\ Seen(k) \in Runs
      /\ job[k].down # None => Seen(k).failed >= FailureThreshold
      /\ job[k].recovered # None => Seen(k).ok >= RecoveryThreshold
  <2>1. Justified(k) /\ Stage(k)
    BY DEF ConfirmedInv, StagesInv
  <2>2. /\ Earned(job[k].streaks, Seen(k))
        /\ job[k].down # None => Seen(k).failed >= FailureThreshold
        /\ job[k].recovered # None => Seen(k).ok >= RecoveryThreshold
    BY <1>3, <2>1 DEF Justified, Stage, Early, Counting
  <2>3. Seen(k) \in Runs
    BY <1>t, NextRunType DEF Seen, Runs
  <2> QED BY <2>2, <2>3
<1>5. /\ job[k].streaks.failures >= FailureThreshold => Seen(k).failed >= FailureThreshold
      /\ job[k].streaks.successes >= RecoveryThreshold => Seen(k).ok >= RecoveryThreshold
  <2>1. /\ job[k].streaks.failures \in Nat /\ job[k].streaks.successes \in Nat
        /\ Seen(k).failed \in Nat /\ Seen(k).ok \in Nat
        /\ FailureThreshold \in Nat /\ RecoveryThreshold \in Nat
    BY <1>t, <1>4, ThresholdAssumption DEF Streaks, Runs, Count
  <2> QED BY <1>4, <2>1 DEF Earned
<1>6. Earned(job[k].streaks, Seen(k))'
  BY <1>1, <1>2, <1>4 DEF Earned
<1>7. job'[k].pc \in {"slowdown", "adoptSlowdown", "save"} =>
          /\ job'[k].down # None => Seen(k)'.failed >= FailureThreshold
          /\ job'[k].recovered # None => Seen(k)'.ok >= RecoveryThreshold
  BY <1>2, <1>3, <1>4, <1>5
<1> QED BY <1>3, <1>6, <1>7 DEF Justified, Counting

LEMMA OutcomesAreOutcomes == CheckOutcomes \subseteq Outcome
<1>1. FailedCheck \in Outcome
  BY DEF FailedCheck, Outcome
<1>2. [ok: {TRUE}, anomalous: BOOLEAN, slow: BOOLEAN] \subseteq Outcome
  BY DEF Outcome
<1> QED BY <1>1, <1>2 DEF CheckOutcomes

LEMMA ConfirmedStep ==
    TypeInv /\ ExclusiveJob /\ StagesInv /\ ConfirmedInv /\ [Next]_vars => ConfirmedInv'
<1> SUFFICES ASSUME TypeInv, ExclusiveJob, StagesInv, ConfirmedInv, [Next]_vars
             PROVE  ConfirmedInv'
  OBVIOUS
<1>t. /\ JobsOK /\ job \in [Jobs -> Job] /\ run \in [Websites -> Runs]
      /\ website \in [Websites -> Website]
  BY TypeParts DEF JobsOK, LedgersOK, DocumentsOK, Runs
<1>u. run' \in [Websites -> Runs]
  BY NextTypes, TypeParts DEF TypeInv, TypeOK, Runs
<1> DEFINE SiteOK(w) == website[w].exists => Earned(website[w].streaks, run[w])
           Done == (\A w \in Websites : SiteOK(w)') /\ \A k \in Jobs : Justified(k)'
<1>0. \A w \in Websites : SiteOK(w)
  BY DEF ConfirmedInv
<1>1. ASSUME NEW w \in Websites, run'[w] = run[w],
             website'[w].exists => website[w].exists,
             website'[w].streaks.failures \in {website[w].streaks.failures, 0},
             website'[w].streaks.successes \in {website[w].streaks.successes, 0}
      PROVE  SiteOK(w)'
  <2>1. run[w].failed \in Nat /\ run[w].ok \in Nat
    BY <1>t, ThresholdAssumption DEF Runs, Count
  <2> QED BY <1>0, <1>1, <2>1 DEF Earned
<1>2. ASSUME UNCHANGED run, WebsitesAlike \/ UNCHANGED website PROVE \A w \in Websites : SiteOK(w)'
  BY <1>1, <1>2 DEF WebsitesAlike
<1>3. ASSUME NEW k \in Jobs, UNCHANGED run, \A l \in Jobs \ {k} : job'[l] = job[l],
             WebsitesAlike \/ UNCHANGED website, Justified(k)'
      PROVE  Done
  <2>1. \A l \in Jobs \ {k} : Justified(l)'
    BY <1>3, <1>t, JustifiedOthers
  <2> QED BY <1>2, <1>3, <2>1
<1> HIDE DEF SiteOK
<1>4. ASSUME OutsideStep \/ UNCHANGED vars PROVE Done
  <2>1. UNCHANGED job
    BY <1>4, OutsideEffects DEF vars
  <2>2. \A w \in Websites : website'[w] = website[w] \/ Touched(w)
    BY <1>4, OutsideEffects DEF vars
  <2>3. RunsKept
    <3>1. UNCHANGED vars => RunsKept
      BY DEF vars, RunsKept
    <3> QED BY <1>4, <3>1, OutsideEffects
  <2>4. ASSUME NEW w \in Websites PROVE SiteOK(w)'
    <3>1. CASE run'[w] = run[w]
      BY <1>1, <2>2, <3>1 DEF Touched
    <3>2. CASE website'[w].streaks.failures = 0 /\ website'[w].streaks.successes = 0
      <4>1. run'[w].failed \in Nat /\ run'[w].ok \in Nat
        BY <1>u, ThresholdAssumption DEF Runs, Count
      <4> QED BY <3>2, <4>1 DEF SiteOK, Earned
    <3> QED BY <2>3, <3>1, <3>2 DEF RunsKept
  <2>5. ASSUME NEW k \in Jobs PROVE Justified(k)'
    <3>1. job[k].pc # "idle" => run'[job[k].site] = run[job[k].site]
      BY <2>3, <1>t, JobFields DEF RunsKept, Idle, Working
    <3> QED BY <2>1, <3>1 DEF ConfirmedInv, Justified, Seen, Counting
  <2> QED BY <2>4, <2>5
<1>5. ASSUME NEW k \in Jobs, NEW w \in Websites, Claim(k, w) PROVE Done
  <2>1. job'[k].pc = "check" /\ Earned(job'[k].streaks, run'[job'[k].site])
    BY <1>5, ClaimEffects DEF ConfirmedInv, Moves
  <2>2. Justified(k)'
    BY <2>1 DEF Justified, Counting
  <2> QED BY <1>3, <1>5, <2>2, ClaimEffects
<1>6. ASSUME NEW k \in Jobs, NEW o \in Outcomes, NEW detecting \in DetectionReads,
             Check(k, o, detecting)
      PROVE  Done
  <2>1. /\ job[k].pc = "check" /\ job'[k].pc = "outage" /\ job'[k].site = job[k].site
        /\ job'[k].outcome = o /\ job'[k].streaks = NextStreaks(job[k].streaks, o, detecting)
        /\ UNCHANGED run
    BY <1>6, CheckEffects DEF Moves
  <2>2. /\ job[k].streaks \in Streaks /\ run[job[k].site] \in Runs /\ o \in Outcome
        /\ detecting \in BOOLEAN
    <3>1. o \in Outcome
      BY OutcomesAreOutcomes, ConstantsAssumption
    <3> QED BY <1>t, <2>1, <3>1, JobFields, ConstantsAssumption
  <2>3. Earned(job[k].streaks, run[job[k].site])
    BY <2>1 DEF ConfirmedInv, Justified
  <2>4. Earned(job'[k].streaks, NextRun(run'[job'[k].site], job'[k].outcome))
    BY <2>1, <2>2, <2>3, EarnedNext
  <2>5. Justified(k)'
    BY <2>1, <2>4 DEF Justified, Seen, Counting
  <2> QED BY <1>3, <1>6, <2>5, CheckEffects
<1>7. ASSUME NEW k \in Jobs, Transition(k) PROVE Done
  <2>1. UNCHANGED <<run, website>> /\ \A l \in Jobs \ {k} : job'[l] = job[l]
    BY <1>7, <1>t, TransitionUnchanged, OthersUntouched DEF history
  <2> QED BY <1>3, <1>7, <2>1, JustifiedTransition
<1>8. ASSUME NEW k \in Jobs, SaveWebsite(k) PROVE Done
  <2>1. PICK w \in Websites : w = job[k].site
    BY <1>8, <1>t, JobFields DEF SaveWebsite
  <2>2. /\ job[k].pc = "save" /\ job'[k].pc = "announce"
        /\ \A v \in Websites \ {w} : website'[v] = website[v]
        /\ website'[w].exists = website[w].exists
        /\ website[w].exists => website'[w].streaks = job[k].streaks
        /\ run' = [run EXCEPT ![w] = NextRun(run[w], job[k].outcome)]
        /\ \A l \in Jobs \ {k} : job'[l] = job[l]
    BY <1>8, <2>1, SaveEffects DEF Moves
  <2>3. run'[w] = NextRun(run[w], job[k].outcome) /\ \A v \in Websites \ {w} : run'[v] = run[v]
    BY <1>t, <2>2
  <2>4. Earned(job[k].streaks, run'[w])
    BY <2>1, <2>2, <2>3 DEF ConfirmedInv, Justified, Seen, Counting
  <2>5. SiteOK(w)'
    BY <2>2, <2>4 DEF SiteOK, Earned
  <2>6. \A v \in Websites \ {w} : SiteOK(v)'
    BY <1>0, <2>2, <2>3 DEF SiteOK
  <2>7. Justified(k)'
    BY <2>2 DEF Justified, Counting
  <2>8. \A l \in Jobs \ {k} : Justified(l)'
    BY <1>t, <2>1, <2>2, <2>3, JustifiedOthers
  <2> QED BY <2>5, <2>6, <2>7, <2>8
<1>9. ASSUME NEW k \in Jobs, NEW t \in job[k].tasks, TaskStep(k, t) PROVE Done
  <2>1. job'[k].pc = "announce" /\ UNCHANGED <<website, run>> /\ \A l \in Jobs \ {k} : job'[l] = job[l]
    BY <1>9, TaskEffects DEF Moves
  <2>2. Justified(k)'
    BY <2>1 DEF Justified, Counting
  <2> QED BY <1>3, <2>1, <2>2
<1>10. ASSUME NEW k \in Jobs, EndStep(k) PROVE Done
  <2>1. job'[k].pc \in {"release", "idle"} /\ WebsitesAlike /\ UNCHANGED run
        /\ \A l \in Jobs \ {k} : job'[l] = job[l]
    BY <1>10, EndEffects
  <2>2. Justified(k)'
    BY <2>1 DEF Justified, Counting
  <2> QED BY <1>3, <2>1, <2>2
<1> HIDE DEF Done
<1>11. Done
  BY <1>4, <1>5, <1>6, <1>7, <1>8, <1>9, <1>10, StepKinds
<1> QED BY <1>11 DEF Done, SiteOK, ConfirmedInv

\* "Never declare a site down on one failed check", for any thresholds and any
\* number of jobs and websites: as long as no lease expires under a live job.
THEOREM ConfirmedTransitionsAlways ==
    ASSUME LeaseOutlivesJob
    PROVE  Spec => []ConfirmedTransitions
<1>1. Init => ConfirmedInv
  BY DEF Init, ConfirmedInv, Justified, Earned, Counting, IdleJob, NewWebsite, ZeroStreaks
<1>2. ConfirmedInv => ConfirmedTransitions
  BY DEF ConfirmedInv, Justified, Seen, ConfirmedTransitions
<1>3. ExclusiveInv => ExclusiveJob
  BY DEF ExclusiveInv
<1>4. TypeInv /\ ExclusiveInv /\ [Next]_vars => ExclusiveInv'
  BY ExclusiveStep
<1> QED BY <1>1, <1>2, <1>3, <1>4, ExclusiveInit, StagesInit, StagesStep, ConfirmedStep, InitTypeInv,
           NextTypes, PTL DEF Spec

-----------------------------------------------------------------------------
(* The announcements of one incident in order.                             *)

\* Job k opened incident i and has still to announce that.
Announces(k, i) ==
    \/ job[k].down = i
    \/ job[k].degraded = i
    \/ \E t \in job[k].tasks : t.incident = i /\ t.event \in {"down", "degraded"}

\* While it has, no job is about to announce the end of the incident and no
\* end of it was sent: it takes a job of the website to end it, and there is
\* one.
Ordered(k, i) ==
    Announces(k, i) =>
        /\ incident[i].state # "unused" /\ incident[i].site = job[k].site
        /\ job[k].down = i => incident[i].category = "availability"
        /\ \A l \in Jobs : ~Ends(l, i)
        /\ \A e \in Endings : dispatched[<<e, i>>] = 0

OrderInv == \A k \in Jobs, i \in Incidents : Ordered(k, i)

LEMMA OrderKept ==
    ASSUME OrderInv, NEW i \in Incidents, Stays(i),
           \A k \in Jobs : Announces(k, i)' =>
               /\ Announces(k, i) /\ job'[k].site = job[k].site
               /\ job'[k].down = i => job[k].down = i,
           \A l \in Jobs : Ends(l, i)' => Ends(l, i) \/ \A k \in Jobs : ~Announces(k, i),
           \A e \in Endings : \/ dispatched'[<<e, i>>] = dispatched[<<e, i>>]
                              \/ \E l \in Jobs : Ends(l, i)
    PROVE  \A k \in Jobs : Ordered(k, i)'
<1> SUFFICES ASSUME NEW k \in Jobs, Announces(k, i)' PROVE Ordered(k, i)'
  BY DEF Ordered
<1> HIDE DEF Announces, Ends
<1>1. /\ Announces(k, i) /\ job'[k].site = job[k].site
      /\ job'[k].down = i => job[k].down = i
  OBVIOUS
<1>2. /\ incident[i].state # "unused" /\ incident[i].site = job[k].site
      /\ job[k].down = i => incident[i].category = "availability"
      /\ \A l \in Jobs : ~Ends(l, i)
      /\ \A e \in Endings : dispatched[<<e, i>>] = 0
  BY <1>1 DEF OrderInv, Ordered
<1>3. (\A l \in Jobs : ~Ends(l, i)') /\ \A e \in Endings : dispatched'[<<e, i>>] = 0
  BY <1>1, <1>2
<1>4. /\ incident'[i].state # "unused" /\ incident'[i].site = incident[i].site
      /\ incident'[i].category = incident[i].category
  BY <1>2 DEF Stays
<1> QED BY <1>1, <1>2, <1>3, <1>4 DEF Ordered

LEMMA SameMemory ==
    ASSUME NEW l \in Jobs, job'[l] = job[l], NEW i
    PROVE  Announces(l, i)' = Announces(l, i) /\ Ends(l, i)' = Ends(l, i)
BY DEF Announces, Ends

\* An announcement a job starts with is of an incident it opened itself.
LEMMA OpeningTasks ==
    ASSUME NEW j, NEW t \in TasksOf(j), t.event \in {"down", "degraded"}
    PROVE  t.incident = j.down \/ t.incident = j.degraded
<1>1. \A e, i : \A u \in Parts(e, i) : u.event = e /\ u.incident = i
  BY DEF Parts
<1> QED BY <1>1 DEF TasksOf

\* A step of one job that announces and ends nothing new.
LEMMA OrderQuiet ==
    ASSUME OrderInv, NEW k \in Jobs, \A l \in Jobs \ {k} : job'[l] = job[l],
           \A i \in Incidents : Stays(i),
           \A i \in Incidents : Announces(k, i)' =>
               /\ Announces(k, i) /\ job'[k].site = job[k].site
               /\ job'[k].down = i => job[k].down = i,
           \A i \in Incidents : Ends(k, i)' => Ends(k, i) \/ \A l \in Jobs : ~Announces(l, i),
           \A i \in Incidents, e \in Endings :
               \/ dispatched'[<<e, i>>] = dispatched[<<e, i>>]
               \/ \E l \in Jobs : Ends(l, i)
    PROVE  OrderInv'
<1> SUFFICES ASSUME NEW i \in Incidents PROVE \A l \in Jobs : Ordered(l, i)'
  BY DEF OrderInv
<1>1. \A l \in Jobs \ {k} : Announces(l, i)' = Announces(l, i) /\ Ends(l, i)' = Ends(l, i)
  BY SameMemory
<1> HIDE DEF Announces, Ends, Stays
<1>2. \A l \in Jobs : Announces(l, i)' =>
               /\ Announces(l, i) /\ job'[l].site = job[l].site
               /\ job'[l].down = i => job[l].down = i
  BY <1>1
<1>3. \A l \in Jobs : Ends(l, i)' => Ends(l, i) \/ \A m \in Jobs : ~Announces(m, i)
  BY <1>1
<1> QED BY <1>2, <1>3, OrderKept

\* A job that resolves an incident ends none that is still to be announced: it
\* would have to be the job that opened it, and that one has moved on.
LEMMA EndsUnannounced ==
    ASSUME TypeInv, ExclusiveJob, StagesInv, RefsInv, OrderInv,
           NEW k \in Jobs, NEW i \in Incidents,
           \/ job[k].pc = "outage" /\ job[k].outage = i
           \/ job[k].pc = "slowdown" /\ job[k].slowdown = i
    PROVE  \A l \in Jobs : ~Announces(l, i)
<1> SUFFICES ASSUME NEW l \in Jobs, Announces(l, i) PROVE FALSE
  OBVIOUS
<1>t. JobsOK /\ None \notin Incidents
  BY TypeParts, ConstantsAssumption
<1>1. /\ incident[i].site = job[l].site
      /\ job[l].down = i => incident[i].category = "availability"
  BY DEF OrderInv, Ordered
<1>2. Stage(l) /\ Stage(k)
  BY DEF StagesInv
<1>3. job[l].pc # "idle"
  BY <1>t, <1>2 DEF Announces, Stage
<1>4. job[k].outage = i \/ job[k].slowdown = i => incident[i].site = job[k].site
  BY <1>t DEF RefsInv, ReferencesFit, RefersTo
<1>5. l = k
  BY <1>1, <1>3, <1>4 DEF ExclusiveJob
<1>6. job[k].down # i
  <2>1. job[k].pc = "slowdown" => incident[i].category = "anomaly"
    BY <1>t DEF RefsInv, ReferencesFit, RefersTo
  <2> QED BY <1>t, <1>1, <1>2, <1>5, <2>1 DEF Stage
<1>7. job[k].degraded # i /\ job[k].tasks = {}
  BY <1>t, <1>2 DEF Stage
<1> QED BY <1>5, <1>6, <1>7 DEF Announces

\* An incident that is opened was neither announced nor ended before.
LEMMA OrderOpened ==
    ASSUME TypeInv, StagesInv, ClosedInv, OrderInv,
           NEW k \in Jobs, NEW i \in Incidents, NEW c,
           incident[i].state = "unused",
           incident' = [incident EXCEPT ![i] = OpenIncident(job[k].site, c)],
           \A l \in Jobs \ {k} : job'[l] = job[l],
           job[k].pc # "announce", job'[k].site = job[k].site, job'[k].tasks = job[k].tasks,
           job'[k].recovered = job[k].recovered, job'[k].restored = job[k].restored,
           \/ /\ job'[k].down = i /\ incident'[i].category = "availability"
              /\ job'[k].degraded = job[k].degraded
           \/ job'[k].down = job[k].down /\ job'[k].degraded = i,
           UNCHANGED dispatched
    PROVE  OrderInv'
<1>t. /\ incident \in [Incidents -> Incident] /\ None \notin Incidents
  BY TypeParts, ConstantsAssumption DEF DocumentsOK
<1>1. /\ \A x \in Incidents : Stays(x)
      /\ incident'[i].state = "open" /\ incident'[i].site = job[k].site
      /\ incident'[i].category = c
  <2> DEFINE opened == OpenIncident(job[k].site, c)
  <2>1. opened.state = "open" /\ opened.site = job[k].site /\ opened.category = c
    BY DEF OpenIncident, UnusedIncident
  <2>2. incident' = [incident EXCEPT ![i] = opened]
    OBVIOUS
  <2> HIDE DEF opened
  <2>3. incident'[i] = opened /\ \A x \in Incidents \ {i} : incident'[x] = incident[x]
    BY <1>t, <2>2
  <2> QED BY <2>1, <2>3 DEF Stays
<1>2. \A l \in Jobs : ~Announces(l, i)
  BY DEF OrderInv, Ordered
<1>3. (\A l \in Jobs : ~Ends(l, i)) /\ \A e \in Endings : dispatched[<<e, i>>] = 0
  BY DEF ClosedInv, Silent, NotEnded
<1>4. \A l \in Jobs, x \in Incidents : Ends(l, x)' = Ends(l, x)
  BY DEF Ends
<1>5. \A l \in Jobs, x \in Incidents \ {i} : Announces(l, x)' => Announces(l, x)
  BY DEF Announces
<1>6. \A l \in Jobs \ {k} : ~Announces(l, i)'
  BY <1>2 DEF Announces
<1>7. \A l \in Jobs : Ordered(l, i)'
  <2>1. (\A l \in Jobs : ~Ends(l, i)') /\ \A e \in Endings : dispatched'[<<e, i>>] = 0
    BY <1>3, <1>4
  <2>2. job'[k].down = i => incident'[i].category = "availability"
    BY <1>2 DEF Announces
  <2>3. Ordered(k, i)'
    BY <1>1, <2>1, <2>2 DEF Ordered
  <2> QED BY <1>6, <2>3 DEF Ordered
<1>8. ASSUME NEW x \in Incidents \ {i} PROVE \A l \in Jobs : Ordered(l, x)'
  <2>1. \A l \in Jobs : Announces(l, x)' =>
               /\ Announces(l, x) /\ job'[l].site = job[l].site
               /\ job'[l].down = x => job[l].down = x
    BY <1>5
  <2> HIDE DEF Announces, Ends, Stays
  <2> QED BY <1>1, <1>4, <2>1, OrderKept
<1> QED BY <1>7, <1>8 DEF OrderInv

LEMMA OrderTransition ==
    ASSUME TypeInv, ExclusiveJob, StagesInv, RefsInv, ClosedInv, OrderInv,
           NEW k \in Jobs, Transition(k)
    PROVE  OrderInv'
<1>t. /\ JobsOK /\ None \notin Incidents /\ job[k].slowdown \in Incidents \cup {None}
      /\ job[k].outage \in Incidents \cup {None}
  BY TypeParts, JobFields, ConstantsAssumption
<1>1. Given(k) /\ UNCHANGED dispatched
  BY <1>t, TransitionEffects, TransitionUnchanged DEF ledger
<1>2. \A i \in Incidents : Stays(i)
  BY TransitionStays
<1>3. ASSUME job'[k].down = job[k].down, job'[k].degraded = job[k].degraded,
             \A i \in Incidents : job'[k].recovered = i \/ job'[k].restored = i =>
                 Ends(k, i) \/ \A l \in Jobs : ~Announces(l, i)
      PROVE  OrderInv'
  <2>1. \A i \in Incidents : Announces(k, i)' =>
               /\ Announces(k, i) /\ job'[k].site = job[k].site
               /\ job'[k].down = i => job[k].down = i
    BY <1>1, <1>3 DEF Announces, Given
  <2>2. \A i \in Incidents : Ends(k, i)' => Ends(k, i) \/ \A l \in Jobs : ~Announces(l, i)
    BY <1>1, <1>3 DEF Given, Ends
  <2> HIDE DEF Announces, Ends, Stays
  <2> QED BY <1>1, <1>2, <2>1, <2>2, OrderQuiet DEF Given
<1>4. CASE OutageKept(k) \/ OutageLost(k) \/ SlowdownKept(k) \/ SlowdownLost(k)
  <2>1. /\ job'[k].down = job[k].down /\ job'[k].degraded = job[k].degraded
        /\ job'[k].recovered = job[k].recovered /\ job'[k].restored = job[k].restored
    BY <1>4 DEF OutageKept, OutageLost, SlowdownKept, SlowdownLost, SameOutage, SameSlowdown
  <2> QED BY <1>3, <2>1 DEF Ends
<1>5. ASSUME NEW i \in Incidents \cup {None}, OutageAdopted(k, i) \/ SlowdownAdopted(k, i)
      PROVE  OrderInv'
  <2>1. /\ job'[k].down = job[k].down /\ job'[k].degraded = job[k].degraded
        /\ job'[k].recovered = job[k].recovered /\ job'[k].restored = job[k].restored
    BY <1>5 DEF OutageAdopted, SlowdownAdopted, SameOutage, SameSlowdown
  <2> QED BY <1>3, <2>1 DEF Ends
<1>6. CASE OutageResolved(k)
  <2>1. /\ job'[k].down = job[k].down /\ job'[k].degraded = job[k].degraded
        /\ job'[k].recovered \in {job[k].outage, None} /\ job'[k].restored = job[k].restored
        /\ job[k].pc = "outage"
    BY <1>6 DEF OutageResolved, SameSlowdown, Moves
  <2>2. \A i \in Incidents : job'[k].recovered = i => \A l \in Jobs : ~Announces(l, i)
    BY <1>t, <2>1, EndsUnannounced
  <2> QED BY <1>3, <2>1, <2>2 DEF Ends
<1>7. CASE SlowdownClosed(k)
  <2>1. /\ job'[k].down = job[k].down /\ job'[k].degraded = job[k].degraded
        /\ job'[k].restored \in {job[k].slowdown, None} /\ job'[k].recovered = job[k].recovered
        /\ job[k].pc = "slowdown"
    BY <1>7 DEF SlowdownClosed, SameOutage, Moves
  <2>2. \A i \in Incidents : job'[k].restored = i => \A l \in Jobs : ~Announces(l, i)
    BY <1>t, <2>1, EndsUnannounced
  <2> QED BY <1>3, <2>1, <2>2 DEF Ends
<1>8. ASSUME NEW i \in Incidents, OutageOpened(k, i) PROVE OrderInv'
  <2>1. incident'[i].category = "availability"
    BY <1>8, TypeParts DEF DocumentsOK, OutageOpened, OpenIncident, UnusedIncident
  <2> QED BY <1>1, <1>8, <2>1, OrderOpened DEF OutageOpened, SameSlowdown, Given, Moves
<1>9. ASSUME NEW i \in Incidents, SlowdownOpened(k, i) PROVE OrderInv'
  BY <1>1, <1>9, OrderOpened DEF SlowdownOpened, SameOutage, Given, Moves
<1>10. \/ OutageKept(k) \/ OutageLost(k) \/ OutageResolved(k)
       \/ SlowdownKept(k) \/ SlowdownLost(k) \/ SlowdownClosed(k)
       \/ \E i \in Incidents : OutageOpened(k, i) \/ SlowdownOpened(k, i)
       \/ \E i \in Incidents \cup {None} : OutageAdopted(k, i) \/ SlowdownAdopted(k, i)
  BY <1>t, TransitionEffects
<1> QED BY <1>4, <1>5, <1>6, <1>7, <1>8, <1>9, <1>10

LEMMA OrderStep ==
    TypeInv /\ ExclusiveJob /\ StagesInv /\ RefsInv /\ ClosedInv /\ OrderInv /\ [Next]_vars
        => OrderInv'
<1> SUFFICES ASSUME TypeInv, ExclusiveJob, StagesInv, RefsInv, ClosedInv, OrderInv, [Next]_vars
             PROVE  OrderInv'
  OBVIOUS
<1>t. JobsOK /\ None \notin Incidents /\ dispatched \in [Announcements -> Nat]
  BY TypeParts, ConstantsAssumption DEF LedgersOK
<1>1. \A i \in Incidents : Stays(i)
  BY IncidentsStay
<1>2. ASSUME NEW k \in Jobs, \A l \in Jobs \ {k} : job'[l] = job[l], UNCHANGED dispatched,
             \A i \in Incidents : Announces(k, i)' =>
                 /\ Announces(k, i) /\ job'[k].site = job[k].site
                 /\ job'[k].down = i => job[k].down = i,
             \A i \in Incidents : Ends(k, i)' => Ends(k, i)
      PROVE  OrderInv'
  <2> HIDE DEF Announces, Ends, Stays
  <2> QED BY <1>1, <1>2, OrderQuiet
<1>3. ASSUME OutsideStep \/ UNCHANGED vars PROVE OrderInv'
  <2>1. UNCHANGED <<job, dispatched>>
    BY <1>3, OutsideEffects DEF vars
  <2>2. \A i \in Incidents : \A k \in Jobs : Ordered(k, i)'
    BY <1>1, <2>1, OrderKept, SameMemory
  <2> QED BY <2>2 DEF OrderInv
<1>4. ASSUME NEW k \in Jobs, NEW w \in Websites, Claim(k, w) PROVE OrderInv'
  <2>1. /\ job'[k].down = None /\ job'[k].degraded = None /\ job'[k].tasks = {}
        /\ job'[k].recovered = None /\ job'[k].restored = None
        /\ \A l \in Jobs \ {k} : job'[l] = job[l]
        /\ UNCHANGED dispatched
    BY <1>4, ClaimEffects
  <2>2. \A i \in Incidents : ~Announces(k, i)' /\ ~Ends(k, i)'
    BY <1>t, <2>1 DEF Announces, Ends
  <2> QED BY <1>2, <2>1, <2>2
<1>5. ASSUME NEW k \in Jobs, NEW o \in Outcomes, NEW detecting \in DetectionReads,
             Check(k, o, detecting)
      PROVE  OrderInv'
  <2>1. /\ job'[k].down = job[k].down /\ job'[k].degraded = job[k].degraded
        /\ job'[k].tasks = job[k].tasks /\ job'[k].site = job[k].site
        /\ job'[k].recovered = job[k].recovered /\ job'[k].restored = job[k].restored
        /\ \A l \in Jobs \ {k} : job'[l] = job[l]
        /\ UNCHANGED dispatched
    BY <1>5, CheckEffects DEF SameOutage, SameSlowdown
  <2>2. \A i \in Incidents : /\ Announces(k, i)' => Announces(k, i)
                             /\ Ends(k, i)' => Ends(k, i)
    BY <2>1 DEF Announces, Ends
  <2> QED BY <1>2, <2>1, <2>2
<1>6. ASSUME NEW k \in Jobs, SaveWebsite(k) PROVE OrderInv'
  <2>1. /\ job'[k].down = None /\ job'[k].degraded = None /\ job'[k].tasks = TasksOf(job[k])
        /\ job'[k].recovered = job[k].recovered /\ job'[k].restored = job[k].restored
        /\ job'[k].site = job[k].site
        /\ \A l \in Jobs \ {k} : job'[l] = job[l]
        /\ UNCHANGED dispatched
    BY <1>6, SaveEffects DEF Blank
  <2>2. \A i \in Incidents : /\ Announces(k, i)' => Announces(k, i)
                             /\ Ends(k, i)' => Ends(k, i)
    BY <1>t, <2>1, OpeningTasks, EndingTasks DEF Announces, Ends
  <2> QED BY <1>t, <1>2, <2>1, <2>2
<1>7. ASSUME NEW k \in Jobs, NEW t \in job[k].tasks, TaskStep(k, t) PROVE OrderInv'
  <2>1. /\ job'[k].down = job[k].down /\ job'[k].degraded = job[k].degraded
        /\ job'[k].recovered = job[k].recovered /\ job'[k].restored = job[k].restored
        /\ job'[k].site = job[k].site
        /\ \A u \in job'[k].tasks : \E v \in job[k].tasks :
                  u.event = v.event /\ u.incident = v.incident
        /\ \A l \in Jobs \ {k} : job'[l] = job[l]
    BY <1>7, TaskEffects DEF SameOutage, SameSlowdown
  <2>2. \A i \in Incidents : /\ Announces(k, i)' => Announces(k, i)
                             /\ Ends(k, i)' => Ends(k, i)
    BY <2>1 DEF Announces, Ends
  <2>3. \A i \in Incidents, e \in Endings :
            dispatched'[<<e, i>>] = dispatched[<<e, i>>] \/ Ends(k, i)
    <3> SUFFICES ASSUME NEW i \in Incidents, NEW e \in Endings, ~Ends(k, i)
                 PROVE  dispatched'[<<e, i>>] = dispatched[<<e, i>>]
      OBVIOUS
    <3>1. <<e, i>> # <<t.event, t.incident>>
      BY DEF Ends
    <3>2. <<e, i>> \in Announcements
      BY DEF Announcements, Events, Endings
    <3>3. \/ UNCHANGED dispatched
          \/ dispatched' = [dispatched EXCEPT ![<<t.event, t.incident>>] =
                                    dispatched[<<t.event, t.incident>>] + 1]
      BY <1>7, TaskEffects
    <3> QED BY <1>t, <3>1, <3>2, <3>3
  <2> HIDE DEF Announces, Ends, Stays
  <2> QED BY <1>1, <2>1, <2>2, <2>3, OrderQuiet
<1>8. ASSUME NEW k \in Jobs, EndStep(k) PROVE OrderInv'
  <2>1. /\ job'[k].down = None /\ job'[k].degraded = None /\ job'[k].tasks = {}
        /\ job'[k].recovered = None /\ job'[k].restored = None
        /\ \A l \in Jobs \ {k} : job'[l] = job[l]
        /\ UNCHANGED dispatched
    BY <1>8, EndEffects DEF Blank
  <2>2. \A i \in Incidents : ~Announces(k, i)' /\ ~Ends(k, i)'
    BY <1>t, <2>1 DEF Announces, Ends
  <2> QED BY <1>2, <2>1, <2>2
<1> QED BY <1>3, <1>4, <1>5, <1>6, <1>7, <1>8, OrderTransition, StepKinds

\* The e-mail that ends an incident is never sent while the one that announces
\* it is still waiting in some job, as long as no lease expires under a live
\* job, for any number of jobs, websites and incidents.
THEOREM AnnouncedInOrderAlways ==
    ASSUME LeaseOutlivesJob
    PROVE  Spec => []AnnouncedInOrder
<1>1. Init => OrderInv
  BY ConstantsAssumption DEF Init, OrderInv, Ordered, Announces, IdleJob
<1>2. TypeInv /\ OrderInv => AnnouncedInOrder
  <2> SUFFICES ASSUME OrderInv, TypeInv, NEW i \in Incidents, NEW k \in Jobs, NEW t \in job[k].tasks,
                      t.incident = i, t.event \in {"down", "degraded"}
               PROVE  dispatched[<<"recovered", i>>] + dispatched[<<"restored", i>>] = 0
    BY DEF AnnouncedInOrder
  <2>1. Announces(k, i)
    BY DEF Announces
  <2>2. dispatched[<<"recovered", i>>] = 0 /\ dispatched[<<"restored", i>>] = 0
    BY <2>1 DEF OrderInv, Ordered, Endings
  <2> QED BY <2>2
<1>3. ExclusiveInv => ExclusiveJob
  BY DEF ExclusiveInv
<1>4. TypeInv /\ ExclusiveInv /\ [Next]_vars => ExclusiveInv'
  BY ExclusiveStep
<1> QED BY <1>1, <1>2, <1>3, <1>4, ExclusiveInit, ClosedInit, RefsInit, StagesInit, ClosedStep,
           RefsStep, StagesStep, OrderStep, InitTypeInv, NextTypes, PTL DEF Spec

-----------------------------------------------------------------------------
(* References and open incidents.                                          *)

AtRest(w) == \A k \in Jobs : Working(k, w) => job[k].pc \in {"announce", "release"}

Holding == {"check", "outage", "slowdown", "save"}

\* Two references cover the open incidents of a website, and are to open ones
\* as long as no person closes any.
Matches(w, outage, slowdown) ==
    /\ \A i \in Incidents : incident[i].state = "open" /\ incident[i].site = w =>
          /\ incident[i].category = "availability" => i = outage
          /\ incident[i].category = "anomaly" => i = slowdown
    /\ "resolve" \notin Operations /\ website[w].exists =>
          /\ outage # None => incident[outage].state = "open"
          /\ slowdown # None => incident[slowdown].state = "open"

\* A website matches while it is at rest, and the job that works on it matches
\* until it saves; none of it finds an incident it does not know of.
RestOK(w) ==
    w \notin interrupted /\ website[w].exists /\ AtRest(w) =>
        Matches(w, website[w].outage, website[w].slowdown)

HoldsOK(k) ==
    job[k].pc \notin {"idle", "announce", "release"} /\ job[k].site \notin interrupted =>
        /\ job[k].pc \in Holding
        /\ Matches(job[k].site, job[k].outage, job[k].slowdown)

\* Incidents are only purged after their website.
PurgeInv == \A w \in purge : ~website[w].exists

MirrorInv == PurgeInv /\ (\A w \in Websites : RestOK(w)) /\ \A k \in Jobs : HoldsOK(k)


\* A match outlives a step that opens and closes nothing on its website ...
LEMMA MatchesStep ==
    ASSUME \A i \in Incidents : Stays(i), NEW w,
           NEW o \in Incidents \cup {None}, NEW s \in Incidents \cup {None},
           RefersTo(o, w, "availability"), RefersTo(s, w, "anomaly"), Matches(w, o, s),
           website'[w].exists => website[w].exists,
           \A i \in Incidents : incident'[i].site = w => incident'[i].state = incident[i].state
    PROVE  Matches(w, o, s)'
<1>1. ASSUME NEW i \in Incidents, incident'[i].state = "open", incident'[i].site = w
      PROVE  /\ incident[i].state = "open" /\ incident[i].site = w
             /\ incident'[i].category = incident[i].category
  BY <1>1 DEF Stays
<1>2. ASSUME NEW r \in Incidents, incident[r].state = "open", incident[r].site = w
      PROVE  incident'[r].state = "open"
  BY <1>2 DEF Stays
<1>3. \A i \in Incidents : incident'[i].state = "open" /\ incident'[i].site = w =>
          /\ incident'[i].category = "availability" => i = o
          /\ incident'[i].category = "anomaly" => i = s
  BY <1>1 DEF Matches
<1>4. "resolve" \notin Operations /\ website'[w].exists =>
          /\ o # None => incident'[o].state = "open"
          /\ s # None => incident'[s].state = "open"
  BY <1>2 DEF Matches, RefersTo
<1> QED BY <1>3, <1>4 DEF Matches

\* ... and one that only closes, on a website that is gone or by a person.
LEMMA MatchesClosing ==
    ASSUME NEW w, NEW o \in Incidents \cup {None}, NEW s \in Incidents \cup {None},
           RefersTo(o, w, "availability"), RefersTo(s, w, "anomaly"), Matches(w, o, s),
           website'[w].exists => website[w].exists,
           \A i \in Incidents :
               /\ incident'[i].state \in {incident[i].state, "resolved", "deleted"}
               /\ incident'[i].site = incident[i].site
               /\ incident'[i].category = incident[i].category
               /\ "resolve" \in Operations \/ incident'[i].state = incident[i].state
                      \/ ~website[incident[i].site].exists
    PROVE  Matches(w, o, s)'
<1>1. \A i \in Incidents : incident'[i].state = "open" /\ incident'[i].site = w =>
          /\ incident'[i].category = "availability" => i = o
          /\ incident'[i].category = "anomaly" => i = s
  BY DEF Matches
<1>2. "resolve" \notin Operations /\ website'[w].exists =>
          /\ o # None => incident'[o].state = "open"
          /\ s # None => incident'[s].state = "open"
  BY DEF Matches, RefersTo
<1> QED BY <1>1, <1>2 DEF Matches

\* A step of job k, on website v, as far as the others are concerned.
LEMMA MirrorOthers ==
    ASSUME TypeInv, RefsInv, MirrorInv, PurgeInv', NEW k \in Jobs, NEW v \in Websites,
           \A i \in Incidents : Stays(i),
           \A i \in Incidents : incident'[i].state = incident[i].state \/ incident'[i].site = v,
           \A l \in Jobs \ {k} : job'[l] = job[l] /\ (job[l].pc # "idle" => job[l].site # v),
           job[k].pc # "idle" => job[k].site = v,
           job'[k].pc # "idle" => job'[k].site = v,
           \A w \in Websites \ {v} : /\ website'[w].exists = website[w].exists
                                     /\ website'[w].outage = website[w].outage
                                     /\ website'[w].slowdown = website[w].slowdown,
           website'[v].exists => website[v].exists,
           interrupted \subseteq interrupted',
           HoldsOK(k)', RestOK(v)'
    PROVE  MirrorInv'
<1>t. /\ JobsOK /\ website \in [Websites -> Website] /\ incident \in [Incidents -> Incident]
      /\ \A w \in Websites : /\ website[w].outage \in Incidents \cup {None}
                             /\ website[w].slowdown \in Incidents \cup {None}
      /\ \A l \in Jobs : /\ job[l].outage \in Incidents \cup {None}
                         /\ job[l].slowdown \in Incidents \cup {None}
  BY TypeParts, JobFields DEF DocumentsOK, Website
<1>0. \A w \in Websites : website'[w].exists => website[w].exists
  OBVIOUS
<1>1. ASSUME NEW w \in Websites \ {v} PROVE RestOK(w)'
  <2> SUFFICES ASSUME w \notin interrupted', website'[w].exists, AtRest(w)'
               PROVE  Matches(w, website[w].outage, website[w].slowdown)'
    BY DEF RestOK
  <2>1. AtRest(w)
    BY DEF AtRest, Working
  <2>2. PICK o \in Incidents \cup {None}, s \in Incidents \cup {None} :
            o = website[w].outage /\ s = website[w].slowdown
    BY <1>t
  <2>3. Matches(w, o, s)
    BY <2>1, <2>2 DEF MirrorInv, RestOK
  <2>4. RefersTo(o, w, "availability") /\ RefersTo(s, w, "anomaly")
    BY <2>2 DEF RefsInv, ReferencesFit
  <2>5. \A i \in Incidents : incident'[i].site = w => incident'[i].state = incident[i].state
    OBVIOUS
  <2>6. Matches(w, o, s)'
    BY <2>3, <2>4, <2>5, MatchesStep
  <2> QED BY <2>2, <2>6 DEF Matches
<1>2. ASSUME NEW l \in Jobs \ {k} PROVE HoldsOK(l)'
  <2> SUFFICES ASSUME job[l].pc \notin {"idle", "announce", "release"},
                      job[l].site \notin interrupted'
               PROVE  job[l].pc \in Holding
                      /\ Matches(job[l].site, job[l].outage, job[l].slowdown)'
    BY DEF HoldsOK
  <2>1. PICK w \in Websites, o \in Incidents \cup {None}, s \in Incidents \cup {None} :
            w = job[l].site /\ o = job[l].outage /\ s = job[l].slowdown
    BY <1>t, JobFields
  <2>2. job[l].pc \in Holding /\ Matches(w, o, s)
    BY <2>1 DEF MirrorInv, HoldsOK
  <2>3. RefersTo(o, w, "availability") /\ RefersTo(s, w, "anomaly")
    BY <2>1 DEF RefsInv, ReferencesFit
  <2>4. w # v
    BY <2>1
  <2>5. \A i \in Incidents : incident'[i].site = w => incident'[i].state = incident[i].state
    BY <2>4
  <2>6. Matches(w, o, s)'
    BY <1>0, <2>2, <2>3, <2>5, MatchesStep
  <2> QED BY <2>1, <2>2, <2>6 DEF Matches
<1> HIDE DEF HoldsOK, RestOK
<1> QED BY <1>1, <1>2 DEF MirrorInv

\* What an incident is opened with.
LEMMA OpenedFields ==
    ASSUME incident \in [Incidents -> Incident], NEW i \in Incidents,
           NEW w \in Websites, NEW c \in Categories,
           incident' = [incident EXCEPT ![i] = OpenIncident(w, c)]
    PROVE  /\ incident'[i].state = "open" /\ incident'[i].site = w /\ incident'[i].category = c
           /\ \A j \in Incidents \ {i} : incident'[j] = incident[j]
BY DEF OpenIncident, UnusedIncident

LEMMA ClosedFields ==
    ASSUME incident \in [Incidents -> Incident], NEW i \in Incidents, incident' = Close(i)
    PROVE  /\ incident'[i].state = "resolved" /\ \A j \in Incidents \ {i} : incident'[j] = incident[j]
BY DEF Close, Incident

\* What a job that works on w refers to after a step on w that opens or closes
\* an outage, or a slowdown.
LEMMA MatchesOpened ==
    ASSUME NEW w \in Websites, NEW i \in Incidents,
           NEW o \in Incidents \cup {None}, NEW s \in Incidents \cup {None},
           Matches(w, o, s), UNCHANGED website, incident[i].state = "unused",
           incident'[i].state = "open" /\ incident'[i].site = w,
           \A j \in Incidents \ {i} : incident'[j] = incident[j],
           RefersTo(o, w, "availability"), RefersTo(s, w, "anomaly")
    PROVE  /\ o = None /\ incident'[i].category = "availability" => Matches(w, i, s)'
           /\ s = None /\ incident'[i].category = "anomaly" => Matches(w, o, i)'
<1>0. None \notin Incidents
  BY ConstantsAssumption
<1>1. o # i /\ s # i
  BY <1>0 DEF RefersTo
<1>2. ASSUME o = None, incident'[i].category = "availability" PROVE Matches(w, i, s)'
  BY <1>0, <1>1, <1>2 DEF Matches
<1>3. ASSUME s = None, incident'[i].category = "anomaly" PROVE Matches(w, o, i)'
  BY <1>0, <1>1, <1>3 DEF Matches
<1> QED BY <1>2, <1>3

LEMMA MatchesClosed ==
    ASSUME NEW w \in Websites, NEW i \in Incidents,
           NEW o \in Incidents \cup {None}, NEW s \in Incidents \cup {None},
           Matches(w, o, s), UNCHANGED website, incident'[i].state # "open",
           \A j \in Incidents \ {i} : incident'[j] = incident[j],
           RefersTo(o, w, "availability"), RefersTo(s, w, "anomaly")
    PROVE  /\ o = i => Matches(w, None, s)'
           /\ s = i => Matches(w, o, None)'
<1>0. None \notin Incidents
  BY ConstantsAssumption
<1>1. o # s \/ o = None
  BY <1>0 DEF RefersTo
<1>2. ASSUME o = i PROVE Matches(w, None, s)'
  BY <1>0, <1>1, <1>2 DEF Matches
<1>3. ASSUME s = i PROVE Matches(w, o, None)'
  BY <1>0, <1>1, <1>3 DEF Matches
<1> QED BY <1>2, <1>3

LEMMA MatchesUnchanged ==
    ASSUME NEW w, NEW o, NEW s, Matches(w, o, s), UNCHANGED <<incident, website>>
    PROVE  Matches(w, o, s)'
BY DEF Matches

LEMMA TransitionHolds ==
    ASSUME TypeInv, RefsInv, MirrorInv, NEW k \in Jobs, Transition(k)
    PROVE  HoldsOK(k)'
<1>t. /\ JobsOK /\ incident \in [Incidents -> Incident] /\ None \notin Incidents
      /\ job[k].pc \notin {"idle", "announce", "release"} /\ job'[k].site = job[k].site
      /\ job[k].outage \in Incidents \cup {None} /\ job[k].slowdown \in Incidents \cup {None}
      /\ UNCHANGED <<website, interrupted>>
  <2>1. JobsOK /\ incident \in [Incidents -> Incident]
    BY TypeParts DEF DocumentsOK
  <2>2. job[k].pc \notin {"idle", "announce", "release"}
    BY <2>1, TransitionEffects
       DEF Moves, OutageKept, OutageLost, OutageResolved, SlowdownKept, SlowdownLost,
           SlowdownClosed, OutageOpened, SlowdownOpened, OutageAdopted, SlowdownAdopted
  <2> QED BY <2>1, <2>2, JobFields, ConstantsAssumption, TransitionSite, TransitionUnchanged DEF history
<1>1. PICK w \in Websites, o \in Incidents \cup {None}, s \in Incidents \cup {None} :
          w = job[k].site /\ o = job[k].outage /\ s = job[k].slowdown
  BY <1>t, JobFields
<1> SUFFICES ASSUME w \notin interrupted PROVE HoldsOK(k)'
  BY <1>t, <1>1 DEF HoldsOK
<1>2. job[k].pc \in Holding /\ Matches(w, o, s)
  BY <1>t, <1>1 DEF MirrorInv, HoldsOK
<1>3. RefersTo(o, w, "availability") /\ RefersTo(s, w, "anomaly")
  BY <1>t, <1>1 DEF RefsInv, ReferencesFit
<1>4. ASSUME job'[k].pc \in Holding,
             NEW p \in Incidents \cup {None}, p = job'[k].outage,
             NEW q \in Incidents \cup {None}, q = job'[k].slowdown, Matches(w, p, q)'
      PROVE  HoldsOK(k)'
  BY <1>t, <1>1, <1>4 DEF HoldsOK, Matches
<1>5. CASE OutageKept(k)
  <2>1. Matches(w, o, s)'
    BY <1>t, <1>2, <1>5, MatchesUnchanged DEF OutageKept
  <2> QED BY <1>1, <1>4, <1>5, <2>1 DEF OutageKept, SameOutage, SameSlowdown, Moves, Holding
<1>6. CASE OutageLost(k)
  <2>1. PICK i \in Incidents : /\ incident[i].state = "open" /\ incident[i].site = w
                               /\ incident[i].category = "availability"
    BY <1>1, <1>6 DEF OutageLost, OpenFor
  <2>2. o = None
    BY <1>1, <1>6 DEF OutageLost
  <2> QED BY <1>t, <1>2, <2>1, <2>2 DEF Matches
<1>7. CASE OutageResolved(k)
  <2>1. o \in Incidents /\ job'[k].outage = None /\ job'[k].slowdown = s /\ job'[k].pc = "slowdown"
    BY <1>1, <1>7 DEF OutageResolved, SameSlowdown, Moves
  <2>2. incident'[o].state # "open" /\ \A j \in Incidents \ {o} : incident'[j] = incident[j]
    BY <1>t, <1>1, <1>7, <2>1, ClosedFields DEF OutageResolved
  <2>3. Matches(w, None, s)'
    BY <1>t, <1>2, <1>3, <2>1, <2>2, MatchesClosed
  <2> QED BY <1>4, <2>1, <2>3 DEF Holding
<1>8. CASE SlowdownKept(k)
  <2>1. job'[k].outage = o /\ job'[k].pc = "save" /\ UNCHANGED incident
    BY <1>1, <1>8 DEF SlowdownKept, SameOutage, Moves
  <2>2. CASE job'[k].slowdown = s
    <3>1. Matches(w, o, s)'
      BY <1>t, <1>2, <2>1, MatchesUnchanged
    <3> QED BY <1>4, <2>1, <2>2, <3>1 DEF Holding
  <2>3. CASE job'[k].slowdown # s
    <3>1. s \in Incidents /\ incident'[s].state # "open" /\ job'[k].slowdown = None
      BY <1>1, <1>8, <2>1, <2>3 DEF SlowdownKept
    <3>2. \A j \in Incidents \ {s} : incident'[j] = incident[j]
      BY <2>1
    <3>3. Matches(w, o, None)'
      BY <1>t, <1>2, <1>3, <3>1, <3>2, MatchesClosed
    <3> QED BY <1>4, <2>1, <3>1, <3>3 DEF Holding
  <2> QED BY <2>2, <2>3
<1>9. CASE SlowdownLost(k)
  <2>1. PICK i \in Incidents : /\ incident[i].state = "open" /\ incident[i].site = w
                               /\ incident[i].category = "anomaly"
    BY <1>1, <1>9 DEF SlowdownLost, OpenFor
  <2>2. s = None
    BY <1>1, <1>9 DEF SlowdownLost
  <2> QED BY <1>t, <1>2, <2>1, <2>2 DEF Matches
<1>10. CASE SlowdownClosed(k)
  <2>1. job'[k].outage = o /\ job'[k].slowdown = None /\ job'[k].pc = "save"
    BY <1>1, <1>10 DEF SlowdownClosed, SameOutage, Moves
  <2>2. CASE s \in Incidents
    <3>1. incident'[s].state # "open" /\ \A j \in Incidents \ {s} : incident'[j] = incident[j]
      BY <1>t, <1>1, <1>10, <2>2, ClosedFields DEF SlowdownClosed
    <3>2. Matches(w, o, None)'
      BY <1>t, <1>2, <1>3, <2>2, <3>1, MatchesClosed
    <3> QED BY <1>4, <2>1, <3>2 DEF Holding
  <2>3. CASE s = None
    <3>1. UNCHANGED incident
      BY <1>t, <1>1, <1>10, <2>3 DEF SlowdownClosed
    <3>2. Matches(w, o, s)'
      BY <1>t, <1>2, <3>1, MatchesUnchanged
    <3> QED BY <1>4, <2>1, <2>3, <3>2 DEF Holding
  <2> QED BY <2>2, <2>3
<1>11. ASSUME NEW i \in Incidents, OutageOpened(k, i) PROVE HoldsOK(k)'
  <2>1. /\ o = None /\ job'[k].outage = i /\ job'[k].slowdown = s /\ job'[k].pc = "slowdown"
        /\ incident[i].state = "unused"
    BY <1>1, <1>11 DEF OutageOpened, SameSlowdown, Moves
  <2>2. incident' = [incident EXCEPT ![i] = OpenIncident(w, "availability")]
    BY <1>1, <1>11 DEF OutageOpened
  <2>3. /\ incident'[i].state = "open" /\ incident'[i].site = w
        /\ incident'[i].category = "availability"
        /\ \A j \in Incidents \ {i} : incident'[j] = incident[j]
    BY <1>t, <2>2, OpenedFields DEF Categories
  <2>4. Matches(w, i, s)'
    BY <1>t, <1>2, <1>3, <2>1, <2>3, MatchesOpened
  <2> QED BY <1>4, <2>1, <2>4 DEF Holding
<1>12. ASSUME NEW i \in Incidents, SlowdownOpened(k, i) PROVE HoldsOK(k)'
  <2>1. /\ s = None /\ job'[k].outage = o /\ job'[k].slowdown = i /\ job'[k].pc = "save"
        /\ incident[i].state = "unused"
    BY <1>1, <1>12 DEF SlowdownOpened, SameOutage, Moves
  <2>2. incident' = [incident EXCEPT ![i] = OpenIncident(w, "anomaly")]
    BY <1>1, <1>12 DEF SlowdownOpened
  <2>3. /\ incident'[i].state = "open" /\ incident'[i].site = w
        /\ incident'[i].category = "anomaly"
        /\ \A j \in Incidents \ {i} : incident'[j] = incident[j]
    <3>1. "anomaly" \in Categories
      BY DEF Categories
    <3>2. PICK c \in Categories : c = "anomaly"
      BY <3>1
    <3>3. incident' = [incident EXCEPT ![i] = OpenIncident(w, c)]
      BY <2>2, <3>2
    <3>4. /\ incident'[i].state = "open" /\ incident'[i].site = w /\ incident'[i].category = c
          /\ \A j \in Incidents \ {i} : incident'[j] = incident[j]
      BY <1>t, <3>3, OpenedFields
    <3> QED BY <3>2, <3>4
  <2>4. Matches(w, o, i)'
    BY <1>t, <1>2, <1>3, <2>1, <2>3, MatchesOpened
  <2> QED BY <1>4, <2>1, <2>4 DEF Holding
<1>13. ASSUME NEW i \in Incidents \cup {None}, OutageAdopted(k, i) \/ SlowdownAdopted(k, i)
       PROVE  FALSE
  BY <1>2, <1>13 DEF OutageAdopted, SlowdownAdopted, Moves, Holding
<1>14. \/ OutageKept(k) \/ OutageLost(k) \/ OutageResolved(k)
       \/ SlowdownKept(k) \/ SlowdownLost(k) \/ SlowdownClosed(k)
       \/ \E i \in Incidents : OutageOpened(k, i) \/ SlowdownOpened(k, i)
       \/ \E i \in Incidents \cup {None} : OutageAdopted(k, i) \/ SlowdownAdopted(k, i)
  BY <1>t, TransitionEffects
<1> QED BY <1>5, <1>6, <1>7, <1>8, <1>9, <1>10, <1>11, <1>12, <1>13, <1>14

LEMMA TransitionLocal ==
    ASSUME TypeInv, RefsInv, NEW k \in Jobs, Transition(k)
    PROVE  \A i \in Incidents : \/ incident'[i].state = incident[i].state
                                \/ incident'[i].site = job[k].site
<1>t. /\ JobsOK /\ incident \in [Incidents -> Incident] /\ None \notin Incidents
      /\ job[k].pc # "idle" /\ job[k].site \in Websites
  BY TypeParts, TransitionSite, JobFields, ConstantsAssumption DEF DocumentsOK
<1>1. PICK w \in Websites : w = job[k].site
  BY <1>t
<1>2. /\ job[k].outage \in Incidents => incident[job[k].outage].site = w
      /\ job[k].slowdown \in Incidents => incident[job[k].slowdown].site = w
  BY <1>t, <1>1 DEF RefsInv, ReferencesFit, RefersTo
<1>3. \A i \in Incidents : Stays(i)
  BY TransitionStays
<1>4. \/ UNCHANGED incident
      \/ \E i \in Incidents : incident[i].site = w /\ incident[i].state = "open" /\ incident' = Close(i)
      \/ \E i \in Incidents, c \in Categories : incident' = [incident EXCEPT ![i] = OpenIncident(w, c)]
  <2>1. CASE OutageKept(k) \/ OutageLost(k) \/ SlowdownKept(k) \/ SlowdownLost(k)
    BY <2>1 DEF OutageKept, OutageLost, SlowdownKept, SlowdownLost
  <2>2. CASE OutageResolved(k) \/ SlowdownClosed(k)
    BY <1>2, <2>2 DEF OutageResolved, SlowdownClosed
  <2>3. ASSUME NEW i \in Incidents, OutageOpened(k, i) \/ SlowdownOpened(k, i)
        PROVE  \E c \in Categories : incident' = [incident EXCEPT ![i] = OpenIncident(w, c)]
    BY <1>1, <2>3 DEF OutageOpened, SlowdownOpened, Categories
  <2>4. ASSUME NEW i \in Incidents \cup {None}, OutageAdopted(k, i) \/ SlowdownAdopted(k, i)
        PROVE  UNCHANGED incident
    BY <2>4 DEF OutageAdopted, SlowdownAdopted
  <2> QED BY <1>t, <2>1, <2>2, <2>3, <2>4, TransitionEffects
<1>5. ASSUME NEW i \in Incidents, incident[i].site = w, incident[i].state = "open", incident' = Close(i)
      PROVE  \A j \in Incidents : incident'[j].state = incident[j].state \/ incident'[j].site = w
  <2>1. \A j \in Incidents \ {i} : incident'[j] = incident[j]
    BY <1>t, <1>5, ClosedFields
  <2>2. incident'[i].site = w
    BY <1>3, <1>5 DEF Stays
  <2> QED BY <2>1, <2>2
<1>6. ASSUME NEW i \in Incidents, NEW c \in Categories,
             incident' = [incident EXCEPT ![i] = OpenIncident(w, c)]
      PROVE  \A j \in Incidents : incident'[j].state = incident[j].state \/ incident'[j].site = w
  BY <1>t, <1>6, OpenedFields
<1> QED BY <1>1, <1>4, <1>5, <1>6

\* A website is gone before its incidents are; whoever closes another one is a
\* person.
LEMMA OutsideCloses ==
    ASSUME TypeInv, PurgeInv, OutsideStep
    PROVE  /\ PurgeInv'
           /\ \A i \in Incidents : \/ "resolve" \in Operations
                                   \/ incident'[i].state = incident[i].state
                                   \/ ~website[incident[i].site].exists
<1>t. /\ website \in [Websites -> Website] /\ incident \in [Incidents -> Incident]
      /\ purge \subseteq Websites
  BY TypeParts DEF DocumentsOK, LedgersOK
<1> DEFINE Closes == \A i \in Incidents : \/ "resolve" \in Operations
                                          \/ incident'[i].state = incident[i].state
                                          \/ ~website[incident[i].site].exists
<1>1. \A w \in Websites : website'[w].exists => website[w].exists
  BY OutsideEffects DEF Touched
<1>2. purge' \subseteq purge => PurgeInv'
  BY <1>1, <1>t DEF PurgeInv
<1>3. UNCHANGED incident => Closes
  OBVIOUS
<1>4. ASSUME NEW w \in Websites, \/ BecomeDue(w) \/ LeaseExpires(w) \/ ReadForUrlChange(w)
                                 \/ WriteUrlChange(w)
                                 \/ \E enabled \in BOOLEAN : SetEnabled(w, enabled)
      PROVE  PurgeInv' /\ Closes
  <2>1. UNCHANGED <<purge, incident>>
    BY <1>4 DEF BecomeDue, LeaseExpires, ReadForUrlChange, WriteUrlChange, SetEnabled, api
  <2> QED BY <1>2, <1>3, <2>1
<1>5. ASSUME NEW w \in Websites, DeleteWebsite(w) PROVE PurgeInv' /\ Closes
  <2>1. purge' = purge \cup {w} /\ UNCHANGED incident
        /\ website' = [website EXCEPT ![w] = [NewWebsite EXCEPT !.exists = FALSE]]
    BY <1>5 DEF DeleteWebsite
  <2>2. ~website'[w].exists
    BY <1>t, <2>1 DEF NewWebsite
  <2>3. PurgeInv'
    BY <1>1, <1>t, <2>1, <2>2 DEF PurgeInv
  <2> QED BY <1>3, <2>1, <2>3
<1>6. ASSUME NEW w \in Websites, DeleteIncidents(w) PROVE PurgeInv' /\ Closes
  <2>1. purge' \subseteq purge /\ ~website[w].exists
    BY <1>6 DEF DeleteIncidents, PurgeInv
  <2>2. \A i \in Incidents : incident[i].site = w \/ incident'[i] = incident[i]
    BY <1>6 DEF DeleteIncidents
  <2>3. Closes
    BY <2>1, <2>2
  <2> QED BY <1>2, <2>1, <2>3
<1>7. ASSUME NEW i \in Incidents, ResolveManually(i) PROVE PurgeInv' /\ Closes
  <2>1. "resolve" \in Operations /\ UNCHANGED purge
    BY <1>7 DEF ResolveManually, api
  <2> QED BY <1>2, <2>1
<1> HIDE DEF Closes
<1>8. PurgeInv' /\ Closes
  BY <1>4, <1>5, <1>6, <1>7 DEF OutsideStep, Api
<1> QED BY <1>8 DEF Closes

LEMMA MirrorOutside ==
    ASSUME TypeInv, RefsInv, MirrorInv, OutsideStep
    PROVE  MirrorInv'
<1>t. /\ JobsOK /\ website \in [Websites -> Website]
      /\ \A w \in Websites : /\ website[w].outage \in Incidents \cup {None}
                             /\ website[w].slowdown \in Incidents \cup {None}
      /\ \A l \in Jobs : /\ job[l].outage \in Incidents \cup {None}
                         /\ job[l].slowdown \in Incidents \cup {None}
  BY TypeParts, JobFields DEF DocumentsOK, Website
<1>0. PurgeInv' /\ UNCHANGED <<job, interrupted>>
  BY OutsideCloses, OutsideEffects DEF MirrorInv
<1>1. \A w \in Websites : website'[w].exists =>
          /\ website[w].exists /\ website'[w].outage = website[w].outage
          /\ website'[w].slowdown = website[w].slowdown
  BY OutsideEffects DEF Touched
<1>2. \A i \in Incidents :
               /\ incident'[i].state \in {incident[i].state, "resolved", "deleted"}
               /\ incident'[i].site = incident[i].site
               /\ incident'[i].category = incident[i].category
               /\ "resolve" \in Operations \/ incident'[i].state = incident[i].state
                      \/ ~website[incident[i].site].exists
  BY OutsideEffects, OutsideCloses DEF MirrorInv
<1>3. ASSUME NEW w \in Websites PROVE RestOK(w)'
  <2> SUFFICES ASSUME w \notin interrupted, website'[w].exists, AtRest(w)
               PROVE  Matches(w, website[w].outage, website[w].slowdown)'
    BY <1>0 DEF RestOK, AtRest, Working
  <2>1. PICK o \in Incidents \cup {None}, s \in Incidents \cup {None} :
            o = website[w].outage /\ s = website[w].slowdown
    BY <1>t
  <2>2. Matches(w, o, s)
    BY <1>1, <2>1 DEF MirrorInv, RestOK
  <2>3. RefersTo(o, w, "availability") /\ RefersTo(s, w, "anomaly")
    BY <2>1 DEF RefsInv, ReferencesFit
  <2>4. Matches(w, o, s)'
    BY <1>1, <1>2, <2>2, <2>3, MatchesClosing
  <2> QED BY <1>1, <2>1, <2>4 DEF Matches
<1>4. ASSUME NEW l \in Jobs PROVE HoldsOK(l)'
  <2> SUFFICES ASSUME job[l].pc \notin {"idle", "announce", "release"},
                      job[l].site \notin interrupted
               PROVE  job[l].pc \in Holding
                      /\ Matches(job[l].site, job[l].outage, job[l].slowdown)'
    BY <1>0 DEF HoldsOK
  <2>1. PICK w \in Websites, o \in Incidents \cup {None}, s \in Incidents \cup {None} :
            w = job[l].site /\ o = job[l].outage /\ s = job[l].slowdown
    BY <1>t, JobFields
  <2>2. job[l].pc \in Holding /\ Matches(w, o, s)
    BY <2>1 DEF MirrorInv, HoldsOK
  <2>3. RefersTo(o, w, "availability") /\ RefersTo(s, w, "anomaly")
    BY <2>1 DEF RefsInv, ReferencesFit
  <2>4. Matches(w, o, s)'
    BY <1>1, <1>2, <2>2, <2>3, MatchesClosing
  <2> QED BY <1>0, <2>1, <2>2, <2>4 DEF Matches
<1> HIDE DEF HoldsOK, RestOK
<1> QED BY <1>0, <1>3, <1>4 DEF MirrorInv

LEMMA MirrorClaim ==
    ASSUME TypeInv, ExclusiveInv, RefsInv, MirrorInv, NEW k \in Jobs, NEW v \in Websites, Claim(k, v)
    PROVE  MirrorInv'
<1>t. /\ JobsOK /\ website[v].outage \in Incidents \cup {None}
      /\ website[v].slowdown \in Incidents \cup {None}
  BY TypeParts DEF DocumentsOK, Website
<1>1. /\ job[k].pc = "idle" /\ job'[k].pc = "check" /\ job'[k].site = v
      /\ job'[k].outage = website[v].outage /\ job'[k].slowdown = website[v].slowdown
      /\ website[v].exists /\ website[v].lease # "held"
      /\ \A l \in Jobs \ {k} : job'[l] = job[l]
      /\ WebsitesAlike /\ UNCHANGED <<incident, interrupted>>
  BY ClaimEffects DEF Moves
<1>2. Idle(v)
  BY <1>1 DEF ExclusiveInv, HeldByWorker, Idle
<1>3. PICK o \in Incidents \cup {None}, s \in Incidents \cup {None} :
          o = website[v].outage /\ s = website[v].slowdown
  BY <1>t
<1>4. HoldsOK(k)'
  <2> SUFFICES ASSUME v \notin interrupted
               PROVE  "check" \in Holding /\ Matches(v, o, s)'
    BY <1>1, <1>3 DEF HoldsOK, Matches
  <2>1. Matches(v, o, s)
    BY <1>1, <1>2, <1>3 DEF MirrorInv, RestOK, AtRest, Idle
  <2> QED BY <1>1, <2>1 DEF Matches, Holding, WebsitesAlike
<1>5. RestOK(v)'
  BY <1>1 DEF RestOK, AtRest, Working
<1>6. PurgeInv'
  <2>1. UNCHANGED purge /\ purge \subseteq Websites
    BY TypeParts DEF Claim, api, LedgersOK
  <2> QED BY <1>1, <2>1 DEF MirrorInv, PurgeInv, WebsitesAlike
<1>7. \A i \in Incidents : Stays(i)
  BY <1>1 DEF Stays
<1>8. \A l \in Jobs \ {k} : job[l].pc # "idle" => job[l].site # v
  BY <1>2 DEF Idle, Working
<1>9. /\ \A w \in Websites \ {v} : /\ website'[w].exists = website[w].exists
                                   /\ website'[w].outage = website[w].outage
                                   /\ website'[w].slowdown = website[w].slowdown
      /\ website'[v].exists => website[v].exists
  BY <1>1 DEF WebsitesAlike
<1>10. /\ \A i \in Incidents : incident'[i].state = incident[i].state \/ incident'[i].site = v
       /\ interrupted \subseteq interrupted'
  BY <1>1
<1> HIDE DEF Stays, HoldsOK, RestOK, PurgeInv
<1> QED BY <1>1, <1>4, <1>5, <1>6, <1>7, <1>8, <1>9, <1>10, MirrorOthers

\* The other steps of a job, which all keep its website while it works.
LEMMA MirrorJob ==
    ASSUME TypeInv, ExclusiveInv, RefsInv, MirrorInv, NEW k \in Jobs, NEW v \in Websites,
           job[k].pc # "idle", job[k].site = v, job'[k].pc # "idle" => job'[k].site = v,
           \A i \in Incidents : Stays(i),
           \A i \in Incidents : incident'[i].state = incident[i].state \/ incident'[i].site = v,
           \A l \in Jobs \ {k} : job'[l] = job[l],
           \A w \in Websites \ {v} : /\ website'[w].exists = website[w].exists
                                     /\ website'[w].outage = website[w].outage
                                     /\ website'[w].slowdown = website[w].slowdown,
           website'[v].exists => website[v].exists,
           interrupted \subseteq interrupted', UNCHANGED purge,
           HoldsOK(k)', RestOK(v)'
    PROVE  MirrorInv'
<1>1. PurgeInv'
  BY TypeParts DEF MirrorInv, PurgeInv, LedgersOK
<1>2. \A l \in Jobs \ {k} : job[l].pc # "idle" => job[l].site # v
  BY DEF ExclusiveInv, ExclusiveJob
<1> HIDE DEF Stays, HoldsOK, RestOK, PurgeInv
<1> QED BY <1>1, <1>2, MirrorOthers

LEMMA MirrorTransition ==
    ASSUME TypeInv, ExclusiveInv, RefsInv, MirrorInv, NEW k \in Jobs, Transition(k)
    PROVE  MirrorInv'
<1>t. /\ JobsOK /\ job \in [Jobs -> Job] /\ job[k].pc # "idle" /\ job[k].site \in Websites
      /\ job'[k].site = job[k].site
  BY TypeParts, JobFields, TransitionSite DEF JobsOK
<1>1. PICK v \in Websites : v = job[k].site
  BY <1>t
<1>2. UNCHANGED <<website, purge, interrupted>> /\ \A l \in Jobs \ {k} : job'[l] = job[l]
  BY <1>t, TransitionUnchanged, OthersUntouched DEF api, history
<1>3. job'[k].pc \notin {"idle", "announce", "release"}
  BY <1>t, TransitionEffects
     DEF Moves, OutageKept, OutageLost, OutageResolved, SlowdownKept, SlowdownLost,
         SlowdownClosed, OutageOpened, SlowdownOpened, OutageAdopted, SlowdownAdopted
<1>4. RestOK(v)'
  BY <1>t, <1>1, <1>3 DEF RestOK, AtRest, Working
<1>5. HoldsOK(k)'
  BY TransitionHolds
<1>6. \A i \in Incidents : Stays(i)
  BY TransitionStays
<1>7. \A i \in Incidents : incident'[i].state = incident[i].state \/ incident'[i].site = v
  BY <1>1, TransitionLocal
<1> HIDE DEF Stays, HoldsOK, RestOK
<1> QED BY <1>t, <1>1, <1>2, <1>4, <1>5, <1>6, <1>7, MirrorJob

LEMMA MirrorSave ==
    ASSUME TypeInv, ExclusiveInv, RefsInv, MirrorInv, NEW k \in Jobs, SaveWebsite(k)
    PROVE  MirrorInv'
<1>t. /\ JobsOK /\ job[k].pc = "save" /\ job[k].site \in Websites
      /\ job[k].outage \in Incidents \cup {None} /\ job[k].slowdown \in Incidents \cup {None}
  BY TypeParts, JobFields DEF SaveWebsite
<1>1. PICK v \in Websites, o \in Incidents \cup {None}, s \in Incidents \cup {None} :
          v = job[k].site /\ o = job[k].outage /\ s = job[k].slowdown
  BY <1>t
<1>2. /\ job'[k].pc = "announce" /\ job'[k].site = v
      /\ \A l \in Jobs \ {k} : job'[l] = job[l]
      /\ \A w \in Websites \ {v} : website'[w] = website[w]
      /\ website'[v].exists = website[v].exists
      /\ website[v].exists => website'[v].outage = o /\ website'[v].slowdown = s
      /\ UNCHANGED <<incident, interrupted>>
  BY <1>1, SaveEffects DEF Moves
<1>3. UNCHANGED purge
  BY DEF SaveWebsite, api
<1>4. HoldsOK(k)'
  BY <1>2 DEF HoldsOK
<1>5. RestOK(v)'
  <2> SUFFICES ASSUME v \notin interrupted, website[v].exists
               PROVE  Matches(v, o, s)'
    BY <1>2 DEF RestOK, Matches
  <2>1. Matches(v, o, s)
    BY <1>t, <1>1 DEF MirrorInv, HoldsOK
  <2> QED BY <1>2, <2>1 DEF Matches
<1>6. \A i \in Incidents : Stays(i)
  BY <1>2 DEF Stays
<1>7. \A i \in Incidents : incident'[i].state = incident[i].state \/ incident'[i].site = v
  BY <1>2
<1> HIDE DEF Stays, HoldsOK, RestOK
<1> QED BY <1>t, <1>1, <1>2, <1>3, <1>4, <1>5, <1>6, <1>7, MirrorJob

\* A step of a job that leaves the documents' references and states alone.
LEMMA MirrorQuiet ==
    ASSUME TypeInv, ExclusiveInv, RefsInv, MirrorInv, NEW k \in Jobs,
           job[k].pc # "idle", job'[k].pc # "idle" => job'[k].site = job[k].site,
           \A i \in Incidents : /\ incident'[i].state = incident[i].state
                                /\ incident'[i].site = incident[i].site
                                /\ incident'[i].category = incident[i].category,
           \A l \in Jobs \ {k} : job'[l] = job[l],
           UNCHANGED website \/ WebsitesAlike,
           interrupted \subseteq interrupted', UNCHANGED purge,
           \/ job[k].pc \in {"announce", "release"} /\ job'[k].pc \in {"announce", "release", "idle"}
           \/ job[k].site \in interrupted' /\ job'[k].pc \in {"release", "idle"}
           \/ /\ job[k].pc = "check" /\ job'[k].pc = "outage" /\ job'[k].site = job[k].site
              /\ job'[k].outage = job[k].outage /\ job'[k].slowdown = job[k].slowdown
    PROVE  MirrorInv'
<1>t. /\ JobsOK /\ job[k].site \in Websites
      /\ job[k].outage \in Incidents \cup {None} /\ job[k].slowdown \in Incidents \cup {None}
      /\ \A w \in Websites : /\ website[w].outage \in Incidents \cup {None}
                             /\ website[w].slowdown \in Incidents \cup {None}
  BY TypeParts, JobFields DEF DocumentsOK, Website
<1>1. PICK v \in Websites, o \in Incidents \cup {None}, s \in Incidents \cup {None} :
          v = job[k].site /\ o = job[k].outage /\ s = job[k].slowdown
  BY <1>t
<1>2. \A w \in Websites : /\ website'[w].exists = website[w].exists
                          /\ website'[w].outage = website[w].outage
                          /\ website'[w].slowdown = website[w].slowdown
  BY DEF WebsitesAlike
<1>3. \A w \in Websites, p \in Incidents \cup {None}, q \in Incidents \cup {None} :
          Matches(w, p, q) => Matches(w, p, q)'
  BY <1>2 DEF Matches
<1>4. HoldsOK(k)'
  <2>1. CASE job'[k].pc \in {"announce", "release", "idle"}
    BY <2>1 DEF HoldsOK
  <2>2. CASE job[k].pc = "check" /\ job'[k].pc = "outage"
    <3> SUFFICES ASSUME v \notin interrupted' PROVE "outage" \in Holding /\ Matches(v, o, s)'
      BY <1>1, <2>2 DEF HoldsOK, Matches
    <3>1. Matches(v, o, s)
      BY <1>1, <2>2 DEF MirrorInv, HoldsOK
    <3> QED BY <1>3, <3>1 DEF Holding
  <2> QED BY <2>1, <2>2
<1>5. RestOK(v)'
  <2> SUFFICES ASSUME v \notin interrupted', website'[v].exists, AtRest(v)'
               PROVE  Matches(v, website[v].outage, website[v].slowdown)'
    BY DEF RestOK
  <2>1. job[k].pc \in {"announce", "release"}
    BY <1>1 DEF AtRest, Working
  <2>2. AtRest(v)
    BY <2>1 DEF AtRest, Working
  <2>3. PICK p \in Incidents \cup {None}, q \in Incidents \cup {None} :
            p = website[v].outage /\ q = website[v].slowdown
    BY <1>t
  <2>4. Matches(v, p, q)
    BY <1>2, <2>2, <2>3 DEF MirrorInv, RestOK
  <2>5. Matches(v, p, q)'
    BY <1>3, <2>4
  <2> QED BY <1>2, <2>3, <2>5 DEF Matches
<1>6. \A i \in Incidents : Stays(i)
  BY DEF Stays
<1> HIDE DEF Stays, HoldsOK, RestOK
<1> QED BY <1>t, <1>1, <1>2, <1>4, <1>5, <1>6, MirrorJob

LEMMA MirrorStep ==
    TypeInv /\ ExclusiveInv /\ RefsInv /\ MirrorInv /\ [Next]_vars => MirrorInv'
<1> SUFFICES ASSUME TypeInv, ExclusiveInv, RefsInv, MirrorInv, [Next]_vars
             PROVE  MirrorInv'
  OBVIOUS
<1>1. CASE UNCHANGED vars
  BY <1>1 DEF vars, MirrorInv, PurgeInv, RestOK, HoldsOK, AtRest, Working, Matches
<1>2. ASSUME NEW k \in Jobs, NEW o \in Outcomes, NEW detecting \in DetectionReads,
             Check(k, o, detecting)
      PROVE  MirrorInv'
  <2>1. /\ job[k].pc = "check" /\ job'[k].pc = "outage" /\ job'[k].site = job[k].site
        /\ job'[k].outage = job[k].outage /\ job'[k].slowdown = job[k].slowdown
        /\ \A l \in Jobs \ {k} : job'[l] = job[l]
        /\ UNCHANGED <<website, incident, interrupted>>
    BY <1>2, CheckEffects DEF Moves, SameOutage, SameSlowdown
  <2>2. UNCHANGED purge
    BY <1>2 DEF Check, api
  <2> QED BY <2>1, <2>2, MirrorQuiet
<1>3. ASSUME NEW k \in Jobs, NEW t \in job[k].tasks, TaskStep(k, t) PROVE MirrorInv'
  <2>1. /\ job[k].pc = "announce" /\ job'[k].pc = "announce" /\ job'[k].site = job[k].site
        /\ \A l \in Jobs \ {k} : job'[l] = job[l]
        /\ \A i \in Incidents : /\ incident'[i].state = incident[i].state
                                /\ incident'[i].site = incident[i].site
                                /\ incident'[i].category = incident[i].category
        /\ interrupted \subseteq interrupted' /\ UNCHANGED website
    BY <1>3, TaskEffects DEF Moves
  <2>2. UNCHANGED purge
    BY <1>3 DEF TaskStep, ClaimDispatch, SendMail, Publish, AnnouncementFails, api
  <2> QED BY <2>1, <2>2, MirrorQuiet
<1>4. ASSUME NEW k \in Jobs, EndStep(k) PROVE MirrorInv'
  <2>1. /\ job[k].pc # "idle" /\ job'[k].pc \in {"release", "idle"}
        /\ job'[k].pc = "release" => job'[k].site = job[k].site
        /\ \A l \in Jobs \ {k} : job'[l] = job[l]
        /\ WebsitesAlike /\ UNCHANGED incident /\ interrupted \subseteq interrupted'
        /\ job[k].pc \in {"announce", "release"} \/ job[k].site \in interrupted'
    BY <1>4, EndEffects
  <2>2. UNCHANGED purge
    BY <1>4 DEF EndStep, FinishAnnouncing, PipelineFails, Release, ReleaseFails, Crash, api
  <2> QED BY <2>1, <2>2, MirrorQuiet
<1> QED BY <1>1, <1>2, <1>3, <1>4, MirrorClaim, MirrorTransition, MirrorSave, MirrorOutside, StepKinds

-----------------------------------------------------------------------------
(* The status that is shown.                                               *)

\* "down" is shown with an outage, "operational" with neither.
StatusInv ==
    \A w \in Websites : website[w].exists =>
        /\ website[w].status = "down" => website[w].outage # None
        /\ website[w].status = "operational" =>
               website[w].outage = None /\ website[w].slowdown = None

LEMMA StatusStep == TypeInv /\ StatusInv /\ [Next]_vars => StatusInv'
<1> SUFFICES ASSUME TypeInv, StatusInv, [Next]_vars PROVE StatusInv'
  OBVIOUS
<1>1. UNCHANGED website \/ WebsitesAlike => StatusInv'
  BY DEF StatusInv, WebsitesAlike
<1>2. ASSUME OutsideStep PROVE StatusInv'
  <2>1. \A v \in Websites : website'[v] = website[v] \/ Touched(v)
    BY <1>2, OutsideEffects
  <2> QED BY <2>1 DEF StatusInv, Touched
<1>3. ASSUME NEW k \in Jobs, SaveWebsite(k) PROVE StatusInv'
  <2>1. /\ \A v \in Websites \ {job[k].site} : website'[v] = website[v]
        /\ website'[job[k].site].exists = website[job[k].site].exists
        /\ website[job[k].site].exists =>
               /\ website'[job[k].site].outage = job[k].outage
               /\ website'[job[k].site].slowdown = job[k].slowdown
               /\ website'[job[k].site].status =
                      DeriveDisplayStatus(job[k].outcome, job[k].outage # None,
                                          job[k].slowdown # None)
    BY <1>3, SaveEffects
  <2>2. \A o, p \in BOOLEAN :
            /\ DeriveDisplayStatus(job[k].outcome, o, p) = "down" => o
            /\ DeriveDisplayStatus(job[k].outcome, o, p) = "operational" => ~o /\ ~p
    BY DEF DeriveDisplayStatus
  <2> QED BY <2>1, <2>2 DEF StatusInv
<1>4. ASSUME NEW k \in Jobs, Transition(k) PROVE UNCHANGED website
  BY <1>4, TransitionUnchanged
<1> QED BY <1>1, <1>2, <1>3, <1>4, StepKinds, ClaimEffects, CheckEffects, TaskEffects, EndEffects
           DEF vars

\* Between jobs, a website's references are exactly its open incidents and the
\* status agrees with them, unless a job was cut off or a person closed an
\* incident: for any number of jobs, websites and incidents, as long as no
\* lease expires under a live job.
THEOREM MirrorsIncidentsAlways ==
    ASSUME LeaseOutlivesJob, "resolve" \notin Operations
    PROVE  Spec => []MirrorsIncidents
<1>1. Init => MirrorInv /\ StatusInv
  BY DEF Init, MirrorInv, PurgeInv, RestOK, HoldsOK, Matches, StatusInv, NewWebsite,
         UnusedIncident, IdleJob
<1>2. TypeInv /\ RefsInv /\ MirrorInv /\ StatusInv => MirrorsIncidents
  <2> SUFFICES ASSUME TypeInv, RefsInv, MirrorInv, StatusInv, NEW w \in Websites,
                      website[w].exists, Idle(w), w \notin interrupted
               PROVE  /\ ReferenceMirrors(w, "availability", website[w].outage)
                      /\ ReferenceMirrors(w, "anomaly", website[w].slowdown)
    BY DEF MirrorsIncidents, StatusInv
  <2>1. PICK o \in Incidents \cup {None}, s \in Incidents \cup {None} :
            o = website[w].outage /\ s = website[w].slowdown
    BY TypeParts DEF DocumentsOK, Website
  <2>2. Matches(w, o, s)
    BY <2>1 DEF MirrorInv, RestOK, AtRest, Idle
  <2>3. RefersTo(o, w, "availability") /\ RefersTo(s, w, "anomaly")
    BY <2>1 DEF RefsInv, ReferencesFit
  <2>4. ReferenceMirrors(w, "availability", o)
    BY <2>2, <2>3, ConstantsAssumption DEF ReferenceMirrors, OpenFor, Matches, RefersTo
  <2>5. ReferenceMirrors(w, "anomaly", s)
    BY <2>2, <2>3, ConstantsAssumption DEF ReferenceMirrors, OpenFor, Matches, RefersTo
  <2> QED BY <2>1, <2>4, <2>5
<1>3. TypeInv /\ ExclusiveInv /\ [Next]_vars => ExclusiveInv'
  BY ExclusiveStep
<1> QED BY <1>1, <1>2, <1>3, ExclusiveInit, RefsInit, RefsStep, MirrorStep, StatusStep, InitTypeInv,
           NextTypes, PTL DEF Spec

\* Only opening one gives an incident its category, and it takes a job that
\* knows of no outage to open a slowdown.
LEMMA SlowdownOpening ==
    ASSUME TypeInv, RefsInv, [Next]_vars, NEW i \in Incidents,
           incident[i].state = "unused", incident'[i].category = "anomaly"
    PROVE  \E k \in Jobs : SlowdownOpened(k, i) /\ UNCHANGED interrupted
<1>t. incident \in [Incidents -> Incident] /\ incident[i].category = None /\ JobsOK
  BY TypeParts DEF RefsInv, ReferencesFit, DocumentsOK
<1>1. incident'[i].category # incident[i].category
  BY <1>t, ConstantsAssumption
<1>2. ASSUME NEW k \in Jobs, Transition(k) PROVE SlowdownOpened(k, i)
  <2>1. ~UNCHANGED incident
    BY <1>1
  <2>2. \A j \in Incidents : incident[j].state = "open" => incident' # Close(j)
    <3> SUFFICES ASSUME NEW j \in Incidents, incident[j].state = "open", incident' = Close(j)
                 PROVE  FALSE
      OBVIOUS
    <3>1. incident'[i] = incident[i]
      BY <1>t, ClosedFields
    <3> QED BY <1>1, <3>1
  <2>3. ASSUME NEW j \in Incidents, OutageOpened(k, j) PROVE FALSE
    <3>1. incident' = [incident EXCEPT ![j] = OpenIncident(job[k].site, "availability")]
      BY <2>3 DEF OutageOpened
    <3>2. OpenIncident(job[k].site, "availability").category = "availability"
      BY DEF OpenIncident, UnusedIncident
    <3>3. incident'[i].category \in {incident[i].category, "availability"}
      BY <1>t, <3>1, <3>2
    <3> QED BY <1>1, <3>3
  <2>4. ASSUME NEW j \in Incidents, SlowdownOpened(k, j) PROVE j = i
    BY <1>1, <2>4 DEF SlowdownOpened
  <2>5. \/ OutageKept(k) \/ OutageLost(k) \/ OutageResolved(k)
        \/ SlowdownKept(k) \/ SlowdownLost(k) \/ SlowdownClosed(k)
        \/ \E j \in Incidents : OutageOpened(k, j) \/ SlowdownOpened(k, j)
        \/ \E j \in Incidents \cup {None} : OutageAdopted(k, j) \/ SlowdownAdopted(k, j)
    BY <1>t, <1>2, TransitionEffects
  <2>6. ~(\/ OutageKept(k) \/ OutageLost(k) \/ OutageResolved(k)
          \/ SlowdownKept(k) \/ SlowdownLost(k) \/ SlowdownClosed(k))
    BY <2>1, <2>2
       DEF OutageKept, OutageLost, OutageResolved, SlowdownKept, SlowdownLost, SlowdownClosed
  <2>7. \A j \in Incidents \cup {None} : ~(OutageAdopted(k, j) \/ SlowdownAdopted(k, j))
    BY <2>1 DEF OutageAdopted, SlowdownAdopted
  <2> QED BY <2>3, <2>4, <2>5, <2>6, <2>7
<1>3. ASSUME NEW k \in Jobs, Transition(k) PROVE UNCHANGED interrupted
  BY <1>3, TransitionUnchanged DEF history
<1>4. \E k \in Jobs : Transition(k)
  BY <1>1, StepKinds, OutsideEffects, ClaimEffects, CheckEffects, SaveEffects, TaskEffects,
     EndEffects DEF vars
<1> QED BY <1>2, <1>3, <1>4

\* "A site that is down is not degraded": no slowdown incident is opened while
\* an outage of the same website is open, for any number of jobs, websites and
\* incidents, as long as no lease expires under a live job.
THEOREM NoSlowdownDuringOutageAlways ==
    ASSUME LeaseOutlivesJob
    PROVE  Spec => NoSlowdownDuringOutage
<1>1. Init => MirrorInv
  BY DEF Init, MirrorInv, PurgeInv, RestOK, HoldsOK, Matches, NewWebsite, UnusedIncident, IdleJob
<1>2. TypeInv /\ RefsInv /\ MirrorInv /\ [Next]_vars
          => [\A i \in Incidents :
                 incident[i].state = "unused" /\ incident'[i].category = "anomaly" =>
                     \/ OpenFor(incident'[i].site, "availability") = {}
                     \/ incident'[i].site \in interrupted]_vars
  <2> SUFFICES ASSUME TypeInv, RefsInv, MirrorInv, [Next]_vars, NEW i \in Incidents,
                      incident[i].state = "unused", incident'[i].category = "anomaly"
               PROVE  \/ OpenFor(incident'[i].site, "availability") = {}
                      \/ incident'[i].site \in interrupted
    OBVIOUS
  <2>1. PICK k \in Jobs : SlowdownOpened(k, i)
    BY SlowdownOpening
  <2>2. PICK w : w = job[k].site
    OBVIOUS
  <2>3. incident'[i].site = w
    <3>1. incident' = [incident EXCEPT ![i] = OpenIncident(job[k].site, "anomaly")]
      BY <2>1 DEF SlowdownOpened
    <3>2. OpenIncident(job[k].site, "anomaly").site = job[k].site
      BY DEF OpenIncident, UnusedIncident
    <3> QED BY <2>2, <3>1, <3>2, TypeParts DEF DocumentsOK
  <2>4. job[k].pc = "slowdown" /\ job[k].outage = None
    BY <2>1 DEF SlowdownOpened, Moves
  <2>5. w \notin interrupted => Matches(w, job[k].outage, job[k].slowdown)
    BY <2>2, <2>4 DEF MirrorInv, HoldsOK
  <2>6. w \notin interrupted => OpenFor(w, "availability") = {}
    BY <2>4, <2>5, ConstantsAssumption DEF Matches, OpenFor
  <2> QED BY <2>3, <2>6
<1>3. TypeInv /\ ExclusiveInv /\ [Next]_vars => ExclusiveInv'
  BY ExclusiveStep
<1> QED BY <1>1, <1>2, <1>3, ExclusiveInit, RefsInit, RefsStep, MirrorStep, InitTypeInv,
           NextTypes, PTL DEF Spec, NoSlowdownDuringOutage

=============================================================================
